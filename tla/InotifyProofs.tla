--------------------------- MODULE InotifyProofs ---------------------------
(* Proofs about the inotify wrapper, for any set of watches, paths, files   *)
(* and any bounds.                                                          *)
EXTENDS Inotify, SequenceTheorems, TLAPS

\* What AddWatchResult returns: a descriptor, or -1.
LEMMA AddWatchResultType ==
  ASSUME TypeOK, NEW p \in Paths
  PROVE  AddWatchResult(p) \in Wds \cup {Inactive}
BY ConstantsAssumption DEF AddWatchResult, TypeOK, Wds, Inactive

\* Enqueue keeps a queue a sequence of kernel events.
LEMMA EnqueueType ==
  ASSUME NEW q \in Seq(KernelEvent), NEW e \in KernelEvent
  PROVE  Enqueue(q, e) \in Seq(KernelEvent)
BY DEF Enqueue, KernelEvent

\* The two kinds of event a descriptor can raise are kernel events.
LEMMA EventType ==
  ASSUME NEW d \in Wds
  PROVE  /\ [wd |-> d, kind |-> "event"] \in KernelEvent
         /\ [wd |-> d, kind |-> "ignored"] \in KernelEvent
BY DEF KernelEvent

\* inotify_add_watch keeps the kernel's tables in their types and touches
\* neither the file system nor the event queue.
LEMMA AddWatchEffectType ==
  ASSUME TypeOK, NEW p \in Paths, NEW one \in BOOLEAN, AddWatchEffect(p, one)
  PROVE  /\ kwatch' \in [Wds -> Names \cup {NULL}]
         /\ kone' \in [Wds -> BOOLEAN]
         /\ nextwd' \in 1..(MaxWd + 1)
         /\ exists' = exists /\ kq' = kq /\ dropped' = dropped
<1>1. Resolve[p] \in Names
  BY ConstantsAssumption
<1>2. AddWatchResult(p) \in Wds \cup {Inactive}
  BY AddWatchResultType
<1>3. kwatch' \in [Wds -> Names \cup {NULL}] /\ kone' \in [Wds -> BOOLEAN]
  BY <1>1, <1>2 DEF AddWatchEffect, TypeOK
<1>4. nextwd' \in 1..(MaxWd + 1)
  BY <1>2, ConstantsAssumption DEF AddWatchEffect, TypeOK, Wds, Inactive
<1> QED BY <1>3, <1>4 DEF AddWatchEffect

\* So does inotify_rm_watch, which only adds an IN_IGNORED to the queue.
LEMMA RmWatchEffectType ==
  ASSUME TypeOK, NEW d \in Wds, RmWatchEffect(d)
  PROVE  /\ kwatch' \in [Wds -> Names \cup {NULL}]
         /\ kq' \in Seq(KernelEvent)
         /\ dropped' \subseteq Wds
         /\ exists' = exists /\ kone' = kone /\ nextwd' = nextwd
BY EventType, EnqueueType DEF RmWatchEffect, Ignored, TypeOK

(* Every step keeps every variable in its type.                             *)
LEMMA TypeStep == TypeOK /\ [Next]_vars => TypeOK'
<1> SUFFICES ASSUME TypeOK, [Next]_vars PROVE TypeOK'
  OBVIOUS
<1>1. ASSUME NEW w \in Watches, Add(w) PROVE TypeOK'
  <2>0. PathOf[w] \in Paths /\ oneshot[w] \in BOOLEAN /\ AddWatchResult(PathOf[w]) \in Wds \cup {Inactive}
    BY AddWatchResultType, ConstantsAssumption DEF TypeOK
  <2>1. CASE ~enabled[w]
    BY <1>1, <2>0, <2>1 DEF Add, TypeOK, kernVars
  <2>2. CASE enabled[w] /\ AddWatchResult(PathOf[w]) # Inactive
             /\ FindWatchByWd(AddWatchResult(PathOf[w])) = NULL
    <3>1. AddWatchEffect(PathOf[w], oneshot[w])
      BY <1>1, <2>2 DEF Add
    <3>2. /\ wd' = [wd EXCEPT ![w] = AddWatchResult(PathOf[w])]
          /\ watches' = [watches EXCEPT ![AddWatchResult(PathOf[w])] = w]
          /\ paths' = [paths EXCEPT ![PathOf[w]] = w]
          /\ owner' = [owner EXCEPT ![w] = "this"]
          /\ UNCHANGED <<open, events, buf, enabled, oneshot, wildUse, colliding, stray>>
      BY <1>1, <2>2 DEF Add
    <3>3. /\ wd' \in [Watches -> Wds \cup {Inactive}]
          /\ watches' \in [Wds -> Watches \cup {NULL}]
          /\ paths' \in [Paths -> Watches \cup {NULL}]
          /\ owner' \in [Watches -> {NULL, "this", "wild"}]
      BY <2>0, <3>2 DEF TypeOK
    <3> QED BY <2>0, <3>1, <3>2, <3>3, AddWatchEffectType DEF TypeOK
  <2>3. CASE enabled[w] /\ AddWatchResult(PathOf[w]) # Inactive
             /\ FindWatchByWd(AddWatchResult(PathOf[w])) # NULL
    <3> DEFINE old == FindWatchByWd(AddWatchResult(PathOf[w]))
    <3>1. old \in Watches
      BY <2>0, <2>3 DEF FindWatchByWd, TypeOK
    <3>2. /\ AddWatchEffect(PathOf[w], oneshot[w]) /\ colliding' = old
          /\ UNCHANGED <<open, watches, paths, events, buf, stray, wildUse>> /\ UNCHANGED objVars
      BY <1>1, <2>3 DEF Add, objVars
    <3> QED BY <2>0, <3>1, <3>2, AddWatchEffectType DEF TypeOK, objVars
  <2> QED BY <1>1, <2>1, <2>2, <2>3 DEF Add
<1>14. CASE AddRecover
  <2>1. /\ colliding \in Watches /\ PathOf[colliding] \in Paths
        /\ oneshot[colliding] \in BOOLEAN
        /\ AddWatchEffect(PathOf[colliding], oneshot[colliding])
    BY <1>14, ConstantsAssumption DEF AddRecover, TypeOK
  <2>2. AddWatchResult(PathOf[colliding]) \in Wds \cup {Inactive}
    BY <2>1, AddWatchResultType
  <2>3. stray' \subseteq Wds /\ colliding' = NULL
    BY <1>14, <2>2 DEF AddRecover, TypeOK
  <2> QED BY <1>14, <2>1, <2>3, AddWatchEffectType DEF AddRecover, TypeOK, objVars, regVars
<1>2. ASSUME NEW w \in Watches, Remove(w) PROVE TypeOK'
  <2>1. CASE wd[w] # Inactive
    <3>1. wd[w] \in Wds /\ RmWatchEffect(wd[w])
      BY <1>2, <2>1 DEF Remove, TypeOK
    <3> QED BY <1>2, <2>1, <3>1, RmWatchEffectType DEF Remove, EraseWatch, TypeOK, Inactive, addVars
  <2>2. CASE wd[w] = Inactive
    BY <1>2, <2>2 DEF Remove, TypeOK, kernVars, addVars
  <2> QED BY <2>1, <2>2
<1>3. ASSUME NEW w \in Watches, SetEnabled(w) PROVE TypeOK'
  <2>0. PathOf[w] \in Paths /\ oneshot[w] \in BOOLEAN /\ AddWatchResult(PathOf[w]) \in Wds \cup {Inactive}
    BY AddWatchResultType, ConstantsAssumption DEF TypeOK
  <2>1. CASE SetEnabledTrue(w)
    <3>1. CASE AddWatchResult(PathOf[w]) = Inactive
      BY <1>3, <2>1, <3>1 DEF SetEnabled, SetEnabledTrue, TypeOK, kernVars, addVars
    <3>2. CASE AddWatchResult(PathOf[w]) # Inactive
      <4>1. AddWatchEffect(PathOf[w], oneshot[w])
        BY <2>1, <3>2 DEF SetEnabledTrue
      <4> QED BY <1>3, <2>0, <2>1, <3>2, <4>1, AddWatchEffectType DEF SetEnabled, SetEnabledTrue, TypeOK, addVars
    <3> QED BY <3>1, <3>2
  <2>2. CASE SetEnabledFalse(w)
    <3>1. wd[w] \in Wds /\ RmWatchEffect(wd[w])
      BY <2>2 DEF SetEnabledFalse, RmWatchOk
    <3> QED BY <1>3, <2>2, <3>1, RmWatchEffectType DEF SetEnabled, SetEnabledFalse, EraseWatch, TypeOK, Inactive, addVars
  <2>3. CASE SetEnabledUnowned(w)
    BY <1>3, <2>3 DEF SetEnabled, SetEnabledUnowned, TypeOK, kernVars, addVars
  <2> QED BY <1>3, <2>1, <2>2, <2>3 DEF SetEnabled
<1>4. ASSUME NEW w \in Watches, NEW one \in BOOLEAN, SetMask(w, one) PROVE TypeOK'
  <2>1. CASE wd[w] # Inactive
    <3>1. PathOf[w] \in Paths /\ AddWatchEffect(PathOf[w], one)
      BY <1>4, <2>1, ConstantsAssumption DEF SetMask
    <3> QED BY <1>4, <2>1, <3>1, AddWatchEffectType DEF SetMask, TypeOK, regVars, addVars
  <2>2. CASE wd[w] = Inactive
    BY <1>4, <2>2 DEF SetMask, TypeOK, kernVars, regVars, addVars
  <2> QED BY <2>1, <2>2
<1>5. CASE Close
  <2>1. <<>> \in Seq(KernelEvent)
    OBVIOUS
  <2>2. /\ wd' \in [Watches -> Wds \cup {Inactive}]
        /\ owner' \in [Watches -> {NULL, "this", "wild"}]
    BY <1>5 DEF Close, TypeOK
  <2>3. /\ watches' \in [Wds -> Watches \cup {NULL}]
        /\ paths' \in [Paths -> Watches \cup {NULL}]
        /\ kwatch' \in [Wds -> Names \cup {NULL}]
        /\ open' \in BOOLEAN /\ kq' \in Seq(KernelEvent)
    BY <1>5, <2>1 DEF Close
  <2> QED BY <1>5, <2>2, <2>3 DEF Close, TypeOK, addVars
<1>6. ASSUME NEW n \in 1..(MaxQueued + 1), ReadEvents(n) PROVE TypeOK'
  <2>1. n \in 1..Len(kq) /\ Len(kq) \in Nat /\ \A i \in 1..Len(kq) : kq[i] \in KernelEvent
    BY <1>6 DEF ReadEvents, TypeOK
  <2>2. SubSeq(kq, 1, n) \in Seq(KernelEvent)
    BY <2>1, SubSeqProperties
  <2>3. SubSeq(kq, n + 1, Len(kq)) \in Seq(KernelEvent)
    BY <2>1, SubSeqProperties
  <2> QED BY <1>6, <2>2, <2>3 DEF ReadEvents, TypeOK, objVars, regVars, addVars
<1>7. CASE ProcessEvent
  <2> DEFINE e == buf[1]
             w == FindWatchByWd(e.wd)
  <2>1. e \in KernelEvent /\ buf # <<>> /\ Tail(buf) \in Seq(KernelEvent)
    BY <1>7 DEF ProcessEvent, QueueEvent, TypeOK
  <2>2. w # NULL => w \in Watches /\ e.wd \in Wds /\ e.kind \in {"event", "ignored"}
    BY <2>1 DEF FindWatchByWd, TypeOK, KernelEvent, Overflow, Wds
  <2>3. w # NULL => [watch |-> w, kind |-> e.kind] \in [watch : Watches, kind : {"event", "ignored"}]
    BY <2>2
  <2>4. events' \in Seq([watch : Watches, kind : {"event", "ignored"}])
    <3>1. \/ events' = events
          \/ w # NULL /\ events' = Append(events, [watch |-> w, kind |-> e.kind])
      BY <1>7 DEF ProcessEvent, QueueEvent
    <3>2. events \in Seq([watch : Watches, kind : {"event", "ignored"}])
      BY DEF TypeOK
    <3>3. w # NULL => Append(events, [watch |-> w, kind |-> e.kind])
                        \in Seq([watch : Watches, kind : {"event", "ignored"}])
      BY <2>3, <3>2, AppendProperties, Zenon
    <3> QED BY <3>1, <3>2, <3>3, Zenon
  <2>5. buf' \in Seq(KernelEvent)
    <3>1. buf' = <<>> \/ buf' = Tail(buf)
      BY <1>7 DEF ProcessEvent, QueueEvent
    <3>2. <<>> \in Seq(KernelEvent)
      OBVIOUS
    <3> QED BY <2>1, <3>1, <3>2, Zenon
  <2>6. /\ watches' \in [Wds -> Watches \cup {NULL}]
        /\ wd' \in [Watches -> Wds \cup {Inactive}]
        /\ enabled' \in [Watches -> BOOLEAN]
    BY <1>7 DEF ProcessEvent, QueueEvent, EraseWatch, TypeOK
  <2> QED BY <1>7, <2>4, <2>5, <2>6 DEF ProcessEvent, QueueEvent, TypeOK, kernVars, addVars
<1>8. CASE GetEvent
  BY <1>8 DEF GetEvent, TypeOK, objVars, regVars, kernVars, addVars
<1>9. ASSUME NEW n \in Names, FsEvent(n) PROVE TypeOK'
  <2>1. PICK d \in WatchersOf(n) :
          LET e == Enqueue(kq, [wd |-> d, kind |-> "event"]) IN
          /\ kwatch' = [kwatch EXCEPT ![d] = NULL] \/ kwatch' = kwatch
          /\ kq' = e \/ kq' = Enqueue(e, [wd |-> d, kind |-> "ignored"])
          /\ dropped' = dropped \/ dropped' = dropped \cup {d}
          /\ stray' = stray \/ stray' = stray \cup {d}
    BY <1>9, Zenon DEF FsEvent, Ignored
  <2>2. d \in Wds
    BY DEF WatchersOf
  <2>3. kq' \in Seq(KernelEvent)
    <3>1. kq \in Seq(KernelEvent)
      BY DEF TypeOK
    <3>2. Enqueue(kq, [wd |-> d, kind |-> "event"]) \in Seq(KernelEvent)
      BY <2>2, <3>1, EventType, EnqueueType
    <3>3. Enqueue(Enqueue(kq, [wd |-> d, kind |-> "event"]),
                  [wd |-> d, kind |-> "ignored"]) \in Seq(KernelEvent)
      BY <2>2, <3>2, EventType, EnqueueType
    <3> QED BY <2>1, <3>2, <3>3, Zenon
  <2>4. kwatch' \in [Wds -> Names \cup {NULL}]
    BY <2>1, <2>2 DEF TypeOK
  <2>5. dropped' \subseteq Wds /\ stray' \subseteq Wds
    BY <2>1, <2>2 DEF TypeOK
  <2> QED BY <1>9, <2>3, <2>4, <2>5 DEF FsEvent, TypeOK, objVars
<1>10. ASSUME NEW n \in Names, FsDelete(n) PROVE TypeOK'
  <2>1. CASE WatchersOf(n) = {}
    BY <1>10, <2>1 DEF FsDelete, TypeOK, objVars, addVars
  <2>2. ASSUME NEW d \in WatchersOf(n),
               kwatch' = [kwatch EXCEPT ![d] = NULL],
               kq' = Enqueue(Enqueue(kq, [wd |-> d, kind |-> "event"]),
                             [wd |-> d, kind |-> "ignored"]),
               Ignored(d, 2)
        PROVE  TypeOK'
    <3>1. d \in Wds
      BY DEF WatchersOf
    <3>2. kq' \in Seq(KernelEvent)
      BY <2>2, <3>1, EventType, EnqueueType DEF TypeOK
    <3>3. kwatch' \in [Wds -> Names \cup {NULL}]
      BY <2>2, <3>1 DEF TypeOK
    <3>4. dropped' \subseteq Wds
      BY <2>2, <3>1 DEF TypeOK, Ignored
    <3>5. exists' \in [Names -> BOOLEAN]
      BY <1>10 DEF FsDelete, TypeOK
    <3> QED BY <1>10, <3>2, <3>3, <3>4, <3>5 DEF FsDelete, TypeOK, objVars, addVars
  <2> QED BY <1>10, <2>1, <2>2, Zenon DEF FsDelete
<1>11. ASSUME NEW n \in Names, FsCreate(n) PROVE TypeOK'
  BY <1>11 DEF FsCreate, TypeOK, objVars, addVars
<1>12. CASE UNCHANGED vars
  BY <1>12 DEF vars, TypeOK
<1> QED BY <1>1, <1>2, <1>3, <1>4, <1>5, <1>6, <1>7, <1>8, <1>9, <1>10, <1>11, <1>12, <1>14 DEF Next

(* The registry, the watch objects and the kernel model keep their types in *)
(* every reachable state of the wrapper, whatever the caller does.          *)
THEOREM TypeCorrect == Spec => []TypeOK
<1>1. Init => TypeOK
  <2> SUFFICES ASSUME Init PROVE TypeOK
    OBVIOUS
  <2>1. nextwd \in 1..(MaxWd + 1)
    BY ConstantsAssumption DEF Init
  <2>2. /\ buf \in Seq(KernelEvent) /\ kq \in Seq(KernelEvent)
        /\ events \in Seq([watch : Watches, kind : {"event", "ignored"}])
    BY DEF Init
  <2>3. owner \in [Watches -> {NULL, "this", "wild"}]
    BY DEF Init
  <2> QED BY <2>1, <2>2, <2>3 DEF Init, TypeOK
<1> QED BY <1>1, TypeStep, PTL DEF Spec

-----------------------------------------------------------------------------
(* The calls a caller must not make for the registry to stay consistent.    *)
Disciplined == "remove_absent" \notin Habits /\ "enable_alias" \notin Habits

(* No two watches share a path entry, a descriptor or a map slot: what the  *)
(* proof uses of RegistryConsistent, one watch at a time.                    *)
LEMMA RegistryFacts ==
  ASSUME TypeOK, RegistryConsistent, NEW w \in Watches
  PROVE  /\ PathOf[w] \in Paths
         /\ wd[w] # Inactive => /\ wd[w] \in Wds /\ watches[wd[w]] = w
                               /\ paths[PathOf[w]] = w /\ enabled[w]
         /\ owner[w] = "this" <=> paths[PathOf[w]] = w
         /\ \A p \in Paths : paths[p] = w => p = PathOf[w]
         /\ \A d \in Wds : watches[d] = w => d = wd[w]
         /\ owner[w] = "this" => (enabled[w] <=> wd[w] # Inactive)
BY ConstantsAssumption DEF TypeOK, RegistryConsistent

(* Every step of a disciplined caller, of WaitForEvents and of the file     *)
(* system keeps the registry and the watch objects in agreement.            *)
LEMMA RegistryStep ==
  ASSUME Disciplined
  PROVE  TypeOK /\ RegistryConsistent /\ [Next]_vars => RegistryConsistent'
<1> SUFFICES ASSUME TypeOK, RegistryConsistent, [Next]_vars
             PROVE  RegistryConsistent'
  OBVIOUS
<1>0. Inactive \notin Wds
  BY DEF Inactive, Wds
<1>1. ASSUME NEW w \in Watches, Add(w) PROVE RegistryConsistent'
  <2> DEFINE d == AddWatchResult(PathOf[w])
  <2>1. PathOf[w] \in Paths /\ paths[PathOf[w]] = NULL /\ w # NULL
    BY <1>1, ConstantsAssumption DEF Add, FindWatchByPath
  <2>2. wd[w] = Inactive /\ owner[w] # "this"
    BY <2>1, RegistryFacts
  <2>3. CASE ~enabled[w]
    <3>1. /\ paths' = [paths EXCEPT ![PathOf[w]] = w]
          /\ owner' = [owner EXCEPT ![w] = "this"]
          /\ UNCHANGED <<watches, wd, enabled>>
      BY <1>1, <2>3 DEF Add
    <3> QED BY <2>1, <2>2, <2>3, <3>1, <1>0, ConstantsAssumption DEF RegistryConsistent, TypeOK
  <2>4. CASE enabled[w] /\ d # Inactive /\ FindWatchByWd(d) = NULL
    <3>1. d \in Wds /\ watches[d] = NULL
      BY <2>1, <2>4, AddWatchResultType DEF FindWatchByWd
    <3>2. /\ paths' = [paths EXCEPT ![PathOf[w]] = w]
          /\ owner' = [owner EXCEPT ![w] = "this"]
          /\ wd' = [wd EXCEPT ![w] = d]
          /\ watches' = [watches EXCEPT ![d] = w]
          /\ UNCHANGED enabled
      BY <1>1, <2>4 DEF Add
    <3> HIDE DEF d
    <3> QED BY <2>1, <2>2, <2>4, <3>1, <3>2, <1>0, ConstantsAssumption DEF RegistryConsistent, TypeOK
  <2>5. CASE UNCHANGED <<watches, wd, paths, owner, enabled>>
    BY <2>5 DEF RegistryConsistent
  <2> QED BY <1>1, <2>3, <2>4, <2>5 DEF Add
<1>2. ASSUME NEW w \in Watches, Remove(w) PROVE RegistryConsistent'
  <2>1. owner[w] = "this" /\ PathOf[w] \in Paths /\ paths[PathOf[w]] = w /\ w # NULL
    BY <1>2, RegistryFacts, ConstantsAssumption DEF Remove, Disciplined
  <2>2. /\ paths' = [paths EXCEPT ![PathOf[w]] = NULL]
        /\ owner' = [owner EXCEPT ![w] = NULL]
        /\ UNCHANGED enabled
    BY <1>2 DEF Remove
  <2>3. CASE wd[w] # Inactive
    <3>1. wd[w] \in Wds /\ watches[wd[w]] = w
      BY <2>3, RegistryFacts
    <3>2. /\ watches' = [watches EXCEPT ![wd[w]] = NULL]
          /\ wd' = [wd EXCEPT ![w] = Inactive]
      BY <1>2, <2>3 DEF Remove, EraseWatch
    <3> QED BY <2>1, <2>2, <2>3, <3>1, <3>2, <1>0, ConstantsAssumption
            DEF RegistryConsistent, TypeOK
  <2>4. CASE wd[w] = Inactive
    <3>1. UNCHANGED <<watches, wd>>
      BY <1>2, <2>4 DEF Remove
    <3> QED BY <2>1, <2>2, <2>4, <3>1, <1>0, ConstantsAssumption
            DEF RegistryConsistent, TypeOK
  <2> QED BY <2>3, <2>4
<1>3. ASSUME NEW w \in Watches, SetEnabled(w) PROVE RegistryConsistent'
  <2> DEFINE d == AddWatchResult(PathOf[w])
  <2>0. UNCHANGED <<paths, owner>>
    BY <1>3 DEF SetEnabled
  <2>1. CASE SetEnabledTrue(w)
    <3>1. owner[w] = "this" /\ paths[PathOf[w]] = w /\ ~enabled[w] /\ wd[w] = Inactive
      BY <2>1, RegistryFacts DEF SetEnabledTrue
    <3>2. CASE d = Inactive
      BY <2>0, <2>1, <3>2 DEF SetEnabledTrue, RegistryConsistent
    <3>3. CASE d # Inactive
      <4>1. d \in Wds /\ watches[d] = NULL
        BY <2>1, <3>3, AddWatchResultType, ConstantsAssumption
           DEF SetEnabledTrue, Disciplined
      <4>2. /\ wd' = [wd EXCEPT ![w] = d]
            /\ watches' = [watches EXCEPT ![d] = w]
            /\ enabled' = [enabled EXCEPT ![w] = TRUE]
        BY <2>1, <3>3, <4>1 DEF SetEnabledTrue
      <4> HIDE DEF d
      <4> QED BY <2>0, <3>1, <4>1, <4>2, <1>0, ConstantsAssumption
              DEF RegistryConsistent, TypeOK
    <3> QED BY <3>2, <3>3
  <2>2. CASE SetEnabledFalse(w)
    <3>1. /\ owner[w] = "this" /\ paths[PathOf[w]] = w /\ enabled[w]
          /\ wd[w] \in Wds /\ watches[wd[w]] = w
      BY <2>2, RegistryFacts DEF SetEnabledFalse
    <3>2. /\ watches' = [watches EXCEPT ![wd[w]] = NULL]
          /\ wd' = [wd EXCEPT ![w] = Inactive]
          /\ enabled' = [enabled EXCEPT ![w] = FALSE]
      BY <2>2 DEF SetEnabledFalse, EraseWatch
    <3> QED BY <2>0, <3>1, <3>2, <1>0, ConstantsAssumption
            DEF RegistryConsistent, TypeOK
  <2>3. CASE SetEnabledUnowned(w)
    <3>1. owner[w] # "this" /\ paths[PathOf[w]] # w /\ wd[w] = Inactive
      BY <2>3, RegistryFacts DEF SetEnabledUnowned
    <3>2. /\ UNCHANGED <<watches, wd>>
          /\ enabled' = enabled \/ enabled' = [enabled EXCEPT ![w] = ~enabled[w]]
      BY <2>3 DEF SetEnabledUnowned
    <3>3. /\ \A c \in Wds : watches[c] # w
          /\ \A p \in Paths : paths[p] # w
      BY <3>1, RegistryFacts, <1>0
    <3>4. \A v \in Watches : v # w => enabled'[v] = enabled[v]
      BY <3>2 DEF TypeOK
    <3>5. /\ \A c \in Wds : watches[c] # NULL => enabled'[watches[c]] = enabled[watches[c]]
          /\ \A p \in Paths : paths[p] # NULL => enabled'[paths[p]] = enabled[paths[p]]
      BY <3>3, <3>4 DEF TypeOK
    <3> QED BY <2>0, <3>2, <3>5 DEF RegistryConsistent
  <2> QED BY <1>3, <2>1, <2>2, <2>3 DEF SetEnabled
<1>5. CASE Close
  <2> DEFINE gone == {paths[p] : p \in Paths}
  <2>1. ASSUME NEW w \in Watches
        PROVE  /\ w \notin gone => wd[w] = Inactive /\ owner[w] # "this"
               /\ wd'[w] = Inactive /\ owner'[w] # "this"
    <3>1. w \notin gone => wd[w] = Inactive /\ owner[w] # "this"
      BY RegistryFacts
    <3> QED BY <3>1, <1>5, ConstantsAssumption DEF Close
  <2>2. watches' = [d \in Wds |-> NULL] /\ paths' = [p \in Paths |-> NULL]
    BY <1>5 DEF Close
  <2> QED BY <2>1, <2>2 DEF RegistryConsistent
<1>7. CASE ProcessEvent
  <2> DEFINE e == buf[1]
             w == FindWatchByWd(e.wd)
  <2>1. UNCHANGED <<paths, owner>>
    BY <1>7 DEF ProcessEvent, QueueEvent
  <2>2. CASE UNCHANGED <<watches, wd, enabled>>
    BY <2>1, <2>2 DEF RegistryConsistent
  <2>3. CASE /\ w # NULL
             /\ watches' = [watches EXCEPT ![wd[w]] = NULL]
             /\ wd' = [wd EXCEPT ![w] = Inactive]
             /\ enabled' = [enabled EXCEPT ![w] = FALSE]
    <3>1. e.wd \in Wds /\ watches[e.wd] = w /\ w \in Watches
      BY <2>3 DEF FindWatchByWd, TypeOK
    <3>2. wd[w] = e.wd /\ enabled[w] /\ paths[PathOf[w]] = w
      BY <3>1, <2>3 DEF RegistryConsistent
    <3> HIDE DEF w
    <3> QED BY <2>1, <2>3, <3>1, <3>2, <1>0, ConstantsAssumption
            DEF RegistryConsistent, TypeOK
  <2> QED BY <1>7, <2>2, <2>3 DEF ProcessEvent, QueueEvent, EraseWatch
<1>8. CASE UNCHANGED <<watches, paths, wd, enabled, owner>>
  BY <1>8 DEF RegistryConsistent
<1>9. ASSUME NEW w \in Watches, NEW one \in BOOLEAN, SetMask(w, one)
      PROVE  UNCHANGED <<watches, paths, wd, enabled, owner>>
  BY <1>9 DEF SetMask, regVars
<1>10. ASSUME NEW n, ReadEvents(n)
       PROVE  UNCHANGED <<watches, paths, wd, enabled, owner>>
  BY <1>10 DEF ReadEvents, regVars, objVars
<1>11. GetEvent => UNCHANGED <<watches, paths, wd, enabled, owner>>
  BY DEF GetEvent, regVars, objVars
<1>12. ASSUME NEW n \in Names, FsEvent(n) \/ FsDelete(n) \/ FsCreate(n)
       PROVE  UNCHANGED <<watches, paths, wd, enabled, owner>>
  BY <1>12 DEF FsEvent, FsDelete, FsCreate, objVars
<1>14. AddRecover => UNCHANGED <<watches, paths, wd, enabled, owner>>
  BY DEF AddRecover, regVars, objVars
<1>13. UNCHANGED vars => UNCHANGED <<watches, paths, wd, enabled, owner>>
  BY DEF vars
<1> QED
  BY <1>1, <1>2, <1>3, <1>5, <1>7, <1>8, <1>9, <1>10, <1>11, <1>12, <1>13, <1>14 DEF Next

(* For every set of watches, paths and files and whatever the file system   *)
(* does, the maps of Inotify and the watch objects agree, provided Remove   *)
(* is called on registered watches only and a watch is not enabled while    *)
(* another one holds its file.                                              *)
THEOREM RegistryAlwaysConsistent == Disciplined => (Spec => []RegistryConsistent)
<1> SUFFICES ASSUME Disciplined PROVE Spec => []RegistryConsistent
  OBVIOUS
<1>1. Init => RegistryConsistent
  BY ConstantsAssumption DEF Init, RegistryConsistent
<1>2. TypeOK /\ RegistryConsistent /\ [Next]_vars => RegistryConsistent'
  BY RegistryStep
<1> QED BY <1>1, <1>2, TypeCorrect, PTL DEF Spec

-----------------------------------------------------------------------------
(* The agreement of the wrapper with the kernel, built on the consistency   *)
(* of the registry.                                                         *)


(* A caller that also leaves the mask of an active watch alone, as synciga  *)
(* does.                                                                     *)
Careful == Disciplined /\ "remask" \notin Habits

(* The kernel watches existing files only, and each under one descriptor.   *)
KernelTables ==
  \A d \in Wds : kwatch[d] # NULL =>
    /\ exists[kwatch[d]]
    /\ \A c \in Wds : kwatch[c] = kwatch[d] => c = d

(* Between the two kernel calls of Add the watch it met stays registered.   *)
CollisionHeld ==
  colliding # NULL => open /\ buf = <<>> /\ wd[colliding] # Inactive

(* The kernel watches for a descriptor what the object behind it asked for, *)
(* with the one-shot flag of that object, except between the two calls of   *)
(* Add and for what such an Add has left astray.                            *)
KernelMatches ==
  \A d \in Wds : kwatch[d] # NULL =>
    /\ watches[d] # NULL => kwatch[d] = Resolve[PathOf[watches[d]]]
    /\ d \notin stray => /\ watches[d] # NULL
                         /\ kone[d] = oneshot[watches[d]] \/ watches[d] = colliding

(* Descriptors not handed out yet are unused.                               *)
FreshUnused == \A d \in Wds : d >= nextwd => watches[d] = NULL /\ kwatch[d] = NULL

(* Any event of these descriptors disables their object.                    *)
OneShots == {d \in Wds : d \notin stray /\ watches[d] # NULL /\ oneshot[watches[d]]}

(* An event e on its way whose descriptor is alive does not end its watch.  *)
Harmless(e, kw, ones, next) ==
  e.wd \in Wds => /\ e.wd < next
                  /\ kw[e.wd] # NULL => e.kind = "event" /\ e.wd \notin ones

AllHarmless(q, kw, ones, next) == \A i \in DOMAIN q : Harmless(q[i], kw, ones, next)

EventsHarmless ==
  AllHarmless(kq, kwatch, OneShots, nextwd) /\ AllHarmless(buf, kwatch, OneShots, nextwd)

KernelInv == KernelMatches /\ FreshUnused /\ EventsHarmless /\ DeadWatchReported

(* What the agreement with the kernel rests on.                             *)
KernelBase == TypeOK /\ RegistryConsistent /\ KernelTables /\ CollisionHeld

(* What Enqueue keeps of a queue and what it adds to it.                    *)
LEMMA EnqueueElements ==
  ASSUME NEW q \in Seq(KernelEvent), NEW e \in KernelEvent
  PROVE  /\ Enqueue(q, e) \in Seq(KernelEvent)
         /\ \A i \in DOMAIN q : i \in DOMAIN Enqueue(q, e) /\ Enqueue(q, e)[i] = q[i]
         /\ \A i \in DOMAIN Enqueue(q, e) :
              i \in DOMAIN q \/ Enqueue(q, e)[i] = e \/ Enqueue(q, e)[i] = Overflow
         /\ Fits(q, 1) => /\ Len(Enqueue(q, e)) = Len(q) + 1
                          /\ Enqueue(q, e)[Len(q) + 1] = e
<1>1. Overflow \in KernelEvent
  BY DEF KernelEvent
<1>2. /\ Len(q) \in Nat /\ DOMAIN q = 1..Len(q)
      /\ DOMAIN Append(q, e) = 1..(Len(q) + 1) /\ DOMAIN Append(q, Overflow) = 1..(Len(q) + 1)
  OBVIOUS
<1>3. Fits(q, 1) <=> Len(q) < MaxQueued
  BY <1>2, ConstantsAssumption DEF Fits
<1>4. CASE Len(q) < MaxQueued
  BY <1>1, <1>2, <1>4 DEF Enqueue
<1>5. CASE ~(Len(q) < MaxQueued)
  BY <1>1, <1>2, <1>3, <1>5 DEF Enqueue
<1> QED BY <1>4, <1>5

(* A queue of harmless events that takes one more is still one.             *)
LEMMA EnqueueHarmless ==
  ASSUME NEW q \in Seq(KernelEvent), NEW e \in KernelEvent, NEW kw, NEW ones, NEW next,
         AllHarmless(q, kw, ones, next), Harmless(e, kw, ones, next)
  PROVE  AllHarmless(Enqueue(q, e), kw, ones, next)
<1>1. Harmless(Overflow, kw, ones, next)
  BY DEF Harmless, Overflow, Wds
<1>2. \A i \in DOMAIN q : Enqueue(q, e)[i] = q[i]
  BY EnqueueElements
<1>3. \A i \in DOMAIN Enqueue(q, e) :
        i \in DOMAIN q \/ Enqueue(q, e)[i] = e \/ Enqueue(q, e)[i] = Overflow
  BY EnqueueElements
<1>4. \A i \in DOMAIN q : Harmless(q[i], kw, ones, next)
  BY DEF AllHarmless
<1> HIDE DEF Overflow, Enqueue, Harmless
<1>5. ASSUME NEW i \in DOMAIN Enqueue(q, e)
      PROVE  Harmless(Enqueue(q, e)[i], kw, ones, next)
  BY <1>1, <1>2, <1>3, <1>4, Zenon
<1> QED BY <1>5, Zenon DEF AllHarmless

(* Events stay harmless when no watch comes to life under a descriptor that *)
(* was handed out and no descriptor alive turns into a one-shot one.         *)
LEMMA HarmlessKept ==
  ASSUME NEW q, NEW kw, NEW ones, NEW next, NEW kw2, NEW ones2, NEW next2,
         AllHarmless(q, kw, ones, next),
         \A d \in Wds : d < next => /\ d < next2
                                    /\ kw2[d] # NULL => kw[d] # NULL
                                    /\ kw2[d] # NULL /\ d \in ones2 => d \in ones
  PROVE  AllHarmless(q, kw2, ones2, next2)
<1> SUFFICES ASSUME NEW i \in DOMAIN q, q[i].wd \in Wds
             PROVE  /\ q[i].wd < next2
                    /\ kw2[q[i].wd] # NULL => q[i].kind = "event" /\ q[i].wd \notin ones2
  BY DEF AllHarmless, Harmless
<1>1. /\ q[i].wd < next
      /\ kw[q[i].wd] # NULL => q[i].kind = "event" /\ q[i].wd \notin ones
  BY DEF AllHarmless, Harmless
<1> QED BY <1>1

(* What inotify_add_watch does for a registered caller: it gives out the     *)
(* next descriptor, or finds the one that watches the file.                  *)
LEMMA AddWatchCases ==
  ASSUME TypeOK, FreshUnused, NEW p \in Paths, NEW d, d = AddWatchResult(p), d # Inactive
  PROVE  /\ d \in Wds /\ exists[Resolve[p]]
         /\ \/ /\ d = nextwd
               /\ watches[d] = NULL /\ kwatch[d] = NULL
               /\ \A c \in Wds : kwatch[c] # Resolve[p]
            \/ /\ d < nextwd
               /\ kwatch[d] = Resolve[p]
<1>1. d \in Wds
  BY AddWatchResultType
<1>2. Resolve[p] # NULL /\ nextwd \in Nat /\ d \in Nat
  BY <1>1, ConstantsAssumption DEF TypeOK, Wds
<1>3. exists[Resolve[p]]
  BY DEF AddWatchResult
<1>4. CASE \E c \in Wds : kwatch[c] = Resolve[p]
  <2>1. kwatch[d] = Resolve[p]
    BY <1>4, <1>3 DEF AddWatchResult
  <2>2. d < nextwd
    BY <1>1, <1>2, <2>1 DEF FreshUnused
  <2> QED BY <1>1, <1>3, <2>1, <2>2
<1>5. CASE ~\E c \in Wds : kwatch[c] = Resolve[p]
  <2>1. d = nextwd
    BY <1>5 DEF AddWatchResult
  <2>2. watches[d] = NULL /\ kwatch[d] = NULL
    BY <1>1, <1>2, <2>1 DEF FreshUnused
  <2> QED BY <1>1, <1>3, <1>5, <2>1, <2>2
<1> QED BY <1>4, <1>5

(* What its effect is on the kernel's tables: only the mask of a descriptor  *)
(* handed out before can change.                                            *)
LEMMA AddWatchChanges ==
  ASSUME TypeOK, FreshUnused, NEW p \in Paths, NEW one \in BOOLEAN, AddWatchEffect(p, one),
         NEW d, d = AddWatchResult(p), d # Inactive
  PROVE  /\ kwatch'[d] = Resolve[p] /\ kone'[d] = one
         /\ \A c \in Wds : c # d => kwatch'[c] = kwatch[c] /\ kone'[c] = kone[c]
         /\ \A c \in Wds : c < nextwd => c < nextwd' /\ kwatch'[c] = kwatch[c]
         /\ \A c \in Wds : c >= nextwd' => c >= nextwd /\ c # d
         /\ d < nextwd'
         /\ UNCHANGED <<kq, dropped>>
<1>1. /\ d \in Wds
      /\ d = nextwd \/ (d < nextwd /\ kwatch[d] = Resolve[p])
  BY AddWatchCases
<1>2. nextwd \in Nat /\ \A c \in Wds : c \in Nat
  BY ConstantsAssumption DEF TypeOK, Wds
<1>3. /\ kwatch' = [kwatch EXCEPT ![d] = Resolve[p]]
      /\ kone' = [kone EXCEPT ![d] = one]
      /\ nextwd' = IF d = nextwd THEN nextwd + 1 ELSE nextwd
      /\ UNCHANGED <<kq, dropped>>
  BY DEF AddWatchEffect
<1>4. /\ kwatch'[d] = Resolve[p] /\ kone'[d] = one
      /\ \A c \in Wds : c # d => kwatch'[c] = kwatch[c] /\ kone'[c] = kone[c]
  BY <1>1, <1>3 DEF TypeOK
<1>5. \A c \in Wds : c < nextwd => c < nextwd' /\ kwatch'[c] = kwatch[c]
  BY <1>1, <1>2, <1>3, <1>4
<1>6. \A c \in Wds : c >= nextwd' => c >= nextwd /\ c # d
  BY <1>1, <1>2, <1>3
<1>7. d < nextwd'
  BY <1>1, <1>2, <1>3
<1> QED BY <1>3, <1>4, <1>5, <1>6, <1>7

(* It never makes a second descriptor for a file.                           *)
LEMMA AddWatchTables ==
  ASSUME TypeOK, KernelTables, NEW p \in Paths, NEW one, AddWatchEffect(p, one)
  PROVE  KernelTables'
<1> DEFINE d == AddWatchResult(p)
<1>1. UNCHANGED exists
  BY DEF AddWatchEffect
<1>2. CASE d = Inactive
  BY <1>1, <1>2 DEF AddWatchEffect, KernelTables
<1>3. CASE d # Inactive
  <2>1. d \in Wds /\ exists[Resolve[p]] /\ Resolve[p] # NULL
    BY <1>3, AddWatchResultType, ConstantsAssumption DEF AddWatchResult
  <2>2. kwatch' = [kwatch EXCEPT ![d] = Resolve[p]]
    BY <1>3 DEF AddWatchEffect
  <2>3. \A c \in Wds : kwatch[c] = Resolve[p] => c = d
    BY <1>3, <2>1 DEF AddWatchResult, KernelTables
  <2> HIDE DEF d
  <2>4. kwatch'[d] = Resolve[p] /\ \A c \in Wds : c # d => kwatch'[c] = kwatch[c]
    BY <2>1, <2>2 DEF TypeOK
  <2> QED BY <1>1, <2>1, <2>3, <2>4 DEF KernelTables
<1> QED BY <1>2, <1>3

(* Neither does any other step, and a file that is deleted loses its watch. *)
LEMMA TablesStep == TypeOK /\ KernelTables /\ [Next]_vars => KernelTables'
<1> SUFFICES ASSUME TypeOK, KernelTables, [Next]_vars PROVE KernelTables'
  OBVIOUS
<1>0. ASSUME UNCHANGED <<kwatch, exists>> PROVE KernelTables'
  BY <1>0 DEF KernelTables
<1>1. ASSUME NEW d \in Wds, kwatch' = [kwatch EXCEPT ![d] = NULL], UNCHANGED exists
      PROVE  KernelTables'
  BY <1>1 DEF KernelTables, TypeOK
<1>2. \A w \in Watches : PathOf[w] \in Paths
  BY ConstantsAssumption
<1>3. ASSUME NEW d \in Wds, RmWatchEffect(d) PROVE KernelTables'
  BY <1>1, <1>3 DEF RmWatchEffect
<1>4. ASSUME NEW w \in Watches, Add(w) PROVE KernelTables'
  BY <1>0, <1>2, <1>4, AddWatchTables DEF Add, kernVars
<1>5. CASE AddRecover
  BY <1>2, <1>5, AddWatchTables DEF AddRecover, TypeOK
<1>6. ASSUME NEW w \in Watches, Remove(w) PROVE KernelTables'
  BY <1>0, <1>3, <1>6 DEF Remove, RmWatchOk, kernVars
<1>7. ASSUME NEW w \in Watches, SetEnabled(w) PROVE KernelTables'
  BY <1>0, <1>2, <1>3, <1>7, AddWatchTables
     DEF SetEnabled, SetEnabledTrue, SetEnabledFalse, SetEnabledUnowned, RmWatchOk, kernVars
<1>8. ASSUME NEW w \in Watches, NEW one \in BOOLEAN, SetMask(w, one) PROVE KernelTables'
  BY <1>0, <1>2, <1>8, AddWatchTables DEF SetMask, kernVars
<1>9. CASE Close
  BY <1>9 DEF Close, KernelTables
<1>10. ASSUME NEW n \in Names, FsEvent(n) PROVE KernelTables'
  <2>1. PICK d \in WatchersOf(n) : kwatch' = [kwatch EXCEPT ![d] = NULL] \/ kwatch' = kwatch
    BY <1>10, Zenon DEF FsEvent
  <2>2. d \in Wds /\ UNCHANGED exists
    BY <1>10 DEF WatchersOf, FsEvent
  <2> QED BY <1>0, <1>1, <2>1, <2>2
<1>11. ASSUME NEW n \in Names, FsDelete(n) PROVE KernelTables'
  <2>1. exists' = [exists EXCEPT ![n] = FALSE]
    BY <1>11 DEF FsDelete
  <2>2. CASE WatchersOf(n) = {}
    <3>1. UNCHANGED kwatch /\ \A c \in Wds : kwatch[c] # n
      BY <1>11, <2>2 DEF FsDelete, WatchersOf
    <3> QED BY <2>1, <3>1 DEF KernelTables, TypeOK
  <2>3. CASE WatchersOf(n) # {}
    <3>1. PICK d \in WatchersOf(n) : kwatch' = [kwatch EXCEPT ![d] = NULL]
      BY <1>11, <2>3, Zenon DEF FsDelete
    <3>2. d \in Wds /\ kwatch[d] = n /\ n # NULL
      BY ConstantsAssumption DEF WatchersOf
    <3>3. /\ \A c \in Wds : kwatch'[c] # NULL => kwatch'[c] = kwatch[c] /\ c # d
          /\ \A c \in Wds : kwatch[c] = n => c = d
      BY <3>1, <3>2 DEF KernelTables, TypeOK
    <3> QED BY <2>1, <3>3 DEF KernelTables, TypeOK
  <2> QED BY <2>2, <2>3
<1>12. ASSUME NEW n \in Names, FsCreate(n) PROVE KernelTables'
  BY <1>12 DEF FsCreate, KernelTables, TypeOK
<1>13. ASSUME NEW n, ReadEvents(n) PROVE KernelTables'
  BY <1>0, <1>13 DEF ReadEvents
<1>14. ProcessEvent \/ GetEvent => UNCHANGED <<kwatch, exists>>
  BY DEF ProcessEvent, GetEvent, kernVars
<1>15. UNCHANGED vars => UNCHANGED <<kwatch, exists>>
  BY DEF vars
<1> QED BY <1>0, <1>4, <1>5, <1>6, <1>7, <1>8, <1>9, <1>10, <1>11, <1>12, <1>13, <1>14, <1>15 DEF Next

(* While Add is between its two calls nothing but the file system moves.    *)
LEMMA HeldStep ==
  TypeOK /\ RegistryConsistent /\ CollisionHeld /\ [Next]_vars => CollisionHeld'
<1> SUFFICES ASSUME TypeOK, RegistryConsistent, CollisionHeld, [Next]_vars PROVE CollisionHeld'
  OBVIOUS
<1>1. ASSUME NEW w \in Watches, Add(w) PROVE CollisionHeld'
  <2> DEFINE d == AddWatchResult(PathOf[w])
             old == FindWatchByWd(d)
  <2>1. CASE UNCHANGED colliding
    BY <1>1, <2>1 DEF Add, Idle, CollisionHeld
  <2>2. CASE d # Inactive /\ old # NULL /\ colliding' = old /\ UNCHANGED wd
    <3>1. d \in Wds /\ watches[d] = old
      BY <2>2, AddWatchResultType, ConstantsAssumption DEF FindWatchByWd
    <3>2. wd[old] # Inactive
      BY <2>2, <3>1 DEF RegistryConsistent, Inactive, Wds
    <3> QED BY <1>1, <2>2, <3>2 DEF Add, Idle, CollisionHeld
  <2> QED BY <1>1, <2>1, <2>2 DEF Add
<1>2. AddRecover => colliding' = NULL
  BY DEF AddRecover
<1>3. ASSUME NEW w \in Watches, Remove(w) \/ SetEnabled(w) \/ \E one \in BOOLEAN : SetMask(w, one)
      PROVE  colliding' = NULL
  BY <1>3 DEF Remove, SetEnabled, SetMask, Idle, addVars
<1>4. ASSUME NEW n, ReadEvents(n) PROVE colliding' = NULL
  BY <1>4 DEF ReadEvents, Idle, addVars
<1>5. Close \/ GetEvent => colliding' = NULL
  BY DEF Close, GetEvent, Idle, addVars
<1>6. ProcessEvent => colliding' = NULL
  BY DEF ProcessEvent, CollisionHeld, addVars
<1>7. ASSUME NEW n \in Names, FsEvent(n) \/ FsDelete(n) \/ FsCreate(n)
      PROVE  UNCHANGED <<colliding, open, buf, wd>>
  BY <1>7 DEF FsEvent, FsDelete, FsCreate, objVars, addVars
<1>8. UNCHANGED vars => UNCHANGED <<colliding, open, buf, wd>>
  BY DEF vars
<1>9. UNCHANGED <<colliding, open, buf, wd>> => CollisionHeld'
  BY DEF CollisionHeld
<1>10. colliding' = NULL => CollisionHeld'
  BY DEF CollisionHeld
<1> QED BY <1>1, <1>2, <1>3, <1>4, <1>5, <1>6, <1>7, <1>8, <1>9, <1>10 DEF Next

(* The step of a registered caller that activates w under a new descriptor,  *)
(* or under one that an earlier refused Add has left behind.                 *)
LEMMA ActivateStep ==
  ASSUME TypeOK, KernelInv, NEW w \in Watches, NEW d, d = AddWatchResult(PathOf[w]),
         d # Inactive, watches[d] = NULL,
         AddWatchEffect(PathOf[w], oneshot[w]), watches' = [watches EXCEPT ![d] = w],
         UNCHANGED <<oneshot, buf, colliding, stray>>
  PROVE  KernelInv'
<1>0. /\ PathOf[w] \in Paths /\ w # NULL /\ Resolve[PathOf[w]] # NULL /\ oneshot[w] \in BOOLEAN
      /\ FreshUnused
  BY ConstantsAssumption DEF TypeOK, KernelInv
<1>1. /\ kwatch'[d] = Resolve[PathOf[w]] /\ kone'[d] = oneshot[w]
      /\ \A c \in Wds : c # d => kwatch'[c] = kwatch[c] /\ kone'[c] = kone[c]
      /\ \A c \in Wds : c < nextwd => c < nextwd' /\ kwatch'[c] = kwatch[c]
      /\ \A c \in Wds : c >= nextwd' => c >= nextwd /\ c # d
      /\ UNCHANGED <<kq, dropped>>
  BY <1>0, AddWatchChanges
<1>2. d \in Wds /\ watches'[d] = w /\ \A c \in Wds : c # d => watches'[c] = watches[c]
  BY <1>0, AddWatchResultType DEF TypeOK
<1>3. KernelMatches'
  BY <1>0, <1>1, <1>2 DEF KernelInv, KernelMatches
<1>4. FreshUnused'
  BY <1>1, <1>2 DEF KernelInv, FreshUnused
<1>5. EventsHarmless'
  <2>1. ASSUME NEW c \in Wds, c < nextwd, kwatch'[c] # NULL, c \in OneShots'
        PROVE  c \in OneShots
    <3>1. CASE c = d
      <4>1. kwatch[d] # NULL
        BY <1>1, <2>1, <3>1
      <4>2. d \in stray
        BY <1>2, <4>1 DEF KernelInv, KernelMatches
      <4> QED BY <2>1, <3>1, <4>2 DEF OneShots
    <3>2. CASE c # d
      BY <1>2, <2>1, <3>2 DEF OneShots
    <3> QED BY <3>1, <3>2
  <2>2. /\ AllHarmless(kq, kwatch', OneShots', nextwd')
        /\ AllHarmless(buf, kwatch', OneShots', nextwd')
    BY <1>1, <2>1, HarmlessKept DEF KernelInv, EventsHarmless
  <2> QED BY <1>1, <2>2 DEF EventsHarmless
<1>6. DeadWatchReported'
  BY <1>0, <1>1, <1>2 DEF KernelInv, DeadWatchReported, Pending
<1> QED BY <1>3, <1>4, <1>5, <1>6 DEF KernelInv

(* The first kernel call of an Add that meets another watch: that watch has  *)
(* a foreign mask from now on, and Add remembers whose it is.                *)
LEMMA CollideStep ==
  ASSUME TypeOK, KernelInv, colliding = NULL,
         NEW w \in Watches, NEW d, d = AddWatchResult(PathOf[w]), d # Inactive,
         watches[d] # NULL, AddWatchEffect(PathOf[w], oneshot[w]), colliding' = watches[d],
         UNCHANGED <<watches, oneshot, buf, stray>>
  PROVE  KernelInv'
<1>0. PathOf[w] \in Paths /\ oneshot[w] \in BOOLEAN /\ FreshUnused
  BY ConstantsAssumption DEF TypeOK, KernelInv
<1>1. d \in Wds /\ d < nextwd
  BY <1>0, AddWatchCases
<1>2. /\ \A c \in Wds : c # d => kwatch'[c] = kwatch[c] /\ kone'[c] = kone[c]
      /\ \A c \in Wds : c < nextwd => c < nextwd' /\ kwatch'[c] = kwatch[c]
      /\ \A c \in Wds : c >= nextwd' => c >= nextwd /\ c # d
      /\ UNCHANGED <<kq, dropped>>
  BY <1>0, AddWatchChanges
<1>3. kwatch'[d] = kwatch[d]
  BY <1>1, <1>2
<1>4. KernelMatches'
  BY <1>1, <1>2, <1>3 DEF KernelInv, KernelMatches
<1>5. FreshUnused'
  BY <1>1, <1>2 DEF KernelInv, FreshUnused
<1>6. EventsHarmless'
  <2>1. OneShots' = OneShots
    BY DEF OneShots
  <2>2. /\ AllHarmless(kq, kwatch', OneShots', nextwd')
        /\ AllHarmless(buf, kwatch', OneShots', nextwd')
    BY <1>2, <2>1, HarmlessKept DEF KernelInv, EventsHarmless
  <2> QED BY <1>2, <2>2 DEF EventsHarmless
<1>7. DeadWatchReported'
  BY <1>1, <1>2, <1>3 DEF KernelInv, DeadWatchReported, Pending
<1> QED BY <1>4, <1>5, <1>6, <1>7 DEF KernelInv

(* Its second kernel call: a watch that is still alive gets its own mask     *)
(* back. It fails only when that watch is dead, and what it creates then is  *)
(* the descriptor counted as astray.                                        *)
LEMMA RecoverStep ==
  ASSUME TypeOK, RegistryConsistent, KernelTables, CollisionHeld, KernelInv, AddRecover
  PROVE  KernelInv'
<1> DEFINE old == colliding
           d == AddWatchResult(PathOf[colliding])
<1>0. /\ old \in Watches /\ PathOf[old] \in Paths /\ oneshot[old] \in BOOLEAN /\ FreshUnused
      /\ open /\ Resolve[PathOf[old]] # NULL
  BY ConstantsAssumption DEF AddRecover, CollisionHeld, TypeOK, KernelInv
<1>1. /\ AddWatchEffect(PathOf[old], oneshot[old])
      /\ stray' = IF d \in {Inactive, wd[old]} THEN stray ELSE stray \cup {d}
      /\ colliding' = NULL
      /\ UNCHANGED <<watches, oneshot, buf>>
  BY DEF AddRecover, objVars, regVars
<1>2. wd[old] \in Wds /\ watches[wd[old]] = old /\ \A c \in Wds : watches[c] = old => c = wd[old]
  <2>1. wd[old] # Inactive
    BY <1>0 DEF AddRecover, CollisionHeld
  <2> QED BY <1>0, <2>1, RegistryFacts
<1>3. kwatch[wd[old]] # NULL => d = wd[old]
  <2>1. SUFFICES ASSUME kwatch[wd[old]] # NULL PROVE d = wd[old]
    OBVIOUS
  <2>2. kwatch[wd[old]] = Resolve[PathOf[old]]
    BY <1>0, <1>2, <2>1 DEF KernelInv, KernelMatches, AddRecover
  <2>3. exists[Resolve[PathOf[old]]] /\ \A c \in Wds : kwatch[c] = Resolve[PathOf[old]] => c = wd[old]
    BY <1>2, <2>1, <2>2 DEF KernelTables
  <2> QED BY <1>0, <1>2, <2>2, <2>3 DEF AddWatchResult
<1>4. OneShots' \subseteq OneShots
  BY <1>1 DEF OneShots
<1>5. CASE d = Inactive
  <2>1. kwatch[wd[old]] = NULL
    BY <1>2, <1>3, <1>5 DEF Inactive, Wds
  <2>2. UNCHANGED <<kwatch, kone, kq, dropped, stray>> /\ nextwd' = nextwd
    BY <1>0, <1>1, <1>5 DEF AddWatchEffect, TypeOK, Inactive
  <2>3. KernelMatches'
    BY <1>1, <1>2, <2>1, <2>2 DEF KernelInv, KernelMatches
  <2>4. FreshUnused' /\ DeadWatchReported'
    BY <1>1, <2>2 DEF KernelInv, FreshUnused, DeadWatchReported, Pending
  <2>5. AllHarmless(kq, kwatch, OneShots', nextwd) /\ AllHarmless(buf, kwatch, OneShots', nextwd)
    BY <1>4, HarmlessKept DEF KernelInv, EventsHarmless
  <2> QED BY <1>1, <2>2, <2>3, <2>4, <2>5 DEF KernelInv, EventsHarmless
<1>6. CASE d # Inactive
  <2>0. d \in Wds /\ (d < nextwd \/ watches[d] = NULL)
    BY <1>0, <1>6, AddWatchCases
  <2>1. /\ kwatch'[d] = Resolve[PathOf[old]] /\ kone'[d] = oneshot[old]
        /\ \A c \in Wds : c # d => kwatch'[c] = kwatch[c] /\ kone'[c] = kone[c]
        /\ \A c \in Wds : c < nextwd => c < nextwd' /\ kwatch'[c] = kwatch[c]
        /\ \A c \in Wds : c >= nextwd' => c >= nextwd /\ c # d
        /\ UNCHANGED <<kq, dropped>>
    BY <1>0, <1>1, <1>6, AddWatchChanges
  <2>2. \A c \in Wds : watches[c] # NULL => kwatch'[c] = kwatch[c]
    BY <2>0, <2>1
  <2>3. stray \subseteq stray' /\ (d = wd[old] \/ d \in stray')
    BY <1>1, <1>6
  <2>4. KernelMatches'
    <3>1. SUFFICES ASSUME NEW c \in Wds, kwatch'[c] # NULL
                   PROVE  /\ watches[c] # NULL => kwatch'[c] = Resolve[PathOf[watches[c]]]
                          /\ c \notin stray' => watches[c] # NULL /\ kone'[c] = oneshot[watches[c]]
      BY <1>1 DEF KernelMatches
    <3>2. watches[c] # NULL => kwatch'[c] = Resolve[PathOf[watches[c]]]
      BY <2>2, <3>1 DEF KernelInv, KernelMatches
    <3>3. CASE c = d
      BY <1>2, <2>1, <2>3, <3>2, <3>3, <1>0, ConstantsAssumption
    <3>4. CASE c # d
      <4>1. kwatch[c] # NULL
        BY <2>1, <3>1, <3>4
      <4>2. watches[c] # old
        BY <1>2, <1>3, <3>4, <4>1
      <4> QED BY <2>1, <2>3, <3>2, <3>4, <4>1, <4>2 DEF KernelInv, KernelMatches
    <3> QED BY <3>3, <3>4
  <2>5. FreshUnused'
    BY <1>1, <2>1 DEF KernelInv, FreshUnused
  <2>6. EventsHarmless'
    <3>1. /\ AllHarmless(kq, kwatch', OneShots', nextwd')
          /\ AllHarmless(buf, kwatch', OneShots', nextwd')
      BY <1>4, <2>1, HarmlessKept DEF KernelInv, EventsHarmless
    <3> QED BY <1>1, <2>1, <3>1 DEF EventsHarmless
  <2>7. DeadWatchReported'
    BY <1>1, <2>1, <2>2 DEF KernelInv, DeadWatchReported, Pending
  <2> QED BY <2>4, <2>5, <2>6, <2>7 DEF KernelInv
<1> QED BY <1>5, <1>6

(* The step that removes the watch of descriptor d on both sides.           *)
LEMMA DeactivateStep ==
  ASSUME TypeOK, KernelInv, NEW d \in Wds, kwatch[d] # NULL,
         RmWatchEffect(d), EraseWatch(d), UNCHANGED <<oneshot, buf, colliding, stray>>
  PROVE  KernelInv'
<1> DEFINE ig == [wd |-> d, kind |-> "ignored"]
           kw == [kwatch EXCEPT ![d] = NULL]
<1>1. /\ kwatch' = kw
      /\ kq' = Enqueue(kq, ig)
      /\ UNCHANGED <<kone, nextwd>>
      /\ watches' = [watches EXCEPT ![d] = NULL]
  BY DEF RmWatchEffect, EraseWatch
<1>2. dropped \subseteq dropped'
  BY DEF RmWatchEffect, Ignored
<1>3. kq \in Seq(KernelEvent) /\ ig \in KernelEvent /\ d \in Nat /\ nextwd \in Nat
  <2>1. ig \in KernelEvent
    BY EventType
  <2> QED BY <2>1, ConstantsAssumption DEF TypeOK, Wds
<1>4. d < nextwd
  BY <1>3 DEF KernelInv, FreshUnused
<1>5. KernelMatches'
  BY <1>1 DEF KernelInv, KernelMatches, TypeOK
<1>6. FreshUnused'
  BY <1>1 DEF KernelInv, FreshUnused, TypeOK
<1>7. EventsHarmless'
  <2>0. OneShots' \subseteq OneShots /\ \A c \in Wds : kw[c] # NULL => kwatch[c] # NULL
    BY <1>1 DEF OneShots, TypeOK
  <2> HIDE DEF kw
  <2>1. AllHarmless(kq, kw, OneShots', nextwd) /\ AllHarmless(buf, kw, OneShots', nextwd)
    BY <2>0, HarmlessKept DEF KernelInv, EventsHarmless
  <2>2. Harmless(ig, kw, OneShots', nextwd)
    BY <1>4 DEF Harmless, TypeOK, kw
  <2>3. AllHarmless(Enqueue(kq, ig), kw, OneShots', nextwd)
    BY <2>1, <2>2, <1>3, EnqueueHarmless
  <2> QED BY <1>1, <2>1, <2>3 DEF EventsHarmless
<1>8. DeadWatchReported'
  <2>1. ASSUME NEW c \in Wds, Pending(c) PROVE Pending(c)'
    BY <1>1, <1>3, <2>1, EnqueueElements DEF Pending
  <2> QED BY <1>1, <1>2, <2>1 DEF KernelInv, DeadWatchReported, TypeOK
<1> QED BY <1>5, <1>6, <1>7, <1>8 DEF KernelInv

(* The two events of a watch the kernel ends: they are added to the queue,  *)
(* and the second one, which says so, is found in it unless it overflowed.  *)
LEMMA EndEvents ==
  ASSUME NEW q \in Seq(KernelEvent), NEW d \in Wds, NEW q2,
         q2 = Enqueue(Enqueue(q, [wd |-> d, kind |-> "event"]), [wd |-> d, kind |-> "ignored"])
  PROVE  /\ q2 \in Seq(KernelEvent)
         /\ \A i \in DOMAIN q : i \in DOMAIN q2 /\ q2[i] = q[i]
         /\ Fits(q, 2) => \E i \in DOMAIN q2 : q2[i] = [wd |-> d, kind |-> "ignored"]
<1> DEFINE ev == [wd |-> d, kind |-> "event"]
           ig == [wd |-> d, kind |-> "ignored"]
           q1 == Enqueue(q, ev)
<1>1. ev \in KernelEvent /\ ig \in KernelEvent
  BY EventType
<1>2. q1 \in Seq(KernelEvent) /\ \A i \in DOMAIN q : i \in DOMAIN q1 /\ q1[i] = q[i]
  BY <1>1, EnqueueElements
<1>3. q2 \in Seq(KernelEvent) /\ \A i \in DOMAIN q1 : i \in DOMAIN q2 /\ q2[i] = q1[i]
  BY <1>1, <1>2, EnqueueElements
<1>4. ASSUME Fits(q, 2) PROVE \E i \in DOMAIN q2 : q2[i] = ig
  <2>1. Len(q) \in Nat /\ MaxQueued \in Nat
    BY ConstantsAssumption
  <2>2. Fits(q, 1)
    BY <1>4, <2>1 DEF Fits
  <2>3. Len(q1) = Len(q) + 1
    BY <1>1, <2>2, EnqueueElements
  <2>4. Fits(q1, 1)
    BY <1>4, <2>1, <2>3 DEF Fits
  <2>5. Len(q2) = Len(q1) + 1 /\ q2[Len(q1) + 1] = ig
    BY <1>1, <1>2, <2>4, EnqueueElements
  <2>6. Len(q1) + 1 \in DOMAIN q2
    BY <1>3, <2>1, <2>3, <2>5
  <2> QED BY <2>5, <2>6
<1> QED BY <1>2, <1>3, <1>4

(* The step in which the kernel ends the watch of descriptor d by itself:   *)
(* the object stays, and its IN_IGNORED is on the way unless lost.           *)
LEMMA KernelEndsStep ==
  ASSUME TypeOK, KernelInv, NEW d \in Wds, kwatch[d] # NULL,
         kwatch' = [kwatch EXCEPT ![d] = NULL],
         kq' = Enqueue(Enqueue(kq, [wd |-> d, kind |-> "event"]), [wd |-> d, kind |-> "ignored"]),
         Ignored(d, 2),
         UNCHANGED <<kone, nextwd, watches, oneshot, buf, colliding, stray>>
  PROVE  KernelInv'
<1> DEFINE ev == [wd |-> d, kind |-> "event"]
           ig == [wd |-> d, kind |-> "ignored"]
<1>1. dropped \subseteq dropped' /\ (Fits(kq, 2) \/ d \in dropped')
  BY DEF Ignored
<1>2. kq \in Seq(KernelEvent) /\ d \in Nat /\ nextwd \in Nat
  BY ConstantsAssumption DEF TypeOK, Wds
<1>3. ev \in KernelEvent /\ ig \in KernelEvent
  BY EventType
<1>4. d < nextwd
  BY <1>2 DEF KernelInv, FreshUnused
<1>5. KernelMatches'
  BY DEF KernelInv, KernelMatches, TypeOK
<1>6. FreshUnused'
  BY DEF KernelInv, FreshUnused, TypeOK
<1>7. EventsHarmless'
  <2> DEFINE kw == [kwatch EXCEPT ![d] = NULL]
  <2>0. OneShots' = OneShots /\ \A c \in Wds : kw[c] # NULL => kwatch[c] # NULL
    BY DEF OneShots, TypeOK
  <2>1. AllHarmless(kq, kw, OneShots, nextwd) /\ AllHarmless(buf, kw, OneShots, nextwd)
    <3> HIDE DEF kw
    <3> QED BY <2>0, HarmlessKept DEF KernelInv, EventsHarmless
  <2>2. Harmless(ev, kw, OneShots, nextwd) /\ Harmless(ig, kw, OneShots, nextwd)
    BY <1>4 DEF Harmless, TypeOK
  <2>3. AllHarmless(Enqueue(kq, ev), kw, OneShots, nextwd)
    BY <2>1, <2>2, <1>2, <1>3, EnqueueHarmless
  <2>4. Enqueue(kq, ev) \in Seq(KernelEvent)
    BY <1>2, <1>3, EnqueueType
  <2>5. AllHarmless(Enqueue(Enqueue(kq, ev), ig), kw, OneShots, nextwd)
    BY <2>2, <2>3, <2>4, <1>3, EnqueueHarmless
  <2> QED BY <2>0, <2>1, <2>5 DEF EventsHarmless
<1>8. DeadWatchReported'
  <2>1. \A i \in DOMAIN kq : i \in DOMAIN kq' /\ kq'[i] = kq[i]
    BY <1>2, EndEvents
  <2>2. Fits(kq, 2) => \E i \in DOMAIN kq' : kq'[i] = ig
    BY <1>2, EndEvents
  <2>3. ASSUME NEW c \in Wds, Pending(c) PROVE Pending(c)'
    BY <2>1, <2>3 DEF Pending
  <2>4. Fits(kq, 2) => Pending(d)'
    BY <2>2 DEF Pending
  <2>5. ASSUME NEW c \in Wds, watches'[c] # NULL, kwatch'[c] = NULL
        PROVE  Pending(c)' \/ c \in dropped'
    <3>1. CASE c = d
      BY <3>1, <2>4, <1>1
    <3>2. CASE c # d
      <4>1. watches[c] # NULL /\ kwatch[c] = NULL
        BY <2>5, <3>2 DEF TypeOK
      <4>2. Pending(c) \/ c \in dropped
        BY <4>1 DEF KernelInv, DeadWatchReported
      <4> QED BY <4>2, <2>3, <1>1
    <3> QED BY <3>1, <3>2
  <2> QED BY <2>5 DEF DeadWatchReported
<1> QED BY <1>5, <1>6, <1>7, <1>8 DEF KernelInv

(* A step that leaves the kernel side, the map by descriptor and the masks  *)
(* of the objects in it alone.                                              *)
LEMMA KernelUntouched ==
  ASSUME TypeOK, KernelInv,
         UNCHANGED <<kwatch, kone, nextwd, watches, kq, buf, dropped, colliding, stray>>,
         \A d \in Wds : watches[d] # NULL => oneshot'[watches[d]] = oneshot[watches[d]]
  PROVE  KernelInv'
<1>1. KernelMatches' /\ FreshUnused'
  BY DEF KernelInv, KernelMatches, FreshUnused
<1>2. OneShots' = OneShots
  BY DEF OneShots
<1>3. EventsHarmless' /\ DeadWatchReported'
  BY <1>2 DEF KernelInv, EventsHarmless, DeadWatchReported, Pending
<1> QED BY <1>1, <1>3 DEF KernelInv

(* read() moves the front of the kernel's queue into the buffer.            *)
LEMMA ReadStep ==
  ASSUME TypeOK, KernelInv, NEW n, ReadEvents(n)
  PROVE  KernelInv'
<1>1. /\ buf = <<>> /\ n \in 1..Len(kq)
      /\ buf' = SubSeq(kq, 1, n) /\ kq' = SubSeq(kq, n + 1, Len(kq))
      /\ UNCHANGED <<kwatch, kone, nextwd, watches, oneshot, dropped, colliding, stray>>
  BY DEF ReadEvents, Idle, objVars, regVars, addVars
<1>2. Len(kq) \in Nat /\ DOMAIN kq = 1..Len(kq) /\ n \in Nat /\ n <= Len(kq)
  BY <1>1 DEF TypeOK
<1>3. DOMAIN buf' = 1..n /\ \A i \in 1..n : buf'[i] = kq[i]
  BY <1>1, <1>2 DEF TypeOK
<1>4. DOMAIN kq' = 1..(Len(kq) - n) /\ \A i \in 1..(Len(kq) - n) : kq'[i] = kq[n + i]
  BY <1>1, <1>2 DEF TypeOK
<1>5. KernelMatches' /\ FreshUnused'
  BY <1>1 DEF KernelInv, KernelMatches, FreshUnused
<1>6. EventsHarmless'
  <2>1. \A i \in 1..Len(kq) : Harmless(kq[i], kwatch, OneShots, nextwd)
    BY <1>2 DEF KernelInv, EventsHarmless, AllHarmless
  <2>2. \A i \in 1..n : i \in 1..Len(kq)
    BY <1>2
  <2>3. \A i \in 1..(Len(kq) - n) : n + i \in 1..Len(kq)
    BY <1>2
  <2>4. AllHarmless(buf', kwatch, OneShots, nextwd)
    BY <1>3, <2>1, <2>2 DEF AllHarmless
  <2>5. AllHarmless(kq', kwatch, OneShots, nextwd)
    BY <1>4, <2>1, <2>3 DEF AllHarmless
  <2>6. OneShots' = OneShots
    BY <1>1 DEF OneShots
  <2> QED BY <1>1, <2>4, <2>5, <2>6 DEF EventsHarmless
<1>7. DeadWatchReported'
  <2>1. ASSUME NEW c \in Wds, Pending(c) PROVE Pending(c)'
    <3>1. PICK i \in 1..Len(kq) : kq[i] = [wd |-> c, kind |-> "ignored"]
      BY <1>1, <1>2, <2>1 DEF Pending
    <3>2. CASE i <= n
      <4>1. i \in 1..n
        BY <1>2, <3>2
      <4> QED BY <1>3, <3>1, <4>1 DEF Pending
    <3>3. CASE i > n
      <4>1. i - n \in 1..(Len(kq) - n) /\ n + (i - n) = i
        BY <1>2, <3>3
      <4> QED BY <1>4, <3>1, <4>1 DEF Pending
    <3> QED BY <1>2, <3>2, <3>3
  <2> QED BY <1>1, <2>1 DEF KernelInv, DeadWatchReported
<1> QED BY <1>5, <1>6, <1>7 DEF KernelInv

(* What WaitForEvents finds for the event it works on: the object of the    *)
(* descriptor is enabled, and if the event ends it the kernel watch is gone   *)
(* or astray.                                                               *)
LEMMA ProcessFacts ==
  ASSUME TypeOK, RegistryConsistent, KernelInv, buf # <<>>,
         NEW e, e = buf[1], NEW w, w = FindWatchByWd(e.wd), w # NULL
  PROVE  /\ e \in KernelEvent /\ e.wd \in Wds /\ w \in Watches
         /\ watches[e.wd] = w /\ wd[w] = e.wd /\ enabled[w]
         /\ EndsWatch(w, e) => kwatch[e.wd] = NULL \/ e.wd \in stray
         /\ e.kind \in {"event", "ignored"}
<1>1. 1 \in DOMAIN buf /\ e \in KernelEvent
  BY DEF TypeOK
<1>2. e.wd \in Wds /\ watches[e.wd] = w /\ w \in Watches
  BY DEF FindWatchByWd, TypeOK
<1>3. wd[w] = e.wd /\ enabled[w]
  BY <1>2 DEF RegistryConsistent
<1>4. Harmless(e, kwatch, OneShots, nextwd)
  BY <1>1 DEF KernelInv, EventsHarmless, AllHarmless
<1>5. EndsWatch(w, e) => kwatch[e.wd] = NULL \/ e.wd \in stray
  BY <1>2, <1>4 DEF Harmless, EndsWatch, OneShots
<1>6. e.kind \in {"event", "ignored"}
  BY <1>1, <1>2 DEF KernelEvent, Overflow, Wds
<1> QED BY <1>1, <1>2, <1>3, <1>5, <1>6

(* One turn of the loop of WaitForEvents.                                   *)
LEMMA ProcessStep ==
  ASSUME TypeOK, RegistryConsistent, KernelInv, ProcessEvent
  PROVE  KernelInv'
<1> DEFINE e == buf[1]
           w == FindWatchByWd(e.wd)
           ends == w # NULL /\ EndsWatch(w, e)
<1>0. buf # <<>> /\ UNCHANGED <<oneshot, kwatch, kone, nextwd, kq, dropped, colliding, stray>>
  BY DEF ProcessEvent, kernVars, addVars
<1>1. /\ buf' = Tail(buf)
      /\ IF ends THEN watches' = [watches EXCEPT ![wd[w]] = NULL] ELSE watches' = watches
  BY <1>0, ProcessFacts DEF ProcessEvent, EraseWatch
<1>2. ends => /\ e.wd \in Wds /\ w \in Watches /\ wd[w] = e.wd /\ watches[e.wd] = w
              /\ kwatch[e.wd] = NULL \/ e.wd \in stray
  BY <1>0, ProcessFacts
<1>3. /\ \A d \in Wds : watches'[d] # NULL => watches'[d] = watches[d]
      /\ \A d \in Wds : watches[d] # NULL /\ kwatch[d] # NULL /\ d \notin stray
                       => watches'[d] = watches[d]
      /\ \A d \in Wds : ends /\ d = e.wd => watches'[d] = NULL
  BY <1>1, <1>2 DEF TypeOK
<1>4. DOMAIN buf = 1..Len(buf) /\ Len(buf) \in Nat /\ Len(buf) > 0
  BY <1>0 DEF TypeOK
<1>5. DOMAIN buf' = 1..(Len(buf) - 1) /\ \A i \in 1..(Len(buf) - 1) : buf'[i] = buf[i + 1]
  BY <1>0, <1>1, <1>4 DEF TypeOK
<1>6. KernelMatches'
  BY <1>0, <1>3 DEF KernelInv, KernelMatches
<1>7. FreshUnused'
  BY <1>0, <1>3 DEF KernelInv, FreshUnused
<1>8. EventsHarmless'
  <2>1. \A i \in 1..(Len(buf) - 1) : i + 1 \in DOMAIN buf
    BY <1>4
  <2>0. OneShots' \subseteq OneShots
    BY <1>0, <1>3 DEF OneShots
  <2>3. AllHarmless(kq, kwatch, OneShots', nextwd) /\ AllHarmless(buf, kwatch, OneShots', nextwd)
    BY <2>0, HarmlessKept DEF KernelInv, EventsHarmless
  <2>2. AllHarmless(buf', kwatch, OneShots', nextwd)
    BY <1>5, <2>1, <2>3 DEF AllHarmless
  <2> QED BY <1>0, <2>2, <2>3 DEF EventsHarmless
<1>9. DeadWatchReported'
  <2>1. ASSUME NEW c \in Wds, watches'[c] # NULL, kwatch'[c] = NULL, Pending(c)
        PROVE  Pending(c)'
    <3>1. CASE \E i \in DOMAIN kq : kq[i] = [wd |-> c, kind |-> "ignored"]
      BY <1>0, <3>1 DEF Pending
    <3>2. ASSUME NEW i \in DOMAIN buf, buf[i] = [wd |-> c, kind |-> "ignored"]
          PROVE  Pending(c)'
      <4>1. i # 1
        <5>1. SUFFICES ASSUME i = 1 PROVE FALSE
          OBVIOUS
        <5>2. e = [wd |-> c, kind |-> "ignored"]
          BY <3>2, <5>1
        <5>3. e.wd = c /\ e.kind = "ignored"
          BY <5>2
        <5>4. watches[c] # NULL
          BY <1>3, <2>1
        <5>5. ends
          BY <5>3, <5>4 DEF FindWatchByWd, EndsWatch
        <5> QED BY <1>3, <2>1, <5>3, <5>5
      <4>2. i - 1 \in 1..(Len(buf) - 1) /\ (i - 1) + 1 = i
        BY <1>4, <4>1
      <4> QED BY <1>5, <3>2, <4>2 DEF Pending
    <3> QED BY <2>1, <3>1, <3>2 DEF Pending
  <2>2. ASSUME NEW c \in Wds, watches'[c] # NULL, kwatch'[c] = NULL PROVE Pending(c)' \/ c \in dropped'
    <3>1. Pending(c) \/ c \in dropped
      BY <1>0, <1>3, <2>2 DEF KernelInv, DeadWatchReported
    <3> QED BY <1>0, <2>1, <2>2, <3>1
  <2> QED BY <2>2 DEF DeadWatchReported
<1> QED BY <1>6, <1>7, <1>8, <1>9 DEF KernelInv

(* An event of a watch that goes on.                                        *)
LEMMA EventStep ==
  ASSUME TypeOK, KernelInv, NEW d \in Wds, kwatch[d] # NULL, ~kone[d],
         kq' = Enqueue(kq, [wd |-> d, kind |-> "event"]),
         stray' = IF Misread(d) THEN stray \cup {d} ELSE stray,
         UNCHANGED <<kwatch, kone, nextwd, watches, oneshot, buf, colliding, dropped>>
  PROVE  KernelInv'
<1> DEFINE ev == [wd |-> d, kind |-> "event"]
<1>1. stray \subseteq stray' /\ OneShots' \subseteq OneShots
  BY DEF OneShots
<1>8. d \notin OneShots'
  BY DEF OneShots, Misread, KernelInv, KernelMatches
<1>2. kq \in Seq(KernelEvent) /\ d \in Nat /\ nextwd \in Nat
  BY ConstantsAssumption DEF TypeOK, Wds
<1>3. ev \in KernelEvent
  BY EventType
<1>4. d < nextwd
  BY <1>2 DEF KernelInv, FreshUnused
<1>5. KernelMatches' /\ FreshUnused'
  BY <1>1 DEF KernelInv, KernelMatches, FreshUnused
<1>6. EventsHarmless'
  <2>1. Harmless(ev, kwatch, OneShots', nextwd)
    BY <1>4, <1>8 DEF Harmless
  <2>2. AllHarmless(kq, kwatch, OneShots', nextwd) /\ AllHarmless(buf, kwatch, OneShots', nextwd)
    BY <1>1, HarmlessKept DEF KernelInv, EventsHarmless
  <2>3. AllHarmless(Enqueue(kq, ev), kwatch, OneShots', nextwd)
    BY <1>2, <1>3, <2>1, <2>2, EnqueueHarmless
  <2> QED BY <2>2, <2>3 DEF EventsHarmless
<1>7. DeadWatchReported'
  <2>1. \A i \in DOMAIN kq : i \in DOMAIN kq' /\ kq'[i] = kq[i]
    BY <1>2, <1>3, EnqueueElements
  <2>2. ASSUME NEW c \in Wds, Pending(c) PROVE Pending(c)'
    BY <2>1, <2>2 DEF Pending
  <2> QED BY <2>2 DEF KernelInv, DeadWatchReported
<1> QED BY <1>5, <1>6, <1>7 DEF KernelInv

(* Every step of a careful caller, of WaitForEvents and of the file system  *)
(* keeps the wrapper and the kernel in agreement.                            *)
LEMMA KernelStep ==
  ASSUME Careful
  PROVE  KernelBase /\ KernelInv /\ [Next]_vars => KernelInv'
<1> SUFFICES ASSUME TypeOK, RegistryConsistent, KernelTables, CollisionHeld, KernelInv, [Next]_vars
             PROVE  KernelInv'
  BY DEF KernelBase
<1>0. ASSUME UNCHANGED <<kwatch, kone, nextwd, watches, kq, buf, dropped, oneshot, colliding, stray>>
      PROVE  KernelInv'
  BY <1>0, KernelUntouched
<1>1. ASSUME NEW w \in Watches, Add(w) PROVE KernelInv'
  <2> DEFINE d == AddWatchResult(PathOf[w])
             old == FindWatchByWd(d)
  <2>1. PathOf[w] \in Paths /\ paths[PathOf[w]] = NULL /\ w # NULL
        /\ colliding = NULL /\ UNCHANGED <<oneshot, buf, stray>>
    BY <1>1, ConstantsAssumption DEF Add, FindWatchByPath, Idle
  <2>3. CASE ~enabled[w]
    BY <1>0, <1>1, <2>1, <2>3 DEF Add, kernVars
  <2>4. CASE enabled[w] /\ d # Inactive /\ old = NULL
    <3>1. watches[d] = NULL
      BY <2>1, <2>4, AddWatchResultType DEF FindWatchByWd
    <3>2. /\ AddWatchEffect(PathOf[w], oneshot[w]) /\ watches' = [watches EXCEPT ![d] = w]
          /\ UNCHANGED colliding
      BY <1>1, <2>4 DEF Add
    <3> QED BY <2>1, <2>4, <3>1, <3>2, ActivateStep
  <2>5. CASE enabled[w] /\ d # Inactive /\ old # NULL
    <3>1. AddWatchEffect(PathOf[w], oneshot[w]) /\ colliding' = old /\ UNCHANGED watches
      BY <1>1, <2>5 DEF Add
    <3>2. watches[d] = old
      BY <2>1, <2>5, AddWatchResultType DEF FindWatchByWd
    <3> QED BY <2>1, <2>5, <3>1, <3>2, CollideStep
  <2> QED BY <1>1, <2>3, <2>4, <2>5 DEF Add
<1>14. CASE AddRecover
  BY <1>14, RecoverStep
<1>2. ASSUME NEW w \in Watches, Remove(w) PROVE KernelInv'
  <2>1. UNCHANGED <<oneshot, buf, colliding, stray>>
    BY <1>2 DEF Remove, addVars
  <2>2. CASE wd[w] # Inactive
    BY <1>2, <2>1, <2>2, DeactivateStep DEF Remove, RmWatchOk
  <2>3. CASE wd[w] = Inactive
    BY <1>0, <1>2, <2>1, <2>3 DEF Remove, kernVars
  <2> QED BY <2>2, <2>3
<1>3. ASSUME NEW w \in Watches, SetEnabled(w) PROVE KernelInv'
  <2> DEFINE d == AddWatchResult(PathOf[w])
  <2>1. UNCHANGED <<oneshot, buf, colliding, stray>> /\ PathOf[w] \in Paths
    BY <1>3, ConstantsAssumption DEF SetEnabled, addVars
  <2>2. CASE SetEnabledTrue(w)
    <3>2. CASE d = Inactive
      BY <1>0, <2>1, <2>2, <3>2 DEF SetEnabledTrue, kernVars
    <3>3. CASE d # Inactive
      <4>1. watches[d] = NULL
        BY <2>2, <3>3 DEF SetEnabledTrue, Careful, Disciplined
      <4>2. AddWatchEffect(PathOf[w], oneshot[w]) /\ watches' = [watches EXCEPT ![d] = w]
        BY <2>2, <3>3, <4>1 DEF SetEnabledTrue
      <4> QED BY <2>1, <3>3, <4>1, <4>2, ActivateStep
    <3> QED BY <3>2, <3>3
  <2>3. CASE SetEnabledFalse(w)
    BY <2>1, <2>3, DeactivateStep DEF SetEnabledFalse, RmWatchOk
  <2>4. CASE SetEnabledUnowned(w)
    BY <1>0, <2>1, <2>4 DEF SetEnabledUnowned, kernVars
  <2> QED BY <1>3, <2>2, <2>3, <2>4 DEF SetEnabled
<1>4. ASSUME NEW w \in Watches, NEW one \in BOOLEAN, SetMask(w, one) PROVE KernelInv'
  <2>1. /\ wd[w] = Inactive
        /\ oneshot' = [oneshot EXCEPT ![w] = one]
        /\ UNCHANGED <<kwatch, kone, nextwd, watches, kq, buf, dropped, colliding, stray>>
    BY <1>4 DEF SetMask, Careful, kernVars, regVars, addVars
  <2>2. ASSUME NEW d \in Wds, watches[d] # NULL PROVE oneshot'[watches[d]] = oneshot[watches[d]]
    <3>1. watches[d] # w
      BY <2>1, <2>2 DEF RegistryConsistent, Inactive, Wds
    <3> QED BY <2>1, <2>2, <3>1 DEF TypeOK
  <2> QED BY <2>1, <2>2, KernelUntouched
<1>5. CASE Close
  <2>1. /\ watches' = [d \in Wds |-> NULL] /\ kwatch' = [d \in Wds |-> NULL]
        /\ kq' = <<>> /\ buf = <<>> /\ UNCHANGED buf
    BY <1>5 DEF Close, Idle
  <2>2. KernelMatches' /\ FreshUnused' /\ DeadWatchReported'
    BY <2>1 DEF KernelMatches, FreshUnused, DeadWatchReported
  <2>3. EventsHarmless'
    BY <2>1 DEF EventsHarmless, AllHarmless
  <2> QED BY <2>2, <2>3 DEF KernelInv
<1>6. ASSUME NEW n \in 1..(MaxQueued + 1), ReadEvents(n) PROVE KernelInv'
  BY <1>6, ReadStep
<1>7. CASE ProcessEvent
  BY <1>7, ProcessStep
<1>8. CASE GetEvent
  BY <1>0, <1>8 DEF GetEvent, objVars, regVars, kernVars, addVars
<1>9. ASSUME NEW n \in Names, FsEvent(n) PROVE KernelInv'
  <2>1. PICK d \in WatchersOf(n) :
          LET e == Enqueue(kq, [wd |-> d, kind |-> "event"]) IN
          IF kone[d]
          THEN /\ kwatch' = [kwatch EXCEPT ![d] = NULL]
               /\ kq' = Enqueue(e, [wd |-> d, kind |-> "ignored"])
               /\ Ignored(d, 2)
               /\ UNCHANGED stray
          ELSE /\ kq' = e
               /\ stray' = IF Misread(d) THEN stray \cup {d} ELSE stray
               /\ UNCHANGED <<kwatch, dropped>>
    BY <1>9, Zenon DEF FsEvent
  <2>2. d \in Wds /\ kwatch[d] # NULL
    BY ConstantsAssumption DEF WatchersOf
  <2>3. UNCHANGED <<kone, nextwd, watches, oneshot, buf, colliding>>
    BY <1>9 DEF FsEvent, objVars
  <2>4. CASE kone[d]
    BY <2>1, <2>2, <2>3, <2>4, KernelEndsStep, Zenon
  <2>5. CASE ~kone[d]
    BY <2>1, <2>2, <2>3, <2>5, EventStep, Zenon
  <2> QED BY <2>4, <2>5
<1>10. ASSUME NEW n \in Names, FsDelete(n) PROVE KernelInv'
  <2>1. UNCHANGED <<kone, nextwd, watches, oneshot, buf, colliding, stray>>
    BY <1>10 DEF FsDelete, objVars, addVars
  <2>2. CASE WatchersOf(n) = {}
    BY <1>0, <1>10, <2>1, <2>2 DEF FsDelete
  <2>3. ASSUME NEW d \in WatchersOf(n),
               kwatch' = [kwatch EXCEPT ![d] = NULL],
               kq' = Enqueue(Enqueue(kq, [wd |-> d, kind |-> "event"]),
                             [wd |-> d, kind |-> "ignored"]),
               Ignored(d, 2)
        PROVE  KernelInv'
    <3>1. d \in Wds /\ kwatch[d] # NULL
      BY ConstantsAssumption DEF WatchersOf
    <3> QED BY <2>1, <2>3, <3>1, KernelEndsStep, Zenon
  <2> QED BY <1>10, <2>2, <2>3, Zenon DEF FsDelete
<1>11. ASSUME NEW n \in Names, FsCreate(n) PROVE KernelInv'
  BY <1>0, <1>11 DEF FsCreate, objVars, addVars
<1>12. CASE UNCHANGED vars
  BY <1>0, <1>12 DEF vars
<1> QED BY <1>1, <1>2, <1>3, <1>4, <1>5, <1>6, <1>7, <1>8, <1>9, <1>10, <1>11, <1>12, <1>14 DEF Next

-----------------------------------------------------------------------------
(* The parts together, in every reachable state of a careful caller.         *)
THEOREM KernelAgrees == Careful => (Spec => [](KernelBase /\ KernelInv))
<1> SUFFICES ASSUME Careful PROVE Spec => [](KernelBase /\ KernelInv)
  OBVIOUS
<1>1. Disciplined
  BY DEF Careful
<1>2. Init => KernelInv
  <2> SUFFICES ASSUME Init PROVE KernelInv
    OBVIOUS
  <2>1. KernelMatches /\ FreshUnused /\ DeadWatchReported
    BY DEF Init, KernelMatches, FreshUnused, DeadWatchReported
  <2>2. EventsHarmless
    BY DEF Init, EventsHarmless, AllHarmless
  <2> QED BY <2>1, <2>2 DEF KernelInv
<1>3. Spec => []RegistryConsistent
  BY <1>1, RegistryAlwaysConsistent
<1>4. KernelBase /\ KernelInv /\ [Next]_vars => KernelInv'
  BY KernelStep
<1>5. Init => KernelTables /\ CollisionHeld
  BY DEF Init, KernelTables, CollisionHeld
<1> QED BY <1>2, <1>3, <1>4, <1>5, TablesStep, HeldStep, TypeCorrect, PTL DEF Spec, KernelBase

(* Whatever is added, removed, disabled, deleted or created, in whatever     *)
(* order the events arrive, the kernel never watches a file for a descriptor *)
(* that Inotify has forgotten, but for what a refused Add left astray when   *)
(* the file system moved between its two kernel calls.                      *)
THEOREM NoOrphanAlways == Careful => (Spec => []NoOrphanKernelWatch)
<1>1. KernelInv => NoOrphanKernelWatch
  BY DEF KernelInv, KernelMatches, NoOrphanKernelWatch
<1> QED BY <1>1, KernelAgrees, PTL

(* A watch object whose kernel watch is gone has its IN_IGNORED on the way,  *)
(* in the kernel's queue or in the buffer of WaitForEvents, unless the       *)
(* overflow of the queue swallowed that very IN_IGNORED.                     *)
THEOREM DeadWatchAlwaysReported == Careful => (Spec => []DeadWatchReported)
<1>1. KernelInv => DeadWatchReported
  BY DEF KernelInv
<1> QED BY <1>1, KernelAgrees, PTL

(* No event of an earlier registration, however late it is read, makes       *)
(* WaitForEvents disable a watch that is alive in the kernel; only an event  *)
(* raised between the two kernel calls of a refused Add can.                 *)
THEOREM OnlyDeadDisabled == Careful => (Spec => DisableOnlyDead)
<1>1. ASSUME TypeOK, RegistryConsistent, KernelInv, [Next]_vars
      PROVE  [\A w \in Watches :
                (ProcessEvent /\ wd[w] # Inactive /\ wd'[w] = Inactive) 
                  => kwatch[wd[w]] = NULL \/ wd[w] \in stray]_vars
  <2> SUFFICES ASSUME NEW w \in Watches, ProcessEvent, wd[w] # Inactive, wd'[w] = Inactive
               PROVE  kwatch[wd[w]] = NULL \/ wd[w] \in stray
    OBVIOUS
  <2> DEFINE e == buf[1]
             v == FindWatchByWd(e.wd)
  <2>1. v # NULL /\ EndsWatch(v, e) /\ wd' = [wd EXCEPT ![v] = Inactive] /\ buf # <<>>
    BY DEF ProcessEvent
  <2>2. v \in Watches /\ wd[v] = e.wd /\ (kwatch[e.wd] = NULL \/ e.wd \in stray)
    BY <1>1, <2>1, ProcessFacts
  <2>3. w = v
    BY <1>1, <2>1, <2>2 DEF TypeOK
  <2> QED BY <2>2, <2>3
<1> QED BY <1>1, KernelAgrees, PTL DEF Spec, DisableOnlyDead, KernelBase
=============================================================================
