------------------------------ MODULE Inotify ------------------------------
(***************************************************************************)
(* The inotify wrapper of synciga (src/main/inotify-cxx.{h,cc}): the class *)
(* Inotify, its two maps m_watches (descriptor -> watch) and m_paths (path *)
(* -> watch), the InotifyWatch objects they point to, and the kernel side  *)
(* that allocates descriptors and queues events.                           *)
(*                                                                         *)
(* One process calls the wrapper; file-system activity happens at any time *)
(* and the kernel reports it asynchronously, so an event may describe a    *)
(* watch that the caller has meanwhile removed, disabled or re-added.      *)
(***************************************************************************)
EXTENDS Integers, Sequences, FiniteSets

CONSTANTS
  Watches,      \* InotifyWatch objects
  Paths,        \* path strings
  PathOf,       \* [Watches -> Paths], m_path of every watch
  Names,        \* directory entries the paths resolve to
  Resolve,      \* [Paths -> Names]; two paths may name the same file
  MaxWd,        \* bound: descriptors the kernel can hand out (ENOSPC beyond)
  MaxQueued,    \* max_queued_events of the kernel queue
  MaxEvents,    \* bound: events the caller leaves in m_events
  Habits,       \* which unusual calls the caller makes, see HabitNames
  NULL          \* model value: the null pointer, no watch, no file

HabitNames == {"remove_absent",  \* Remove(w) although w was never added
               "remask",         \* SetMask on an active watch
               "enable_fresh",   \* SetEnabled on a watch never added
               "enable_alias"}   \* SetEnabled(true) on a registered watch
                                 \* whose file another watch is watching

ASSUME ConstantsAssumption ==
  /\ PathOf \in [Watches -> Paths]
  /\ Resolve \in [Paths -> Names]
  /\ MaxWd \in Nat \ {0}
  /\ MaxQueued \in Nat \ {0}
  /\ MaxEvents \in Nat \ {0}
  /\ Habits \subseteq HabitNames
  /\ NULL \notin Watches \cup Names
  /\ \A w \in Watches : w # "this" /\ w # "wild"
  /\ NULL # "this" /\ NULL # "wild"

VARIABLES
  \* class Inotify
  open,         \* m_fd # -1
  watches,      \* m_watches
  paths,        \* m_paths
  events,       \* m_events
  buf,          \* the part of m_buf WaitForEvents has not processed yet
  colliding,    \* pW of an Add between its two kernel calls, else NULL
  \* class InotifyWatch
  wd,           \* m_wd, -1 when inactive
  enabled,      \* m_fEnabled
  oneshot,      \* m_uMask contains IN_ONESHOT
  owner,        \* m_pInotify: NULL, "this" or "wild" (never initialised)
  \* the kernel and the file system
  exists,       \* which names exist
  kwatch,       \* what each descriptor watches, NULL when not allocated
  kone,         \* the kernel mask of a descriptor contains IN_ONESHOT
  nextwd,       \* next fresh descriptor
  kq,           \* the kernel's event queue
  \* observation
  dropped,      \* descriptors whose IN_IGNORED was lost to a queue overflow
  stray,        \* descriptors a refused Add made the kernel and the objects
                \* disagree about, see Misread and AddRecover
  wildUse       \* a wild m_pInotify was dereferenced

objVars  == <<wd, enabled, oneshot, owner>>
regVars  == <<open, watches, paths>>
kernVars == <<exists, kwatch, kone, nextwd, kq, dropped>>
addVars  == <<colliding, stray>>
vars == <<open, watches, paths, events, buf, colliding, wd, enabled, oneshot,
          owner, exists, kwatch, kone, nextwd, kq, dropped, stray, wildUse>>

Wds == 1..MaxWd

Inactive == -1   \* the descriptor of an inactive watch
Overflow == [wd |-> -1, kind |-> "overflow"]
KernelEvent == [wd : Wds, kind : {"event", "ignored"}] \cup {Overflow}
-----------------------------------------------------------------------------
(* The kernel.                                                             *)

\* inotify_add_watch: the descriptor already watching the file, else a fresh
\* one, or -1 (EBADF, ENOENT, ENOSPC).
AddWatchResult(p) ==
  LET n == Resolve[p] IN
  IF ~open \/ ~exists[n] THEN Inactive
  ELSE IF \E d \in Wds : kwatch[d] = n
       THEN CHOOSE d \in Wds : kwatch[d] = n
       ELSE IF nextwd \in Wds THEN nextwd ELSE Inactive

\* Its effect: the (new or old) kernel watch gets the given mask.
AddWatchEffect(p, one) ==
  LET d == AddWatchResult(p) IN
  /\ kwatch' = IF d = Inactive THEN kwatch ELSE [kwatch EXCEPT ![d] = Resolve[p]]
  /\ kone' = IF d = Inactive THEN kone ELSE [kone EXCEPT ![d] = one]
  /\ nextwd' = IF d = nextwd THEN nextwd + 1 ELSE nextwd
  /\ UNCHANGED <<exists, kq, dropped>>

\* Queue an event; a full queue takes one overflow marker and loses the rest.
Enqueue(q, e) ==
  IF Len(q) < MaxQueued THEN Append(q, e)
  ELSE IF q[Len(q)] = Overflow THEN q ELSE Append(q, Overflow)

Fits(q, n) == Len(q) + n <= MaxQueued

\* The IN_IGNORED of d is queued as the n-th event from now on, or lost.
Ignored(d, n) == dropped' = IF Fits(kq, n) THEN dropped ELSE dropped \cup {d}

\* inotify_rm_watch succeeds on an allocated descriptor and queues IN_IGNORED.
RmWatchOk(d) == d \in Wds /\ kwatch[d] # NULL

RmWatchEffect(d) ==
  /\ kwatch' = [kwatch EXCEPT ![d] = NULL]
  /\ kq' = Enqueue(kq, [wd |-> d, kind |-> "ignored"])
  /\ Ignored(d, 1)
  /\ UNCHANGED <<exists, kone, nextwd>>

\* The descriptors watching a name: at most one, as AddWatchResult reuses it.
WatchersOf(n) == {d \in Wds : kwatch[d] = n}

\* While Add is between its two kernel calls the watch it collided with has the
\* mask of the refused one: d goes on after an event although the object, which
\* asked for one event only, will take it for the end of its watch.
Misread(d) == watches[d] # NULL /\ watches[d] = colliding /\ oneshot[colliding]

\* Something happens to a watched file. A one-shot watch is removed by the
\* kernel with its first event.
FsEvent(n) ==
  /\ exists[n]
  /\ \E d \in WatchersOf(n) :
       LET e == Enqueue(kq, [wd |-> d, kind |-> "event"]) IN
       IF kone[d]
       THEN /\ kwatch' = [kwatch EXCEPT ![d] = NULL]
            /\ kq' = Enqueue(e, [wd |-> d, kind |-> "ignored"])
            /\ Ignored(d, 2)
            /\ UNCHANGED stray
       ELSE /\ kq' = e
            /\ stray' = IF Misread(d) THEN stray \cup {d} ELSE stray
            /\ UNCHANGED <<kwatch, dropped>>
  /\ UNCHANGED <<exists, kone, nextwd, colliding>>
  /\ UNCHANGED <<open, watches, paths, events, buf, wildUse>> /\ UNCHANGED objVars

\* The file is deleted: IN_DELETE_SELF, then the watch goes with IN_IGNORED.
FsDelete(n) ==
  /\ exists[n]
  /\ exists' = [exists EXCEPT ![n] = FALSE]
  /\ IF WatchersOf(n) = {}
     THEN UNCHANGED <<kwatch, kq, dropped>>
     ELSE \E d \in WatchersOf(n) :
            /\ kwatch' = [kwatch EXCEPT ![d] = NULL]
            /\ kq' = Enqueue(Enqueue(kq, [wd |-> d, kind |-> "event"]),
                             [wd |-> d, kind |-> "ignored"])
            /\ Ignored(d, 2)
  /\ UNCHANGED <<kone, nextwd>> /\ UNCHANGED addVars
  /\ UNCHANGED <<open, watches, paths, events, buf, wildUse>> /\ UNCHANGED objVars

FsCreate(n) ==
  /\ ~exists[n]
  /\ exists' = [exists EXCEPT ![n] = TRUE]
  /\ UNCHANGED <<kwatch, kone, nextwd, kq, dropped>> /\ UNCHANGED addVars
  /\ UNCHANGED <<open, watches, paths, events, buf, wildUse>> /\ UNCHANGED objVars
-----------------------------------------------------------------------------
(* Inotify::FindWatch, by descriptor and by path.                          *)

FindWatchByWd(d) == IF d \in Wds THEN watches[d] ELSE NULL
FindWatchByPath(p) == paths[p]

\* The caller is not inside WaitForEvents or Add and has not crashed.
Idle == buf = <<>> /\ colliding = NULL /\ ~wildUse

\* m_watches.erase(m_wd)
KeepEntry(d) == UNCHANGED watches
EraseWatch(d) == watches' = [watches EXCEPT ![d] = NULL]

Add(w) ==
  LET p == PathOf[w]
      d == AddWatchResult(p)
      old == FindWatchByWd(d)
  IN
  /\ Idle
  /\ open
  /\ FindWatchByPath(p) = NULL
  /\ \/ \* a disabled watch is only registered
        /\ ~enabled[w]
        /\ paths' = [paths EXCEPT ![p] = w]
        /\ owner' = [owner EXCEPT ![w] = "this"]
        /\ UNCHANGED <<watches, wd, colliding>> /\ UNCHANGED kernVars
     \/ \* the kernel accepts the new watch
        /\ enabled[w] /\ d # Inactive /\ old = NULL
        /\ AddWatchEffect(p, oneshot[w])
        /\ wd' = [wd EXCEPT ![w] = d]
        /\ watches' = [watches EXCEPT ![d] = w]
        /\ paths' = [paths EXCEPT ![p] = w]
        /\ owner' = [owner EXCEPT ![w] = "this"]
        /\ UNCHANGED colliding
     \/ \* same file under another path: its watch now has the mask of w
        /\ enabled[w] /\ d # Inactive /\ old # NULL
        /\ AddWatchEffect(p, oneshot[w])
        /\ colliding' = old
        /\ UNCHANGED <<watches, wd, paths, owner>>
  /\ UNCHANGED <<open, events, buf, enabled, oneshot, stray, wildUse>>

\* Mutant: Add throws without setting the mask back.
ThrowAtOnce ==
  /\ colliding # NULL
  /\ colliding' = NULL
  /\ UNCHANGED <<events, buf, wildUse, stray>> /\ UNCHANGED kernVars
  /\ UNCHANGED objVars /\ UNCHANGED regVars

\* The second kernel call of an Add that met another watch: it asks for the
\* path and the mask of that watch again and throws, whether the call succeeds
\* or not. What the kernel watches by then may be gone, and the call then fails
\* or creates a descriptor that is not in m_watches.
AddRecover ==
  LET d == AddWatchResult(PathOf[colliding]) IN
  /\ colliding # NULL
  /\ AddWatchEffect(PathOf[colliding], oneshot[colliding])
  /\ stray' = IF d \in {Inactive, wd[colliding]} THEN stray ELSE stray \cup {d}
  /\ colliding' = NULL
  /\ UNCHANGED <<events, buf, wildUse>> /\ UNCHANGED objVars /\ UNCHANGED regVars

Remove(w) ==
  /\ Idle
  /\ open
  /\ owner[w] # "this" => "remove_absent" \in Habits
  /\ IF wd[w] # Inactive
     THEN /\ RmWatchOk(wd[w])      \* else "removing watch failed" is thrown
          /\ RmWatchEffect(wd[w])
          /\ EraseWatch(wd[w])
          /\ wd' = [wd EXCEPT ![w] = Inactive]
     ELSE UNCHANGED <<watches, wd>> /\ UNCHANGED kernVars
  /\ paths' = [paths EXCEPT ![PathOf[w]] = NULL]
  /\ owner' = [owner EXCEPT ![w] = NULL]
  /\ UNCHANGED <<open, events, buf, enabled, oneshot, wildUse>> /\ UNCHANGED addVars

\* Close: RemoveAll, then close(m_fd), which ends every kernel watch and
\* discards the kernel queue.
Close ==
  LET gone == {paths[p] : p \in Paths} IN
  /\ Idle
  /\ open
  /\ wd' = [w \in Watches |-> IF w \in gone THEN Inactive ELSE wd[w]]
  /\ owner' = [w \in Watches |-> IF w \in gone THEN NULL ELSE owner[w]]
  /\ watches' = [d \in Wds |-> NULL]
  /\ paths' = [p \in Paths |-> NULL]
  /\ kwatch' = [d \in Wds |-> NULL]
  /\ kq' = <<>>
  /\ open' = FALSE
  /\ UNCHANGED <<exists, kone, nextwd, dropped>>
  /\ UNCHANGED <<events, buf, enabled, oneshot, wildUse>> /\ UNCHANGED addVars
-----------------------------------------------------------------------------
(* InotifyWatch.                                                           *)

SetMask(w, one) ==
  /\ Idle
  /\ wd[w] # Inactive => "remask" \in Habits
  /\ IF wd[w] # Inactive
     THEN /\ AddWatchEffect(PathOf[w], one)
          /\ oneshot' = IF AddWatchResult(PathOf[w]) = wd[w]
                        THEN [oneshot EXCEPT ![w] = one]
                        ELSE oneshot          \* "changing mask failed"
     ELSE oneshot' = [oneshot EXCEPT ![w] = one] /\ UNCHANGED kernVars
  /\ UNCHANGED <<wd, enabled, owner, events, buf, wildUse>>
  /\ UNCHANGED regVars /\ UNCHANGED addVars

SetEnabledTrue(w) ==
  LET d == AddWatchResult(PathOf[w]) IN
  /\ ~enabled[w]
  /\ owner[w] = "this"
  /\ d # Inactive /\ watches[d] # NULL => "enable_alias" \in Habits
  /\ IF d = Inactive                                \* "enabling watch failed"
     THEN UNCHANGED <<watches, wd, enabled>> /\ UNCHANGED kernVars
     ELSE /\ AddWatchEffect(PathOf[w], oneshot[w])
          /\ wd' = [wd EXCEPT ![w] = d]
          \* map::insert leaves an existing entry alone
          /\ watches' = IF watches[d] = NULL THEN [watches EXCEPT ![d] = w]
                        ELSE watches
          /\ enabled' = [enabled EXCEPT ![w] = TRUE]
  /\ UNCHANGED wildUse

SetEnabledFalse(w) ==
  /\ enabled[w]
  /\ owner[w] = "this"
  /\ RmWatchOk(wd[w])                         \* else it throws, unchanged
  /\ RmWatchEffect(wd[w])
  /\ EraseWatch(wd[w])
  /\ wd' = [wd EXCEPT ![w] = Inactive]
  /\ enabled' = [enabled EXCEPT ![w] = FALSE]
  /\ UNCHANGED wildUse

\* A watch that belongs to no Inotify only changes its flag; m_pInotify of a
\* watch that was never added is an uninitialised pointer.
SetEnabledUnowned(w) ==
  /\ owner[w] # "this"
  /\ owner[w] = "wild" => "enable_fresh" \in Habits
  /\ IF owner[w] = "wild"
     THEN wildUse' = TRUE /\ UNCHANGED enabled
     ELSE enabled' = [enabled EXCEPT ![w] = ~@] /\ UNCHANGED wildUse
  /\ UNCHANGED <<watches, wd>> /\ UNCHANGED kernVars

SetEnabled(w) ==
  /\ Idle
  /\ SetEnabledTrue(w) \/ SetEnabledFalse(w) \/ SetEnabledUnowned(w)
  /\ UNCHANGED <<open, paths, events, buf, oneshot, owner>> /\ UNCHANGED addVars
-----------------------------------------------------------------------------
(* Events.                                                                 *)

\* WaitForEvents: read() returns the first n queued events.
ReadEvents(n) ==
  /\ Idle
  /\ open
  /\ n \in 1..Len(kq)
  /\ Len(events) + n <= MaxEvents
  /\ buf' = SubSeq(kq, 1, n)
  /\ kq' = SubSeq(kq, n + 1, Len(kq))
  /\ UNCHANGED <<exists, kwatch, kone, nextwd, dropped, events, wildUse>>
  /\ UNCHANGED objVars /\ UNCHANGED regVars /\ UNCHANGED addVars

\* Does event e end the watch w? The mask is the one the object has now.
EndsOnAnyEvent(w, e) == TRUE
EndsIfOneshot(w, e) == oneshot[w]
EndsWatch(w, e) == oneshot[w] \/ e.kind = "ignored"

\* m_events.push(evt), for an event of a watch that is still known
QueueAlways(w, e) == events' = Append(events, [watch |-> w, kind |-> e.kind])
QueueEvent(w, e) ==
  events' = IF w = NULL THEN events
            ELSE Append(events, [watch |-> w, kind |-> e.kind])

\* WaitForEvents, one turn of its loop: an event of an unknown descriptor
\* (IN_Q_OVERFLOW has -1) is skipped; __Disable throws on a disabled watch
\* and the rest of the buffer is then lost.
ProcessEvent ==
  LET e == buf[1]
      w == FindWatchByWd(e.wd)
      ends == w # NULL /\ EndsWatch(w, e)
  IN
  /\ buf # <<>>
  /\ IF ends /\ ~enabled[w]
     THEN buf' = <<>> /\ UNCHANGED <<watches, wd, enabled, events>>
     ELSE /\ buf' = Tail(buf)
          /\ QueueEvent(w, e)
          /\ IF ends
             THEN /\ EraseWatch(wd[w])
                  /\ wd' = [wd EXCEPT ![w] = Inactive]
                  /\ enabled' = [enabled EXCEPT ![w] = FALSE]
             ELSE UNCHANGED <<watches, wd, enabled>>
  /\ UNCHANGED <<open, paths, oneshot, owner, wildUse>>
  /\ UNCHANGED kernVars /\ UNCHANGED addVars

GetEvent ==
  /\ Idle
  /\ events # <<>>
  /\ events' = Tail(events)
  /\ UNCHANGED <<buf, wildUse>> /\ UNCHANGED objVars /\ UNCHANGED regVars
  /\ UNCHANGED kernVars /\ UNCHANGED addVars
-----------------------------------------------------------------------------
Init ==
  /\ open = TRUE
  /\ watches = [d \in Wds |-> NULL]
  /\ paths = [p \in Paths |-> NULL]
  /\ events = <<>>
  /\ buf = <<>>
  /\ colliding = NULL
  /\ wd = [w \in Watches |-> Inactive]
  /\ enabled \in [Watches -> BOOLEAN]
  /\ oneshot \in [Watches -> BOOLEAN]
  /\ owner \in [Watches -> {NULL, "wild"}]
  /\ exists = [n \in Names |-> TRUE]
  /\ kwatch = [d \in Wds |-> NULL]
  /\ kone = [d \in Wds |-> FALSE]
  /\ nextwd = 1
  /\ kq = <<>>
  /\ dropped = {}
  /\ stray = {}
  /\ wildUse = FALSE

Next ==
  \/ \E w \in Watches : Add(w)
  \/ AddRecover
  \/ \E w \in Watches : Remove(w)
  \/ \E w \in Watches : SetEnabled(w)
  \/ \E w \in Watches, one \in BOOLEAN : SetMask(w, one)
  \/ Close
  \/ \E n \in 1..(MaxQueued + 1) : ReadEvents(n)
  \/ ProcessEvent
  \/ GetEvent
  \/ \E n \in Names : FsEvent(n)
  \/ \E n \in Names : FsDelete(n)
  \/ \E n \in Names : FsCreate(n)

Spec == Init /\ [][Next]_vars
-----------------------------------------------------------------------------
(* Properties.                                                             *)

\* Every variable has its type; m_events holds only events of known watches.
TypeOK ==
  /\ open \in BOOLEAN
  /\ watches \in [Wds -> Watches \cup {NULL}]
  /\ paths \in [Paths -> Watches \cup {NULL}]
  /\ events \in Seq([watch : Watches, kind : {"event", "ignored"}])
  /\ buf \in Seq(KernelEvent)
  /\ colliding \in Watches \cup {NULL}
  /\ wd \in [Watches -> Wds \cup {Inactive}]
  /\ enabled \in [Watches -> BOOLEAN]
  /\ oneshot \in [Watches -> BOOLEAN]
  /\ owner \in [Watches -> {NULL, "this", "wild"}]
  /\ exists \in [Names -> BOOLEAN]
  /\ kwatch \in [Wds -> Names \cup {NULL}]
  /\ kone \in [Wds -> BOOLEAN]
  /\ nextwd \in 1..(MaxWd + 1)
  /\ kq \in Seq(KernelEvent)
  /\ dropped \subseteq Wds
  /\ stray \subseteq Wds
  /\ wildUse \in BOOLEAN

\* The two maps of Inotify and the fields of the watch objects they point to
\* agree: a watch found by descriptor is enabled, carries that descriptor, is
\* owned and is also found by its path; a watch found by path is owned, and is
\* active exactly when it is enabled (Add, Remove, SetEnabled and the
\* __Disable calls of WaitForEvents maintain four copies of this state).
RegistryConsistent ==
  /\ \A d \in Wds : watches[d] # NULL =>
       LET w == watches[d] IN
       wd[w] = d /\ enabled[w] /\ paths[PathOf[w]] = w
  /\ \A p \in Paths : paths[p] # NULL =>
       LET w == paths[p] IN
       /\ PathOf[w] = p /\ owner[w] = "this"
       /\ enabled[w] <=> wd[w] # Inactive
  /\ \A w \in Watches :
       /\ owner[w] = "this" => paths[PathOf[w]] = w
       /\ wd[w] # Inactive => watches[wd[w]] = w

\* The kernel never watches a file for a descriptor the wrapper has forgotten:
\* what __Disable, Remove and SetEnabled(false) deactivate is dead in the
\* kernel too, so no event of a live watch is thrown away by WaitForEvents. The
\* only descriptors this leaves out are those of a refused Add whose two kernel
\* calls had an event or the end of the other watch between them.
NoOrphanKernelWatch ==
  \A d \in Wds : kwatch[d] # NULL => watches[d] # NULL \/ d \in stray

Pending(d) ==
  \/ \E i \in DOMAIN kq : kq[i] = [wd |-> d, kind |-> "ignored"]
  \/ \E i \in DOMAIN buf : buf[i] = [wd |-> d, kind |-> "ignored"]

\* A watch the kernel has removed (file deleted, one-shot fired) does not stay
\* enabled silently: its IN_IGNORED is on the way and WaitForEvents will disable
\* the object, unless the overflow of the queue swallowed that very IN_IGNORED;
\* the loss of other events does not matter.
DeadWatchReported ==
  \A d \in Wds :
    watches[d] # NULL /\ kwatch[d] = NULL => Pending(d) \/ d \in dropped

\* WaitForEvents deactivates a watch only when the kernel watch behind its
\* descriptor is gone: an event of an earlier registration of the same object
\* never disables the present one. Left out are the descriptors that got an
\* event between the two kernel calls of a refused Add.
DisableOnlyDead ==
  [][\A w \in Watches :
       (ProcessEvent /\ wd[w] # Inactive /\ wd'[w] = Inactive)
         => kwatch[wd[w]] = NULL \/ wd[w] \in stray]_vars
=============================================================================
