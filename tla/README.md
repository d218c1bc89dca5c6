# A TLA+ model of synciga

synciga copies and synchronises files between two machines behind NATs. Two
processes log in to an XMPP server, negotiate a peer-to-peer tunnel over it
(libjingle) and push files through a TCP emulation over UDP. With `--sync` the
client watches a directory with inotify and sends each file that was written.

This directory holds TLA+ modules of the parts that carry synciga's own logic,
TLC configurations that check them on small instances, and TLAPS proofs that
hold for every size. Paths below are relative to the repository root; `src/main`
is synciga, `src/talk` the libjingle it is built on.

    tlc -workers 2 -config Inotify_registry.cfg MCInotify     # a run
    tlapm InotifyProofs.tla                                   # the proofs

`PROJECT.json` lists, for each definition, the source lines it stands for; for
each property, a mutation of the model that breaks it; and the hazards of the
code with the properties that watch them.

## 1. Inventory

| Component | Source | State | Operations |
|---|---|---|---|
| Inotify wrapper | `src/main/inotify-cxx.{h,cc}` | `m_watches` (descriptor → watch), `m_paths` (path → watch), `m_events`, and per watch `m_wd`, `m_fEnabled`, `m_uMask`, `m_pInotify` | `Add`, `Remove`, `RemoveAll`/`Close`, `SetMask`, `SetEnabled`, `WaitForEvents` (+ `__Disable`), `GetEvent` |
| File pump | `src/main/customxmpppump.{h,cc}` | one `file_`, one `buffer_` with `buffer_len_`, `sending_`, shared by all tunnels of a process | `ProcessStream`, `OnStreamEvent`, `Cleanup`, `OnIncomingTunnel`, `OnStateChange` |
| Sync client | `src/main/synciga.cc` | `prev_mask_str`, the inotify object, the pump | the `--sync` loop; the one-shot copy |
| Loop | `src/main/synciga_thread.cc` | – | dispatch messages until one of two ids |
| PseudoTcpChannel | `src/talk/session/tunnel/pseudotcpchannel.cc` | `stream_`, `channel_`, `session_`, `tcp_`, `worker_thread_`, `pending_read_event_` | `Connect`, `Read`, `Write`, `Close`, the five messages, the `IPseudoTcpNotify` callbacks |
| PseudoTcp | `src/talk/p2p/base/pseudotcp.cc` | send and receive buffers, segment lists, windows, timers | `Connect`, `Send`, `Recv`, `Close`, `process`, `transmit`, `NotifyClock`, `closedown` |
| Tunnel session client | `src/talk/session/tunnel/tunnelsessionclient.cc` | sessions | create, accept, decline, `OnSessionState`, `OnChannelClosed` |
| Session, SessionManager | `src/talk/p2p/base/session{,manager}.cc`, `p2p/client/session{send,manager}task.h` | session state, error, `initiate_acked_`, unsent candidates, send tasks, timer | initiate, accept, reject, terminate, transport-info, acknowledge or refuse, timeout, destroy |
| Thread, MessageQueue | `src/talk/base/{thread,messagequeue}.cc` | `msgq_`, `dmsgq_`, `sendlist_`, `has_sends_`, `fStop_`, the socket server's wake-up | `Post`, `PostDelayed`, `Send`, `ReceiveSends`, `Get`, `Clear`, `Quit` |
| Task, TaskRunner, XmppPump | `src/talk/base/task*.cc`, `src/talk/xmpp/xmpppump.cc` | task tree, `tasks_`, `next_timeout_task_`, the posted wake | `Start`, `Step`, `Wake`, `Error`, `Abort`, timeouts, `RunTasks`, `PollTasks` |
| XmppClient, XMPP engine | `src/talk/xmpp/` | connection state | send and receive stanzas |
| DebugLog | `src/main/logger.{h,cc}` | line buffers, censor flag | `OnInput`, `OnOutput` |
| argument parsing, error exit | `src/main/synciga_parserarg.cc`, `error.cc` | – | console I/O |

**Interactions.** Each process is one thread: `Loop` takes a message, runs its
handler to the end and takes the next. The pump calls the channel (`Read`,
`Write`, `Close`), the channel posts `MSG_ST_EVENT` back to the same queue;
PseudoTcp calls the channel, which posts the end of a connection
(`MSG_SI_DESTROYCHANNEL`, `MSG_WK_PURGE`, `MSG_SI_DESTROY`); a dying channel
terminates its session, whose stanza leaves through an XMPP task and makes the
peer destroy its session and channel. The two processes interact only through
tunnel packets and XMPP stanzas, which are not ordered with respect to each
other. The sync client also blocks in `read()` on the inotify descriptor, and
serves neither tunnels nor XMPP then. libjingle's threads are built for more than
one thread per process; `Threads` models them in that generality.

**What is hard.**

* messages of five objects in one queue, each of which may delete another;
* a terminate stanza overtaking the data it ends;
* the pump's one `file_` and one `buffer_` under several tunnels;
* the two seconds after which `Cleanup` takes a copy as done;
* lost, repeated and reordered packets, early and late timers, segments split and
  split again;
* stanzas the XMPP server reorders, repeats or loses, and an end that waits for a
  peer that is gone;
* tasks that abort and wake each other in the middle of a run;
* synchronous calls between threads, and flags read outside the lock;
* inotify events that are older than the registration they are looked up in,
  and the loss of events when the kernel queue overflows;
* writers that change the directory while it is synchronised.

**What makes each part correct.** Wrapper: its two maps, the watch objects and
the kernel agree. Pump and channel: the copy is a prefix of the file, complete
when there was no error; nothing is dispatched to an object that is gone;
`MSG_DONE` comes once and always comes. Sync: when the directory rests, the
server has its files; contents never mix; each `Loop` ends for its own file.
PseudoTcp: a bounded pipe, or a closed connection. Session: candidates arrive, no
session is refused for the order of its stanzas, what ends is destroyed, and
nobody waits for a peer that is gone. Tasks: no lost wake, no orphan. Threads: no
lost wake-up, no deadlock, timers in order.

## 2. Modules

| Module | Models | Code it stands for |
|---|---|---|
| `Inotify` | the wrapper and the kernel behind it | `inotify-cxx.{h,cc}` |
| `InotifyProofs` | theorems about `Inotify`: the registry; the registry and the kernel | |
| `MessageQueues` | `Clear` on a queue, shared by `FileTransfer`, `Syncer` and `Threads`; `TaskRunner` takes the deleted tasks out of `tasks_` with it | `messagequeue.cc` |
| `QueueTheorems` | theorems about queues | |
| `FileCopy` | abstract specification: what a tunnel promises for one file | |
| `FileTransfer` | pump + channel + byte stream + session end, both ends, one file; implements `FileCopy` | `customxmpppump.cc`, `pseudotcpchannel.cc`, parts of `pseudotcp.cc`, `session.cc`, `tunnelsessionclient.cc` |
| `FileTransferProofs` | theorems about `FileTransfer`: teardown, content and refinement | |
| `Syncer` | the sync loop, many files and tunnels, the server | `synciga.cc`, `customxmpppump.cc`, `tunnelsessionclient.cc` |
| `SyncerProofs` | theorems about `Syncer`: with hazards, and without | |
| `ByteStream` | abstract specification: a bounded pipe | |
| `PseudoTcp` | segments, windows, timers, both ends and the network; implements `ByteStream` | `pseudotcp.cc`, the FIFO buffer of `stream.cc` |
| `PseudoTcpProofs` | theorems about `PseudoTcp`: its invariants and the refinement | |
| `Session` | the signalling of one tunnel, both ends and the XMPP server | `session.cc`, `sessionmanager.cc`, `sessionsendtask.h`, parts of `transport.cc` |
| `SessionProofs` | theorems about `Session` | |
| `TaskRunner` | the tasks of one runner | `task.cc`, `taskparent.cc`, `taskrunner.cc`, `xmpppump.cc` |
| `TaskRunnerProofs` | theorems about `TaskRunner` | |
| `Threads` | message queues and threads | `thread.cc`, `messagequeue.{h,cc}` |
| `ThreadsProofs` | theorems about `Threads` | |
| `MC...` | the instances for TLC | |

The modules lie on top of each other: `Syncer` uses a tunnel in the form
`FileTransfer` shows it, `FileTransfer` a byte stream in the form `PseudoTcp`
shows it and the end of a session in the form of `Session`; these two and the
queues of `FileTransfer` and `Syncer` rest on `TaskRunner` (stanzas leave when the
tasks are run) and `Threads` (messages in order, none lost).

### Inotify

The maps are functions with `NULL` for "no entry". One action per public call;
a call that throws before it has changed anything is a call that is not taken.
An `Add` on a file that is watched under another path throws after it has set the
mask of that watch in the kernel and asked the kernel to set it back: these are two
system calls and two actions (`Add`, then `AddRecover`), and the file system can act
between them (`colliding`), though the caller cannot. Whether the second call succeeds
or fails, an exception is thrown; it may also succeed with a descriptor the wrapper
does not know.
`WaitForEvents` is `ReadEvents(n)` (the `read()`) and one `ProcessEvent` per
event of the buffer; the caller can do nothing in between (`Idle`), the file
system can. An exception out of `__Disable` loses the rest of the buffer.

The kernel (external, modelled from its documented interface) gives one
descriptor per file, never reuses one, answers a removed or deleted watch with
`IN_IGNORED`, removes a one-shot watch with its first event, and replaces what
does not fit into its queue by one overflow event of descriptor -1.

Two sets record what the code cannot repair. `dropped`: the descriptors whose own
`IN_IGNORED` was lost in an overflow. `stray`: the descriptors about which an `Add`
that was refused made the kernel and the objects disagree, either because the second
call created them, or because an event fell between the two calls, under the mask of
the refused watch. The properties leave out these descriptors and no others.

`Habits` says what the caller does beyond the documented use: remove a watch
that was never added, change the mask of an active watch, enable a watch whose
file is already watched under another path, enable a watch that was never added
(`m_pInotify` is then read uninitialised; the model records it and stops).
synciga itself makes none of these calls. `{}` is the disciplined caller.

### FileTransfer

Both ends from the moment the session is accepted and both files are open.
`client` is the end that runs `Loop`; it is the sender for `recv:` and the
receiver for `send:`, and both are initial states. `q[e]` is the message queue
of a process; a message is the name of its id and event. `OnStreamEvent` is not
one step: `pc` walks through its inner loops (`WriteStep`, `FillStep`,
`ReadStep`, `StoreStep`), because the other process and the network run
meanwhile; no other message of the same process is dispatched before it
returns. `Cleanup` is the whole function, the calls into `PseudoTcpChannel::Close`
and the `AdjustClock` it ends with included.

PseudoTcp is represented by the stream the channel sees: a bounded `sbuf` whose
first `sent` units have arrived but are not acknowledged, a bounded `rbuf`,
`writeEnable`/`readEnable` that decide whether `OnTcpWriteable`/`OnTcpReadable`
is signalled, graceful close (gone when drained) and `closedown`. Content is a
sequence of distinct units, so a lost, repeated or swapped one shows.

Faults: closedown at either end, session timeout at either end, a failed read of
the source, a failed (possibly partial) write of the target. `MaxFaults` bounds
them. The two-second timer of `Cleanup` may fire at any time; `late` records that
it fired before the receiver had closed its file. The refinement of `FileCopy`
counts a late tunnel as an error, since a client that has left `Loop` no longer
serves its connection; the content stays a prefix all the same.

### Syncer

The directory with its writers, the inotify events in the form the client reads
them, the client's main loop, its one pump under all its tunnels, and a server
that is always in `Loop`. A tunnel is a handshake (initiate, accept or reject)
and a bounded channel; its bytes and its teardown are FileTransfer's subject
and appear here in one step each. Closing `file_` after reading is itself an
`IN_CLOSE_NOWRITE` event of the watched directory, and opening one is an event
too; a directory event with the same content as the one before it is merged by
the kernel.

Two simplifications: a file deleted while it is being read gives the reader fewer units,
as if it had been truncated (the code's open file would keep its content), and the server
ends a tunnel only when its file or the session ends, never by itself.

A behaviour has an environment (`env`, chosen from `Scenarios` in the initial
state): the number of writes and what may go wrong. `busy` (files change while
the client works), `delete`, `slow` (two seconds are not enough), `net` (tunnels
fail), `open` (the server cannot open a target: its `Loop` ends and it logs out,
the client's session then gives up after its timeout), `xmpp` (the client's
connection closes). Without `busy`, a writer starts only when the client waits
for events and none is pending.

### PseudoTcp

An end is the record of the object's fields, a handler an operator on it that
collects the packets written in `out`; so `Process`, with the acknowledgement,
the storing and the sending it ends in, is one step. `m_rbuf` is the bytes ready
to be read and the free space behind them, in which out-of-order segments lie
(`ahead`), since a saved segment is only remembered by its place: what
`Recovered` makes readable is whatever was written there. Sequence numbers are
taken modulo `SeqSpace` and compared as the code compares them. The client
connects, sends `FileLen` bytes and closes; the server reads.

Time is abstracted to which timer is armed. A retransmission or probe timer that
runs while packets are under way is a fault like a loss, a repetition, an
overtaking packet, a pause longer than the retransmission time (`idle`, after
which the congestion window is reset) and a change of the route.

`path` is the largest payload the route takes, the same for both ends. It goes from
`Mss` down to 0, where every data packet is too large and `transmit` returns with "MTU too
small", and to `NoRoute`, where every write fails (`WR_FAIL`; a debug build stops there in
an assertion, `pseudotcpchannel.cc:517`). A route may become worse and better again
(`RouteChange`). A failed transmission makes `attemptSend` return as the code does
(`failed`) and a failed retransmission close the connection. `Stalled` is the state in which
the first leaves data queued, nothing in flight and no timer (section 5); `ByteStream`
allows a connection to stay there for ever, and nothing else but a close or the end of the
file. `ClockAbort` is the close after 15 seconds without an answer to the window probes.

### Session

Both ends from `CreateTunnel` on. An end is the record of its session, the
messages posted to it, and its unanswered requests. `MessageQueue::Get` looks at
sockets only when no message is left, so a stanza finds an empty queue; but one read
may bring several stanzas, which are handled before the messages their handlers post
(`batch`). It puts the timers that are due behind the messages it finds, every time,
so that the session timer may come before messages posted later: `Timeout` is not
restricted to an empty queue. `net` is a set: the server delivers in any
order. A fault is a stanza lost, repeated, or answered after its timeout. `chan`,
`connecting` and `writable` are what `Transport` shows of the ICE channel.

### TaskRunner

One action per step of one task, so that deeds of a task (start, wake, abort,
fail, change a timeout, of any task) fall between the steps of the others in one
run of the runner, and the deeds of other handlers between two runs. `busy` is
the task whose `Process` is on the stack: an abort that reaches it marks it, and
stops it when it returns. `LateChildren` would allow a child to be started below
a task that is done and not yet deleted; the run excludes it (section 5).
`Polled` says whether somebody calls `PollTasks`: true in the run, so that
timeouts happen; in synciga nobody does (section 5).

### Threads

A thread is a stack of calls: `Get`, the handlers it dispatches, and the `Send`s
they are in the middle of, which serve other threads' sends meanwhile. A section
under `crit_` is a step, as is each unlocked access to `fStop_` and `has_sends_`.
What handlers do is free within the budget of the scenario: which threads run,
who knows whom, how many calls of each kind. A wake-up is one flag per thread, as
the `Signaler`'s pipe is drained by one `Wait`. `dmsgq` is kept in the order in which
the priority queue pops its messages.

## 3. Runs

| Run | Bounds | Shows |
|---|---|---|
| `inotify_registry` | 3 watches on 2 paths of 1 file, 2 descriptors, queue of 2, `m_events` of 1; the two watches of one path are symmetric | `RegistryConsistent`, `NoOrphanKernelWatch`, `DeadWatchReported`, `DisableOnlyDead` hold for a disciplined caller |
| `transfer_faults` | 4 units, `buffer_` 2, send 3, receive 2, up to 2 faults, any timing | content (`NothingLost`), teardown (`DispatchSafe`), `DonePostedOnce`, `ClientReturns`, and the refinement of `FileCopy` (`IsFileCopy`, its liveness included) |
| `transfer_late` | 2 units, no fault | violation of `ReturnsWhenCopied`: `Loop` returns before the copy is complete |
| `syncer_all` | 2 files; calm with 3 writes; 2 writes with busy, slow, net and open; the same with delete; 2 writes with busy, slow, delete, net and xmpp | `SyncedAtRest`, `RemoteFaithful`, `FileOpenWhileSending`, `FileClearedBeforeProcessStream`, `LoopEndsForItsFile`, `LoopAlwaysEnds` |
| `syncer_masked` | 2 files, 3 writes, busy | violation of `EventuallySynced` |
| `syncer_mixed` | 2 files, 2 writes, busy, xmpp | violation of `RemoteUnmixed` |
| `pseudotcp_faults` | 6 bytes, segments of 2, send buffer 5, receive buffer 4, 3 transmissions, up to 2 faults (losses, repetitions, overtaking, early timers, pauses, routes of 2, 1, 0 bytes or none) | `SegmentsCoverBuffer`, `AckedIsDelivered`, `WindowBacked`, `TimerArmed`, and the refinement of `ByteStream` (`IsByteStream`, its liveness included) |
| `session_faults` | one tunnel, one batch of candidates, 1 fault | `InitiateFirst`, `CandidatesNotStranded`, `ErrorForCause`, `EndingEnds`, `LoneEndGivesUp` |
| `session_unanswered` | the same | violation of `RequestsSettle` |
| `tasks_tree` | 3 tasks, 3 deeds, 2 instants, timeouts | `NoLostWake`, `NoOrphans`, `NextTimeoutWatched`, `DoneIsDeleted` |
| `threads_calls` | 3 threads with 3 sends; 2 threads with posts, delayed posts, sends and a clear or quit | `ReadyAlive`, `NoLostWake`, `TimersInOrder`, `CallsSettle` |
| `threads_quit` | 2 threads, one post, one quit | violation of `QuitDelivers` |

**Why the bounds are enough for what the runs ask.**

* Inotify: `w1` and `w2` share a path, `w3` reaches the same file by another,
  so every collision `Add` distinguishes occurs. Two descriptors give one
  re-registration, which is what a stale event needs, and ENOSPC after it. A
  queue of 2 overflows. (The proofs remove the bounds.)
* FileTransfer: the file is longer than the buffers, the send buffer is not a
  multiple of `buffer_`, so a write is taken partly; the receive window closes;
  the refill level lies strictly inside the send buffer. Two faults let one
  fall into the teardown the other started.
* Syncer: with `WireCap` 1 and two units per file a write blocks and data is in
  the tunnel when the file ends. Two writes are needed for one tunnel to meet
  the next, a third for an event to be masked by the one in between. The scenario
  without deletions is there for `FileClearedBeforeProcessStream`, which does not speak of
  the others: a deleted file makes the open fail. A tunnel
  is opened per handled write event, so at most as many as writes.
* PseudoTcp: the file is larger than either buffer, so the receive window closes
  and is probed, and the send buffer fills and is refilled; three segments are in
  flight at once, so one can be lost with two behind it. Two faults give a loss
  and a second loss, a spurious retransmission or an overtaking packet in its
  repair; a smaller route in between splits a segment that was sent before, and two
  changes let a route fail and come back.
  `MaxXmit` 3 lets the connection also be given up.
* Session: one fault is enough for any single stanza, request or answer, to be
  missing or to come twice; the order is free without faults. A session created
  again by a repeated initiate occurs (`made`). The initiator's candidates are
  those that are kept back; the responder's are not.
* TaskRunner: parent, child and grandchild or sibling; two deeds set up the
  abort of a subtree and the third acts on it from within.
* Threads: three sends give the chain a → b → a and the cycle over a third
  thread; one delay shorter than another, posted in either order, and a tick make
  one due and one not.

**Deadlock.** The Inotify run checks it. The others do not, as the systems they
model may come to rest: a transfer, a connection or a session ends, threads
sleep when nobody calls, and the sync client waits for events for ever once the
writers have used up their bound. What must not stop too early is there stated
as liveness.

**Fairness.** `Inotify` has none: its properties are safety properties and the
caller need not call. In `FileTransfer` each process keeps handling its messages
(one thread, every handler returns) and data and acknowledgements get through as
long as both connections are established: PseudoTcp retransmits until then or
closes the connection down, which is the fault `Closedown`. Faults are not fair.
In `Syncer` the client's main loop and `Loop`, the server and the timers are
fair, a writer finishes what it began, and a tunnel delivers *while the client
is in `Loop`*; in `WaitForEvents` it does not retransmit, so nothing is assumed.

In `PseudoTcp` the packet at the head of the way arrives, the three timers run
out, and the users follow up `OnTcpReadable` and `OnTcpWriteable`. The
retransmission timer is strongly fair: window probes interrupt the quiet in which
it may run, but it is a deadline that they do not put off. The close after 15 s of
unanswered probes (`ClockAbort`) is fair only without a route, where no answer can come.
In `Session` each
thread takes its messages, the session timer included, the XMPP server delivers
what it does not lose, and ICE notices that a peer is gone; that a channel ever
becomes writable, that candidates are gathered or that a stream is closed is not
assumed. In `TaskRunner` the pump's message is dispatched and the run goes on to
its end. In `Threads` every thread is scheduled and its handlers return; that they
make no call for ever follows from the budget. In `PseudoTcp` and `TaskRunner` the
ENABLED of the fairness conditions is written out as a state predicate, which TLC
evaluates faster; each is the guard of the action it stands for.

## 4. Proofs

All theorems hold for every value of the constants that satisfies the named
assumption of the module: any sets of files, watches, paths, scenarios, any buffer
sizes and file lengths, any number of faults. The assumptions give the constants
their types, make sizes positive, keep `NULL` apart from the values it is compared
with and, in `Syncer` and `Threads`, say that there is a scenario with the most writes
or ticks (TLC evaluates them in every run).

| Module | Theorem | Statement |
|---|---|---|
| `InotifyProofs` | `TypeCorrect` | `Spec => []TypeOK`, whatever the caller's habits |
| | `RegistryAlwaysConsistent` | `Disciplined => (Spec => []RegistryConsistent)` |
| | `NoOrphanAlways`, `DeadWatchAlwaysReported` | `Careful => (Spec => []...)` |
| | `OnlyDeadDisabled` | `Careful => (Spec => DisableOnlyDead)`, an action property |
| `QueueTheorems` | `WithoutPicks` | what `MessageQueue::Clear` leaves, for queues of any length |
| `FileTransferProofs` | `TypeCorrect`, `AlwaysDispatchSafe`, `AlwaysDonePostedOnce` | `Spec => []...` |
| | `NothingIsLost` | `Spec => []NothingLost` |
| | `TransferCopies` | `Spec => CopySafety`: the refinement of `FileCopy`, its safety part |
| `SessionProofs` | `TypeCorrect`, `InitiateAlwaysFirst`, `CandidatesNeverStranded`, `ErrorsHaveCause` | `Spec => []...` |
| `SyncerProofs` | `TypeCorrect`, `AlwaysFileOpenWhileSending`, `AlwaysRemoteFaithful` | `Spec => []...` |
| | `AlwaysLoopEndsForItsFile`, `AlwaysFileCleared` | `Spec => ...`, action properties |
| | `AlwaysSyncedAtRest` | `Spec => []SyncedAtRest` |
| `PseudoTcpProofs` | `AlwaysTypeOK`, `AlwaysSegmentsCoverBuffer`, `AlwaysAckedIsDelivered`, `AlwaysWindowBacked`, `AlwaysTimerArmed` | `NoWrap => (Spec => []...)` |
| | `ConnectionIsStream` | `NoWrap => (Spec => StreamSafety)`: the refinement of `ByteStream`, its safety part |
| `TaskRunnerProofs` | `TypeCorrect`, `NoWakeLost`, `AlwaysTimeoutWatched` | `Spec => []...`, with late children too |
| | `NeverOrphans` | `~LateChildren => (Spec => []NoOrphans)` |
| `ThreadsProofs` | `TypeCorrect`, `AlwaysReadyAlive`, `NoWakeupLost` | `Spec => []...` |
| | `AlwaysTimersInOrder` | `NoClockWrap => (Spec => TimersInOrder)`, an action property |

Few of the properties are inductive as they stand. What each proof adds:

**Inotify, the registry.** `RegistryConsistent` is inductive relative to `TypeOK`.
The reason is its last conjunct, which goes from the objects to the maps: with the
map-to-object half alone, an object that is active but not in `m_watches` could be
entered a second time. `Disciplined` excludes the habits `remove_absent` and
`enable_alias`, each of which breaks a conjunct.

**Inotify and the kernel.** `KernelInv`: what the kernel watches for a descriptor is
what the object behind it asked for, with its one-shot flag (`KernelMatches`), but for
the strays and for the watch of an `Add` that is between its two calls
(`CollisionHeld`); a descriptor belongs to one existing file (`KernelTables`);
descriptors not handed out are unused; no event on its way ends a watch that is alive
(`EventsHarmless`). The two exemptions, `stray` and `dropped`, are per descriptor: what
happened to one file says nothing about the others. `Careful` is `Disciplined` without
`remask`: after `SetMask` the object's one-shot flag is no longer the one under which
the queued events were made, and the properties really fail (section 5).

**Queues.** A `Clear` takes messages out of the middle of a queue. `Without` is a
recursive function; `WithoutPicks` shows by induction over the queue that it picks
the remaining positions in their order, and `QueueTheorems` derives from this what
the other proofs use: which messages a queue holds (`Held`), that it holds one at
most once (`Once`), and that one comes after another (`Before`), through append, tail,
concatenation and `Clear`. Induction is done by a least counterexample
(`LeastElement`, `SetInduction`): the library's induction theorems take a predicate
as a parameter, which the provers cannot instantiate, a set they can.

**FileTransfer, control.** `Life`: a message that will touch an object is queued only
while the object is there, and the messages that delete one are queued once, through
stream, worker, channel and connection. `DoneInv`: `MSG_DONE` is queued, delayed or
received by Loop, at most one of these, and one of them exactly when the client has
closed its file.

**FileTransfer, data.** `DataInv`: `NothingLost`, what is empty at which place of
`OnStreamEvent`, and that what has reached the receiver is a prefix of the file as long
as the pump holds its stream, whatever became of the sender. `EndInv`, for runs without
a fault, says why the end is not seen too early: the terminate is only sent by a
connection that has drained, so that everything has been received, and what is still in
the receive buffer has an `SE_READ` in the queue before the message that drops it
(`Before`). `TransferCopies` is the refinement: an initial state maps to one, and every
step to a step of `FileCopy` or a stutter, under the mapping of `FileTransfer`.

**Session.** `SessionInv` says for each stanza under way who may have sent it and what
that tells about the ends (an answer to the initiate, or an accept, means that the
responder has had the session; a repeated initiate costs a fault), and, while there was
no fault, that a terminate or an error means that one end has ended, and that an accept
comes once and finds the initiator waiting.

**Syncer.** Five layers, each inductive relative to those below it.
`BasicInv` = types, and that every tunnel has been paid for with a write (`Counted`,
by cardinalities: without it the tunnel counter is not bounded), events are named, and
nothing is known of a tunnel that is not opened (`Fresh`). `LoopInv`: at most one
stream may still call `OnStreamEvent` in a way that uses `file_` (`Engaged`), there is
then a file, and while the client is logged in this is the stream the Loop was entered
for, as is every `MSG_DONE`. `ControlInv`: a reported file exists while nothing is
deleted. `FaithfulInv`: the server has one tunnel at a time and an initiate is
answered once (`ServerOK`); what is in the buffer, in the tunnel and in the server's
file is of the tunnel's file and of ever later writes (`DataOK`). `CalmOK`, for
scenarios without hazards: either the client watches, and at most one file is out of
date, which is being written or has its event on the way with no `IN_CLOSE_NOWRITE`
to mask it; or it is in a transfer, every other tunnel is over at both ends, all that
was read is accounted for, the tunnel is terminated after its last unit was delivered,
and `MSG_DONE` comes after the server has closed its file.

**PseudoTcp.** `TcpInv`. A byte of the file is its own sequence number, so that what a
packet, a buffer or a saved segment holds can be said by numbers. Each end by itself
(`End`): the segments form a `Chain` that covers the send buffer, the connect message is
a segment of its own, transmitted ones lie below `snd_nxt` (`Sender`); the window is
within the free room and the saved segments cover bytes that are there (`Receiver`); a
timer runs while something is under way (`Timed`). Between the ends (`Flow`): `rcv_nxt`,
and the end of every saved segment, is a `Mark` of the sender, a place that no segment
straddles now or later, since only segments that were never sent grow; and no more is
sent than was announced (`Edge`). `PacketOK` says the same of each packet on its way, of
any age, because packets overtake each other; `Roles` covers the handshake and what the
user has read, `Counts` the bounds on faults.

A handler of `PseudoTcp` is a chain of operators inside one step. `Work` is the invariant
in the middle of a handler, with the packets it has written so far; there is one lemma
for each stage of `process` and for a round of the loop of `attemptSend`, whose rounds are
then counted by `SetInduction`, and the loops over lists of segments (`Upto`, `Recovered`)
are recursive functions that are shown to exist and to end. What a step does for the users
of the connection (`Visible`: a byte written, bytes read, the end seen, or nothing) follows
from the same lemmas, and from that the refinement.

`NoWrap` is `FileLen + 1 < SeqSpace`: `process` compares numbers with `<` and `>`, and the
properties fail when they wrap (section 5). With the 2^32 of the code it is the limit of
4 GB on one connection.

**TaskRunner.** `TaskInv`: tasks are created in their order below older ones, what is in
`tasks_` exists, a task that is done is blocked (`Shape`), there is a task to watch
while one has a timeout (`Watched`); between two runs a task that could run is announced
(`Heard`), and within a run, while the walk over `tasks_` has stepped nobody, it has only
blocked tasks behind it (`Walk`), which is what makes the deletion at its end lose no
wake. `Families` is the step-by-step form of `NoOrphans`: the parent of a living task
lives, but for the busy task, which an abort from within has then marked. The
set of tasks an abort reaches is defined with the recursive function `Above`;
`AboveExists` shows that its equation has a solution, since parents are older, and
`AllAboveLive` goes from the parents to all ancestors, both by a least counterexample.

**Threads.** `ThreadsInv` says what may stand on what in a thread's stack and what the
message of each frame has come to (`StackOK`): a `receive` stands on the `take` of Get
or the `wait` of a Send, a handled message is on one stack only and once, a Send waits
for a message to another thread. With it, that queues hold queued messages of their
own kind, each once (`QueueOK`); an unset `has_sends` means an empty `sendlist`; a flag
that is set belongs to a message that is handled or cleared. `ReadyAlive` is then
inductive: the frame of a Send leaves the stack only after it has seen its flag.
`NoLostWake` speaks of a thread that sleeps; `WakeInv` extends it to every place from
which the thread goes to sleep without looking again: `SendsHeard` from the lock of
`Get` or the test of `ready` on, `PostsHeard` from the unlock of `Get` on, `RepliesHeard`
for every Send of the stack and not only for the top one, where a wake-up that a Send
higher up has read (`waited`) counts as present, since that Send gives it back before
it returns. Each action's lemma proves `Preserved`, all parts at once.
`TimersInOrder` needs `TimerInv`: `dmsgq_` is in the order of the times, and all times of
the run lie below the wrap and within half of the clock's range, where the comparison of raw
triggers in the priority queue and `TimeIsLater` in `Get` agree with the order of time.
`NoClockWrap` says this of the constants. The bound by half of the range is needed as well,
because `Get` may have read the time long before a message with a long delay is pushed.

Each strengthened invariant was checked with TLC on the instances of the runs
before it was proved.

**Only model-checked.** Liveness under fairness is outside what the prover does:
`ClientReturns`, `LoopAlwaysEnds`, `EndingEnds`, `LoneEndGivesUp`, `DoneIsDeleted`,
`CallsSettle` and the liveness part of the two refinements. Every other property of the
passing runs is stated by a theorem.

## 5. Where code and documentation or intention differ

With a run that shows it:

1. "Wait until the copy is done": the one-shot copy waits two seconds after the
   last byte was given to PseudoTcp (`transfer_late`). `EventuallySynced` fails
   with `slow` alone for the same reason (the client returns to `read()` with data
   left in its tunnel).
2. A write whose `IN_CLOSE_WRITE` follows an `IN_CLOSE_NOWRITE` in one batch of
   events is skipped, and the client's own reads produce the latter
   (`syncer_masked`).
3. The sync loop does not look at which message ended `Loop`; after a lost
   login the next file is sent into the tunnel of the previous one
   (`syncer_mixed`).
4. A session request is documented to fail when no answer comes; its timeout runs
   only when `PollTasks` is called, and nothing but the unit tests does
   (`session_unanswered`). Also, `XmppPump::CurrentTime` counts milliseconds and
   the timeouts 100 ns.
5. `Quit` is documented to let pending posts be delivered; `Get` reads `fStop_`
   after it has released the lock (`threads_quit`).

Met while modelling, and excluded from the runs by a constant or a condition in
the property:

* `Inotify::Remove` of a watch that is not registered "does nothing"
  (`inotify-cxx.h:574`), but erases the entry of its path (`inotify-cxx.cc:413`;
  habit `remove_absent`).
* `WaitForEvents` looks `IN_ONESHOT` up in the present mask of the object
  (`inotify-cxx.cc:462`): after `SetMask(IN_ONESHOT)` an older event disables a
  watch that is alive in the kernel (`inotify-cxx.h:511`; habit `remask`).
* A failed open leaves `file_` set, against the assertion at the start of
  `ProcessStream` (`customxmpppump.cc:95` and `:100`), and the tunnel already
  initiated is left behind (hazard `delete`).
* An `Add` that is refused because the file is watched under another path sets out "to
  recover old watch" (`inotify-cxx.cc:369`). When that watch has ended since the first
  kernel call (a one-shot mask and an event, or a deletion and a new file of that name),
  the second call creates a descriptor that is in neither map, and whose events are
  skipped until `Close`. In the same window an event under the mask of the refused watch
  can later make `WaitForEvents` disable a one-shot watch that is alive. The model has both
  (`stray`): `NoOrphanKernelWatch` and `DisableOnlyDead` leave out just these descriptors,
  and fail without their last disjunct.
* An overflow of the kernel queue may lose the `IN_IGNORED` of a watch: the object stays
  in `m_watches` although it is dead, `Remove` and `SetEnabled(false)` of it throw, and its
  path cannot be added again before `Close` (`inotify-cxx.cc:460`; `dropped`).
* When the first transmission of a segment fails, `attemptSend` returns with "TODO:
  consider closing socket" (`pseudotcp.cc:1127`). If nothing is in flight no timer runs and
  nothing closes the connection: it stays as it is, with the route back, until the peer
  sends something or the user writes again (`Stalled`; without this exemption
  `IsByteStream` fails by a route that is gone for the first packet only).
* Delayed messages are "sorted by trigger time" (`messagequeue.h:153`), but by its raw
  32-bit value (`:161`): across the wrap of the clock one that is not due is in front of
  one that is, and holds it back. `threads_calls` with `Start = 14` and `TimeSpace = 16`
  violates `TimersInOrder`; as given it stays below the wrap, and so does the theorem.
* `next_task_timeout` is not always the next: a task whose timeout is put off
  stays `next_timeout_task_` (`taskrunner.cc:182`, `taskrunner.h:78`).
* A child started below a task that is done but not yet deleted lives on with its
  parent gone (`task.h:65` promises the contrary; `LateChildren`).
* `process` compares acknowledgements as plain 32-bit numbers
  (`pseudotcp.cc:725`): a connection does not survive 2^32 bytes (a small
  `SeqSpace` shows it).
* The return for Nagle's algorithm in `attemptSend` (`pseudotcp.cc:1108`) also
  drops the immediate acknowledgement it was called for. The model has it;
  `IsByteStream` holds nevertheless.
* A repeated initiate that arrives after its session was destroyed creates a
  session again, which ends by its timeout; a repeated request whose first copy
  was handled is answered with an error. The model has both; `ErrorForCause`
  counts a repetition as a cause.

## 6. Not modelled

* PseudoTcp: the values of timestamps and round-trip times, window scaling and buffer
  resizing; routes that differ for the two directions. In the checked instance only one
  end sends data.
* Syncer: a server that ends a tunnel by itself, and the content an open file keeps after
  its deletion (it is modelled as a truncation).
* Session: redirects, description-info and session-info, muxing, the contents of
  offers and answers, stanzas that do not parse.
* Threads: `Peek`, `Restart`, `Dispose`, start and join of threads,
  `MessageQueueManager`. TaskRunner: its destructor, `OnTimeoutChange`.
* `SignalThread` and `AsyncResolver` (DNS look-ups), `SecureTunnelSessionClient`
  (never created by synciga), ICE below `Transport`, the XMPP engine.
* Option parsing, login prompts, logging.
* The rest of the tree: synciga's repository contains all of libjingle with its
  voice, video and WebRTC code, unit tests and third-party libraries, a quarter of
  a million lines. The sync and copy paths call none of it, so it has no part in
  what this project states; the modelled files are the ones on those paths. The
  share of the repository's lines that the map covers is therefore small and will
  stay so.

## 7. Plan

Done: the seven models with their runs; the proofs of every invariant and action property
of the passing runs, and of the safety part of both refinements.

Next: both ends of PseudoTcp sending, and the login states of the XMPP
engine.
