# replicated-splinterdb: a TLA+ verification project

replicated-splinterdb puts a SplinterDB key-value store behind a Raft group
(NuRaft) and gives clients an RPC library to reach it. This directory holds
TLA+ models of its parts, the TLC runs that check them on small instances, and
TLAPS proofs of what matters most for every instance. `PROJECT.json` maps every
definition to the lines it models. Paths below are relative to the repository.

## 1. Inventory

| Component | State it keeps | Operations | Talks to |
|---|---|---|---|
| In-memory log store (`src/server/in_memory_log_store.*`) | `logs_` (a map with a dummy at 0), `start_idx_`, pending emulated writes, durable index | `append`, `write_at`, `apply_pack`, `compact`, `flush`, `set_disk_delay`; readers `log_entries(_ext)`, `pack`, `entry_at`, `term_at`, `last_entry`, `next_slot` | called by NuRaft; its disk thread notifies NuRaft |
| Logger (`src/server/logger.*`) | ring of `LogElem`s, cursor, log file, revision numbers, job counter | `put`, `flush`, `flushAll`, `start`, `stop`; the manager's flush and compress workers | every thread of a server |
| Crash handler (`src/server/logger.*`, `backtrace.h`) | the list of threads, the stacks, the origin, the abort timer | `handleSegFault`, `handleSegAbort`, `handleStackTrace`, `addThread`, `removeThread`, the timer in `flushWorker` | the ring, the flusher, every thread by signal |
| Client library, mutations (`src/client/client.cpp`) | `clients_`, `leader_id_` | constructor, `put`, `update`, `del` (`retry_mutation`), `get_leader_id` | server RPCs |
| Client library, reads (`read_policy.*`) | policy counter, token ranges, fixed mapping | `get`, `next_server` | server RPCs |
| Server and replica (`src/server/server.cpp`, `replica.cpp`) | RPC servers, `raft_instance_` | mutation handlers, `append_log`, `extract_result`, leader and membership queries, join, cache commands | NuRaft, state machine |
| State machine (`splinterdb_state_machine.*`, `splinterdb_operation.*`) | database, `last_committed_idx_` | `commit`, `commit_config`, snapshot stubs | called by NuRaft |
| State manager (`in_memory_state_mgr.hxx`) | configuration, vote and log store, in memory | `load_*`, `save_*` | called by NuRaft |
| Start-up (`apps/spl_server.cpp`) | - | join through a seed, initialisation, shutdown | join RPC |
| NuRaft, SplinterDB, rpclib | external | | |
| MurmurHash3, command line programs, build | - | | |

What is hard to test here, and what makes each part correct:

- **Log store.** Mutators come one at a time from NuRaft, but readers run beside
  them, and most calls take `logs_lock_` several times. `next_slot()` is derived
  from the *size* of the map, so one surplus or missing key shifts every later
  index. Correct: the keys are a gap-free window between calls, a read that was
  not overtaken returns a slice, no registered write is forgotten.
- **Logger.** A lock-free ring: `put()` tests a slot's status three times with no
  lock, spins on other threads, and shares slots with flushers; files are rotated
  by one thread, archived by another, and the destructor waits for both. Correct:
  one thread per slot, no accepted message lost or doubled, a destructor that finds
  the file open leaves nothing behind and no job points to a dead logger, nobody
  waits for ever.
- **Client and server.** Retries of calls whose outcome is unknown, handlers that
  run on after their client has given up, stale leaders, forwarded requests that
  arrive late, crashes, a database that returns an error. Correct: an acknowledged
  call is committed and keeps its place among its client's calls, one that is
  reported as a success is in a database, replicas agree but for database errors,
  every call returns.
- **Reads.** Any replica answers, also one that lags behind the one asked before;
  token ranges end below the greatest token. Correct: a policy that ties a key to
  a server never goes back in time, round robin is even, servers own equal shares of
  the tokens.
- **Log files over restarts.** A run finds the revisions of earlier ones by parsing
  file names; a crash may fall between tar and rm. Correct: the newest lines stay
  readable, runs continue in order, no old file is forgotten.
- **Start-up and restart.** Everything Raft keeps is in memory, and a server that
  starts again, with a seed or without, meets a group that still counts it as a
  member. Correct: no seed lets it back into that group, and every start-up ends
  unless nobody is left to answer it.
- **Crash handler.** It runs on top of whatever the signal interrupted and uses the
  ring, the locks and the flusher that its thread, or another one that crashed, may
  have left in any state; it talks to the other threads by signals that can come
  too early, and one timer is to end whatever goes wrong. Correct: the process
  ends, the dump is complete, no dead thread is signalled, what is reported as
  flushed is unless another thread was flushing.

The full list, each at its line, is under `hazards` in `PROJECT.json`.

## 2. Modules

| Module | Models |
|---|---|
| `RaftLog` | abstract specification: what a log store promises (extend, truncate at a conflict, compact; inside a pack, replace entry by entry) |
| `InMemLogStore` | `inmem_log_store`, refines `RaftLog` |
| `LogRing` | `SimpleLogger`: ring, flush, rotation, compression, start and stop |
| `CrashDump` | the crash handler of the logger's manager, its stack dumps and its timeout |
| `RaftGroup` | external: what NuRaft promises to its users |
| `ReplicatedKV` | client mutations, server handlers and state machine, over `RaftGroup` |
| `ClientReads` | `client::get`, the read policies, and the lag of replicas |
| `LogRevisions` | the files of a `SimpleLogger` over runs and crashes |
| `ClusterStart` | start-up, join through a seed, restart without state |
| `*_proof` | the theorems about the module of that name |
| `MC*` | instances for TLC |

Operators with the comment "Mutant:" are plausible bugs of the
definition that follows them; no specification uses them. Each one makes TLC
report the property it is listed with in `PROJECT.json`.

### InMemLogStore

Variables keep the names of the members. A step is one critical section of
`logs_lock_`, or one access of an atomic outside it. `append`, `write_at` and
`compact` are one section each, hence one action; `apply_pack` is
`ApplyPackBegin`, one `ApplyPackEntry` per entry and `ApplyPackEnd`; `flush` is
two steps, since it takes `next_slot()` under the lock and stores the durable
index after it. `wr` holds the call in progress of the one logical writer.
A reader `rd[r]` walks its range with `ReadStep`. Two history bits say what a call
met: `raced` is set when a mutator changes an index of its range, and `torn` when
it began while `start_idx_` was not where the log begins. That moment is inside an
`apply_pack` on an empty store that puts its entries further on: `start_idx_` moves
at the end, so until then `start_index()` and `next_slot()` show a window with
indices that never were, and a caller that takes its range from them reads the
dummy, or in `pack()` dies, although nothing was removed.

`disk_emul_loop` is `DiskWake` or `DiskTimeout` (the wait ends by the event or by its
time), `DiskReset`, which forgets an event that came since and reads the clock, and
`DiskScan`; `Destroy` and `DiskExit` are the destructor and its join. `due` is a
history variable: the timestamp of the last write of an index.

Contract taken from NuRaft: mutators are serialised by its lock; `write_at` is
called with an index of the window or the next one; a pack continues the window
or starts an empty store, past what was compacted, and may hold no entries (on an
empty store `start_idx_` is then 1 again); range reads ask for indices of the
window, as `start_index()` and `next_slot()` show it. The clock
is monotone. Entries are opaque: cloning and serialising keep term and payload.

### LogRing

A step is one access of an atomic or one critical section. `put()` is
`PutBegin`/`Claim` (the cursor), `Available`, `CheckFlush`, `WaitFlushed` (the
three tests of the slot), then `WriteBegin` .. `WriteEnd`, or `WriteFails` when
the compare-and-swap fails. `flush()` is `LockFlush` (or `LockFails`), one
`FlushElem`/`FlushElemEnd` pair per slot, and `FlushEnd`; a file over its limit is
closed (`RotateClose`), the next one opened and the job counted (`RotateOpen`) and
queued (`RotateQueue`), three steps since other threads look at the file and at the
counter without the mutex. `fs` is the state of the stream: an `open()` may fail,
which leaves it not open, and a `write()` may fail, which makes every later one fail
(`IOFails`); `put()` then returns at once and a flush drops what it copies. The
compressor is `CompTake`, `CompTar`, `CompRm`, `CompRetain`. The main thread's
`Start`, `DtorFlushAll`, `StopCheck`, `StopRemove`, `StopFlushAll`, `StopWait` are
`start()`, the destructor and `stop()`; `StopCheck` is the guard `fs.is_open()`, and
where it fails `stop()` is over (`"skipped"`). Log levels, message text and console output are left
out; a message is a thread and a number. The logger starts in an empty
directory, and its destructor runs when no other thread uses it.

### CrashDump

One started logger, the threads of the program (`App`) and the flusher. `pc[t]` is
where a thread is in `put()` and `flush()`, with the steps of `LogRing` less
rotation; `at[t]` is where a crashed thread is in its handler, named for what it
does or says there. `flushAllLoggers()` with a message is `LockLoggers`, the steps
of `put()`, `FlushAll`, those of `flush()`, and `LeaveFlush`, which releases the
lock. `Crash` may come at every step of `put()` and `flush()` (`CrashAt`); what the
thread held stays held, a slot WRITING or FLUSHING too. `HandleSignal` puts the old
handler back, so that the next signal of that kind ends the process, while one of
the other kind, or one that comes before this step, leads to a second handler.

`AskThread`, `Suspend` and `DeliverUsr2` are the three places where SIGUSR2 matters:
sent, waited for, handled. An answer that is delivered before `Suspend` is lost, as
in the code. The vector of stacks has no lock; a push next to another push or to a
walk is a data race, and `PushRawStack` then may lose the entry or the process.
`StackInterpret` is addr2line, which may never answer. `due` is a history variable:
which messages in the ring a handler is to have flushed; `flushed[t]` says that the
last `flushAll()` of handler `t` had the mutex.

`replica.cpp` asks for the stack of the origin only; `OriginOnly` gives the setting
a run looks at, and `crash_dump` looks at both, since the logger offers both. Left out: the dump
file, which only the handlers write; the console, whose lock a crash could also
leave held; crashes of the two workers or inside a handler.

### RaftGroup and ReplicatedKV

`RaftGroup` states what NuRaft promises, not how: one sequence of committed
entries; entries of one leader committed in the order it accepted them; terms
that never decrease; an entry that is not committed when one accepted after it
is committed never will be; until then it may be, however old. Each server has an
opinion on the leader that may be out of date, and a deposed leader may not know
it. Servers crash and never restart, since their log and vote are in memory.

In `ReplicatedKV`, `run[c]` is a client inside `put`, `update` or `del`: the
handle captured before the loop (`cl`), the attempt (`i`), the last code and the
search for the leader (`srv`, `tries`). `handlers` are the RPCs being sent or
handled, also those whose client has left with an exception. A handler on the
leader appends (`AppendLog`); one on a follower forwards, because
`auto_forwarding_` is set (`Forward`, `ForwardArrives`), and a forwarded request
stays on its way when its handler answers. What `append_log` hands out has the flags
of the code: `Refused`, `NoResult` (accepted, no result yet) and `Result`, with the
buffer that `commit()` returned or none; `ExtractResult` makes of it the two codes
that the client gets. Raft's codes are `OK`, `NOT_LEADER`, `CANCELLED` and `OTHER`;
the client's code 999 cannot arrive, since `extract_result` always overwrites it.
`commit` may meet a database that returns an error (`MaxDbFail`): the entry goes into
`failed`, its result is not 0, and `last_committed_idx_` advances all the same. An answer is received at once or, when the
client has stopped waiting, dropped. The value a call writes is its own name, so
that copies and orders can be told apart.

### ClientReads

One client, one policy. `Get` is `get()` without a server: `next_index` is the
policy's `next()`, and round robin moves on before the call, which may fail.
`GetFrom` names a server and does not ask the policy. `SetMapping` is
`set_fixed_key_mapping`. `Incr` and `RangeNext` are the token ranges, with the
integer division of the code. `Write` and `Commit` are the committed log and each
server's application of it, which is all that reads depend on; a value is named
by the log index of its write. Where an index has no server, as for the tokens
above the last range (`RangeNext` is -1), C++ leaves the behaviour undefined and
the model stops. A client that could connect to no server is not an instance: the
policy would divide by zero.

### LogRevisions

The disk is `file` and `tar`, from revisions to lines; a line is what one `flush()`
wrote. `Start` is the constructor with `findMinMaxRevNum`, `Flush` and `Rotate` the
two halves of `flush()` that a crash can separate, and `CompTake` .. `CompRetain`
the compressor: an archive exists, empty, from the moment tar creates it. tar may
fail, which `execCmd` does not report. `Crash` may come anywhere; it takes the
queue and a running tar along, so that an unfinished archive stays unfinished.
The two removals of a retention round are one step. The path of the log file is
taken to hold a dot, as `replica.cpp` makes it.

### ClusterStart

`proc[s]` is where `main()` of a server is: polling `is_initialized()` (`Poll`), about
to call its seed (`Call`), waiting (`asked`) or serving (`run`). `asks` are the join
requests at a seed, also those whose sender has ended. A group is a Raft cluster,
named by the start that founded it. What NuRaft does with a group is external:
`add_srv` answers before the server has joined (`Invite` or `GiveUp` come later),
and a group that has a leader calls on its members, restarted or not (`Recall`).
Groups exchange no other messages; terms and votes are left out. Every start has a
`-seed` of its own, from the set `Seeds[s]`, or none: `docker/restart_server` starts
any server again, by default without one. `SeedLost` is the exception of a join call
whose seed is gone; it may come, and nothing says that it does. Two history variables:
`lost`, the groups whose log a server had when its process ended, and `via`, the group
that let the latest start of a server in, its own if it asked nobody.

## 3. Runs

| Run | Instance | Shows |
|---|---|---|
| `log_store` | 2 entries, 1 reader, indices to 3, packs of up to 2 (796,000 states) | `Contiguous`; `ReadsAreSlices`; `CrashOnlyIfOvertaken` (`pack()` dereferences a null only in a call that a mutator overtook in its range or that began while `start_idx_` was out of step); `ImplementsRaftLog` |
| `disk_emul` | 1 entry, delays 0 and 2, 4 ticks, no reader (375,000 states) | `NoWriteForgotten`, `WritesComplete`, `DestroyReturns` |
| `log_ring` | 2 threads, 2 slots, 3 puts together, rotation at 2 messages, 1 old file, opens and writes that fail (281,000 states) | `OneWorker`, `JobsCounted`, `AcceptedOnce`, `StopFlushesAll`, `NewestKept`, `StopOutlivesJobs`; `PutReturns`, `StopReturns` |
| `lost_message` | as `log_ring`, all I/O succeeds | **violation**: `NoMessageLost` |
| `crash_dump` | 2 threads, 2 slots, a put each, 2 crashes, 1 round of the timer, both settings (1,075,000 states) | `OneUpdater`, `StacksComplete` (with one crash), `SignalledAlive`, `FlushedUnlessBlocked`; `CrashEnds` |
| `abort_timeout` | the same, 2 puts each, 1 crash outside the logger, origin only | **violation**: `TimeoutAborts` |
| `session` | 2 servers, 1 client, a put and a delete, 2 terms, 1 database error (4,070,000 states) | `ReplicasAgree`, `SuccessApplied`, `AckedCommitted`, `SessionOrder`, `AtMostRetries` |
| `client_live` | 3 servers, a put or an update, an expired timer, a crash (416,000 states) | `CallsReturn` |
| `client_reads` | every policy, up to 3 servers with up to 2 tokens each, 16 token values, 2 writes, 3 reads | `TokensShared`, `MonotonicReads` |
| `log_revisions` | limits 0, 1 and 2, rotation at the second line, 8 lines, 3 runs | `NewestReadable`, `OrderKept`, `CurrentNotArchived`, `NoneBelowMin` |
| `cluster_start` | 3 servers, 2 starts each, 1 poll; the first has no seed, the second names the first, the third or none, the third names the second (378,000 states) | `AmnesiacNotAdmitted`, `StartUpEnds` |
| `retry_target` | 2 servers, 2 terms | **violation**: `RetryAtLeader` |

The three violations are findings: `put()` of the
logger drops a message when its slot is being flushed by another thread; a crash
handler that waits in `put()` holds the lock that the flusher needs before it looks
at the abort timer, so the timeout never comes; the client announces a retry at the
new leader and sends it to the old one. A fourth disagreement has no run: with the
disk emulation on, which no program here does, `write_at()` leaves a rewritten
index below the durable index, against the comment in `in_memory_log_store.h:108`.

One more finding comes from a passing run. Both crash handlers print "Flushed all logs
safely." whatever their `flushAll()` did, and that does nothing while another thread
is in `flush()`, or has crashed in it. The unconditional claim is refuted: TLC finds a
handler that prints it with its own message still in the ring. `FlushedUnlessBlocked`
says that there is no other way to that: with nobody else in `flush()` the report is
true, whatever the flusher did between the handler's messages.

`stop()` does nothing when `fs.is_open()` is false. That is so after an `open()` that
failed, and for a moment inside every rotation, between `close()` and `open()`; the
destructor looks without a lock, so it can fall into a rotation of the flusher with no
I/O error at all (TLC: 22 steps). The logger is then freed while it is still in the
manager's set and while jobs point to it. No document says what `stop()` owes, so this
is no finding of a run; `StopFlushesAll` and `StopOutlivesJobs` are about a `stop()`
that found the file open, also one whose own `flushAll()` then rotates the file and
cannot open the next one.

`AcceptedOnce` compares slots and files; a file is a set of messages, so a message
written twice into one file would not be seen. `TokensShared` bounds the tokens that
have no server; it does not catch the read at index -1 that such a token leads to.
`ImplementsRaftLog` maps the window by its smallest key, so it holds also inside
`apply_pack`, and for the same reason says nothing of what `next_slot()` shows then;
`ReadsAreSlices` and `CrashOnlyIfOvertaken` do, by exempting the calls that begin there.
`ReplicasAgree` leaves out, at each replica, the entries its own database returned an
error for: replicas at one index may differ by these, and nothing repairs it.

`CrashEnds` has two exceptions, and TLC reaches both: a handler that waits in
`put()` with `loggersLock` for a slot that nobody will free, and two handlers of which
one has `activeThreadsLock` and wants `loggersLock` for its next message, while the
other has that and wants the first to register itself. Everything else ends, among
it a hanging addr2line and an answer to SIGUSR2 that comes before `sigsuspend`,
both by the timer.

`SessionOrder` exempts copies that a follower forwarded, and it has to: without
the exemption TLC finds a copy of an acknowledged call, delayed on its way from
follower to leader, that is committed after the client's next call.

**Bounds.** `MaxIndex` 3 with packs of two gives a window that is empty, in the
middle, truncated and compacted past its end; one reader is enough because
readers do not write. Delay 2 against ticks of 1 lets a write with delay 0 or a
rewrite overtake a pending one, and lets two share a timestamp. Two slots and three
calls of two threads (five messages with those of the main thread) make the ring
wrap onto slots that are being written, waiting and flushed; two messages per file
and one old file give two rotations and a removal. For the crash handler, a crash comes
outside the logger, before the thread is registered, with a slot claimed, with a slot
WRITING, with the mutex, or with a slot FLUSHING; at the other steps of `put()` a
thread holds what it holds at one of these. Two
threads are the least for an origin and a thread to ask, or for two handlers; its
own messages, up to six, take it around a ring of two slots again and again, and
one round of the timer stands for 120. Two
terms are the least for a deposed leader; two calls of one client the least for
an order among calls (`PutThenDelete` keeps to a put and then a delete, which leave
different databases); one database error the least for replicas that differ; `NumRetries` 2 the least for a retry. `MaxCrash` 1 of three
servers leaves a quorum, and a client that meets the crashed one. For reads, 15 is
no multiple of 2, 4 or 6 ranges, so that tokens without a server occur; three
reads bring round robin around. Three runs let one crash leave an archive, the
next find it and a third find what that one left; eight lines are four files, more
than the largest limit. Two starts are the least for a restart, and three servers
the least for a restarted member that a majority of the others calls back; the seeds
allow a founder that restarts, a joiner that restarts as one, a chain and a cycle. No
symmetry is used: servers are asked in the order of their ids.

**Fairness.** Log store: the disk thread is scheduled, its wait ends in time and time
passes; no caller owes a call. The bound on the wait is needed: with fairness of the
event's wake-up alone, TLC loses an event between wait and reset and refutes
`WritesComplete`. `DestroyReturns` holds even then, because the stop signal is set
before the event and the loop looks at it after the reset. Logger: threads inside a call and the two workers keep running; the
thread in `removeLogger` gets `loggersLock` although the flusher takes it again
and again (strong fairness), because the flusher sleeps between two rounds.
Crash handler: every thread keeps running, also inside a handler, signals are
delivered, and a handler gets `loggersLock` for the same reason; addr2line owes no
answer. Client: it keeps running, and a pending RPC at the latest times out, because the
constructor sets a timeout on every connection. Nothing is assumed of servers,
elections or messages, so `CallsReturn` holds when no server answers. Start-up: a
process keeps running, and a seed that runs answers. That a call whose seed is gone
ever throws is not assumed (`SeedLost` is not fair): nothing in the repository sets a
timeout on it, and a host that dies silently closes no connection. Clients' reads and
log revisions have safety properties only.

`StartUpEnds` names the waits that need not end (`Stranded`): for a seed that went away
and for seeds that form a cycle, since a server handles join requests only after its
own was answered, or for a server that itself waits so. Every other start-up ends.

`AmnesiacNotAdmitted` is about the way in. A server without its log that serves clients
of its old group is reachable: started again without a seed, as `docker/restart_server`
does it by default, it founds a group of its own, serves it, and is then called back by
the old one, whose configuration still has its address (`Recall`; 17 steps). What the
code's check in `try_join_cluster` ensures, and the property states, is that no
start-up *through a seed* leads there: a seed of the old group refuses, whichever
servers restarted and whatever requests of earlier starts are still around.

**Deadlock** is checked except for the crash handler, which may end the process or
hang (`CrashEnds` says how); elsewhere `Ended`, `Stopped` and `Finished` are the only
states in which a system may rest.

## 4. Proofs

Every invariant, the action property and the refinement that a passing run checks are
also theorems, for every value of the constants that the module's named assumption allows.
In each module one invariant is inductive, and the theorems follow from it. Each was
an invariant of a TLC run before it was proved.

### InMemLogStore_proof

From `ConstAssumption` (the dummy is no entry, delays are natural numbers):
`StoreTypeCorrect`, `StoreContiguous`, `StoreReads` (`ReadsAreSlices`), `StoreCrash`
(`CrashOnlyIfOvertaken`), `StoreImplements` (`Spec => ImplementsRaftLog`) and
`StoreForgetsNoWrite` (`NoWriteForgotten`).

`Contiguous` is not inductive: it says nothing inside `apply_pack`, where `start_idx_`
is out of step with the keys. `WindowInv` states the window by the smallest key
(`AbstractFirst`), ties it to `start_idx_` outside `apply_pack`, and says where the
next entry of a pack may fall; `IndInv == TypeOK /\ WindowInv` is inductive
(`StoreInductive`). `IntervalFacts` and `NextSlotIsEnd` turn the size of the map into
the end of the window, which is where the code's `next_slot()` is right or wrong.

`StoreBounded` adds that the window stays within `MaxIndex`. `ReaderInv` says what a
reader has collected: the entries of the window at the indices it has passed, unless
it was overtaken, and that the rest of its range is there unless it is torn; `CrashInv`
that the null which `pack()` dereferences comes only to a reader of one of these two
kinds. The refinement goes action by action: the window maps to a state of
`RaftLog`, a mutator to one of its steps, and readers and disk to stuttering.

`StoreForgetsNoWrite` has the hypothesis `OneDelay(D)`: the delay is 0 or `D`. It is
needed. With delays 1 and 3 TLC finds a write with delay 3 followed by
`set_disk_delay(1)` and a later write: a scan that retires both takes the index of the
one with the last timestamp for the durable index, which is the lower of the two.
No program of the repository calls `set_disk_delay`, so that
neither case arises there. `PendingInv(D)` says that
no pending write completes later than one registered now would, and that what is
due is covered by a pending write of its index or a higher one.

### LogRing_proof

From `RingAssumption` (at least one slot; distinct threads): `RingTypeCorrect`,
`RingOneWorker`, `RingJobsCounted`, `RingAcceptedOnce`, `RingStopFlushesAll`,
`RingNewestKept`, `RingStopOutlivesJobs`.

`RingInv == TypeOK /\ LockInv /\ OneWorker /\ JobsCounted /\ Advanced /\ Filled` is
inductive; `LockInv` (the mutex is held exactly between try_lock and the end of a flush,
the rotation included) is what makes `OneWorker` so, and what makes the job that a
rotation has counted and not yet queued a single one. `Advanced` and `Filled` say that
a rotation comes after the walk over the ring and has a revision to queue, and that a
slot to be flushed has a message.
`LoggerInv` adds `Phases` (who may be inside the logger at which stage of the main
thread, and which streams it can find there), `Emptied` (the last flush of `stop()`
leaves the slots behind it clean, which needs that nobody else is inside any more),
`Revisions` (the queue holds consecutive revisions up to the one that a rotation is
about to queue, the compressor's job comes just before them, and files and archives on
disk are the two intervals around it, with or without the current file) and `Accepted`
(a message that was not dropped is in exactly one slot or file, one that was nowhere).

### CrashDump_proof

From `DumpAssumption` (at least one slot; the flusher and the markers `"none"` and
`"before"` are no threads of the program): `DumpTypes`, `DumpOneUpdater`,
`DumpStacksComplete`, `DumpSignalsAlive`, `DumpFlushedUnlessBlocked`, for every number of
threads, slots, messages and crashes.

`DumpInv` is inductive (`DumpInductive`). `Places` ties the step of a handler to its
step inside `put()` and `flush()` and to the two locks it holds. `Handshake`: the
origin holds `activeThreadsLock` while it collects and at most one thread has SIGUSR2
pending or under way, one that is in the list; since a thread needs that lock to
leave the list, it is alive. `Collected`: with one crash, every thread that was asked
has pushed its stack or still has the signal. `Ring` is the lock on the walk through
the slots, with the marks of what a handler owes; `Flushing` says that none of these
is behind the walk.

### ReplicatedKV_proof

From `ClientAssumption` and the assumption of `RaftGroup` (`NoCall` is no key and no
call; at least one retry): `MutationsDurable` (`AckedCommitted`), `SuccessesApplied`
(`SuccessApplied`), `SessionsOrdered` (`SessionOrder`), `ReplicasConsistent`
(`ReplicasAgree`), `RetriesBounded` (`AtMostRetries`), for every number of servers,
clients, calls, terms, crashes and database errors.

`KVInv` is inductive (`KVInductive`). The heart of it is `InOrder`: of two entries of
one call, accepted in this order, the later one is a later attempt unless a follower
forwarded it. To keep it one needs to know where an attempt can be (`Single`: a
handler that has not passed its attempt on holds the last one, a forwarded one is in
no log yet), that the client's loop is ahead of all of them (`Loop`: no handler that
may still append is left when the client goes on), and that a call answered OK is
committed and has no copy pending but a forwarded one (`Answered`, `Settled`).
`Named` says that entries come from calls that were made. `Success` ties an answer with
a result of 0 to a database that took the entry, from the handler to the client.

### ClientReads_proof

From `ReadAssumption` (hashes are tokens, and there are at least as many tokens as
ranges): `ReadsTypeCorrect`, `RoundRobinEven` (`EvenSpread`: round robin has asked every
server equally often, but for the ones before its position; proved only, no run checks
it), `TokensSharedEvenly`, and the action
property `ReadsMonotonic` (`Spec => MonotonicReads`). The last needs `SeenThere`: the
server that a key is sent to is not behind what was read from it, which in turn needs
`VerApplied`, so that applying an entry moves a version forward. `ReadInv == TypeOK /\
VerApplied /\ SeenThere /\ EvenSpread` is inductive.

`TokensSharedEvenly` is about the integer divisions of `range_based_read_policy`. Every
token from 1 to the end of the last range is at one offset of one range
(`TokenInRange`, `TokenHasRange`), and `OwnedCount` gives a bijection from
`0 .. num_tokens * Incr - 1` to the tokens of a server; the rest are the remainder of a
division.

### LogRevisions_proof

From `RevisionAssumption` (limits are natural numbers, a file holds at least a line):
`RevisionsTypeCorrect`, `LinesInOrder` (`OrderKept`), `CurrentFileKept`
(`CurrentNotArchived`), `OldestKnown` (`NoneBelowMin`), `NewestLinesReadable`
(`NewestReadable`).

`RevInv == TypeOK /\ DiskInv /\ JobInv /\ MinInv` is inductive. `DiskInv` bounds the
revisions on disk and those of the lines, so that a scan after a crash finds the
right place to go on; `JobInv` keeps every compression job strictly below the
current revision; `MinInv` is `NoneBelowMin` with the files on disk tied to it.
`NewestReadable` needs `KeptInv` in addition (`LinesPlaced`): a file that is there has
all its lines, one that is gone left a complete archive unless tar failed or every
limit allows its loss. It counts from the newest file on disk and not from
`curRevnum`: a crash inside a rotation leaves `curRevnum` one ahead, and the next run
starts from the disk, one revision lower.

### ClusterStart_proof

From `StartAssumption` (a seed is a server or none): `StartTypeCorrect`, and
`AmnesiacRefused` (`AmnesiacNotAdmitted`) for every number of servers and starts and every
seed of every start.

`StartInv` adds to the types that a group belongs to a start that has been
(`OriginInv`), that a server is still a member of every group whose log it lost
(`LostInv`: nobody is ever removed from a configuration), that the group that let a
server in is none of these (`ServeInv`), and that only a server with a seed asks
(`SeedInv`). It is `LostInv` that makes the seed's refusal certain.

### Only model-checked

The liveness properties `WritesComplete`, `DestroyReturns`, `PutReturns`, `StopReturns`,
`CrashEnds`, `CallsReturn` and `StartUpEnds`: fairness and ENABLED are outside the
prover's reach. The three violations are TLC's counterexamples. For liveness the bounds
of the runs are all there is: `PutReturns`, say, is for three calls.

## 5. Not modelled

The text of stack dumps and of log lines; the end of the logger's manager, since
nothing calls `shutdown()`; Raft's term and vote in the state manager; cache commands
and the shutdown of a server; hashing and the command line programs. NuRaft,
SplinterDB and rpclib are external and appear as what the code relies on. The
snapshot methods of the state machine throw "Not implemented." and no snapshot is
ever configured.

## 6. Plan

Order of the work: the log store and the logger first, since they are the
repository's own concurrent code; then client, server and state machine over an
abstract Raft group; then what surrounds them. `ReplicatedKV` extends `RaftGroup`,
`InMemLogStore` refines `RaftLog`; the other modules stand alone. All modules of
section 2 and the proofs of section 4 are done. Next, in this order:

1. Action properties as theorems: committed entries stay where they are in
   `ReplicatedKV`, archives are never reopened in `LogRevisions`.
2. The steps that liveness rests on, as far as they are safety: what each waiting
   loop of the logger and of the crash handler waits for is always on its way.
3. Restart and votes: what a server that forgot its vote does to the promises of
   `RaftGroup` between its start and its seed's refusal.
