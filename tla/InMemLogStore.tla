---------------------------- MODULE InMemLogStore ----------------------------
(***************************************************************************)
(* inmem_log_store (src/server/in_memory_log_store.{h,cpp}): the Raft log   *)
(* of a replica, kept in a std::map under logs_lock_.                       *)
(*                                                                          *)
(* A step is one critical section of logs_lock_ (or one access of an atomic *)
(* outside it), so the calls that take the lock several times (apply_pack,  *)
(* flush, log_entries, pack, last_entry) are several steps and other        *)
(* threads run between them.  The Raft library issues the mutators under    *)
(* its own lock, so they are one logical writer; readers are concurrent.    *)
(*                                                                          *)
(* The library's side of the contract is in the guards: write_at is called  *)
(* with an index in start_idx_ .. next_slot(), a pack continues the window  *)
(* or starts an empty one, and range reads ask for indices of the window,   *)
(* as start_index() and next_slot() show it at the time of the call.        *)
(*                                                                          *)
(* Entries are opaque (make_clone and serialize keep term and payload).     *)
(***************************************************************************)
EXTENDS Integers, FiniteSets, Sequences, Functions

CONSTANTS Entry,     \* log entries
          Dummy,     \* the entry the constructor puts at index 0
          Readers,   \* threads that read the store
          Delays,    \* the disk delays a caller may set
          MaxIndex,  \* bound: highest log index written
          MaxPack,   \* bound: entries in a pack
          MaxTime    \* bound: clock ticks

ASSUME ConstAssumption ==
  /\ Dummy \notin Entry
  /\ Delays \subseteq Nat
  /\ MaxIndex \in Nat /\ MaxPack \in Nat /\ MaxTime \in Nat

VARIABLES logs_,          \* index -> entry, index 0 is the dummy
          start_idx_,
          disk_emul_delay,
          disk_emul_logs_being_written_,  \* timestamp -> index
          disk_emul_last_durable_index_,
          clock,          \* get_timeofday_us()
          disk,           \* the disk_emul_loop thread; .ea is disk_emul_ea_
          wr,             \* the mutator call in progress
          rd,             \* the reader calls in progress
          phase,          \* "up", "closing", "destroyed" or "crashed"
          due             \* history: when the write of an index completes

storeVars == <<logs_, start_idx_>>
diskVars  == <<disk_emul_delay, disk_emul_logs_being_written_,
               disk_emul_last_durable_index_, disk>>
vars      == <<storeVars, diskVars, clock, wr, rd, phase, due>>

MinOf(S) == CHOOSE x \in S : \A y \in S : x <= y

WriterIdle == [op |-> "idle", idx |-> 0, left |-> <<>>]
ReaderIdle == [op |-> "idle", first |-> 0, pos |-> 0, end |-> 0,
               batch |-> FALSE, acc |-> <<>>, raced |-> FALSE, torn |-> FALSE]

StoreType ==
  /\ IsFiniteSet(DOMAIN logs_) /\ DOMAIN logs_ \subseteq Nat
  /\ 0 \in DOMAIN logs_
  /\ \A i \in DOMAIN logs_ : logs_[i] \in Entry \cup {Dummy}
  /\ start_idx_ \in Nat \ {0}

DiskType ==
  /\ disk_emul_delay \in {0} \cup Delays
  /\ DOMAIN disk_emul_logs_being_written_ \subseteq Nat
  /\ \A t \in DOMAIN disk_emul_logs_being_written_ :
        disk_emul_logs_being_written_[t] \in Nat
  /\ disk_emul_last_durable_index_ \in Nat
  /\ clock \in Nat
  /\ disk \in [pc : {"none", "wait", "woken", "scan"}, cur : Nat, ea : BOOLEAN]
  /\ phase \in {"up", "closing", "destroyed", "crashed"}
  /\ DOMAIN due \subseteq Nat /\ \A i \in DOMAIN due : due[i] \in Nat

CallType ==
  /\ wr \in [op : {"idle", "apply", "flush"}, idx : Nat, left : Seq(Entry)]
  /\ rd \in [Readers -> [op : {"idle", "entries", "ext", "pack", "last", "at"},
                         first : Nat, pos : Nat, end : Nat, batch : BOOLEAN,
                         acc : Seq(Entry \cup {Dummy}), raced : BOOLEAN,
                         torn : BOOLEAN]]

\* The state of the store, of the emulated disk and of the calls in progress;
\* the dummy entry of index 0 is never removed, by write_at and compact either.
TypeOK == StoreType /\ DiskType /\ CallType

Init ==
  /\ logs_ = [i \in {0} |-> Dummy]
  /\ start_idx_ = 1
  /\ disk_emul_delay = 0
  /\ disk_emul_logs_being_written_ = <<>>
  /\ disk_emul_last_durable_index_ = 0
  /\ clock = 0
  /\ disk = [pc |-> "none", cur |-> 0, ea |-> FALSE]
  /\ wr = WriterIdle
  /\ rd = [r \in Readers |-> ReaderIdle]
  /\ phase = "up"
  /\ due = <<>>
-----------------------------------------------------------------------------
Indices == DOMAIN logs_ \ {0}

next_slot == start_idx_ + Cardinality(DOMAIN logs_) - 1

\* start_idx_ is not where the log begins: the store was empty, and a pack that
\* is being applied has put its entries further on.
Torn == Indices # {} /\ start_idx_ \notin Indices

Put(f, i, v) == [j \in DOMAIN f \cup {i} |-> IF j = i THEN v ELSE f[j]]

\* A reader is overtaken when a mutator changes an index of its range.
Overtake(touched) ==
  rd' = [r \in Readers |->
           [rd[r] EXCEPT !.raced =
              rd[r].raced \/ (rd[r].first .. rd[r].end - 1) \cap touched # {}]]

\* Mutant: write_at() drops the write of its own index with the later ones.
RegisterDropsOwn(index, truncates) ==
  IF disk_emul_delay = 0
  THEN /\ due' = Restrict(due, {i \in DOMAIN due : i < index})
       /\ UNCHANGED <<disk_emul_logs_being_written_, disk>>
  ELSE LET at == clock + disk_emul_delay
           w  == Put(disk_emul_logs_being_written_, at, index)
       IN /\ disk_emul_logs_being_written_' =
               Restrict(w, {t \in DOMAIN w : truncates => w[t] < index})
          /\ due' = Put(Restrict(due, {i \in DOMAIN due : i < index}), index, at)
          /\ disk' = [disk EXCEPT !.ea = TRUE]

\* append() and write_at() register a disk write of `index'; write_at() then
\* drops the registered writes of higher indices.  Both signal the disk thread.
Register(index, truncates) ==
  IF disk_emul_delay = 0
  THEN /\ due' = Restrict(due, {i \in DOMAIN due : i < index})
       /\ UNCHANGED <<disk_emul_logs_being_written_, disk>>
  ELSE LET at == clock + disk_emul_delay
           w  == Put(disk_emul_logs_being_written_, at, index)
       IN /\ disk_emul_logs_being_written_' =
               Restrict(w, {t \in DOMAIN w : truncates => w[t] <= index})
          /\ due' = Put(Restrict(due, {i \in DOMAIN due : i < index}), index, at)
          /\ disk' = [disk EXCEPT !.ea = TRUE]

StampFits == disk_emul_delay = 0 \/ clock + disk_emul_delay <= MaxTime

append(e) ==
  /\ phase = "up" /\ wr.op = "idle" /\ next_slot <= MaxIndex /\ StampFits
  /\ logs_' = Put(logs_, next_slot, e)
  /\ Register(next_slot, FALSE)
  /\ Overtake({next_slot})
  /\ UNCHANGED <<start_idx_, disk_emul_delay, disk_emul_last_durable_index_,
                 clock, wr, phase>>

\* Mutant: later entries are not erased.
write_atKeepsTail(index, e) ==
  /\ phase = "up" /\ wr.op = "idle" /\ index <= MaxIndex /\ StampFits
  /\ index \in start_idx_ .. next_slot
  /\ logs_' = Put(logs_, index, e)
  /\ Register(index, TRUE)
  /\ Overtake({index})
  /\ UNCHANGED <<start_idx_, disk_emul_delay, disk_emul_last_durable_index_,
                 clock, wr, phase>>

write_at(index, e) ==
  /\ phase = "up" /\ wr.op = "idle" /\ index <= MaxIndex /\ StampFits
  /\ index \in start_idx_ .. next_slot
  /\ logs_' = Put(Restrict(logs_, {i \in DOMAIN logs_ : i < index}), index, e)
  /\ Register(index, TRUE)
  /\ Overtake(index .. MaxIndex)
  /\ UNCHANGED <<start_idx_, disk_emul_delay, disk_emul_last_durable_index_,
                 clock, wr, phase>>

\* Mutant: erases from the beginning of the map, the dummy too.
compactFromBegin(last_log_index) ==
  /\ phase = "up" /\ wr.op = "idle" /\ last_log_index <= MaxIndex
  /\ logs_' = Restrict(logs_, {i \in DOMAIN logs_ : i > last_log_index})
  /\ start_idx_' = IF start_idx_ <= last_log_index
                   THEN last_log_index + 1 ELSE start_idx_
  /\ due' = Restrict(due, {i \in DOMAIN due : i > last_log_index})
  /\ Overtake(start_idx_ .. last_log_index)
  /\ UNCHANGED <<diskVars, clock, wr, phase>>

compact(last_log_index) ==
  /\ phase = "up" /\ wr.op = "idle" /\ last_log_index <= MaxIndex
  /\ logs_' = Restrict(logs_, DOMAIN logs_ \ (start_idx_ .. last_log_index))
  /\ start_idx_' = IF start_idx_ <= last_log_index
                   THEN last_log_index + 1 ELSE start_idx_
  /\ due' = Restrict(due, {i \in DOMAIN due : i > last_log_index})
  /\ Overtake(start_idx_ .. last_log_index)
  /\ UNCHANGED <<diskVars, clock, wr, phase>>
-----------------------------------------------------------------------------
\* A pack that may be applied at `index': it continues the window, or the
\* store is empty and the pack says where, past what was compacted, it starts.
\* It may hold no entries.
PackFits(index, entries) ==
  /\ index + Len(entries) - 1 <= MaxIndex
  /\ IF Indices # {} THEN index \in start_idx_ .. next_slot
     ELSE index >= start_idx_

ApplyPackBegin(index, entries) ==
  /\ phase = "up" /\ wr.op = "idle" /\ PackFits(index, entries)
  /\ wr' = [op |-> "apply", idx |-> index, left |-> entries]
  /\ UNCHANGED <<storeVars, diskVars, clock, rd, phase, due>>

ApplyPackEntry ==
  /\ phase = "up" /\ wr.op = "apply" /\ wr.left # <<>>
  /\ logs_' = Put(logs_, wr.idx, Head(wr.left))
  /\ wr' = [wr EXCEPT !.idx = @ + 1, !.left = Tail(@)]
  /\ due' = Restrict(due, DOMAIN due \ {wr.idx})
  /\ Overtake({wr.idx})
  /\ UNCHANGED <<start_idx_, diskVars, clock, phase>>

\* Mutant: start_idx_ is not recomputed.
ApplyPackEndKeepsStart ==
  /\ phase = "up" /\ wr.op = "apply" /\ wr.left = <<>>
  /\ wr' = WriterIdle
  /\ UNCHANGED <<storeVars, diskVars, clock, rd, phase, due>>

\* The end of apply_pack() finds where the log begins.  With no entries that is
\* 1 again, whatever was compacted: the indices below are back in the window.
ApplyPackEnd ==
  /\ phase = "up" /\ wr.op = "apply" /\ wr.left = <<>>
  /\ start_idx_' = IF Indices # {} THEN MinOf(Indices) ELSE 1
  /\ wr' = WriterIdle
  /\ Overtake(start_idx_' .. start_idx_ - 1)
  /\ UNCHANGED <<logs_, diskVars, clock, phase, due>>

\* flush() calls next_slot() under the lock and stores the result without it.
FlushBegin ==
  /\ phase = "up" /\ wr.op = "idle"
  /\ wr' = [op |-> "flush", idx |-> next_slot - 1, left |-> <<>>]
  /\ UNCHANGED <<storeVars, diskVars, clock, rd, phase, due>>

FlushEnd ==
  /\ phase = "up" /\ wr.op = "flush"
  /\ disk_emul_last_durable_index_' = wr.idx
  /\ wr' = WriterIdle
  /\ due' = <<>>
  /\ UNCHANGED <<storeVars, disk_emul_delay, disk_emul_logs_being_written_,
                 disk, clock, rd, phase>>
-----------------------------------------------------------------------------
\* set_disk_delay() is public but nothing serialises it with the mutators.
SetDiskDelay(d) ==
  /\ phase = "up" /\ disk_emul_delay # d
  /\ disk_emul_delay' = d
  /\ disk' = IF disk.pc = "none" THEN [disk EXCEPT !.pc = "wait"] ELSE disk
  /\ UNCHANGED <<storeVars, disk_emul_logs_being_written_,
                 disk_emul_last_durable_index_, clock, wr, rd, phase, due>>

\* wait_us() returns, because the event is set ...
DiskWake ==
  /\ phase \in {"up", "closing"} /\ disk.pc = "wait" /\ disk.ea
  /\ disk' = [disk EXCEPT !.pc = "woken"]
  /\ UNCHANGED <<storeVars, disk_emul_delay, disk_emul_logs_being_written_,
                 disk_emul_last_durable_index_, clock, wr, rd, phase, due>>

\* ... or because its time is up.
DiskTimeout ==
  /\ phase \in {"up", "closing"} /\ disk.pc = "wait"
  /\ disk' = [disk EXCEPT !.pc = "woken"]
  /\ UNCHANGED <<storeVars, disk_emul_delay, disk_emul_logs_being_written_,
                 disk_emul_last_durable_index_, clock, wr, rd, phase, due>>

\* disk_emul_thread_stop_signal_, which the loop tests after a wait and after a
\* scan.  Mutant: the loop never sees it.
StoppingNever == FALSE

Stopping == phase = "closing"

\* reset() forgets an event that came since the wait, and the clock is read ...
DiskReset ==
  /\ phase \in {"up", "closing"} /\ disk.pc = "woken" /\ ~Stopping
  /\ disk' = [pc |-> "scan", cur |-> clock, ea |-> FALSE]
  /\ UNCHANGED <<storeVars, disk_emul_delay, disk_emul_logs_being_written_,
                 disk_emul_last_durable_index_, clock, wr, rd, phase, due>>

\* The thread leaves its loop, and the destructor's join returns.
LeaveLoop == disk' = [disk EXCEPT !.pc = "none"] /\ phase' = "destroyed"

\* Mutant: a retired write is not erased.
DiskScanKeeps ==
  LET w    == disk_emul_logs_being_written_
      done == {t \in DOMAIN w : t <= disk.cur}
  IN /\ phase \in {"up", "closing"} /\ disk.pc = "scan"
     /\ \/ done = {} /\ UNCHANGED disk_emul_last_durable_index_
        \/ \E t \in done : /\ \A u \in done : u <= t
                           /\ disk_emul_last_durable_index_' = w[t]
     /\ IF Stopping THEN LeaveLoop ELSE disk' = [disk EXCEPT !.pc = "wait"] /\ UNCHANGED phase
     /\ UNCHANGED <<storeVars, disk_emul_delay, disk_emul_logs_being_written_,
                    clock, wr, rd, due>>

\* ... and later, under the lock, retires the writes due by that reading; the
\* last one retired, the one with the greatest timestamp, is the durable index.
DiskScan ==
  LET w    == disk_emul_logs_being_written_
      done == {t \in DOMAIN w : t <= disk.cur}
  IN /\ phase \in {"up", "closing"} /\ disk.pc = "scan"
     /\ disk_emul_logs_being_written_' = Restrict(w, DOMAIN w \ done)
     /\ \/ done = {} /\ UNCHANGED disk_emul_last_durable_index_
        \/ \E t \in done : /\ \A u \in done : u <= t
                           /\ disk_emul_last_durable_index_' = w[t]
     /\ IF Stopping THEN LeaveLoop ELSE disk' = [disk EXCEPT !.pc = "wait"] /\ UNCHANGED phase
     /\ UNCHANGED <<storeVars, disk_emul_delay, clock, wr, rd, due>>

\* The destructor sets the stop signal and the event, and joins the thread.
Destroy ==
  /\ phase = "up" /\ wr.op = "idle" /\ \A r \in Readers : rd[r].op = "idle"
  /\ IF disk.pc = "none" THEN phase' = "destroyed" /\ UNCHANGED disk
     ELSE phase' = "closing" /\ disk' = [disk EXCEPT !.ea = TRUE]
  /\ UNCHANGED <<storeVars, disk_emul_delay, disk_emul_logs_being_written_,
                 disk_emul_last_durable_index_, clock, wr, rd, due>>

DiskExit ==
  /\ disk.pc = "woken" /\ Stopping
  /\ LeaveLoop
  /\ UNCHANGED <<storeVars, disk_emul_delay, disk_emul_logs_being_written_,
                 disk_emul_last_durable_index_, clock, wr, rd, due>>

Tick ==
  /\ phase = "up" /\ clock < MaxTime
  /\ clock' = clock + 1
  /\ UNCHANGED <<storeVars, diskVars, wr, rd, phase, due>>
-----------------------------------------------------------------------------
Read(r, op, first, end, batch) ==
  /\ phase = "up" /\ rd[r].op = "idle"
  /\ rd' = [rd EXCEPT ![r] =
       [op |-> op, first |-> first, pos |-> first, end |-> end,
        batch |-> batch, acc |-> <<>>, raced |-> FALSE, torn |-> Torn]]
  /\ UNCHANGED <<storeVars, diskVars, clock, wr, phase, due>>

\* Mutant: pack() includes the end of its range.
PackInclusive(r, first, end) == Read(r, "pack", first, end + 1, FALSE)

\* log_entries(first, end), log_entries_ext(first, end, hint) and
\* pack(first, end - first) on a range of the window.
LogEntries(r, first, end) == Read(r, "entries", first, end, FALSE)
Pack(r, first, end)       == Read(r, "pack", first, end, FALSE)

\* A negative hint returns nothing, a positive one may end the batch early.
LogEntriesExt(r, first, end, hint) ==
  Read(r, "ext", first, IF hint < 0 THEN first ELSE end, hint > 0)

\* Mutant: last_entry() looks next_slot() up.
LastEntryPastEnd(r) == Read(r, "last", next_slot, next_slot + 1, FALSE)

\* last_entry(): next_slot() under one lock, the lookup under another.
LastEntry(r) == Read(r, "last", next_slot - 1, next_slot, FALSE)

\* entry_at(index), and term_at(index): any index, the dummy if not present.
EntryAt(r, index) == Read(r, "at", index, index + 1, FALSE)

\* One locked lookup: a missing index yields the dummy entry (the assert is
\* compiled out of the release build).
ReadStep(r) ==
  LET c == rd[r]
      e == IF c.pos \in DOMAIN logs_ THEN logs_[c.pos] ELSE logs_[0]
  IN /\ phase = "up" /\ c.op # "idle" /\ c.pos < c.end
     /\ c.op = "pack" => c.pos \in DOMAIN logs_
     /\ \E stop \in {c.pos + 1, c.end} :
          /\ stop # c.end => c.batch
          /\ rd' = [rd EXCEPT ![r] = [c EXCEPT !.pos = @ + 1, !.end = stop,
                                               !.acc = Append(@, e)]]
     /\ UNCHANGED <<storeVars, diskVars, clock, wr, phase, due>>

\* pack() looks the index up with operator[], which inserts a null entry when
\* it is missing, and dereferences it: the process dies.
PackCrash(r) ==
  /\ phase = "up" /\ rd[r].op = "pack" /\ rd[r].pos < rd[r].end
  /\ rd[r].pos \notin DOMAIN logs_
  /\ phase' = "crashed"
  /\ UNCHANGED <<storeVars, diskVars, clock, wr, rd, due>>

Return(r) ==
  /\ phase = "up" /\ rd[r].op # "idle" /\ rd[r].pos = rd[r].end
  /\ rd' = [rd EXCEPT ![r] = ReaderIdle]
  /\ UNCHANGED <<storeVars, diskVars, clock, wr, phase, due>>
-----------------------------------------------------------------------------
Writer ==
  \/ \E e \in Entry : append(e)
  \/ \E i \in 1 .. MaxIndex, e \in Entry : write_at(i, e)
  \/ \E l \in 1 .. MaxIndex : compact(l)
  \/ \E i \in 1 .. MaxIndex, n \in 0 .. MaxPack :
        \E es \in [1 .. n -> Entry] : ApplyPackBegin(i, es)
  \/ ApplyPackEntry \/ ApplyPackEnd
  \/ FlushBegin \/ FlushEnd

Reader(r) ==
  \/ \E i \in start_idx_ .. next_slot : \E j \in i .. next_slot :
        \/ LogEntries(r, i, j)
        \/ Pack(r, i, j)
        \/ \E hint \in {-1, 0, 1} : LogEntriesExt(r, i, j, hint)
  \/ LastEntry(r)
  \/ \E i \in 0 .. MaxIndex : EntryAt(r, i)
  \/ ReadStep(r) \/ PackCrash(r) \/ Return(r)

Ended == phase \in {"destroyed", "crashed"} /\ UNCHANGED vars

Next ==
  \/ Writer
  \/ \E r \in Readers : Reader(r)
  \/ \E d \in Delays : SetDiskDelay(d)
  \/ DiskWake \/ DiskTimeout \/ DiskReset \/ DiskScan \/ Destroy \/ DiskExit
  \/ Tick \/ Ended

\* The disk thread is scheduled, its wait is bounded, signalled or not, and time
\* passes; nothing else is owed.
Fairness == WF_vars(DiskTimeout) /\ WF_vars(DiskReset) /\ WF_vars(DiskScan)
            /\ WF_vars(DiskExit) /\ WF_vars(Tick)

Spec == Init /\ [][Next]_vars /\ Fairness
-----------------------------------------------------------------------------
\* next_slot() is the index after the last entry and no index of the window
\* start_idx_ .. next_slot() - 1 is missing, whatever sequence of append,
\* write_at, compact and apply_pack led here (between calls of apply_pack,
\* which recomputes start_idx_ only at its end).
Contiguous ==
  wr.op # "apply" => DOMAIN logs_ = {0} \cup (start_idx_ .. next_slot - 1)

\* The first index of the window also while a pack is being applied, when
\* start_idx_, and with it next_slot(), is not yet that of a formerly empty
\* store: what the calls of that time are shown instead is not in the mapping.
AbstractFirst == IF Indices # {} THEN MinOf(Indices) ELSE start_idx_
AbstractEnd   == AbstractFirst + Cardinality(Indices)

\* A call of log_entries, log_entries_ext, pack or last_entry that no mutator
\* overtook in its range has so far collected the entries of that range.  The
\* dummy that stands for a missing index (the case the asserts of log_entries
\* call impossible) it has only from last_entry on an empty log, unless it began
\* while start_idx_ was not where the log begins, in the middle of apply_pack.
ReadsAreSlices ==
  \A r \in Readers :
    LET c == rd[r] IN
    ~c.raced => \A k \in DOMAIN c.acc :
      LET i == c.first + k - 1 IN
      /\ c.acc[k] = IF i \in Indices THEN logs_[i] ELSE Dummy
      /\ c.op # "at" /\ ~c.torn /\ i >= start_idx_ => i \in Indices

\* pack() kills the process only when a mutator overtook it in its range, or
\* when it began while start_idx_ was not where the log begins: then nothing
\* need be removed, the window that the store shows has indices that never were.
CrashOnlyIfOvertaken ==
  phase = "crashed" =>
    \E r \in Readers : rd[r].op = "pack" /\ (rd[r].raced \/ rd[r].torn)

\* Once the emulated disk has nothing left to write, every entry written with
\* the delay on is covered by the durable index, although flush(), write_at()
\* and two writes in the same microsecond all rearrange the pending writes.
NoWriteForgotten ==
  DOMAIN disk_emul_logs_being_written_ = {} =>
    \A i \in DOMAIN due : i <= disk_emul_last_durable_index_

\* Every write handed to the emulated disk is retired, so the library is
\* eventually notified, unless the store goes away first.
WritesComplete ==
  \A t \in 0 .. MaxTime :
    t \in DOMAIN disk_emul_logs_being_written_ ~>
      (t \notin DOMAIN disk_emul_logs_being_written_ \/ phase # "up")

\* The destructor's join returns.
DestroyReturns == phase = "closing" ~> phase = "destroyed"
-----------------------------------------------------------------------------
\* The store implements the abstract log.
Abstract == INSTANCE RaftLog WITH first <- AbstractFirst,
                                  log <- Restrict(logs_, Indices),
                                  receiving <- wr.op = "apply"

\* Every step of every call is one step of the abstract log or leaves it alone.
ImplementsRaftLog == Abstract!RLSpec
=============================================================================
