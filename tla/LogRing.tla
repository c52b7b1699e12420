------------------------------- MODULE LogRing -------------------------------
(***************************************************************************)
(* SimpleLogger (src/server/logger.{h,cpp}): messages go into a ring of     *)
(* LogElems that several threads fill without a lock and that one thread at *)
(* a time, the holder of flushingLogs, copies to the log file.  The file is *)
(* rotated when it grows too long, and a compressor thread archives the old *)
(* ones and removes the oldest.                                             *)
(*                                                                          *)
(* A step is one access of an atomic (a slot's status, the cursor), one     *)
(* slot copied, or one critical section.  A message is the pair of the      *)
(* thread and the number of its put(); a put() above the log level returns  *)
(* at once and is no step.  `Main' is the thread that start()s and stop()s  *)
(* the logger, `Flusher' the flushWorker thread of the manager.  stop() is  *)
(* called when no other thread uses the logger any more: it runs when the   *)
(* last owner drops it.                                                     *)
(***************************************************************************)
EXTENDS Integers, FiniteSets, Sequences

CONSTANTS Putters,      \* threads that call put()
          Main, Flusher,
          NoThread,     \* flushingLogs is free
          NoMsg,        \* the content of a slot never written
          N,            \* logs.size(), max_log_elems
          MaxPuts,      \* bound: put() calls of the Putters together
          MaxFileSize,  \* maxLogFileSize in messages, 0 for no rotation
          MaxLogFiles,  \* maxLogFiles, 0 to keep every file
          IOFails       \* an open() or a write() of the log file may fail

Threads == Putters \cup {Main, Flusher}

ASSUME RingAssumption ==
  /\ N \in Nat \ {0}
  /\ MaxPuts \in Nat /\ MaxFileSize \in Nat /\ MaxLogFiles \in Nat
  /\ IOFails \in BOOLEAN
  /\ Main # Flusher /\ Main \notin Putters /\ Flusher \notin Putters
  /\ NoThread \notin Threads

Slots    == 0 .. N - 1
Messages == Threads \X Nat

VARIABLES status, ctx,   \* the LogElems
          cursor,
          flushingLogs,  \* the holder of the mutex, or NoThread
          pc, my, pos, n,  \* per thread: where it is, its slot, how many slots
                           \* its flush has passed, its put() calls so far
          fs,            \* the ofstream: "closed" before start() and within a
                         \* rotation, "good", "bad" after a failed write, or
                         \* "failed", not open, after a failed open
          registered,    \* the logger is in the manager's set
          curRevnum, minRevnum,
          files,         \* revision -> messages written to that log file
          plain, tars,   \* revisions whose file, whose archive is on disk
          pendingCompElems, numCompJobs,
          comp,          \* the compressor: its step and its file
          lost           \* history: messages that put() or a flush dropped

slotVars == <<status, ctx, cursor, flushingLogs>>
thVars   == <<pc, my, pos, n>>
fileVars == <<fs, curRevnum, minRevnum, files, plain, tars, pendingCompElems, numCompJobs,
              comp>>
vars     == <<slotVars, thVars, fileVars, registered, lost>>

Msg(t) == <<t, n[t] + 1>>

Init ==
  /\ status = [k \in Slots |-> "CLEAN"] /\ ctx = [k \in Slots |-> NoMsg]
  /\ cursor = 0 /\ flushingLogs = NoThread
  /\ pc = [t \in Threads |-> IF t = Main THEN "new" ELSE "idle"]
  /\ my = [t \in Threads |-> 0] /\ pos = [t \in Threads |-> 0]
  /\ n = [t \in Threads |-> 0]
  /\ fs = "closed" /\ registered = FALSE
  /\ curRevnum = 0 /\ minRevnum = 0
  /\ files = <<>> /\ plain = {} /\ tars = {}
  /\ pendingCompElems = <<>> /\ numCompJobs = 0
  /\ comp = [pc |-> "idle", file |-> 0]
  /\ lost = {}
-----------------------------------------------------------------------------
Goto(t, l) == pc' = [pc EXCEPT ![t] = l]

\* t returns to l: the locals of the call are gone, and a put() that goes on
\* after its flush() still has its slot.
Return(t, l) ==
  /\ Goto(t, l)
  /\ my' = [my EXCEPT ![t] = IF l \in {"wait", "write"} THEN @ ELSE 0]
  /\ pos' = [pos EXCEPT ![t] = 0]

\* Where a put() returns to: main's two calls are inside start() and stop().
AfterPut(t) == IF t # Main THEN "idle" ELSE IF n[t] = 0 THEN "started" ELSE "stopflush"

\* Mutant: the cursor does not wrap around.
ClaimNoWrap(t) ==
  /\ my' = [my EXCEPT ![t] = cursor]
  /\ cursor' = cursor + 1
  /\ Goto(t, "avail")
  /\ UNCHANGED <<status, ctx, flushingLogs, pos, n, fileVars, registered, lost>>

\* The cursor's compare-and-swap gives the thread its slot.
Claim(t) ==
  /\ my' = [my EXCEPT ![t] = cursor]
  /\ cursor' = (cursor + 1) % N
  /\ Goto(t, "avail")
  /\ UNCHANGED <<status, ctx, flushingLogs, pos, n, fileVars, registered, lost>>

\* The message of this put() is not written; the put() returns.
Drop(t) ==
  /\ lost' = lost \cup {Msg(t)}
  /\ n' = [n EXCEPT ![t] = @ + 1]
  /\ Return(t, AfterPut(t))
  /\ UNCHANGED <<slotVars, fileVars, registered>>

\* !fs and fs.is_open()
Broken == fs \in {"bad", "failed"}
IsOpen == fs \in {"good", "bad"}

put(t) == IF Broken THEN Drop(t) ELSE Claim(t)

\* The put() calls of the Putters that have returned or are in progress.
PutCalls ==
  {c \in Putters \X (1 .. MaxPuts) : c[2] <= n[c[1]] + IF pc[c[1]] = "idle" THEN 0 ELSE 1}

PutBegin(t) ==
  /\ t \in Putters /\ pc[t] = "idle" /\ Cardinality(PutCalls) < MaxPuts
  /\ pc[Main] = "started"
  /\ put(t)

\* while (!ll->available()) yield
Available(t) ==
  /\ pc[t] = "avail" /\ status[my[t]] \in {"CLEAN", "DIRTY"}
  /\ Goto(t, "check")
  /\ UNCHANGED <<slotVars, my, pos, n, fileVars, registered, lost>>

\* Mutant: put() waits for the flusher instead of flushing a full ring.
CheckFlushWaits(t) ==
  /\ pc[t] = "check"
  /\ Goto(t, IF status[my[t]] = "DIRTY" THEN "avail" ELSE "write")
  /\ UNCHANGED <<slotVars, my, pos, n, fileVars, registered, lost>>

CheckFlush(t) ==
  /\ pc[t] = "check"
  /\ Goto(t, IF status[my[t]] = "DIRTY" THEN "trylock" ELSE "write")
  /\ UNCHANGED <<slotVars, my, pos, n, fileVars, registered, lost>>

\* while (ll->needToFlush()) yield, after flush() returned false.
WaitFlushed(t) ==
  /\ pc[t] = "wait" /\ status[my[t]] # "DIRTY"
  /\ Goto(t, "write")
  /\ UNCHANGED <<slotVars, my, pos, n, fileVars, registered, lost>>

\* Mutant: the status is stored, not compared and swapped.
WriteBeginStores(t) ==
  /\ pc[t] = "write"
  /\ status' = [status EXCEPT ![my[t]] = "WRITING"]
  /\ Goto(t, "writing")
  /\ UNCHANGED <<ctx, cursor, flushingLogs, my, pos, n, fileVars, registered, lost>>

\* LogElem::write(): put() ignores that it fails when the slot is not CLEAN.
WriteBegin(t) ==
  /\ pc[t] = "write" /\ status[my[t]] = "CLEAN"
  /\ status' = [status EXCEPT ![my[t]] = "WRITING"]
  /\ Goto(t, "writing")
  /\ UNCHANGED <<ctx, cursor, flushingLogs, my, pos, n, fileVars, registered, lost>>

WriteFails(t) ==
  /\ pc[t] = "write" /\ status[my[t]] # "CLEAN"
  /\ Drop(t)

WriteEnd(t) ==
  /\ pc[t] = "writing"
  /\ ctx' = [ctx EXCEPT ![my[t]] = Msg(t)]
  /\ status' = [status EXCEPT ![my[t]] = "DIRTY"]
  /\ n' = [n EXCEPT ![t] = @ + 1]
  /\ Return(t, AfterPut(t))
  /\ UNCHANGED <<cursor, flushingLogs, fileVars, registered, lost>>
-----------------------------------------------------------------------------
\* Mutant: put() tries again until it has the lock, whatever its slot.
AfterTryLockSpins(t) ==
  IF pc[t] = "trylock" THEN IF t = Flusher THEN "idle" ELSE "trylock"
  ELSE IF pc[t] = "dtorlock" THEN "stopping" ELSE "close"

\* flush(): try_lock, or give up: a put() then waits, flushAll() returns.
AfterTryLock(t) ==
  IF pc[t] = "trylock" THEN IF t = Flusher THEN "idle" ELSE "wait"
  ELSE IF pc[t] = "dtorlock" THEN "stopping" ELSE "close"

LockFlush(t) ==
  /\ pc[t] \in {"trylock", "dtorlock", "stoplock"} /\ flushingLogs = NoThread
  /\ flushingLogs' = t
  /\ pos' = [pos EXCEPT ![t] = 0]
  /\ Goto(t, "flush")
  /\ UNCHANGED <<status, ctx, cursor, my, n, fileVars, registered, lost>>

LockFails(t) ==
  /\ pc[t] \in {"trylock", "dtorlock", "stoplock"} /\ flushingLogs # NoThread
  /\ Return(t, AfterTryLock(t))
  /\ UNCHANGED <<slotVars, n, fileVars, registered, lost>>

\* The slot a flush that started at my[t] is at, circularly.
FlushSlot(t) == (my[t] + pos[t]) % N

\* LogElem::flush(): skips a slot that is not DIRTY.
FlushElem(t) ==
  /\ pc[t] = "flush" /\ pos[t] < N
  /\ IF status[FlushSlot(t)] = "DIRTY"
     THEN /\ status' = [status EXCEPT ![FlushSlot(t)] = "FLUSHING"]
          /\ Goto(t, "flushing")
          /\ UNCHANGED pos
     ELSE /\ pos' = [pos EXCEPT ![t] = @ + 1]
          /\ UNCHANGED <<status, pc>>
  /\ UNCHANGED <<ctx, cursor, flushingLogs, my, n, fileVars, registered, lost>>

\* ofs.write(): into the file, or nowhere when the stream is or becomes bad.
WriteFile(m) ==
  \/ /\ fs = "good"
     /\ files' = [files EXCEPT ![curRevnum] = @ \cup {m}]
     /\ UNCHANGED <<fs, lost>>
  \/ /\ Broken \/ IOFails
     /\ fs' = IF fs = "good" THEN "bad" ELSE fs
     /\ lost' = lost \cup {m}
     /\ UNCHANGED files

\* Mutant: the slot stays dirty.
FlushElemEndDirty(t) ==
  /\ pc[t] = "flushing"
  /\ WriteFile(ctx[FlushSlot(t)])
  /\ status' = [status EXCEPT ![FlushSlot(t)] = "DIRTY"]
  /\ pos' = [pos EXCEPT ![t] = @ + 1]
  /\ Goto(t, "flush")
  /\ UNCHANGED <<ctx, cursor, flushingLogs, my, n, curRevnum, minRevnum,
                 plain, tars, pendingCompElems, numCompJobs, comp, registered>>

FlushElemEnd(t) ==
  /\ pc[t] = "flushing"
  /\ WriteFile(ctx[FlushSlot(t)])
  /\ status' = [status EXCEPT ![FlushSlot(t)] = "CLEAN"]
  /\ pos' = [pos EXCEPT ![t] = @ + 1]
  /\ Goto(t, "flush")
  /\ UNCHANGED <<ctx, cursor, flushingLogs, my, n, curRevnum, minRevnum,
                 plain, tars, pendingCompElems, numCompJobs, comp, registered>>

\* What called flush(): the flusher, stop(), the destructor, or a put().
AfterFlush(t) ==
  IF t = Flusher THEN "idle"
  ELSE IF t = Main /\ n[t] = 2 THEN "close"
  ELSE IF t = Main /\ n[t] = (IF registered THEN 1 ELSE 0) THEN "stopping" ELSE "write"

\* The file is over the limit; tellp() of a stream that is not good is -1.
Exceeded == fs = "good" /\ MaxFileSize > 0 /\ Cardinality(files[curRevnum]) > MaxFileSize

\* The end of flush(): the mutex is freed.
FlushEnd(t) ==
  /\ pc[t] = "flush" /\ pos[t] = N /\ ~Exceeded
  /\ flushingLogs' = NoThread
  /\ Return(t, AfterFlush(t))
  /\ UNCHANGED <<status, ctx, cursor, n, fileVars, registered, lost>>

\* Before that a file over the limit is closed and the next revision opened, if
\* it can be; the closed one is counted as a job and queued for the compressor.
RotateClose(t) ==
  /\ pc[t] = "flush" /\ pos[t] = N /\ Exceeded
  /\ curRevnum' = curRevnum + 1
  /\ fs' = "closed"
  /\ Goto(t, "rotate")
  /\ UNCHANGED <<slotVars, my, pos, n, minRevnum, files, plain, tars,
                 pendingCompElems, numCompJobs, comp, registered, lost>>

\* fs.open(): a new file, or none.
Open ==
  \/ /\ fs' = "good"
     /\ files' = [r \in DOMAIN files \cup {curRevnum} |->
                    IF r \in DOMAIN files THEN files[r] ELSE {}]
     /\ plain' = plain \cup {curRevnum}
  \/ /\ IOFails /\ fs' = "failed"
     /\ UNCHANGED <<files, plain>>

RotateOpen(t) ==
  /\ pc[t] = "rotate"
  /\ Open
  /\ numCompJobs' = numCompJobs + 1
  /\ Goto(t, "queue")
  /\ UNCHANGED <<slotVars, my, pos, n, curRevnum, minRevnum, tars, pendingCompElems,
                 comp, registered, lost>>

RotateQueue(t) ==
  /\ pc[t] = "queue"
  /\ pendingCompElems' = Append(pendingCompElems, curRevnum - 1)
  /\ flushingLogs' = NoThread
  /\ Return(t, AfterFlush(t))
  /\ UNCHANGED <<status, ctx, cursor, n, fs, curRevnum, minRevnum, files,
                 plain, tars, numCompJobs, comp, registered, lost>>

\* flushWorker: every 500 ms, flushAll() on the registered loggers, under
\* loggersLock, which it holds until its pc is "idle" again.
FlushAll ==
  /\ pc[Flusher] = "idle" /\ registered
  /\ my' = [my EXCEPT ![Flusher] = cursor]
  /\ Goto(Flusher, "trylock")
  /\ UNCHANGED <<slotVars, pos, n, fileVars, registered, lost>>
-----------------------------------------------------------------------------
\* start(): open the file, register, and put() a first message; a logger whose
\* file cannot be opened is not registered, and used all the same.
Start ==
  /\ pc[Main] = "new"
  /\ Open
  /\ registered' = (fs' = "good")
  /\ Goto(Main, IF registered' THEN "begin" ELSE "started")
  /\ UNCHANGED <<slotVars, my, pos, n, curRevnum, minRevnum, tars,
                 pendingCompElems, numCompJobs, comp, lost>>

MainPut == pc[Main] = "begin" /\ put(Main)

\* ~SimpleLogger(): flushAll(), which does nothing if a flush is in progress,
\* then stop().
DtorFlushAll ==
  /\ pc[Main] = "started" /\ \A t \in Putters : pc[t] = "idle"
  /\ my' = [my EXCEPT ![Main] = cursor]
  /\ Goto(Main, "dtorlock")
  /\ UNCHANGED <<slotVars, pos, n, fileVars, registered, lost>>

\* stop() looks whether the file is open, which it is not after a failed open()
\* and, for a moment, while the flusher rotates it; then stop() does nothing.
StopCheck ==
  /\ pc[Main] = "stopping"
  /\ Goto(Main, IF IsOpen THEN "removing" ELSE "skipped")
  /\ UNCHANGED <<slotVars, my, pos, n, fileVars, registered, lost>>

\* Mutant: removeLogger() does not wait for a flush by the manager.
StopRemoveRaces ==
  /\ pc[Main] = "removing"
  /\ registered' = FALSE
  /\ Goto(Main, "begin")
  /\ UNCHANGED <<slotVars, my, pos, n, fileVars, lost>>

\* Else it leaves the manager's set, which waits for a flushAllLoggers() in
\* progress, and goes on to put() a last message; flushAll(); close the file,
\* which nobody uses any more; and wait for the compressor.
StopRemove ==
  /\ pc[Main] = "removing" /\ pc[Flusher] = "idle"
  /\ registered' = FALSE
  /\ Goto(Main, "begin")
  /\ UNCHANGED <<slotVars, my, pos, n, fileVars, lost>>

StopFlushAll ==
  /\ pc[Main] = "stopflush"
  /\ my' = [my EXCEPT ![Main] = cursor]
  /\ Goto(Main, "stoplock")
  /\ UNCHANGED <<slotVars, pos, n, fileVars, registered, lost>>

\* Mutant: stop() does not wait for the compressor.
StopWaitNot ==
  /\ pc[Main] = "close"
  /\ Goto(Main, "stopped")
  /\ UNCHANGED <<slotVars, my, pos, n, fileVars, registered, lost>>

StopWait ==
  /\ pc[Main] = "close" /\ numCompJobs = 0
  /\ Goto(Main, "stopped")
  /\ UNCHANGED <<slotVars, my, pos, n, fileVars, registered, lost>>
-----------------------------------------------------------------------------
\* Mutant: a job is counted off when it is taken, and again when it is done.
CompTakeCounts ==
  /\ comp.pc = "idle" /\ pendingCompElems # <<>>
  /\ comp' = [pc |-> "tar", file |-> Head(pendingCompElems)]
  /\ pendingCompElems' = Tail(pendingCompElems)
  /\ numCompJobs' = numCompJobs - 1
  /\ UNCHANGED <<slotVars, thVars, fs, curRevnum, minRevnum, files, plain, tars,
                 registered, lost>>

\* compressWorker takes the oldest job; doCompression() archives the file,
\* removes the plain one, then removes the revisions maxLogFiles behind it.
CompTake ==
  /\ comp.pc = "idle" /\ pendingCompElems # <<>>
  /\ comp' = [pc |-> "tar", file |-> Head(pendingCompElems)]
  /\ pendingCompElems' = Tail(pendingCompElems)
  /\ UNCHANGED <<slotVars, thVars, fs, curRevnum, minRevnum, files, plain, tars,
                 numCompJobs, registered, lost>>

CompTar ==
  /\ comp.pc = "tar"
  /\ tars' = tars \cup {comp.file}
  /\ comp' = [comp EXCEPT !.pc = "rm"]
  /\ UNCHANGED <<slotVars, thVars, fs, curRevnum, minRevnum, files, plain,
                 pendingCompElems, numCompJobs, registered, lost>>

CompRm ==
  /\ comp.pc = "rm"
  /\ plain' = plain \ {comp.file}
  /\ comp' = [comp EXCEPT !.pc = "retain"]
  /\ UNCHANGED <<slotVars, thVars, fs, curRevnum, minRevnum, files, tars,
                 pendingCompElems, numCompJobs, registered, lost>>

\* Mutant: one revision too many.
ExpiredOneMore(file) == file - MaxLogFiles + 1

\* Revisions minRevnum .. Expired(file) are removed, archived or not.
Expired(file) == file - MaxLogFiles

CompRetain ==
  /\ comp.pc = "retain"
  /\ IF MaxLogFiles > 0 /\ comp.file >= MaxLogFiles
     THEN LET gone == minRevnum .. Expired(comp.file) IN
          /\ plain' = plain \ gone /\ tars' = tars \ gone
          /\ minRevnum' = IF gone = {} THEN minRevnum ELSE Expired(comp.file) + 1
     ELSE UNCHANGED <<plain, tars, minRevnum>>
  /\ numCompJobs' = numCompJobs - 1
  /\ comp' = [comp EXCEPT !.pc = "idle"]
  /\ UNCHANGED <<slotVars, thVars, fs, curRevnum, files, pendingCompElems,
                 registered, lost>>
-----------------------------------------------------------------------------
\* The steps of a call in progress.
Step(t) ==
  \/ Available(t) \/ CheckFlush(t) \/ WaitFlushed(t)
  \/ WriteBegin(t) \/ WriteFails(t) \/ WriteEnd(t)
  \/ LockFlush(t) \/ LockFails(t) \/ FlushElem(t) \/ FlushElemEnd(t) \/ FlushEnd(t)
  \/ RotateClose(t) \/ RotateOpen(t) \/ RotateQueue(t)

MainStep == MainPut \/ StopCheck \/ StopFlushAll \/ StopWait
Compress == CompTake \/ CompTar \/ CompRm \/ CompRetain

\* stop() has returned.
Stopped == pc[Main] \in {"stopped", "skipped"} /\ UNCHANGED vars

Next ==
  \/ Start \/ DtorFlushAll \/ StopRemove \/ MainStep
  \/ \E t \in Putters : PutBegin(t)
  \/ \E t \in Threads : Step(t)
  \/ FlushAll \/ Compress
  \/ Stopped

\* Every thread inside a call keeps running, and the two workers of the
\* manager keep looping; callers owe no call.  The flusher sleeps for 500 ms
\* between two flushes, so a thread that waits for loggersLock gets it.
Fairness ==
  /\ \A t \in Threads : WF_vars(Step(t))
  /\ WF_vars(MainStep) /\ SF_vars(StopRemove)
  /\ WF_vars(FlushAll) /\ WF_vars(Compress)

Spec == Init /\ [][Next]_vars /\ Fairness
-----------------------------------------------------------------------------
SlotType ==
  /\ status \in [Slots -> {"CLEAN", "WRITING", "DIRTY", "FLUSHING"}]
  /\ ctx \in [Slots -> Messages \cup {NoMsg}]
  /\ cursor \in Slots
  /\ flushingLogs \in Threads \cup {NoThread}

ThreadType ==
  /\ pc \in [Threads -> {"new", "begin", "started", "idle", "avail", "check",
                         "trylock", "wait", "write", "writing", "flush",
                         "flushing", "rotate", "queue", "dtorlock", "stopping", "removing",
                         "stopflush", "stoplock", "close", "stopped", "skipped"}]
  /\ my \in [Threads -> Slots]
  /\ pos \in [Threads -> Nat]
  /\ n \in [Threads -> Nat]

FileType ==
  /\ fs \in {"closed", "good", "bad", "failed"}
  /\ curRevnum \in Nat /\ minRevnum \in Nat
  /\ DOMAIN files \subseteq Nat
  /\ \A r \in DOMAIN files : files[r] \subseteq Messages \cup {NoMsg}
  /\ plain \subseteq Nat /\ tars \subseteq Nat
  /\ pendingCompElems \in Seq(Nat) /\ numCompJobs \in Nat
  /\ comp \in [pc : {"idle", "tar", "rm", "retain"}, file : Nat]
  /\ registered \in BOOLEAN /\ lost \subseteq Messages

\* Shapes of the ring, of the threads and of the files: a cursor and a slot
\* number are always within the ring, and numCompJobs never wraps below 0.
TypeOK == SlotType /\ ThreadType /\ FileType

\* The thread that writes slot k, or copies it to the file.
WorksOn(t, k) == \/ pc[t] = "writing" /\ my[t] = k
                 \/ pc[t] = "flushing" /\ FlushSlot(t) = k

\* A slot is busy exactly while one thread works on it, and never two: the
\* status words are the only lock a slot has, and put() and flush() take them
\* after waits that may be out of date.
OneWorker ==
  \A k \in Slots :
    /\ \A t, u \in Threads : WorksOn(t, k) /\ WorksOn(u, k) => t = u
    /\ status[k] = "WRITING" <=> \E t \in Threads : pc[t] = "writing" /\ WorksOn(t, k)
    /\ status[k] = "FLUSHING" <=> \E t \in Threads : pc[t] = "flushing" /\ WorksOn(t, k)

\* flushingLogs is held by exactly the thread that is between its try_lock and
\* the end of its flush().
LockInv ==
  \A t \in Threads : pc[t] \in {"flush", "flushing", "rotate", "queue"} <=> flushingLogs = t

\* numCompJobs counts the queued jobs, the one in progress and the one that a
\* rotation is about to queue, so stop() waits for exactly them.
JobsCounted ==
  numCompJobs = Len(pendingCompElems)
                  + (IF comp.pc = "idle" THEN 0 ELSE 1)
                  + (IF \E t \in Threads : pc[t] = "queue" THEN 1 ELSE 0)

InRing(m) == {k \in Slots : ctx[k] = m /\ status[k] \in {"DIRTY", "FLUSHING"}}

\* A message that was not dropped is in one slot, waiting, or in one log file: no
\* overwrite by a thread that went around the ring, no second copy in the file of
\* another revision.  One that was dropped is nowhere.
AcceptedOnce ==
  \A t \in Threads : \A i \in 1 .. n[t] :
    LET m == <<t, i>> IN
    Cardinality(InRing(m)) + Cardinality({r \in DOMAIN files : m \in files[r]}) =
      IF m \in lost THEN 0 ELSE 1

\* When stop() has closed the file nothing is left in the ring, although its
\* flushAll() does nothing if another thread holds flushingLogs.
StopFlushesAll ==
  pc[Main] \in {"close", "stopped"} => \A k \in Slots : status[k] = "CLEAN"

\* A file that is open is never archived or removed, and of the older revisions
\* the newest maxLogFiles are on disk, as a file or as an archive, at every
\* moment of a rotation and of the compressor's work.
NewestKept ==
  /\ IsOpen => curRevnum \in plain \ tars
  /\ \A r \in 0 .. curRevnum - 1 :
       MaxLogFiles = 0 \/ r >= curRevnum - MaxLogFiles => r \in plain \cup tars

\* When a stop() that found the file open returns, the compressor is done with
\* this logger: every rotated file is archived and no job that points to the
\* logger is queued, also if the rotation before it could not open the next file.
StopOutlivesJobs ==
  pc[Main] = "stopped" =>
    plain \subseteq {curRevnum} /\ pendingCompElems = <<>> /\ comp.pc = "idle"

\* put() returns, although it waits for other threads to free its slot.
PutReturns == \A t \in Putters : pc[t] # "idle" ~> pc[t] = "idle"

\* start() and the destructor return, although stop() waits for loggersLock
\* and for the compressor, and its last put() for a slot.
StopReturns == pc[Main] \notin {"new", "started", "stopped", "skipped"} ~>
                 pc[Main] \in {"started", "stopped", "skipped"}

\* put(): "Put a log with level, line number, function name, and file name."
NoMessageLost == lost = {}
=============================================================================
