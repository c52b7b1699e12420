---------------------------- MODULE LogRing_proof ----------------------------
(***************************************************************************)
(* The logger for every number of threads and slots, file limit and number  *)
(* of calls: one thread works on a slot, an accepted message is in one      *)
(* place, a stop() that finds the file open leaves nothing in the ring and  *)
(* no job behind, and the newest files stay.                                *)
(***************************************************************************)
EXTENDS LogRing, SequenceTheorems, FiniteSetTheorems, TLAPS

InFlush == {"flush", "flushing", "rotate", "queue"}
InPut   == {"avail", "check", "trylock", "wait", "write", "writing"}

\* A rotation comes after the walk over the ring, and has a revision to queue.
Advanced ==
  \A t \in Threads : pc[t] \in {"rotate", "queue"} => pos[t] = N /\ curRevnum > 0

\* A slot to be flushed has a message.
Filled == \A k \in Slots : status[k] \in {"DIRTY", "FLUSHING"} => ctx[k] \in Messages

RingInv == TypeOK /\ LockInv /\ OneWorker /\ JobsCounted /\ Advanced /\ Filled

\* The logger whose start() failed: unknown to the manager, and never written to.
NeverOpened == n[Main] = 0 /\ ~registered /\ fs = "failed"

\* Where main is says how many messages it has put and whether the manager
\* knows the logger; the others use the logger only between start() and stop().
MainPhase ==
  /\ pc[Main] = "new" => n[Main] = 0 /\ ~registered /\ fs = "closed"
  /\ pc[Main] \in {"begin"} \cup InPut =>
       (n[Main] = 0 /\ registered) \/ (n[Main] = 1 /\ ~registered)
  /\ pc[Main] \in InFlush =>
       \/ (n[Main] = 0 /\ registered) \/ n[Main] = 1
       \/ (n[Main] = 2 /\ ~registered) \/ NeverOpened
  /\ pc[Main] \in {"started", "dtorlock", "stopping", "skipped"} =>
       (n[Main] = 1 /\ registered) \/ NeverOpened
  /\ pc[Main] = "removing" => n[Main] = 1 /\ registered
  /\ pc[Main] \in {"stopflush", "stoplock", "close", "stopped"} => n[Main] = 2 /\ ~registered
  /\ pc[Main] # "idle"

Phases ==
  /\ MainPhase
  /\ \A t \in Putters : /\ pc[t] \in {"idle"} \cup InPut \cup InFlush
                        /\ pc[Main] # "started" => pc[t] = "idle"
  /\ pc[Flusher] \in {"idle", "trylock"} \cup InFlush
  /\ ~registered => pc[Flusher] = "idle"
  /\ \A t \in Threads : pc[t] = "rotate" => fs = "closed"

\* The last flush of stop() leaves every slot it has passed clean.
Emptied ==
  /\ pc[Main] \in InFlush /\ n[Main] = 2 =>
       \A i \in 0 .. pos[Main] - 1 : status[(my[Main] + i) % N] = "CLEAN"
  /\ pc[Main] \in {"close", "stopped"} => \A k \in Slots : status[k] = "CLEAN"

\* The last revision whose file was created: not curRevnum while a rotation has
\* not opened it yet, or could not.
Newest == IF fs \in {"closed", "failed"} THEN curRevnum - 1 ELSE curRevnum

\* A rotation has closed its file and not queued it yet.
Rotating == \E t \in Threads : pc[t] \in {"rotate", "queue"}

\* The first revision the compressor has not taken, and those it has archived.
Untaken  == curRevnum - Len(pendingCompElems) - (IF Rotating THEN 1 ELSE 0)
Archived == minRevnum .. IF comp.pc = "tar" THEN Untaken - 2 ELSE Untaken - 1

\* The jobs are consecutive revisions, the one in progress just before them;
\* from it on the plain files are on disk, and before it the archives that the
\* retention has spared.
Rotated ==
  /\ DOMAIN files = 0 .. Newest
  /\ \A i \in 1 .. Len(pendingCompElems) : pendingCompElems[i] = Untaken + i - 1
  /\ Untaken >= 0
  /\ comp.pc # "idle" => comp.file = Untaken - 1
  /\ plain = Untaken .. Newest \cup IF comp.pc \in {"tar", "rm"} THEN {comp.file} ELSE {}
  /\ tars = Archived
  /\ minRevnum = 0 \/ (MaxLogFiles > 0 /\ minRevnum <= Untaken - MaxLogFiles)

Revisions == Rotated /\ (pc[Main] = "stopped" => numCompJobs = 0)

\* A slot with a message that is to be flushed.
Occupied(k) == status[k] \in {"DIRTY", "FLUSHING"}

\* The messages whose write() has succeeded.
Taken == {m \in Messages : 0 < m[2] /\ m[2] <= n[m[1]] /\ m \notin lost}

\* An accepted message has one place, and what has a place was accepted.
Accepted ==
  /\ \A m \in lost : m[2] <= n[m[1]]
  /\ \A k \in Slots : Occupied(k) => ctx[k] \in Taken
  /\ \A r \in DOMAIN files : files[r] \subseteq Taken
  /\ \A k, j \in Slots : Occupied(k) /\ Occupied(j) /\ ctx[k] = ctx[j] => k = j
  /\ \A k \in Slots, r \in DOMAIN files : Occupied(k) => ctx[k] \notin files[r]
  /\ \A r, s \in DOMAIN files : \A m \in files[r] : m \in files[s] => r = s
  /\ \A m \in Taken : \/ \E k \in Slots : Occupied(k) /\ ctx[k] = m
                      \/ \E r \in DOMAIN files : m \in files[r]

LoggerInv == RingInv /\ Phases /\ Emptied /\ Revisions /\ Accepted

\* The slot a flush is at is a slot of the ring.
LEMMA FlushSlotType ==
  ASSUME ThreadType, NEW t \in Threads
  PROVE  FlushSlot(t) \in Slots
  BY RingAssumption DEF ThreadType, FlushSlot, Slots

\* The cursor stays in the ring when put() moves it on, wrapping around.
LEMMA NextCursorType ==
  ASSUME cursor \in Slots
  PROVE  (cursor + 1) % N \in Slots
  BY RingAssumption DEF Slots

\* The inductive invariant holds of a logger just constructed.
LEMMA InitRing == Init => RingInv
<1> SUFFICES ASSUME Init PROVE RingInv
  OBVIOUS
<1>1. 0 \in Slots /\ Main \in Threads
  BY RingAssumption DEF Slots, Threads
<1>2. SlotType
  BY <1>1 DEF Init, SlotType
<1>3. ThreadType
  BY <1>1 DEF Init, ThreadType
<1>4. FileType
  <2>1. DOMAIN files = {}
    BY DEF Init
  <2>2. pendingCompElems \in Seq(Nat)
    BY EmptySeq DEF Init
  <2>3. comp \in [pc : {"idle", "tar", "rm", "retain"}, file : Nat]
    BY DEF Init
  <2> QED BY <2>1, <2>2, <2>3 DEF Init, FileType
<1>5. LockInv
  BY RingAssumption DEF Init, LockInv
<1>6. OneWorker
  BY DEF Init, OneWorker, WorksOn
<1>7. JobsCounted
  BY DEF Init, JobsCounted
<1>8. Advanced /\ Filled
  BY DEF Init, Advanced, Filled
<1> QED BY <1>2, <1>3, <1>4, <1>5, <1>6, <1>7, <1>8 DEF RingInv, TypeOK

\* Every step keeps the types of the slots, the cursor and the flush lock.
LEMMA SlotTypeStep ==
  ASSUME RingInv, Next PROVE SlotType'
<1> USE DEF RingInv, TypeOK
<1>1. ASSUME NEW t \in Threads, put(t) PROVE SlotType'
  BY <1>1, NextCursorType DEF put, Claim, Drop, slotVars, SlotType
<1>2. ASSUME NEW t \in Threads, Step(t) PROVE SlotType'
  <2>1. my[t] \in Slots /\ FlushSlot(t) \in Slots /\ Msg(t) \in Messages
    BY FlushSlotType DEF ThreadType, Messages, Msg
  <2>2. CASE \/ Available(t) \/ CheckFlush(t) \/ WaitFlushed(t) \/ WriteFails(t)
             \/ LockFails(t) \/ RotateClose(t) \/ RotateOpen(t)
    BY <2>2 DEF Available, CheckFlush, WaitFlushed, WriteFails, Drop, LockFails,
                RotateClose, RotateOpen, slotVars, SlotType
  <2>3. CASE WriteBegin(t)
    BY <2>1, <2>3 DEF WriteBegin, SlotType
  <2>4. CASE WriteEnd(t)
    BY <2>1, <2>4 DEF WriteEnd, SlotType
  <2>5. CASE LockFlush(t) \/ FlushEnd(t) \/ RotateQueue(t)
    BY <2>5 DEF LockFlush, FlushEnd, RotateQueue, SlotType
  <2>6. CASE FlushElem(t)
    BY <2>1, <2>6 DEF FlushElem, SlotType
  <2>7. CASE FlushElemEnd(t)
    BY <2>1, <2>7 DEF FlushElemEnd, SlotType
  <2> QED BY <1>2, <2>2, <2>3, <2>4, <2>5, <2>6, <2>7 DEF Step
<1>3. ASSUME Start \/ DtorFlushAll \/ StopCheck \/ StopRemove \/ StopFlushAll \/ StopWait
             \/ FlushAll \/ Compress \/ Stopped
      PROVE SlotType'
  BY <1>3 DEF Start, DtorFlushAll, StopCheck, StopRemove, StopFlushAll, StopWait, FlushAll,
     Compress, CompTake, CompTar, CompRm, CompRetain, Stopped, vars, slotVars, SlotType
<1> QED BY <1>1, <1>2, <1>3 DEF Next, MainStep, MainPut, PutBegin, Threads

\* Every step keeps the types of the threads' places and slots.
LEMMA ThreadTypeStep ==
  ASSUME RingInv, Next PROVE ThreadType'
<1> USE DEF RingInv, TypeOK
<1>0. Main \in Threads /\ Flusher \in Threads /\ cursor \in Slots /\ 0 \in Slots
  BY RingAssumption DEF Threads, SlotType, Slots
<1>1. ASSUME NEW t \in Threads, put(t) PROVE ThreadType'
  BY <1>1, <1>0 DEF put, Claim, Drop, Return, AfterPut, Goto, ThreadType
<1>2. ASSUME NEW t \in Threads, Step(t) PROVE ThreadType'
  <2>1. CASE Available(t) \/ CheckFlush(t) \/ WaitFlushed(t) \/ WriteBegin(t)
    BY <2>1 DEF Available, CheckFlush, WaitFlushed, WriteBegin, Goto, ThreadType
  <2>2. CASE WriteFails(t) \/ WriteEnd(t)
    BY <1>0, <2>2 DEF WriteFails, Drop, WriteEnd, Return, Goto, AfterPut, ThreadType
  <2>3. CASE LockFlush(t) \/ LockFails(t)
    BY <1>0, <2>3 DEF LockFlush, LockFails, AfterTryLock, Return, Goto, ThreadType
  <2>4. CASE FlushElem(t) \/ FlushElemEnd(t)
    BY <2>4 DEF FlushElem, FlushElemEnd, Goto, ThreadType
  <2>5. CASE FlushEnd(t) \/ RotateQueue(t)
    <3>1. Return(t, AfterFlush(t)) /\ n' = n
      BY <2>5 DEF FlushEnd, RotateQueue
    <3>2. AfterFlush(t) \in {"idle", "close", "stopping", "write"}
      BY DEF AfterFlush
    <3> QED BY <1>0, <3>1, <3>2 DEF Return, Goto, ThreadType
  <2>6. CASE RotateClose(t) \/ RotateOpen(t)
    BY <2>6 DEF RotateClose, RotateOpen, Goto, ThreadType
  <2> QED BY <1>2, <2>1, <2>2, <2>3, <2>4, <2>5, <2>6 DEF Step
<1>3. ASSUME Start \/ DtorFlushAll \/ StopCheck \/ StopRemove \/ StopFlushAll \/ StopWait
             \/ FlushAll
      PROVE ThreadType'
  BY <1>0, <1>3 DEF Start, DtorFlushAll, StopCheck, StopRemove, StopFlushAll, StopWait,
     FlushAll, Goto, ThreadType
<1>4. ASSUME Compress \/ Stopped PROVE ThreadType'
  BY <1>4 DEF Compress, CompTake, CompTar, CompRm, CompRetain, Stopped, vars,
     thVars, ThreadType
<1> QED BY <1>0, <1>1, <1>2, <1>3, <1>4
        DEF Next, MainStep, MainPut, PutBegin, Threads

\* Every step keeps the types of the files and of the compressor; the job
\* counter stays a natural number because of JobsCounted.
LEMMA FileTypeStep ==
  ASSUME RingInv, Next PROVE FileType'
<1> USE DEF RingInv, TypeOK
<1>0. \A t \in Threads : Msg(t) \in Messages
  BY DEF ThreadType, Messages, Msg
<1>1. ASSUME UNCHANGED <<fileVars, registered, lost>> PROVE FileType'
  BY <1>1 DEF FileType, fileVars
<1>2. ASSUME NEW t \in Threads, Drop(t) PROVE FileType'
  BY <1>0, <1>2 DEF Drop, FileType, fileVars
<1>3. ASSUME Open, UNCHANGED <<curRevnum, minRevnum, tars, comp, lost, pendingCompElems>>,
             numCompJobs' \in Nat, registered' \in BOOLEAN
      PROVE  FileType'
  <2>1. CASE fs' = "good"
    <3>1. /\ DOMAIN files' = DOMAIN files \cup {curRevnum} /\ plain' = plain \cup {curRevnum}
          /\ \A r \in DOMAIN files' : files'[r] = IF r \in DOMAIN files THEN files[r] ELSE {}
      BY <1>3, <2>1 DEF Open
    <3> QED BY <1>3, <2>1, <3>1 DEF FileType
  <2>2. CASE fs' # "good"
    BY <1>3, <2>2 DEF Open, FileType
  <2> QED BY <2>1, <2>2
<1>4. ASSUME NEW t \in Threads, Step(t) PROVE FileType'
  <2>1. CASE \/ Available(t) \/ CheckFlush(t) \/ WaitFlushed(t) \/ WriteBegin(t)
             \/ WriteEnd(t) \/ LockFlush(t) \/ LockFails(t) \/ FlushElem(t) \/ FlushEnd(t)
    BY <1>1, <2>1 DEF Available, CheckFlush, WaitFlushed, WriteBegin, WriteEnd,
       LockFlush, LockFails, FlushElem, FlushEnd
  <2>2. CASE WriteFails(t)
    BY <1>2, <2>2 DEF WriteFails
  <2>3. CASE FlushElemEnd(t)
    <3>1. ctx[FlushSlot(t)] \in Messages
      BY <2>3, FlushSlotType DEF FlushElemEnd, OneWorker, WorksOn, Filled
    <3>2. CASE fs = "good" /\ fs' = fs
      BY <2>3, <3>1, <3>2 DEF FlushElemEnd, WriteFile, FileType
    <3>3. CASE ~(fs = "good" /\ fs' = fs)
      BY <2>3, <3>1, <3>3 DEF FlushElemEnd, WriteFile, FileType
    <3> QED BY <3>2, <3>3
  <2>4. CASE RotateClose(t)
    BY <2>4 DEF RotateClose, FileType
  <2>5. CASE RotateOpen(t)
    BY <1>3, <2>5 DEF RotateOpen, FileType
  <2>6. CASE RotateQueue(t)
    <3>1. curRevnum - 1 \in Nat
      BY <2>6 DEF RotateQueue, Advanced, FileType
    <3>2. Append(pendingCompElems, curRevnum - 1) \in Seq(Nat)
      BY <3>1, AppendProperties DEF FileType
    <3> QED BY <2>6, <3>2 DEF RotateQueue, FileType
  <2> QED BY <1>4, <2>1, <2>2, <2>3, <2>4, <2>5, <2>6 DEF Step
<1>5. ASSUME Start \/ DtorFlushAll \/ StopRemove PROVE FileType'
  <2>1. CASE Start
    BY <1>3, <2>1 DEF Start, FileType
  <2>2. CASE DtorFlushAll \/ StopRemove
    BY <2>2 DEF DtorFlushAll, StopRemove, FileType, fileVars
  <2> QED BY <1>5, <2>1, <2>2
<1>6. ASSUME CompTake PROVE FileType'
  <2>1. Head(pendingCompElems) \in Nat /\ Tail(pendingCompElems) \in Seq(Nat)
    BY <1>6, HeadTailProperties DEF CompTake, FileType
  <2> QED BY <1>6, <2>1 DEF CompTake, FileType
<1>7. ASSUME CompTar \/ CompRm PROVE FileType'
  BY <1>7 DEF CompTar, CompRm, FileType
<1>8. ASSUME CompRetain PROVE FileType'
  <2>1. numCompJobs - 1 \in Nat
    BY <1>8, LenProperties DEF CompRetain, JobsCounted, FileType
  <2>2. minRevnum' \in Nat
    BY <1>8, RingAssumption DEF CompRetain, Expired, FileType
  <2> QED BY <1>8, <2>1, <2>2 DEF CompRetain, FileType
<1>9. ASSUME \/ \E t \in Threads : Claim(t)
             \/ StopCheck \/ StopFlushAll \/ StopWait \/ FlushAll \/ Stopped
      PROVE UNCHANGED <<fileVars, registered, lost>>
  BY <1>9 DEF Claim, StopCheck, StopFlushAll, StopWait, FlushAll, Stopped, vars
<1> QED BY <1>1, <1>2, <1>4, <1>5, <1>6, <1>7, <1>8, <1>9
        DEF Next, MainStep, MainPut, PutBegin, put, Compress, Threads

\* Every step keeps flushingLogs with the thread that is inside flush().
LEMMA LockStep ==
  ASSUME RingInv, Next PROVE LockInv'
<1> USE DEF RingInv, TypeOK, InFlush
<1>0. Main \in Threads /\ Flusher \in Threads /\ NoThread \notin Threads
  BY RingAssumption DEF Threads
<1>1. ASSUME NEW t \in Threads, NEW l, Goto(t, l), l \notin InFlush,
             pc[t] \notin InFlush, UNCHANGED flushingLogs
      PROVE LockInv'
  BY <1>1 DEF Goto, LockInv, ThreadType
<1>2. ASSUME NEW t \in Threads, put(t), pc[t] \notin InFlush PROVE LockInv'
  BY <1>1, <1>2 DEF put, Claim, Drop, Return, AfterPut, slotVars
<1>3. ASSUME NEW t \in Threads, Step(t) PROVE LockInv'
  <2>1. CASE \/ Available(t) \/ CheckFlush(t) \/ WaitFlushed(t) \/ WriteBegin(t)
             \/ WriteFails(t) \/ WriteEnd(t) \/ LockFails(t)
    BY <1>1, <2>1 DEF Available, CheckFlush, WaitFlushed, WriteBegin, WriteFails, Drop,
       WriteEnd, LockFails, Return, AfterPut, AfterTryLock, slotVars
  <2>2. CASE LockFlush(t)
    BY <1>0, <2>2 DEF LockFlush, Goto, LockInv, ThreadType
  <2>3. CASE FlushElem(t) \/ FlushElemEnd(t) \/ RotateClose(t) \/ RotateOpen(t)
    BY <2>3 DEF FlushElem, FlushElemEnd, RotateClose, RotateOpen, Goto, LockInv, ThreadType,
       slotVars
  <2>4. CASE FlushEnd(t) \/ RotateQueue(t)
    BY <1>0, <2>4 DEF FlushEnd, RotateQueue, Return, AfterFlush, Goto, LockInv, ThreadType
  <2> QED BY <1>3, <2>1, <2>2, <2>3, <2>4 DEF Step
<1>4. ASSUME Start \/ DtorFlushAll \/ StopCheck \/ StopRemove \/ StopFlushAll \/ StopWait
             \/ FlushAll
      PROVE LockInv'
  BY <1>0, <1>1, <1>4 DEF Start, DtorFlushAll, StopCheck, StopRemove, StopFlushAll, StopWait,
     FlushAll, slotVars
<1>5. ASSUME MainPut \/ \E t \in Putters : PutBegin(t) PROVE LockInv'
  BY <1>0, <1>2, <1>5 DEF MainPut, PutBegin, Threads
<1>6. ASSUME Compress \/ Stopped PROVE LockInv'
  BY <1>6 DEF Compress, CompTake, CompTar, CompRm, CompRetain, Stopped, vars,
     thVars, slotVars, LockInv
<1> QED BY <1>3, <1>4, <1>5, <1>6 DEF Next, MainStep

\* A step of put() or flush() moves its thread only.
LEMMA StepMoves ==
  ASSUME ThreadType, NEW t \in Threads, Step(t)
  PROVE  /\ registered' = registered
         /\ \A u \in Threads : u # t => pc'[u] = pc[u] /\ n'[u] = n[u]
         /\ \A u \in Threads : u # t => my'[u] = my[u] /\ pos'[u] = pos[u]
BY DEF Step, Available, CheckFlush, WaitFlushed, WriteBegin, WriteFails, Drop, WriteEnd,
       LockFlush, LockFails, FlushElem, FlushElemEnd, FlushEnd, RotateClose, RotateOpen,
       RotateQueue, Return, Goto, ThreadType

\* So does a put() that begins.
LEMMA PutMoves ==
  ASSUME ThreadType, NEW t \in Threads, put(t)
  PROVE  /\ UNCHANGED <<registered, status, ctx, flushingLogs, fileVars>>
         /\ \A u \in Threads : u # t => pc'[u] = pc[u] /\ n'[u] = n[u]
         /\ \A u \in Threads : u # t => my'[u] = my[u] /\ pos'[u] = pos[u]
         /\ pc'[t] \in {"avail", AfterPut(t)}
         /\ \/ pc'[t] = "avail" /\ UNCHANGED <<n, lost>>
            \/ /\ pc'[t] = AfterPut(t) /\ n' = [n EXCEPT ![t] = @ + 1]
               /\ lost' = lost \cup {Msg(t)}
BY DEF put, Claim, Drop, Return, Goto, ThreadType, slotVars

\* Every step keeps a rotation behind the walk of its flush(), and past revision 0.
LEMMA AdvancedStep ==
  ASSUME RingInv, Next PROVE Advanced'
<1> USE DEF RingInv, TypeOK
<1>0. Main \in Threads /\ Flusher \in Threads
  BY DEF Threads
<1>1. ASSUME NEW t \in Threads, curRevnum' = curRevnum, pc'[t] \notin {"rotate", "queue"},
             \A u \in Threads : u # t => pc'[u] = pc[u] /\ pos'[u] = pos[u]
      PROVE  Advanced'
  BY <1>1 DEF Advanced
<1>2. ASSUME NEW t \in Threads, Step(t) PROVE Advanced'
  <2>0. \A u \in Threads : u # t => pc'[u] = pc[u] /\ pos'[u] = pos[u]
    BY <1>2, StepMoves
  <2>1. CASE RotateClose(t)
    <3>1. pc'[t] = "rotate" /\ pos'[t] = N /\ curRevnum' = curRevnum + 1 /\ curRevnum \in Nat
      BY <2>1 DEF RotateClose, Goto, ThreadType, FileType
    <3> QED BY <2>0, <3>1 DEF Advanced
  <2>2. CASE RotateOpen(t)
    BY <2>2, <2>0 DEF RotateOpen, Goto, Advanced, ThreadType
  <2>3. CASE ~RotateClose(t) /\ ~RotateOpen(t)
    <3>1. curRevnum' = curRevnum /\ pc'[t] \notin {"rotate", "queue"}
      BY <1>2, <2>3 DEF Step, Available, CheckFlush, WaitFlushed, WriteBegin, WriteFails, Drop,
         WriteEnd, LockFlush, LockFails, FlushElem, FlushElemEnd, FlushEnd, RotateQueue, Return,
         Goto, AfterPut, AfterTryLock, AfterFlush, ThreadType, fileVars
    <3> QED BY <1>1, <2>0, <3>1
  <2> QED BY <2>1, <2>2, <2>3
<1>3. ASSUME Start \/ DtorFlushAll \/ StopCheck \/ StopRemove \/ StopFlushAll \/ StopWait
      PROVE Advanced'
  BY <1>0, <1>1, <1>3 DEF Start, DtorFlushAll, StopCheck, StopRemove, StopFlushAll, StopWait,
     Goto, ThreadType, fileVars
<1>4. ASSUME FlushAll PROVE Advanced'
  BY <1>0, <1>1, <1>4 DEF FlushAll, Goto, ThreadType, fileVars
<1>5. ASSUME NEW t \in Threads, put(t) PROVE Advanced'
  BY <1>1, <1>5, PutMoves DEF AfterPut, fileVars
<1>6. ASSUME Compress \/ Stopped PROVE Advanced'
  BY <1>6 DEF Compress, CompTake, CompTar, CompRm, CompRetain, Stopped, vars,
     thVars, fileVars, Advanced
<1> QED BY <1>0, <1>2, <1>3, <1>4, <1>5, <1>6 DEF Next, MainStep, MainPut, PutBegin, Threads

\* Every step keeps a message in the slots that are to be flushed.
LEMMA FilledStep ==
  ASSUME RingInv, Next PROVE Filled'
<1> USE DEF RingInv, TypeOK
<1>1. ASSUME UNCHANGED <<status, ctx>> PROVE Filled'
  BY <1>1 DEF Filled
<1>2. ASSUME NEW t \in Threads, Step(t) PROVE Filled'
  <2>0. my[t] \in Slots /\ FlushSlot(t) \in Slots /\ Msg(t) \in Messages
    BY FlushSlotType DEF ThreadType, Msg, Messages
  <2>1. CASE WriteBegin(t) \/ WriteEnd(t) \/ FlushElemEnd(t)
    BY <2>0, <2>1 DEF WriteBegin, WriteEnd, FlushElemEnd, Filled, SlotType
  <2>2. CASE FlushElem(t)
    BY <2>0, <2>2 DEF FlushElem, Filled, SlotType
  <2>3. CASE ~(WriteBegin(t) \/ WriteEnd(t) \/ FlushElemEnd(t) \/ FlushElem(t))
    BY <1>1, <1>2, <2>3 DEF Step, Available, CheckFlush, WaitFlushed, WriteFails, Drop,
       LockFlush, LockFails, FlushEnd, RotateClose, RotateOpen, RotateQueue, slotVars
  <2> QED BY <2>1, <2>2, <2>3
<1>3. ASSUME NEW t \in Threads, put(t) PROVE Filled'
  BY <1>1, <1>3, PutMoves
<1>4. ASSUME Start \/ DtorFlushAll \/ StopCheck \/ StopRemove \/ StopFlushAll \/ StopWait
             \/ FlushAll \/ Compress \/ Stopped
      PROVE Filled'
  BY <1>1, <1>4 DEF Start, DtorFlushAll, StopCheck, StopRemove, StopFlushAll, StopWait, FlushAll,
     Compress, CompTake, CompTar, CompRm, CompRetain, Stopped, vars, slotVars
<1> QED BY <1>2, <1>3, <1>4 DEF Next, MainStep, MainPut, PutBegin, Threads

\* Every step keeps numCompJobs equal to the jobs queued or in progress.
LEMMA JobsStep ==
  ASSUME RingInv, Next PROVE JobsCounted'
<1> USE DEF RingInv, TypeOK
<1>0. /\ Main \in Threads /\ Flusher \in Threads /\ Len(pendingCompElems) \in Nat /\ numCompJobs \in Nat
      /\ \A t, u \in Threads : pc[t] \in InFlush /\ pc[u] \in InFlush => t = u
  BY LenProperties DEF Threads, FileType, LockInv, InFlush
<1> DEFINE queueing == \E t \in Threads : pc[t] = "queue"
           jobs == Len(pendingCompElems) + (IF comp.pc = "idle" THEN 0 ELSE 1)
<1>a. numCompJobs = jobs + (IF queueing THEN 1 ELSE 0)
  BY DEF JobsCounted
<1>b. ASSUME numCompJobs' = jobs' + (IF queueing' THEN 1 ELSE 0) PROVE JobsCounted'
  BY <1>b DEF JobsCounted
<1>c. jobs \in Nat
  BY <1>0
<1>1. ASSUME UNCHANGED <<pendingCompElems, numCompJobs, comp>>,
             NEW t \in Threads, pc[t] # "queue", pc'[t] # "queue",
             \A u \in Threads : u # t => pc'[u] = pc[u]
      PROVE  JobsCounted'
  <2>1. (\E u \in Threads : pc'[u] = "queue") <=> (\E u \in Threads : pc[u] = "queue")
    BY <1>1
  <2> QED BY <1>1, <2>1 DEF JobsCounted
<1>2. ASSUME NEW t \in Threads, RotateOpen(t) PROVE JobsCounted'
  <2>1. \A u \in Threads : pc[u] # "queue"
    BY <1>0, <1>2 DEF RotateOpen, InFlush
  <2>2. pc'[t] = "queue"
    BY <1>2 DEF RotateOpen, Goto, ThreadType
  <2>3. numCompJobs' = numCompJobs + 1 /\ UNCHANGED <<pendingCompElems, comp>>
    BY <1>2 DEF RotateOpen
  <2>4. ~queueing /\ queueing' /\ jobs' = jobs
    BY <2>1, <2>2, <2>3
  <2> HIDE DEF queueing, jobs
  <2>5. numCompJobs' = jobs' + 1
    BY <1>a, <1>c, <2>3, <2>4
  <2> QED BY <1>b, <2>4, <2>5
<1>3. ASSUME NEW t \in Threads, RotateQueue(t) PROVE JobsCounted'
  <2>1. pc[t] = "queue" /\ pc'[t] # "queue"
    BY <1>3 DEF RotateQueue, Return, Goto, AfterFlush, ThreadType
  <2>2. \A u \in Threads : u # t => pc'[u] = pc[u] /\ pc[u] # "queue"
    BY <1>0, <1>3, <2>1 DEF RotateQueue, Return, Goto, ThreadType, InFlush
  <2>3. \A u \in Threads : pc'[u] # "queue"
    BY <2>1, <2>2
  <2>4. Len(pendingCompElems') = Len(pendingCompElems) + 1 /\ UNCHANGED <<numCompJobs, comp>>
    <3>1. curRevnum - 1 \in Nat
      BY <2>1 DEF Advanced, FileType
    <3> QED BY <1>3, <3>1, AppendProperties DEF RotateQueue, FileType
  <2>5. queueing /\ ~queueing' /\ jobs' = jobs + 1
    BY <1>0, <2>1, <2>3, <2>4
  <2> HIDE DEF queueing, jobs
  <2>6. numCompJobs' = jobs' + 0
    BY <1>a, <1>c, <2>4, <2>5
  <2> QED BY <1>b, <2>5, <2>6
<1>4. ASSUME CompTake PROVE JobsCounted'
  <2>1. Len(Tail(pendingCompElems)) = Len(pendingCompElems) - 1
    BY <1>4, HeadTailProperties DEF CompTake, FileType
  <2>2. jobs' = jobs
    BY <1>0, <1>4, <2>1 DEF CompTake
  <2>3. (queueing' <=> queueing) /\ numCompJobs' = numCompJobs
    BY <1>4 DEF CompTake, thVars
  <2> HIDE DEF queueing, jobs
  <2> QED BY <1>a, <1>b, <2>2, <2>3
<1>5. ASSUME CompTar \/ CompRm PROVE JobsCounted'
  BY <1>5 DEF CompTar, CompRm, JobsCounted, FileType, thVars
<1>6. ASSUME CompRetain PROVE JobsCounted'
  <2>1. jobs = jobs' + 1 /\ jobs' \in Nat
    BY <1>0, <1>6 DEF CompRetain, FileType
  <2>2. (queueing' <=> queueing) /\ numCompJobs' = numCompJobs - 1
    BY <1>6 DEF CompRetain, thVars
  <2> HIDE DEF queueing, jobs
  <2> QED BY <1>a, <1>b, <2>1, <2>2
<1>7. ASSUME NEW t \in Threads, Step(t), ~RotateOpen(t), ~RotateQueue(t) PROVE JobsCounted'
  <2>1. pc[t] # "queue" /\ pc'[t] # "queue"
    BY <1>7 DEF Step, Available, CheckFlush, WaitFlushed, WriteBegin, WriteFails, Drop,
       WriteEnd, LockFlush, LockFails, FlushElem, FlushElemEnd, FlushEnd, RotateClose, Return,
       Goto, AfterPut, AfterTryLock, AfterFlush, ThreadType
  <2>2. UNCHANGED <<pendingCompElems, numCompJobs, comp>>
    BY <1>7 DEF Step, Available, CheckFlush, WaitFlushed, WriteBegin, WriteFails, Drop,
       WriteEnd, LockFlush, LockFails, FlushElem, FlushElemEnd, FlushEnd, RotateClose, fileVars
  <2> QED BY <1>1, <1>7, <2>1, <2>2, StepMoves
<1>8. ASSUME Start \/ DtorFlushAll \/ StopCheck \/ StopRemove \/ StopFlushAll \/ StopWait
      PROVE JobsCounted'
  BY <1>0, <1>1, <1>8 DEF Start, DtorFlushAll, StopCheck, StopRemove, StopFlushAll, StopWait,
     Goto, ThreadType, fileVars
<1>9. ASSUME FlushAll PROVE JobsCounted'
  BY <1>0, <1>1, <1>9 DEF FlushAll, Goto, ThreadType, fileVars
<1>10. ASSUME NEW t \in Threads, put(t), pc[t] \in {"idle", "begin"} PROVE JobsCounted'
  BY <1>1, <1>10, PutMoves DEF AfterPut, fileVars
<1>11. ASSUME Stopped PROVE JobsCounted'
  BY <1>11 DEF Stopped, vars, thVars, fileVars, JobsCounted
<1> QED BY <1>0, <1>2, <1>3, <1>4, <1>5, <1>6, <1>7, <1>8, <1>9, <1>10, <1>11
        DEF Next, MainStep, MainPut, PutBegin, Compress, Threads

\* A step of t between two points where it works on no slot, that changes no
\* status and no other thread's slot, disturbs nobody's work.
LEMMA QuietStep ==
  ASSUME RingInv, NEW t \in Threads, NEW l,
         pc' = [pc EXCEPT ![t] = l],
         {pc[t], l} \cap {"writing", "flushing"} = {},
         status' = status,
         \A u \in Threads : u # t => my'[u] = my[u] /\ pos'[u] = pos[u]
  PROVE  OneWorker'
<1>1. \A u \in Threads : u # t => pc'[u] = pc[u] /\ FlushSlot(u)' = FlushSlot(u)
  BY DEF RingInv, TypeOK, ThreadType, FlushSlot
<1>2. \A u \in Threads : u = t => pc'[u] = l /\ pc[u] \notin {"writing", "flushing"}
  BY DEF RingInv, TypeOK, ThreadType
<1>3. \A u \in Threads, k \in Slots :
         /\ WorksOn(u, k)' = WorksOn(u, k)
         /\ pc'[u] = "writing" <=> pc[u] = "writing"
         /\ pc'[u] = "flushing" <=> pc[u] = "flushing"
  BY <1>1, <1>2 DEF WorksOn
<1> QED BY <1>3 DEF RingInv, OneWorker

\* Every step of put(), flush() and stop() keeps at most one thread at work on
\* a slot, and the slot's status in step with it.
LEMMA OneWorkerStep ==
  ASSUME RingInv, Next PROVE OneWorker'
<1> USE DEF RingInv, TypeOK
<1>0. Main \in Threads /\ Flusher \in Threads
  BY DEF Threads
<1>1. ASSUME NEW t \in Threads, put(t), pc[t] \notin {"writing", "flushing"}
      PROVE OneWorker'
  <2>1. /\ \A u \in Threads : u # t => my'[u] = my[u] /\ pos'[u] = pos[u]
        /\ status' = status
    BY <1>1, PutMoves
  <2>2. \E l : Goto(t, l) /\ l \notin {"writing", "flushing"}
    BY <1>1 DEF put, Claim, Drop, Return, AfterPut
  <2> QED BY <1>1, <2>1, <2>2, QuietStep DEF Goto
<1>2. ASSUME NEW t \in Threads, Step(t) PROVE OneWorker'
  <2>0. my[t] \in Slots /\ FlushSlot(t) \in Slots
    BY FlushSlotType DEF ThreadType
  <2>1. CASE \/ Available(t) \/ CheckFlush(t) \/ WaitFlushed(t)
             \/ WriteFails(t) \/ LockFails(t) \/ LockFlush(t) \/ FlushEnd(t)
             \/ RotateClose(t) \/ RotateOpen(t) \/ RotateQueue(t)
    <3>1. \A u \in Threads : u # t => my'[u] = my[u] /\ pos'[u] = pos[u]
      BY <1>2, StepMoves
    <3>2. status' = status
      BY <2>1 DEF Available, CheckFlush, WaitFlushed, WriteFails, Drop, LockFails,
         LockFlush, FlushEnd, RotateClose, RotateOpen, RotateQueue, slotVars
    <3>3. pc[t] \notin {"writing", "flushing"}
      BY <2>1 DEF Available, CheckFlush, WaitFlushed, WriteFails, LockFails,
         LockFlush, FlushEnd, RotateClose, RotateOpen, RotateQueue
    <3>4. \E l : Goto(t, l) /\ l \notin {"writing", "flushing"}
      BY <2>1 DEF Available, CheckFlush, WaitFlushed, WriteFails, Drop, LockFails,
         LockFlush, FlushEnd, RotateClose, RotateOpen, RotateQueue, Return, AfterPut,
         AfterTryLock, AfterFlush
    <3> QED BY <3>1, <3>2, <3>3, <3>4, QuietStep DEF Goto
  <2>2. CASE FlushElem(t) /\ status[FlushSlot(t)] # "DIRTY"
    <3>1. /\ pc' = [pc EXCEPT ![t] = "flush"] /\ pc[t] = "flush"
          /\ status' = status
      BY <2>2 DEF FlushElem, ThreadType
    <3>2. \A u \in Threads : u # t => my'[u] = my[u] /\ pos'[u] = pos[u]
      BY <2>2 DEF FlushElem, ThreadType
    <3> QED BY <3>1, <3>2, QuietStep
  <2>3. CASE WriteBegin(t)
    <3>0. PICK s \in Slots : s = my[t]
      BY <2>0
    <3>1. /\ pc' = [pc EXCEPT ![t] = "writing"] /\ my' = my /\ pos' = pos
          /\ status' = [status EXCEPT ![my[t]] = "WRITING"]
          /\ pc[t] = "write" /\ status[my[t]] = "CLEAN"
      BY <2>3 DEF WriteBegin, Goto
    <3>2. \A u \in Threads, k \in Slots :
            WorksOn(u, k)' <=> WorksOn(u, k) \/ (u = t /\ k = my[t])
      BY <3>1 DEF WorksOn, FlushSlot, ThreadType
    <3>3. \A u \in Threads : ~WorksOn(u, my[t])
      BY <2>0, <3>1 DEF OneWorker, WorksOn
    <3>4. \A k \in Slots : k # my[t] => status'[k] = status[k]
      BY <3>1 DEF SlotType
    <3>5. status'[my[t]] = "WRITING"
      BY <2>0, <3>1 DEF SlotType
    <3>6. /\ pc'[t] = "writing"
          /\ \A u \in Threads : u # t => pc'[u] = pc[u]
      BY <3>1 DEF ThreadType
    <3>7. \A k \in Slots : k # s =>
            /\ \A u \in Threads : WorksOn(u, k)' <=> WorksOn(u, k)
            /\ ~WorksOn(t, k)
      BY <3>0, <3>1, <3>2 DEF WorksOn
    <3>8. \A u \in Threads : WorksOn(u, s)' <=> u = t
      BY <3>0, <3>2, <3>3
    <3>9. ASSUME NEW k \in Slots
          PROVE  /\ \A v, u \in Threads : WorksOn(v, k)' /\ WorksOn(u, k)' => v = u
                 /\ status'[k] = "WRITING" <=>
                      \E u \in Threads : pc'[u] = "writing" /\ WorksOn(u, k)'
                 /\ status'[k] = "FLUSHING" <=>
                      \E u \in Threads : pc'[u] = "flushing" /\ WorksOn(u, k)'
      <4>1. CASE k = s
        BY <3>0, <3>5, <3>6, <3>8, <4>1
      <4>2. CASE k # s
        BY <3>0, <3>4, <3>6, <3>7, <4>2 DEF OneWorker
      <4> QED BY <4>1, <4>2
    <3> QED BY <3>9 DEF OneWorker
  <2>4. CASE WriteEnd(t)
    <3>0. PICK l : l = AfterPut(t) OBVIOUS
    <3>1. /\ pc' = [pc EXCEPT ![t] = l] /\ l \notin {"writing", "flushing"}
          /\ \A u \in Threads : u # t => my'[u] = my[u] /\ pos'[u] = pos[u]
          /\ status' = [status EXCEPT ![my[t]] = "DIRTY"] /\ pc[t] = "writing"
      BY <1>2, <2>4, <3>0, StepMoves DEF WriteEnd, Return, Goto, AfterPut
    <3>2. \A u \in Threads, k \in Slots :
            WorksOn(u, k)' <=> WorksOn(u, k) /\ u # t
      BY <3>1 DEF WorksOn, FlushSlot, ThreadType
    <3>3. \A u \in Threads : WorksOn(u, my[t]) => u = t
      BY <2>0, <3>1 DEF OneWorker, WorksOn
    <3>4. \A k \in Slots : k # my[t] => status'[k] = status[k] /\ ~WorksOn(t, k)
      BY <3>1 DEF SlotType, WorksOn
    <3>5. status'[my[t]] = "DIRTY"
      BY <2>0, <3>1 DEF SlotType
    <3>6. \A u \in Threads : u # t => pc'[u] = pc[u]
      BY <3>1 DEF ThreadType
    <3> QED BY <2>0, <3>1, <3>2, <3>3, <3>4, <3>5, <3>6 DEF OneWorker
  <2>5. CASE FlushElem(t) /\ status[FlushSlot(t)] = "DIRTY"
    <3>0. PICK s \in Slots : s = FlushSlot(t)
      BY <2>0
    <3>1. /\ pc' = [pc EXCEPT ![t] = "flushing"] /\ my' = my /\ pos' = pos
          /\ status' = [status EXCEPT ![FlushSlot(t)] = "FLUSHING"]
          /\ pc[t] = "flush"
      BY <2>5 DEF FlushElem, Goto
    <3>2. \A u \in Threads, k \in Slots :
            WorksOn(u, k)' <=> WorksOn(u, k) \/ (u = t /\ k = FlushSlot(t))
      BY <3>1 DEF WorksOn, FlushSlot, ThreadType
    <3>3. \A u \in Threads : ~WorksOn(u, FlushSlot(t))
      BY <2>0, <2>5 DEF OneWorker, WorksOn
    <3>4. \A k \in Slots : k # FlushSlot(t) => status'[k] = status[k]
      BY <3>1 DEF SlotType
    <3>5. status'[FlushSlot(t)] = "FLUSHING"
      BY <2>0, <3>1 DEF SlotType
    <3>6. /\ pc'[t] = "flushing"
          /\ \A u \in Threads : u # t => pc'[u] = pc[u]
      BY <3>1 DEF ThreadType
    <3>7. \A k \in Slots : k # s =>
            /\ \A u \in Threads : WorksOn(u, k)' <=> WorksOn(u, k)
            /\ ~WorksOn(t, k)
      BY <3>0, <3>1, <3>2 DEF WorksOn
    <3>8. \A u \in Threads : WorksOn(u, s)' <=> u = t
      BY <3>0, <3>2, <3>3
    <3>9. ASSUME NEW k \in Slots
          PROVE  /\ \A v, u \in Threads : WorksOn(v, k)' /\ WorksOn(u, k)' => v = u
                 /\ status'[k] = "WRITING" <=>
                      \E u \in Threads : pc'[u] = "writing" /\ WorksOn(u, k)'
                 /\ status'[k] = "FLUSHING" <=>
                      \E u \in Threads : pc'[u] = "flushing" /\ WorksOn(u, k)'
      <4>1. CASE k = s
        BY <3>0, <3>5, <3>6, <3>8, <4>1
      <4>2. CASE k # s
        BY <3>0, <3>4, <3>6, <3>7, <4>2 DEF OneWorker
      <4> QED BY <4>1, <4>2
    <3> QED BY <3>9 DEF OneWorker
  <2>6. CASE FlushElemEnd(t)
    <3>1. /\ pc' = [pc EXCEPT ![t] = "flush"] /\ my' = my
          /\ pos' = [pos EXCEPT ![t] = @ + 1]
          /\ status' = [status EXCEPT ![FlushSlot(t)] = "CLEAN"]
          /\ pc[t] = "flushing"
      BY <2>6 DEF FlushElemEnd, Goto
    <3>2. \A u \in Threads, k \in Slots :
            WorksOn(u, k)' <=> WorksOn(u, k) /\ u # t
      BY <3>1 DEF WorksOn, FlushSlot, ThreadType
    <3>3. \A u \in Threads : WorksOn(u, FlushSlot(t)) => u = t
      BY <2>0, <3>1 DEF OneWorker, WorksOn
    <3>4. \A k \in Slots :
            k # FlushSlot(t) => status'[k] = status[k] /\ ~WorksOn(t, k)
      BY <3>1 DEF SlotType, WorksOn
    <3>5. status'[FlushSlot(t)] = "CLEAN"
      BY <2>0, <3>1 DEF SlotType
    <3>6. \A u \in Threads : u # t => pc'[u] = pc[u]
      BY <3>1 DEF ThreadType
    <3> QED BY <2>0, <3>1, <3>2, <3>3, <3>4, <3>5, <3>6 DEF OneWorker
  <2> QED BY <1>2, <2>1, <2>2, <2>3, <2>4, <2>5, <2>6 DEF Step
<1>3. ASSUME Start \/ DtorFlushAll \/ StopCheck \/ StopRemove \/ StopFlushAll \/ StopWait
      PROVE OneWorker'
  <2>1. \E l : Goto(Main, l) /\ l \notin {"writing", "flushing"}
    BY <1>3 DEF Start, DtorFlushAll, StopCheck, StopRemove, StopFlushAll, StopWait
  <2>2. /\ pc[Main] \notin {"writing", "flushing"} /\ status' = status
        /\ \A u \in Threads : u # Main => my'[u] = my[u] /\ pos'[u] = pos[u]
    BY <1>0, <1>3 DEF Start, DtorFlushAll, StopCheck, StopRemove, StopFlushAll, StopWait,
       slotVars, ThreadType
  <2> QED BY <1>0, <2>1, <2>2, QuietStep, ZenonT(60) DEF Goto
<1>4. ASSUME FlushAll PROVE OneWorker'
  <2>1. /\ pc[Flusher] \notin {"writing", "flushing"} /\ status' = status
        /\ Goto(Flusher, "trylock")
        /\ \A u \in Threads : u # Flusher => my'[u] = my[u] /\ pos'[u] = pos[u]
    BY <1>0, <1>4 DEF FlushAll, slotVars, ThreadType
  <2> QED BY <1>0, <2>1, QuietStep DEF Goto
<1>5. ASSUME MainPut \/ \E t \in Putters : PutBegin(t) PROVE OneWorker'
  BY <1>0, <1>1, <1>5 DEF MainPut, PutBegin, Threads
<1>6. ASSUME Compress \/ Stopped PROVE OneWorker'
  BY <1>6 DEF Compress, CompTake, CompTar, CompRm, CompRetain, Stopped, vars,
     thVars, slotVars, OneWorker, WorksOn, FlushSlot
<1> QED BY <1>2, <1>3, <1>4, <1>5, <1>6 DEF Next, MainStep

-----------------------------------------------------------------------------
\* Every step keeps the ring's invariant.
LEMMA RingStep == RingInv /\ [Next]_vars => RingInv'
<1> SUFFICES ASSUME RingInv, [Next]_vars PROVE RingInv'
  OBVIOUS
<1>1. CASE Next
  BY <1>1, SlotTypeStep, ThreadTypeStep, FileTypeStep, LockStep,
     OneWorkerStep, JobsStep, AdvancedStep, FilledStep DEF RingInv, TypeOK
<1>2. CASE UNCHANGED vars
  <2> USE <1>2 DEF RingInv, vars, slotVars, thVars, fileVars
  <2>1. TypeOK' /\ LockInv' /\ Advanced' /\ Filled'
    BY DEF TypeOK, SlotType, ThreadType, FileType, LockInv, Advanced, Filled
  <2>2. OneWorker' /\ JobsCounted'
    BY DEF OneWorker, WorksOn, FlushSlot, JobsCounted
  <2> QED BY <2>1, <2>2
<1> QED BY <1>1, <1>2

\* The inductive invariant of the ring.
THEOREM RingInductive == Spec => []RingInv
BY InitRing, RingStep, PTL DEF Spec

\* The ring's state keeps its type in every behaviour.
THEOREM RingTypeCorrect == Spec => []TypeOK
<1>1. RingInv => TypeOK
  BY DEF RingInv
<1> QED BY <1>1, RingInductive, PTL

\* However many threads call put() on however small a ring, no slot is ever
\* written or copied by two of them at once.
THEOREM RingOneWorker == Spec => []OneWorker
<1>1. RingInv => OneWorker
  BY DEF RingInv
<1> QED BY <1>1, RingInductive, PTL

\* stop() waits on a counter that is exactly the number of jobs that still
\* refer to the logger.
THEOREM RingJobsCounted == Spec => []JobsCounted
<1>1. RingInv => JobsCounted
  BY DEF RingInv
<1> QED BY <1>1, RingInductive, PTL
-----------------------------------------------------------------------------
\* A stream that could not be opened stays so, and a rotation has it closed.
LEMMA StreamStep ==
  ASSUME RingInv, Phases, NEW t \in Threads, Step(t)
  PROVE  /\ fs = "failed" => fs' = "failed"
         /\ \A u \in Threads : pc'[u] = "rotate" => fs' = "closed"
<1> USE DEF RingInv, TypeOK
<1>0. /\ \A u \in Threads : u # t => pc'[u] = pc[u]
      /\ \A u \in Threads : pc[u] = "rotate" => fs = "closed"
  BY StepMoves DEF Phases
<1>1. CASE RotateOpen(t)
  <2>1. fs = "closed" /\ \A u \in Threads : u # t => pc[u] # "rotate"
    BY <1>0, <1>1 DEF RotateOpen, LockInv
  <2>2. pc'[t] = "queue"
    BY <1>1 DEF RotateOpen, Goto, ThreadType
  <2> QED BY <1>0, <2>1, <2>2
<1>2. CASE RotateClose(t)
  BY <1>2 DEF RotateClose, Exceeded
<1>3. CASE FlushElemEnd(t)
  <2>1. pc'[t] = "flush" /\ (fs \in {"closed", "failed"} => fs' = fs)
    BY <1>3 DEF FlushElemEnd, WriteFile, Goto, ThreadType
  <2> QED BY <1>0, <2>1
<1>4. CASE ~(RotateOpen(t) \/ RotateClose(t) \/ FlushElemEnd(t))
  <2>1. fs' = fs
    BY <1>4 DEF Step, Available, CheckFlush, WaitFlushed, WriteBegin, WriteFails, Drop,
       WriteEnd, LockFlush, LockFails, FlushElem, FlushEnd, RotateQueue, fileVars
  <2>2. pc'[t] # "rotate"
    BY <1>4 DEF Step, Available, CheckFlush, WaitFlushed, WriteBegin, WriteFails, Drop,
       WriteEnd, LockFlush, LockFails, FlushElem, FlushEnd, RotateQueue, Return, Goto,
       AfterPut, AfterTryLock, AfterFlush, ThreadType
  <2> QED BY <1>0, <2>1, <2>2
<1> QED BY <1>1, <1>2, <1>3, <1>4

\* Every step keeps the phases of main, of the callers and of the flusher.
LEMMA PhasesStep ==
  ASSUME RingInv, Phases, Next PROVE Phases'
<1> USE DEF RingInv, TypeOK, InPut, InFlush
<1>0. /\ Main \in Threads /\ Flusher \in Threads /\ Putters \subseteq Threads
      /\ Main # Flusher /\ Main \notin Putters /\ Flusher \notin Putters
  BY RingAssumption DEF Threads
<1>1. ASSUME NEW t \in Putters, Step(t) PROVE Phases'
  <2>0. t \in Threads /\ t # Main /\ t # Flusher
    BY <1>0
  <2>1. /\ registered' = registered
        /\ \A u \in Threads : u # t => pc'[u] = pc[u] /\ n'[u] = n[u]
        /\ fs = "failed" => fs' = "failed"
        /\ \A u \in Threads : pc'[u] = "rotate" => fs' = "closed"
    BY <1>1, <2>0, StepMoves, StreamStep
  <2>2. pc[t] # "idle" /\ pc[t] \in InPut \cup InFlush
    BY <1>1 DEF Phases, Step, Available, CheckFlush, WaitFlushed, WriteBegin, WriteFails,
       WriteEnd, LockFlush, LockFails, FlushElem, FlushElemEnd, FlushEnd, RotateClose,
       RotateOpen, RotateQueue
  <2>3. pc[Main] = "started"
    BY <2>2 DEF Phases
  <2>4. pc'[t] \in {"idle"} \cup InPut \cup InFlush
    BY <1>1, <2>0, <2>2 DEF Step, Available, CheckFlush, WaitFlushed, WriteBegin, WriteFails,
       Drop, WriteEnd, LockFlush, LockFails, FlushElem, FlushElemEnd, FlushEnd, RotateClose,
       RotateOpen, RotateQueue, Return, Goto, AfterPut, AfterTryLock, AfterFlush, ThreadType
  <2>5. MainPhase'
    BY <1>0, <2>0, <2>1, <2>3 DEF Phases, MainPhase, NeverOpened
  <2> QED BY <1>0, <2>0, <2>1, <2>3, <2>4, <2>5 DEF Phases
<1>2. ASSUME Step(Flusher) PROVE Phases'
  <2>1. /\ registered' = registered
        /\ \A u \in Threads : u # Flusher => pc'[u] = pc[u] /\ n'[u] = n[u]
        /\ fs = "failed" => fs' = "failed"
        /\ \A u \in Threads : pc'[u] = "rotate" => fs' = "closed"
    BY <1>0, <1>2, StepMoves, StreamStep
  <2>2. pc[Flusher] \in {"trylock"} \cup InFlush
    BY <1>2 DEF Phases, Step, Available, CheckFlush, WaitFlushed, WriteBegin, WriteFails,
       WriteEnd, LockFlush, LockFails, FlushElem, FlushElemEnd, FlushEnd, RotateClose,
       RotateOpen, RotateQueue
  <2>3. registered
    BY <2>2 DEF Phases
  <2>4. pc'[Flusher] \in {"idle", "trylock"} \cup InFlush
    BY <1>0, <1>2, <2>2 DEF Step, Available, CheckFlush, WaitFlushed, WriteBegin, WriteFails,
       Drop, WriteEnd, LockFlush, LockFails, FlushElem, FlushElemEnd, FlushEnd, RotateClose,
       RotateOpen, RotateQueue, Return, Goto, AfterTryLock, AfterFlush, ThreadType
  <2>5. MainPhase'
    BY <1>0, <2>1, <2>3 DEF Phases, MainPhase, NeverOpened
  <2> QED BY <1>0, <2>1, <2>3, <2>4, <2>5 DEF Phases
<1>3. ASSUME Step(Main) PROVE Phases'
  <2>1. /\ registered' = registered
        /\ \A u \in Threads : u # Main => pc'[u] = pc[u] /\ n'[u] = n[u]
        /\ fs = "failed" => fs' = "failed"
        /\ \A u \in Threads : pc'[u] = "rotate" => fs' = "closed"
    BY <1>0, <1>3, StepMoves, StreamStep
  <2>2. pc[Main] # "started" /\ MainPhase /\ n[Main] \in Nat
    BY <1>0, <1>3 DEF Phases, Step, Available, CheckFlush, WaitFlushed, WriteBegin, WriteFails,
       WriteEnd, LockFlush, LockFails, FlushElem, FlushElemEnd, FlushEnd, RotateClose,
       RotateOpen, RotateQueue, ThreadType
  <2>3. MainPhase'
    <3>1. CASE Available(Main) \/ CheckFlush(Main) \/ WaitFlushed(Main) \/ WriteBegin(Main)
      BY <1>0, <2>1, <2>2, <3>1 DEF Available, CheckFlush, WaitFlushed, WriteBegin, Goto,
         MainPhase, ThreadType
    <3>2. CASE WriteFails(Main) \/ WriteEnd(Main)
      <4>1. pc[Main] \in InPut /\ pc'[Main] = AfterPut(Main) /\ n'[Main] = n[Main] + 1
        BY <1>0, <3>2 DEF WriteFails, Drop, WriteEnd, Return, Goto, ThreadType
      <4> QED BY <1>0, <2>1, <2>2, <4>1 DEF AfterPut, MainPhase
    <3>3. CASE LockFlush(Main)
      BY <1>0, <2>1, <2>2, <3>3 DEF LockFlush, Goto, MainPhase, NeverOpened, ThreadType
    <3>4. CASE LockFails(Main)
      <4>1. /\ pc[Main] \in {"trylock", "dtorlock", "stoplock"} /\ n' = n
            /\ pc'[Main] = AfterTryLock(Main)
        BY <1>0, <3>4 DEF LockFails, Return, Goto, ThreadType
      <4> QED BY <1>0, <2>1, <2>2, <4>1 DEF AfterTryLock, MainPhase, NeverOpened
    <3>5. CASE FlushElem(Main) \/ FlushElemEnd(Main) \/ RotateClose(Main) \/ RotateOpen(Main)
      <4>1. pc[Main] \in InFlush /\ pc'[Main] \in InFlush /\ n' = n
        BY <1>0, <3>5 DEF FlushElem, FlushElemEnd, RotateClose, RotateOpen, Goto, ThreadType
      <4> QED BY <1>0, <2>1, <2>2, <4>1 DEF MainPhase, NeverOpened
    <3>6. CASE FlushEnd(Main) \/ RotateQueue(Main)
      <4>1. pc'[Main] = AfterFlush(Main) /\ n' = n /\ pc[Main] \in InFlush
        BY <1>0, <3>6 DEF FlushEnd, RotateQueue, Return, Goto, ThreadType
      <4> QED BY <1>0, <2>1, <2>2, <4>1 DEF AfterFlush, MainPhase, NeverOpened
    <3> QED BY <1>3, <3>1, <3>2, <3>3, <3>4, <3>5, <3>6 DEF Step
  <2> QED BY <1>0, <2>1, <2>2, <2>3 DEF Phases
<1>4. ASSUME NEW t \in Putters, PutBegin(t) PROVE Phases'
  <2>0. t \in Threads /\ t # Main /\ t # Flusher
    BY <1>0
  <2>1. /\ pc[Main] = "started" /\ UNCHANGED <<registered, fs>> /\ pc'[t] \in {"avail", "idle"}
        /\ \A u \in Threads : u # t => pc'[u] = pc[u] /\ n'[u] = n[u]
    BY <1>4, <2>0, PutMoves DEF PutBegin, AfterPut, fileVars
  <2>2. MainPhase'
    BY <1>0, <2>0, <2>1 DEF Phases, MainPhase, NeverOpened
  <2> QED BY <1>0, <2>0, <2>1, <2>2 DEF Phases
<1>5. CASE MainPut
  <2>1. /\ pc[Main] = "begin" /\ UNCHANGED <<registered, fs>> /\ n[Main] \in Nat
        /\ \A u \in Threads : u # Main => pc'[u] = pc[u]
        /\ \/ pc'[Main] = "avail" /\ n'[Main] = n[Main]
           \/ pc'[Main] = AfterPut(Main) /\ n'[Main] = n[Main] + 1
    BY <1>0, <1>5, PutMoves DEF MainPut, fileVars, ThreadType
  <2>2. MainPhase'
    BY <2>1 DEF Phases, MainPhase, AfterPut
  <2>3. pc'[Main] # "rotate" /\ \A t \in Putters : pc[t] = "idle"
    BY <2>1 DEF Phases, AfterPut
  <2> QED BY <1>0, <2>1, <2>2, <2>3 DEF Phases
<1>6. CASE Start
  <2>1. /\ pc[Main] = "new" /\ n' = n /\ fs' \in {"good", "failed"} /\ registered' = (fs' = "good")
        /\ pc'[Main] = IF fs' = "good" THEN "begin" ELSE "started"
        /\ \A u \in Threads : u # Main => pc'[u] = pc[u]
    BY <1>0, <1>6 DEF Start, Open, Goto, ThreadType
  <2>2. pc[Flusher] = "idle" /\ \A t \in Putters : pc[t] = "idle"
    BY <2>1 DEF Phases, MainPhase
  <2>3. MainPhase'
    BY <2>1 DEF Phases, MainPhase, NeverOpened
  <2>4. \A t \in Threads : pc'[t] # "rotate"
    BY <1>0, <2>1, <2>2 DEF Threads
  <2> QED BY <1>0, <2>1, <2>2, <2>3, <2>4 DEF Phases
<1>7. ASSUME DtorFlushAll \/ StopCheck \/ StopRemove \/ StopFlushAll \/ StopWait
      PROVE  Phases'
  <2>1. /\ n' = n /\ fs' = fs /\ pc'[Main] \notin {"started", "idle", "rotate"}
        /\ \A u \in Threads : u # Main => pc'[u] = pc[u]
    BY <1>0, <1>7 DEF DtorFlushAll, StopCheck, StopRemove, StopFlushAll, StopWait, Goto,
       ThreadType, fileVars
  <2>2. \A t \in Putters : pc[t] = "idle"
    BY <1>7 DEF Phases, DtorFlushAll, StopCheck, StopRemove, StopFlushAll, StopWait
  <2>3. MainPhase'
    BY <1>0, <1>7, <2>1 DEF Phases, DtorFlushAll, StopCheck, IsOpen, StopRemove,
       StopFlushAll, StopWait, Goto, ThreadType, MainPhase, NeverOpened
  <2>4. ~registered' => pc[Flusher] = "idle"
    BY <1>7 DEF Phases, DtorFlushAll, StopCheck, StopRemove, StopFlushAll, StopWait
  <2> QED BY <1>0, <2>1, <2>2, <2>3, <2>4 DEF Phases
<1>8. ASSUME FlushAll PROVE Phases'
  <2>1. /\ registered /\ UNCHANGED <<n, registered, fs>> /\ pc'[Flusher] = "trylock"
        /\ \A u \in Threads : u # Flusher => pc'[u] = pc[u]
    BY <1>0, <1>8 DEF FlushAll, Goto, ThreadType, fileVars
  <2> QED BY <1>0, <2>1 DEF Phases, MainPhase, NeverOpened
<1>9. ASSUME Compress \/ Stopped PROVE Phases'
  BY <1>9 DEF Compress, CompTake, CompTar, CompRm, CompRetain, Stopped, vars, thVars,
     fileVars, Phases, MainPhase, NeverOpened
<1> QED BY <1>1, <1>2, <1>3, <1>4, <1>5, <1>6, <1>7, <1>8, <1>9 DEF Next, MainStep, Threads

\* Who is inside put() or flush(), and when nobody but main is.
LEMMA OnlyMain ==
  ASSUME RingInv, Phases, NEW t \in Threads, pc[t] \in {"writing"} \cup InFlush
  PROVE  pc[Main] # "new" /\ (pc[Main] # "started" /\ ~registered => t = Main)
BY RingAssumption DEF Phases, MainPhase, InFlush, InPut, Threads

\* A walk of N slots from any slot meets all of them.
LEMMA RingWalk ==
  ASSUME NEW a \in Slots, NEW k \in Slots
  PROVE  \E i \in 0 .. N - 1 : (a + i) % N = k
<1>1. N \in Nat /\ a \in 0 .. N - 1 /\ k \in 0 .. N - 1
  BY RingAssumption DEF Slots
<1>2. k % N = k /\ (k + N) % N = k
  BY <1>1
<1>3. CASE k >= a
  <2>1. k - a \in 0 .. N - 1 /\ a + (k - a) = k
    BY <1>1, <1>3
  <2> QED BY <1>2, <2>1
<1>4. CASE ~(k >= a)
  <2>1. k + N - a \in 0 .. N - 1 /\ a + (k + N - a) = k + N
    BY <1>1, <1>4
  <2> QED BY <1>2, <2>1
<1> QED BY <1>3, <1>4

\* While main is in stop() after its last message, it works alone.
LEMMA StopAlone ==
  ASSUME RingInv, Phases, n[Main] = 2,
         pc[Main] \in InFlush \cup {"stopflush", "stoplock", "close", "stopped"}
  PROVE  /\ ~registered /\ pc[Flusher] = "idle" /\ \A t \in Putters : pc[t] = "idle"
         /\ \A t \in Threads : t # Main => pc[t] = "idle"
<1>1. ~registered
  BY DEF Phases, MainPhase, NeverOpened
<1>2. pc[Main] # "started"
  BY DEF InFlush
<1> QED BY <1>1, <1>2 DEF Phases, Threads

\* Every step keeps what the last flush of stop() has emptied.
LEMMA EmptiedStep ==
  ASSUME RingInv, Phases, Emptied, Next PROVE Emptied'
<1> USE DEF RingInv, TypeOK
<1>0. /\ Main \in Threads /\ Flusher \in Threads /\ Putters \subseteq Threads
      /\ my[Main] \in Slots /\ pos[Main] \in Nat /\ FlushSlot(Main) \in Slots /\ N \in Nat
  BY FlushSlotType, RingAssumption DEF Threads, ThreadType
<1>1. ASSUME NEW t \in Threads, t # Main, Step(t) PROVE Emptied'
  <2>1. pc[t] # "idle"
    BY <1>1 DEF Step, Available, CheckFlush, WaitFlushed, WriteBegin, WriteFails,
       WriteEnd, LockFlush, LockFails, FlushElem, FlushElemEnd, FlushEnd, RotateClose,
       RotateOpen, RotateQueue
  <2>2. pc'[Main] = pc[Main] /\ n'[Main] = n[Main]
    BY <1>0, <1>1, StepMoves
  <2>3. ~(pc[Main] \in InFlush /\ n[Main] = 2)
    BY <1>1, <2>1, StopAlone
  <2>4. pc[Main] \notin {"close", "stopped"}
    <3>1. pc[Main] \in {"close", "stopped"} => n[Main] = 2
      BY DEF Phases, MainPhase
    <3> QED BY <1>1, <2>1, <3>1, StopAlone
  <2> QED BY <2>2, <2>3, <2>4 DEF Emptied
<1>2. ASSUME Step(Main) PROVE Emptied'
  <2>1. CASE \/ Available(Main) \/ CheckFlush(Main) \/ WaitFlushed(Main)
             \/ WriteBegin(Main) \/ WriteFails(Main) \/ WriteEnd(Main)
    <3>1. pc'[Main] \notin InFlush \cup {"close", "stopped"}
      BY <1>0, <2>1 DEF Available, CheckFlush, WaitFlushed, WriteBegin, WriteFails, Drop,
         WriteEnd, Return, AfterPut, Goto, ThreadType, InFlush
    <3> QED BY <3>1 DEF Emptied
  <2>2. CASE LockFlush(Main)
    <3>1. pc'[Main] = "flush" /\ pos'[Main] = 0
      BY <1>0, <2>2 DEF LockFlush, Goto, ThreadType
    <3>2. 0 .. pos'[Main] - 1 = {}
      BY <3>1
    <3> QED BY <3>1, <3>2 DEF Emptied
  <2>3. CASE LockFails(Main)
    <3>1. PICK u \in Threads : u = flushingLogs
      BY <2>3 DEF LockFails, SlotType
    <3>2. pc[u] \in InFlush
      BY <3>1 DEF LockInv, InFlush
    <3>3. pc[Main] # "stoplock"
      <4>1. SUFFICES ASSUME pc[Main] = "stoplock" PROVE FALSE
        OBVIOUS
      <4>2. n[Main] = 2
        BY <4>1 DEF Phases, MainPhase
      <4>3. u # Main
        BY <3>2, <4>1 DEF InFlush
      <4> QED BY <3>2, <4>1, <4>2, <4>3, StopAlone DEF InFlush
    <3>4. pc'[Main] \notin InFlush \cup {"close", "stopped"}
      BY <1>0, <2>3, <3>3 DEF LockFails, AfterTryLock, Return, Goto, ThreadType, InFlush
    <3> QED BY <3>4 DEF Emptied
  <2>4. CASE FlushElem(Main) \/ FlushElemEnd(Main)
    <3>1. /\ pc[Main] \in InFlush /\ pc'[Main] \in InFlush /\ n' = n /\ my' = my
          /\ pos'[Main] \in {pos[Main], pos[Main] + 1}
      BY <1>0, <2>4 DEF FlushElem, FlushElemEnd, Goto, ThreadType, InFlush
    <3>2. PICK f \in Slots : f = FlushSlot(Main)
      BY <1>0
    <3>3. ASSUME n[Main] = 2
          PROVE  /\ \A k \in Slots : status[k] = "CLEAN" => status'[k] = "CLEAN"
                 /\ pos'[Main] = pos[Main] + 1 => status'[f] = "CLEAN"
      <4>1. CASE FlushElemEnd(Main)
        BY <3>2, <4>1 DEF FlushElemEnd, SlotType
      <4>2. CASE FlushElem(Main) /\ status[f] = "DIRTY"
        BY <1>0, <3>2, <4>2 DEF FlushElem, SlotType
      <4>3. CASE FlushElem(Main) /\ status[f] # "DIRTY"
        <5>1. status' = status /\ pc[Main] = "flush"
          BY <3>2, <4>3 DEF FlushElem
        <5>2. \A u \in Threads : pc[u] \notin {"writing", "flushing"}
          BY <3>1, <3>3, <5>1, StopAlone
        <5>3. status[f] \notin {"WRITING", "FLUSHING"}
          BY <5>2 DEF OneWorker
        <5> QED BY <4>3, <5>1, <5>3 DEF SlotType
      <4> QED BY <2>4, <4>1, <4>2, <4>3
    <3>4. ASSUME n[Main] = 2, NEW i \in 0 .. pos'[Main] - 1
          PROVE  status'[(my[Main] + i) % N] = "CLEAN"
      <4>1. PICK k \in Slots : k = (my[Main] + i) % N
        <5>1. (my[Main] + i) % N \in Slots
          BY <1>0, <3>1, <3>4, RingAssumption DEF Slots
        <5> QED BY <5>1
      <4>2. CASE i \in 0 .. pos[Main] - 1
        <5>1. status[k] = "CLEAN"
          BY <3>1, <3>4, <4>1, <4>2 DEF Emptied
        <5> QED BY <3>3, <3>4, <4>1, <5>1
      <4>3. CASE i \notin 0 .. pos[Main] - 1
        <5>1. i = pos[Main] /\ pos'[Main] = pos[Main] + 1
          BY <1>0, <3>1, <3>4, <4>3
        <5>2. k = f
          BY <3>2, <4>1, <5>1 DEF FlushSlot
        <5> QED BY <3>3, <3>4, <4>1, <5>1, <5>2
      <4> QED BY <4>2, <4>3
    <3>5. pc'[Main] \notin {"close", "stopped"}
      BY <3>1 DEF InFlush
    <3> QED BY <3>1, <3>4, <3>5 DEF Emptied
  <2>5. CASE RotateClose(Main) \/ RotateOpen(Main)
    <3>1. /\ pc[Main] \in InFlush /\ pc'[Main] \in InFlush
          /\ UNCHANGED <<status, n, my, pos>>
      BY <1>0, <2>5 DEF RotateClose, RotateOpen, Goto, ThreadType, slotVars, InFlush
    <3>2. pc'[Main] \notin {"close", "stopped"}
      BY <3>1 DEF InFlush
    <3> QED BY <3>1, <3>2 DEF Emptied
  <2>6. CASE FlushEnd(Main) \/ RotateQueue(Main)
    <3>1. /\ pc[Main] \in InFlush /\ pos[Main] = N /\ UNCHANGED <<status, n>>
          /\ pc'[Main] = AfterFlush(Main)
      BY <1>0, <2>6 DEF FlushEnd, RotateQueue, Return, Goto, ThreadType, Advanced, InFlush
    <3>2. pc'[Main] \notin InFlush
      BY <3>1 DEF AfterFlush, InFlush
    <3>3. ASSUME pc'[Main] \in {"close", "stopped"}, NEW k \in Slots
          PROVE  status'[k] = "CLEAN"
      <4>1. n[Main] = 2
        BY <3>1, <3>3, RingAssumption DEF AfterFlush
      <4>2. PICK i \in 0 .. N - 1 : (my[Main] + i) % N = k
        BY <1>0, RingWalk
      <4> QED BY <3>1, <4>1, <4>2 DEF Emptied
    <3> QED BY <3>2, <3>3 DEF Emptied
  <2> QED BY <1>2, <2>1, <2>2, <2>3, <2>4, <2>5, <2>6 DEF Step
<1>3. ASSUME Start \/ MainPut \/ DtorFlushAll \/ StopCheck \/ StopRemove \/ StopFlushAll
      PROVE Emptied'
  <2>1. pc'[Main] \notin InFlush \cup {"close", "stopped"}
    BY <1>0, <1>3, PutMoves DEF Start, MainPut, AfterPut, DtorFlushAll, StopCheck, StopRemove,
       StopFlushAll, Goto, ThreadType, InFlush
  <2> QED BY <2>1 DEF Emptied
<1>4. ASSUME StopWait PROVE Emptied'
  <2>1. pc[Main] = "close" /\ pc'[Main] = "stopped" /\ status' = status
    BY <1>0, <1>4 DEF StopWait, Goto, ThreadType, slotVars
  <2> QED BY <2>1 DEF Emptied, InFlush
<1>5. ASSUME FlushAll \/ \E t \in Putters : PutBegin(t) PROVE Emptied'
  <2>1. /\ UNCHANGED status /\ n'[Main] = n[Main] /\ pos'[Main] = pos[Main]
        /\ pc'[Main] = pc[Main] /\ my'[Main] = my[Main]
    BY <1>0, <1>5, PutMoves, RingAssumption DEF FlushAll, PutBegin, Goto, ThreadType, slotVars
  <2> QED BY <2>1 DEF Emptied
<1>6. ASSUME Compress \/ Stopped PROVE Emptied'
  BY <1>6 DEF Compress, CompTake, CompTar, CompRm, CompRetain, Stopped, vars, thVars,
     slotVars, Emptied
<1> QED BY <1>1, <1>2, <1>3, <1>4, <1>5, <1>6 DEF Next, MainStep

\* A step that leaves the revisions alone, and starts or ends nothing.
LEMMA RevisionsFrame ==
  ASSUME Revisions, UNCHANGED <<curRevnum, minRevnum, plain, tars, pendingCompElems, comp>>,
         DOMAIN files' = DOMAIN files, Newest' = Newest, Rotating' <=> Rotating,
         pc'[Main] = "stopped" => numCompJobs' = 0
  PROVE  Revisions'
<1>1. Untaken' = Untaken
  BY DEF Untaken
<1>2. Archived' = Archived
  BY <1>1 DEF Archived
<1> QED BY <1>1, <1>2 DEF Rotated, Revisions

\* A file over the limit is closed: the next revision has no file yet.
LEMMA RotatedClose ==
  ASSUME RingInv, Rotated, NEW t \in Threads, RotateClose(t) PROVE Rotated'
<1> USE DEF RingInv, TypeOK
<1>1. /\ curRevnum \in Nat /\ Len(pendingCompElems) \in Nat
      /\ fs = "good" /\ fs' = "closed" /\ curRevnum' = curRevnum + 1
      /\ UNCHANGED <<minRevnum, files, plain, tars, pendingCompElems, comp>>
  BY LenProperties DEF RotateClose, Exceeded, FileType
<1>2. ~Rotating /\ Rotating'
  <2>1. \A u \in Threads : pc[u] \notin {"rotate", "queue"}
    BY DEF RotateClose, LockInv
  <2>2. pc'[t] = "rotate"
    BY DEF RotateClose, Goto, ThreadType
  <2> QED BY <2>1, <2>2 DEF Rotating
<1>3. Newest' = Newest
  BY <1>1 DEF Newest
<1>4. Untaken' = Untaken
  BY <1>1, <1>2 DEF Untaken
<1>5. Archived' = Archived
  BY <1>1, <1>4 DEF Archived
<1> QED BY <1>1, <1>3, <1>4, <1>5 DEF Rotated

\* The next revision is opened, or cannot be.
LEMMA RotatedOpen ==
  ASSUME FileType, Rotated, fs = "closed", Open, Rotating' <=> Rotating,
         UNCHANGED <<curRevnum, minRevnum, tars, pendingCompElems, comp>>
  PROVE  Rotated'
<1>1. /\ curRevnum \in Nat /\ Len(pendingCompElems) \in Nat
      /\ Newest = curRevnum - 1 /\ Untaken \in Int /\ Untaken <= curRevnum
  BY LenProperties DEF FileType, Newest, Untaken
<1>2. Untaken' = Untaken
  BY DEF Untaken
<1>3. Archived' = Archived
  BY <1>2 DEF Archived
<1>4. CASE fs' = "good"
  <2>1. /\ DOMAIN files' = DOMAIN files \cup {curRevnum} /\ plain' = plain \cup {curRevnum}
        /\ Newest' = curRevnum
    BY <1>4 DEF Open, Newest
  <2>2. /\ 0 .. curRevnum = 0 .. (curRevnum - 1) \cup {curRevnum}
        /\ Untaken .. curRevnum = Untaken .. (curRevnum - 1) \cup {curRevnum}
    BY <1>1
  <2>3. DOMAIN files' = 0 .. Newest'
    BY <1>1, <2>1, <2>2 DEF Rotated
  <2>4. plain' = Untaken' .. Newest' \cup IF comp'.pc \in {"tar", "rm"} THEN {comp'.file} ELSE {}
    BY <1>1, <1>2, <2>1, <2>2 DEF Rotated
  <2> QED BY <1>2, <1>3, <2>3, <2>4 DEF Rotated
<1>5. CASE fs' # "good"
  <2>1. UNCHANGED <<files, plain>> /\ fs' = "failed"
    BY <1>5 DEF Open
  <2>2. Newest' = Newest
    BY <2>1 DEF Newest
  <2> QED BY <1>2, <1>3, <2>1, <2>2 DEF Rotated
<1> QED BY <1>4, <1>5

\* The closed revision is queued behind those before it.
LEMMA RotatedQueue ==
  ASSUME RingInv, Rotated, NEW t \in Threads, RotateQueue(t) PROVE Rotated'
<1> USE DEF RingInv, TypeOK
<1>0. /\ pendingCompElems \in Seq(Nat) /\ Len(pendingCompElems) \in Nat
      /\ curRevnum \in Nat /\ curRevnum - 1 \in Nat
  BY LenProperties DEF RotateQueue, Advanced, FileType
<1>1. /\ pendingCompElems' = Append(pendingCompElems, curRevnum - 1)
      /\ UNCHANGED <<fs, curRevnum, minRevnum, files, plain, tars, comp>>
  BY DEF RotateQueue
<1>2. Rotating /\ ~Rotating'
  <2>1. pc[t] = "queue" /\ pc'[t] \notin {"rotate", "queue"}
    BY DEF RotateQueue, Return, Goto, AfterFlush, ThreadType
  <2>2. \A u \in Threads : u # t => pc'[u] = pc[u] /\ pc[u] \notin {"rotate", "queue"}
    BY <2>1 DEF RotateQueue, Return, Goto, LockInv, ThreadType
  <2> QED BY <2>1, <2>2 DEF Rotating
<1>3. /\ Len(pendingCompElems') = Len(pendingCompElems) + 1
      /\ \A i \in 1 .. Len(pendingCompElems) : pendingCompElems'[i] = pendingCompElems[i]
      /\ pendingCompElems'[Len(pendingCompElems) + 1] = curRevnum - 1
  BY <1>0, <1>1, AppendProperties
<1>4. /\ Untaken = curRevnum - Len(pendingCompElems) - 1
      /\ Untaken' = curRevnum - (Len(pendingCompElems) + 1)
  BY <1>0, <1>1, <1>2, <1>3 DEF Untaken
<1>5. Untaken' = Untaken /\ Untaken \in Int
  BY <1>0, <1>4
<1>6. \A i \in 1 .. Len(pendingCompElems') : pendingCompElems'[i] = Untaken' + i - 1
  <2>1. \A i \in 1 .. Len(pendingCompElems) : pendingCompElems'[i] = Untaken' + i - 1
    BY <1>3, <1>5 DEF Rotated
  <2>2. pendingCompElems'[Len(pendingCompElems) + 1] =
          Untaken' + (Len(pendingCompElems) + 1) - 1
    BY <1>0, <1>3, <1>4
  <2> QED BY <1>0, <1>3, <2>1, <2>2, SMTT(30)
<1>7. Archived' = Archived /\ Newest' = Newest
  BY <1>1, <1>5 DEF Archived, Newest
<1> QED BY <1>1, <1>5, <1>6, <1>7 DEF Rotated

\* The compressor takes the oldest of consecutive revisions, archives it, removes
\* its plain file, and then only archives that are maxLogFiles older.
LEMMA RotatedCompress ==
  ASSUME FileType, Rotated, Compress PROVE Rotated'
<1>0. /\ curRevnum \in Nat /\ minRevnum \in Nat /\ pendingCompElems \in Seq(Nat)
      /\ Len(pendingCompElems) \in Nat /\ MaxLogFiles \in Nat
      /\ Untaken \in Int /\ Untaken <= curRevnum
      /\ comp.file \in Nat /\ comp.pc \in {"idle", "tar", "rm", "retain"}
      /\ comp = [pc |-> comp.pc, file |-> comp.file]
      /\ Newest \in {curRevnum - 1, curRevnum} /\ Newest \in Int
  BY LenProperties, RingAssumption DEF FileType, Untaken, Newest
<1>a. Newest' = Newest /\ (Rotating' <=> Rotating)
  BY DEF Compress, CompTake, CompTar, CompRm, CompRetain, Newest, Rotating, thVars
<1>1. CASE CompTake
  <2>1. /\ comp.pc = "idle" /\ pendingCompElems # <<>>
        /\ comp' = [pc |-> "tar", file |-> Head(pendingCompElems)]
        /\ pendingCompElems' = Tail(pendingCompElems)
        /\ UNCHANGED <<curRevnum, minRevnum, files, plain, tars>>
    BY <1>1 DEF CompTake
  <2>2. /\ Len(pendingCompElems) >= 1 /\ Len(pendingCompElems') = Len(pendingCompElems) - 1
        /\ Head(pendingCompElems) = pendingCompElems[1]
        /\ \A i \in 1 .. Len(pendingCompElems') : pendingCompElems'[i] = pendingCompElems[i + 1]
    <3>1. Len(pendingCompElems) # 0
      BY <1>0, <2>1, EmptySeq
    <3>2. /\ Len(pendingCompElems') = Len(pendingCompElems) - 1
          /\ \A i \in 1 .. Len(pendingCompElems') : pendingCompElems'[i] = pendingCompElems[i + 1]
      BY <1>0, <2>1, HeadTailProperties
    <3> QED BY <1>0, <3>1, <3>2
  <2>3. Untaken' = Untaken + 1 /\ Head(pendingCompElems) = Untaken /\ Untaken <= Newest
    <3>1. Untaken' = Untaken + 1 /\ Untaken <= curRevnum - 1
      BY <1>0, <1>a, <2>1, <2>2 DEF Untaken
    <3>2. pendingCompElems[1] = Untaken + 1 - 1
      <4>1. 1 \in 1 .. Len(pendingCompElems)
        BY <1>0, <2>2
      <4> QED BY <4>1 DEF Rotated
    <3> QED BY <1>0, <2>2, <3>1, <3>2
  <2>4. comp'.pc = "tar" /\ comp'.file = Untaken
    BY <2>1, <2>3
  <2>5. ASSUME NEW i \in 1 .. Len(pendingCompElems')
        PROVE  pendingCompElems'[i] = Untaken' + i - 1
    <3>1. i + 1 \in 1 .. Len(pendingCompElems) /\ pendingCompElems'[i] = pendingCompElems[i + 1]
      BY <1>0, <2>2, SMTT(30)
    <3>2. pendingCompElems[i + 1] = Untaken + (i + 1) - 1
      BY <3>1 DEF Rotated
    <3> QED BY <1>0, <2>3, <3>1, <3>2
  <2>6. plain' = Untaken' .. Newest' \cup {comp'.file}
    BY <1>0, <1>a, <2>1, <2>3, <2>4 DEF Rotated
  <2>7. tars' = Archived'
    BY <1>0, <2>1, <2>3, <2>4 DEF Rotated, Archived
  <2> QED BY <1>0, <1>a, <2>1, <2>3, <2>4, <2>5, <2>6, <2>7, SMTT(30) DEF Rotated
<1>2. CASE CompTar
  <2>1. /\ comp.pc = "tar" /\ tars' = tars \cup {comp.file} /\ comp' = [comp EXCEPT !.pc = "rm"]
        /\ UNCHANGED <<curRevnum, minRevnum, files, plain, pendingCompElems>>
    BY <1>2 DEF CompTar
  <2>2. Untaken' = Untaken /\ comp'.pc = "rm" /\ comp'.file = comp.file /\ comp.file = Untaken - 1
    BY <1>0, <1>a, <2>1 DEF Untaken, Rotated
  <2>3. minRevnum <= Untaken - 1
    BY <1>0, <2>2 DEF Rotated
  <2>4. tars' = minRevnum .. Untaken - 1
    BY <1>0, <2>1, <2>2, <2>3 DEF Rotated, Archived
  <2>5. tars' = Archived'
    BY <2>1, <2>2, <2>4 DEF Archived
  <2> QED BY <1>a, <2>1, <2>2, <2>5 DEF Rotated
<1>3. CASE CompRm
  <2>1. /\ comp.pc = "rm" /\ plain' = plain \ {comp.file} /\ comp' = [comp EXCEPT !.pc = "retain"]
        /\ UNCHANGED <<curRevnum, minRevnum, files, tars, pendingCompElems>>
    BY <1>3 DEF CompRm
  <2>2. Untaken' = Untaken /\ comp'.pc = "retain" /\ comp'.file = comp.file
        /\ comp.file = Untaken - 1
    BY <1>0, <1>a, <2>1 DEF Untaken, Rotated
  <2>3. plain' = Untaken .. Newest
    BY <1>0, <2>1, <2>2 DEF Rotated
  <2>4. tars' = Archived'
    BY <2>1, <2>2 DEF Rotated, Archived
  <2> QED BY <1>a, <2>1, <2>2, <2>3, <2>4 DEF Rotated
<1>4. CASE CompRetain
  <2>1. /\ comp.pc = "retain" /\ comp' = [comp EXCEPT !.pc = "idle"]
        /\ UNCHANGED <<curRevnum, files, pendingCompElems>>
    BY <1>4 DEF CompRetain
  <2>2. Untaken' = Untaken /\ comp'.pc = "idle" /\ comp.file = Untaken - 1
    BY <1>0, <1>a, <2>1 DEF Untaken, Rotated
  <2>3. plain = Untaken .. Newest /\ tars = minRevnum .. Untaken - 1
    BY <2>1 DEF Rotated, Archived
  <2>4. /\ plain' = Untaken .. Newest /\ tars' = minRevnum' .. Untaken - 1
        /\ minRevnum' = 0 \/ (MaxLogFiles > 0 /\ minRevnum' <= Untaken - MaxLogFiles)
    <3>1. CASE ~(MaxLogFiles > 0 /\ comp.file >= MaxLogFiles)
      <4>1. UNCHANGED <<plain, tars, minRevnum>>
        BY <1>4, <3>1 DEF CompRetain
      <4> QED BY <2>3, <4>1 DEF Rotated
    <3>2. CASE MaxLogFiles > 0 /\ comp.file >= MaxLogFiles
      <4>1. /\ plain' = plain \ (minRevnum .. Untaken - 1 - MaxLogFiles)
            /\ tars' = tars \ (minRevnum .. Untaken - 1 - MaxLogFiles)
            /\ minRevnum' = IF minRevnum .. Untaken - 1 - MaxLogFiles = {} THEN minRevnum
                            ELSE Untaken - 1 - MaxLogFiles + 1
        BY <1>4, <2>2, <3>2 DEF CompRetain, Expired
      <4>2. plain' = Untaken .. Newest
        BY <1>0, <2>3, <3>2, <4>1
      <4>3. CASE minRevnum .. Untaken - 1 - MaxLogFiles = {}
        BY <2>3, <4>1, <4>2, <4>3 DEF Rotated
      <4>4. CASE minRevnum .. Untaken - 1 - MaxLogFiles # {}
        <5>1. minRevnum <= Untaken - 1 - MaxLogFiles /\ minRevnum' = Untaken - MaxLogFiles
          BY <1>0, <4>1, <4>4
        <5>2. tars' = Untaken - MaxLogFiles .. Untaken - 1
          BY <1>0, <2>3, <3>2, <4>1, <5>1
        <5> QED BY <1>0, <3>2, <4>2, <5>1, <5>2
      <4> QED BY <4>3, <4>4
    <3> QED BY <3>1, <3>2
  <2>5. tars' = Archived'
    BY <2>2, <2>4 DEF Archived
  <2> QED BY <1>a, <2>1, <2>2, <2>4, <2>5 DEF Rotated
<1> QED BY <1>1, <1>2, <1>3, <1>4 DEF Compress

\* A counter of 0 says that the compressor has nothing to do.
LEMMA NoJobs ==
  ASSUME FileType, JobsCounted, numCompJobs = 0
  PROVE  comp.pc = "idle" /\ Len(pendingCompElems) = 0 /\ pendingCompElems = <<>>
<1>1. Len(pendingCompElems) \in Nat
  BY LenProperties DEF FileType
<1>2. PICK q : q = IF \E t \in Threads : pc[t] = "queue" THEN 1 ELSE 0
  OBVIOUS
<1>3. q \in {0, 1}
  BY <1>2
<1>4. 0 = Len(pendingCompElems) + (IF comp.pc = "idle" THEN 0 ELSE 1) + q
  BY <1>2, Zenon DEF JobsCounted
<1>5. comp.pc = "idle" /\ Len(pendingCompElems) = 0
  BY <1>1, <1>3, <1>4
<1> QED BY <1>5, EmptySeq DEF FileType

\* Every step keeps the revisions in order.
LEMMA RevisionsStep ==
  ASSUME RingInv, Phases, Revisions, Next PROVE Revisions'
<1> USE DEF RingInv, TypeOK
<1>0. Main \in Threads /\ Flusher \in Threads /\ Putters \subseteq Threads
  BY DEF Threads
<1>1. ASSUME NEW t \in Threads, \A u \in Threads : u # t => pc'[u] = pc[u],
             pc[t] \in {"rotate", "queue"} <=> pc'[t] \in {"rotate", "queue"}
      PROVE  Rotating' <=> Rotating
  BY <1>1 DEF Rotating
<1>2. ASSUME NEW t \in Threads, \A u \in Threads : u # t => pc'[u] = pc[u],
             pc[t] \notin {"rotate", "queue"}, pc'[t] \notin {"rotate", "queue"},
             UNCHANGED fileVars, pc'[Main] # "stopped" \/ pc'[Main] = pc[Main] \/ numCompJobs = 0
      PROVE  Revisions'
  <2>1. Rotating' <=> Rotating
    BY <1>1, <1>2
  <2>2. Newest' = Newest
    BY <1>2 DEF Newest, fileVars
  <2>3. pc'[Main] = "stopped" => numCompJobs' = 0
    BY <1>2 DEF Revisions, fileVars
  <2> QED BY <1>2, <2>1, <2>2, <2>3, RevisionsFrame DEF fileVars
<1>3. CASE Start
  <2>1. /\ pc[Main] = "new" /\ pc'[Main] \in {"begin", "started"} /\ Open
        /\ \A u \in Threads : u # Main => pc'[u] = pc[u]
        /\ UNCHANGED <<curRevnum, minRevnum, tars, pendingCompElems, comp>>
    BY <1>0, <1>3 DEF Start, Goto, ThreadType
  <2>2. Rotating' <=> Rotating
    BY <1>0, <1>1, <2>1
  <2>3. fs = "closed"
    BY <2>1 DEF Phases, MainPhase
  <2>4. Rotated'
    BY <2>1, <2>2, <2>3, RotatedOpen DEF Revisions
  <2> QED BY <2>1, <2>4 DEF Revisions
<1>4. ASSUME NEW t \in Threads, Step(t) PROVE Revisions'
  <2>0. /\ \A u \in Threads : u # t => pc'[u] = pc[u]
        /\ pc'[Main] = "stopped" <=> pc[Main] = "stopped"
    <3>1. \A u \in Threads : u # t => pc'[u] = pc[u]
      BY <1>4, StepMoves
    <3>2. CASE t = Main
      BY <1>0, <1>4, <3>1, <3>2 DEF Step, Available, CheckFlush, WaitFlushed, WriteBegin,
         WriteFails, Drop, WriteEnd, LockFlush, LockFails, FlushElem, FlushElemEnd, FlushEnd,
         RotateClose, RotateOpen, RotateQueue, Return, Goto, AfterPut, AfterTryLock, AfterFlush,
         ThreadType
    <3> QED BY <1>0, <3>1, <3>2
  <2>1. CASE RotateClose(t) \/ RotateOpen(t) \/ RotateQueue(t)
    <3>1. pc[t] \in InFlush
      BY <2>1 DEF RotateClose, RotateOpen, RotateQueue, InFlush
    <3>2. pc[Main] # "stopped"
      <4>1. SUFFICES ASSUME pc[Main] = "stopped" PROVE FALSE
        OBVIOUS
      <4>2. ~registered
        BY <4>1 DEF Phases, MainPhase
      <4>3. t = Main
        BY <3>1, <4>1, <4>2, OnlyMain
      <4> QED BY <3>1, <4>1, <4>3 DEF InFlush
    <3>3. Rotated'
      <4>1. CASE RotateOpen(t)
        <5>1. /\ Open /\ pc[t] = "rotate" /\ pc'[t] = "queue"
              /\ UNCHANGED <<curRevnum, minRevnum, tars, pendingCompElems, comp>>
          BY <4>1 DEF RotateOpen, Goto, ThreadType
        <5>2. fs = "closed" /\ (Rotating' <=> Rotating)
          BY <1>1, <2>0, <5>1 DEF Phases
        <5> QED BY <5>1, <5>2, RotatedOpen DEF Revisions
      <4> QED BY <2>1, <4>1, RotatedClose, RotatedQueue DEF Revisions
    <3> QED BY <2>0, <3>2, <3>3 DEF Revisions
  <2>2. CASE FlushElemEnd(t)
    <3>1. /\ pc[t] = "flushing" /\ pc'[t] = "flush" /\ DOMAIN files' = DOMAIN files
          /\ UNCHANGED <<curRevnum, minRevnum, plain, tars, pendingCompElems, comp, numCompJobs>>
          /\ fs' = fs \/ (fs = "good" /\ fs' = "bad")
      BY <2>2 DEF FlushElemEnd, WriteFile, Goto, ThreadType
    <3>2. Newest' = Newest /\ (Rotating' <=> Rotating)
      BY <1>1, <2>0, <3>1 DEF Newest
    <3> QED BY <2>0, <3>1, <3>2, RevisionsFrame DEF Revisions
  <2>3. CASE ~(RotateClose(t) \/ RotateOpen(t) \/ RotateQueue(t) \/ FlushElemEnd(t))
    <3>1. UNCHANGED fileVars
      BY <1>4, <2>3 DEF Step, Available, CheckFlush, WaitFlushed, WriteBegin, WriteFails, Drop,
         WriteEnd, LockFlush, LockFails, FlushElem, FlushEnd
    <3>2. pc[t] \notin {"rotate", "queue"} /\ pc'[t] \notin {"rotate", "queue"}
      BY <1>4, <2>3 DEF Step, Available, CheckFlush, WaitFlushed, WriteBegin, WriteFails, Drop,
         WriteEnd, LockFlush, LockFails, FlushElem, FlushEnd, Return, Goto, AfterPut,
         AfterTryLock, AfterFlush, ThreadType
    <3> QED BY <1>2, <2>0, <3>1, <3>2
  <2> QED BY <2>1, <2>2, <2>3
<1>5. ASSUME Compress PROVE Revisions'
  <2>1. pc' = pc
    BY <1>5 DEF Compress, CompTake, CompTar, CompRm, CompRetain, thVars
  <2>2. Rotated'
    BY <1>5, RotatedCompress DEF Revisions
  <2>3. ASSUME pc[Main] = "stopped" PROVE numCompJobs' = 0
    <3>1. comp.pc = "idle" /\ pendingCompElems = <<>>
      BY <2>3, NoJobs DEF Revisions
    <3> QED BY <1>5, <3>1 DEF Compress, CompTake, CompTar, CompRm, CompRetain
  <2> QED BY <2>1, <2>2, <2>3 DEF Revisions
<1>6. ASSUME DtorFlushAll \/ StopCheck \/ StopRemove \/ StopFlushAll \/ StopWait PROVE Revisions'
  <2>1. /\ \A u \in Threads : u # Main => pc'[u] = pc[u]
        /\ pc[Main] \notin {"rotate", "queue"} /\ pc'[Main] \notin {"rotate", "queue"}
        /\ pc'[Main] = "stopped" => numCompJobs = 0
    BY <1>0, <1>6 DEF DtorFlushAll, StopCheck, StopRemove, StopFlushAll, StopWait, Goto, ThreadType
  <2>2. UNCHANGED fileVars
    BY <1>6 DEF DtorFlushAll, StopCheck, StopRemove, StopFlushAll, StopWait
  <2> QED BY <1>0, <1>2, <2>1, <2>2
<1>7. ASSUME FlushAll PROVE Revisions'
  <2>1. /\ \A u \in Threads : u # Flusher => pc'[u] = pc[u]
        /\ pc[Flusher] = "idle" /\ pc'[Flusher] = "trylock" /\ pc'[Main] = pc[Main]
        /\ UNCHANGED fileVars
    BY <1>0, <1>7, RingAssumption DEF FlushAll, Goto, ThreadType
  <2> QED BY <1>0, <1>2, <2>1
<1>8. ASSUME NEW t \in Threads, put(t), pc[t] \in {"idle", "begin"} PROVE Revisions'
  <2>1. /\ \A u \in Threads : u # t => pc'[u] = pc[u]
        /\ pc'[t] \notin {"rotate", "queue", "stopped"} /\ UNCHANGED fileVars
    BY <1>8, PutMoves DEF AfterPut
  <2> QED BY <1>0, <1>2, <1>8, <2>1
<1>9. ASSUME Stopped PROVE Revisions'
  <2>1. Newest' = Newest /\ (Rotating' <=> Rotating)
    BY <1>9 DEF Stopped, vars, thVars, fileVars, Newest, Rotating
  <2> QED BY <1>9, <2>1, RevisionsFrame DEF Stopped, vars, thVars, fileVars, Revisions
<1> QED BY <1>0, <1>3, <1>4, <1>5, <1>6, <1>7, <1>8, <1>9
        DEF Next, MainStep, MainPut, PutBegin

-----------------------------------------------------------------------------
\* A put() whose write() succeeded adds its message to those taken.
LEMMA TakenWrite ==
  ASSUME ThreadType, lost \subseteq Messages, \A m \in lost : m[2] <= n[m[1]],
         NEW t \in Threads, n' = [n EXCEPT ![t] = @ + 1], lost' = lost, NEW m0, m0 = Msg(t)
  PROVE  /\ Taken' = Taken \cup {m0} /\ m0 \notin Taken
         /\ \A m \in lost' : m[2] <= n'[m[1]]
<1>1. m0 = <<t, n[t] + 1>> /\ m0 \in Messages /\ m0[1] = t /\ m0[2] = n[t] + 1 /\ n[t] \in Nat
  BY DEF ThreadType, Messages, Msg
<1>2. n'[t] = n[t] + 1 /\ \A u \in Threads : u # t => n'[u] = n[u]
  BY DEF ThreadType
<1>3. m0 \notin lost /\ m0 \notin Taken
  BY <1>1 DEF Taken
<1>4. \A m \in Messages : m[1] \in Threads /\ m[2] \in Nat /\ n[m[1]] \in Nat
  BY DEF Messages, ThreadType
<1>5. \A m \in lost' : m[2] <= n'[m[1]]
  BY <1>1, <1>2, <1>4
<1>6. ASSUME NEW m \in Messages PROVE m \in Taken' <=> m \in Taken \cup {m0}
  <2>1. CASE m[1] # t
    BY <1>1, <1>2, <1>4, <2>1 DEF Taken
  <2>2. CASE m[1] = t /\ m[2] = n[t] + 1
    <3>1. m = m0
      BY <1>1, <2>2 DEF Messages
    <3> QED BY <1>1, <1>2, <1>3, <2>2, <3>1 DEF Taken
  <2>3. CASE m[1] = t /\ m[2] # n[t] + 1
    <3>1. m[2] <= n[t] <=> m[2] <= n[t] + 1
      BY <1>1, <1>4, <2>3
    <3> QED BY <1>1, <1>2, <2>3, <3>1 DEF Taken
  <2> QED BY <2>1, <2>2, <2>3
<1>7. Taken \subseteq Messages /\ Taken' \subseteq Messages
  BY DEF Taken
<1> QED BY <1>1, <1>3, <1>5, <1>6, <1>7

\* A put() whose write() failed adds nothing to them.
LEMMA TakenLoss ==
  ASSUME ThreadType, lost \subseteq Messages, \A m \in lost : m[2] <= n[m[1]],
         NEW t \in Threads, n' = [n EXCEPT ![t] = @ + 1], lost' = lost \cup {Msg(t)}
  PROVE  Taken' = Taken /\ \A m \in lost' : m[2] <= n'[m[1]]
<1>1. PICK m0 : m0 = Msg(t)
  OBVIOUS
<1>2. /\ m0 = <<t, n[t] + 1>> /\ m0 \in Messages /\ m0[1] = t /\ m0[2] = n[t] + 1 /\ n[t] \in Nat
      /\ lost' = lost \cup {m0}
  BY <1>1 DEF ThreadType, Messages, Msg
<1>3. n'[t] = n[t] + 1 /\ \A u \in Threads : u # t => n'[u] = n[u]
  BY DEF ThreadType
<1>4. \A m \in Messages : m[1] \in Threads /\ m[2] \in Nat /\ n[m[1]] \in Nat
  BY DEF Messages, ThreadType
<1>5. \A m \in lost' : m[2] <= n'[m[1]]
  BY <1>2, <1>3, <1>4
<1>6. ASSUME NEW m \in Messages PROVE m \in Taken' <=> m \in Taken
  <2>1. CASE m = m0
    BY <1>2, <2>1 DEF Taken
  <2>2. CASE m # m0 /\ m[1] # t
    BY <1>2, <1>3, <1>4, <2>2 DEF Taken
  <2>3. CASE m # m0 /\ m[1] = t
    <3>1. m[2] # n[t] + 1
      BY <1>2, <2>3 DEF Messages
    <3>2. m[2] <= n[t] <=> m[2] <= n[t] + 1
      BY <1>2, <1>4, <2>3, <3>1
    <3> QED BY <1>2, <1>3, <2>3, <3>2 DEF Taken
  <2> QED BY <2>1, <2>2, <2>3
<1>7. Taken \subseteq Messages /\ Taken' \subseteq Messages
  BY DEF Taken
<1> QED BY <1>5, <1>6, <1>7

\* A step that takes no message and moves none.
LEMMA AcceptedFrame ==
  ASSUME Accepted, Taken' = Taken, \A m \in lost' : m[2] <= n'[m[1]], files' = files,
         \A k \in Slots : Occupied(k)' <=> Occupied(k), ctx' = ctx
  PROVE  Accepted'
<1>1. /\ \A k \in Slots : Occupied(k)' => ctx'[k] \in Taken'
      /\ \A r \in DOMAIN files' : files'[r] \subseteq Taken'
  BY DEF Accepted
<1>2. /\ \A k, j \in Slots : Occupied(k)' /\ Occupied(j)' /\ ctx'[k] = ctx'[j] => k = j
      /\ \A k \in Slots, r \in DOMAIN files' : Occupied(k)' => ctx'[k] \notin files'[r]
  BY DEF Accepted
<1>3. /\ \A r, s \in DOMAIN files' : \A m \in files'[r] : m \in files'[s] => r = s
      /\ \A m \in Taken' : \/ \E k \in Slots : Occupied(k)' /\ ctx'[k] = m
                           \/ \E r \in DOMAIN files' : m \in files'[r]
  BY DEF Accepted
<1> QED BY <1>1, <1>2, <1>3 DEF Accepted

\* A message is written into a slot that nobody else uses.
LEMMA AcceptedWrite ==
  ASSUME RingInv, Accepted, NEW t \in Threads, WriteEnd(t) PROVE Accepted'
<1> USE DEF RingInv, TypeOK
<1>0. PICK m0 : m0 = Msg(t)
  OBVIOUS
<1>1. PICK f \in Slots : m0 = Msg(t) /\ f = my[t]
  BY <1>0 DEF ThreadType
<1>2. /\ pc[t] = "writing" /\ ctx' = [ctx EXCEPT ![f] = m0]
      /\ status' = [status EXCEPT ![f] = "DIRTY"] /\ UNCHANGED <<files, lost>>
      /\ n' = [n EXCEPT ![t] = @ + 1]
  BY <1>1 DEF WriteEnd, fileVars
<1>3. Taken' = Taken \cup {m0} /\ m0 \notin Taken /\ \A m \in lost' : m[2] <= n'[m[1]]
  <2>1. lost \subseteq Messages /\ \A m \in lost : m[2] <= n[m[1]]
    BY DEF FileType, Accepted
  <2>2. ThreadType /\ lost' = lost /\ n' = [n EXCEPT ![t] = @ + 1] /\ m0 = Msg(t)
    BY <1>1, <1>2
  <2> HIDE DEF RingInv, TypeOK
  <2> QED BY <2>1, <2>2, TakenWrite
<1>4. ~Occupied(f)
  <2>1. status[f] = "WRITING"
    BY <1>1, <1>2 DEF OneWorker, WorksOn
  <2> QED BY <2>1 DEF Occupied
<1>5. /\ Occupied(f)' /\ ctx'[f] = m0
      /\ \A k \in Slots : k # f => (Occupied(k)' <=> Occupied(k)) /\ ctx'[k] = ctx[k]
  BY <1>2 DEF Occupied, SlotType
<1>6. /\ \A k \in Slots : Occupied(k)' => ctx'[k] \in Taken'
      /\ \A r \in DOMAIN files' : files'[r] \subseteq Taken'
  BY <1>2, <1>3, <1>5 DEF Accepted
<1>7. \A k \in Slots : k # f /\ Occupied(k)' => ctx'[k] # m0
  BY <1>3, <1>5 DEF Accepted
<1>8. \A k, j \in Slots : Occupied(k)' /\ Occupied(j)' /\ ctx'[k] = ctx'[j] => k = j
  BY <1>5, <1>7 DEF Accepted
<1>9. \A k \in Slots, r \in DOMAIN files' : Occupied(k)' => ctx'[k] \notin files'[r]
  BY <1>2, <1>3, <1>5 DEF Accepted
<1>10. \A r, s \in DOMAIN files' : \A m \in files'[r] : m \in files'[s] => r = s
  BY <1>2 DEF Accepted
<1>11. ASSUME NEW m \in Taken'
       PROVE  \/ \E k \in Slots : Occupied(k)' /\ ctx'[k] = m
              \/ \E r \in DOMAIN files' : m \in files'[r]
  <2>1. CASE m = m0
    BY <1>5, <2>1
  <2>2. CASE m \in Taken
    BY <1>2, <1>4, <1>5, <2>2 DEF Accepted
  <2> QED BY <1>3, <2>1, <2>2
<1> QED BY <1>3, <1>6, <1>8, <1>9, <1>10, <1>11 DEF Accepted

\* A message goes from its slot to the current file.
LEMMA AcceptedFlush ==
  ASSUME RingInv, Revisions, Accepted, NEW t \in Threads, FlushElemEnd(t), lost' = lost
  PROVE  Accepted'
<1> USE DEF RingInv, TypeOK
<1>0. PICK c : c = curRevnum
  OBVIOUS
<1>1. PICK f \in Slots : f = FlushSlot(t) /\ c = curRevnum
  BY <1>0, FlushSlotType
<1>2. PICK m0 : m0 = ctx[f]
  OBVIOUS
<1>a. m0 \in Taken /\ m0 \notin lost
  <2>1. Occupied(f)
    BY <1>1 DEF FlushElemEnd, OneWorker, WorksOn, Occupied
  <2> QED BY <1>2, <2>1 DEF Accepted, Taken
<1>3. /\ pc[t] = "flushing" /\ UNCHANGED <<ctx, n, lost>> /\ fs = "good"
      /\ files' = [files EXCEPT ![c] = @ \cup {m0}]
      /\ status' = [status EXCEPT ![f] = "CLEAN"]
  BY <1>1, <1>2, <1>a DEF FlushElemEnd, WriteFile
<1>4. c \in DOMAIN files
  BY <1>1, <1>3 DEF Revisions, Rotated, Newest, FileType
<1>5. Occupied(f) /\ m0 \in Taken
  <2>1. status[f] = "FLUSHING"
    BY <1>1, <1>3 DEF OneWorker, WorksOn
  <2>2. Occupied(f)
    BY <2>1 DEF Occupied
  <2> QED BY <1>2, <2>2 DEF Accepted
<1>6. /\ ~Occupied(f)'
      /\ \A k \in Slots : k # f => (Occupied(k)' <=> Occupied(k)) /\ ctx'[k] = ctx[k]
  BY <1>3 DEF Occupied, SlotType
<1>7. /\ DOMAIN files' = DOMAIN files /\ files'[c] = files[c] \cup {m0}
      /\ \A r \in DOMAIN files : r # c => files'[r] = files[r]
  BY <1>3, <1>4
<1>8. Taken' = Taken /\ \A m \in lost' : m[2] <= n'[m[1]]
  BY <1>3 DEF Taken, Accepted
<1>9. \A r \in DOMAIN files : m0 \notin files[r]
  BY <1>2, <1>5 DEF Accepted
<1>10. /\ \A k \in Slots : Occupied(k)' => ctx'[k] \in Taken'
       /\ \A k, j \in Slots : Occupied(k)' /\ Occupied(j)' /\ ctx'[k] = ctx'[j] => k = j
  BY <1>6, <1>8 DEF Accepted
<1>11. \A r \in DOMAIN files' : files'[r] \subseteq Taken'
  BY <1>5, <1>7, <1>8 DEF Accepted
<1>12. ASSUME NEW k \in Slots, NEW r \in DOMAIN files', Occupied(k)' PROVE ctx'[k] \notin files'[r]
  <2>1. k # f /\ Occupied(k) /\ ctx'[k] = ctx[k] /\ ctx[k] # m0
    BY <1>2, <1>5, <1>6, <1>12 DEF Accepted
  <2> QED BY <1>7, <2>1 DEF Accepted
<1>13. ASSUME NEW r \in DOMAIN files', NEW s \in DOMAIN files', NEW m \in files'[r], m \in files'[s]
       PROVE  r = s
  <2>1. CASE m = m0
    BY <1>7, <1>9, <1>13, <2>1
  <2>2. CASE m # m0
    <3>1. m \in files[r] /\ m \in files[s]
      BY <1>7, <1>13, <2>2
    <3> QED BY <1>7, <3>1 DEF Accepted
  <2> QED BY <2>1, <2>2
<1>14. ASSUME NEW m \in Taken'
       PROVE  \/ \E k \in Slots : Occupied(k)' /\ ctx'[k] = m
              \/ \E r \in DOMAIN files' : m \in files'[r]
  <2>1. CASE m = m0
    BY <1>4, <1>7, <2>1
  <2>2. CASE m # m0 /\ \E k \in Slots : Occupied(k) /\ ctx[k] = m
    BY <1>2, <1>6, <2>2
  <2>3. CASE \E r \in DOMAIN files : m \in files[r]
    BY <1>7, <2>3
  <2> QED BY <1>8, <2>1, <2>2, <2>3 DEF Accepted
<1> QED BY <1>8, <1>10, <1>11, <1>12, <1>13, <1>14 DEF Accepted

\* A message that the stream does not take is gone from its slot and in no file.
LEMMA AcceptedBad ==
  ASSUME RingInv, Accepted, NEW t \in Threads, FlushElemEnd(t), lost' # lost
  PROVE  Accepted'
<1> USE DEF RingInv, TypeOK
<1>1. PICK f \in Slots : f = FlushSlot(t)
  BY FlushSlotType
<1>2. PICK m0 : m0 = ctx[f]
  OBVIOUS
<1>3. /\ pc[t] = "flushing" /\ UNCHANGED <<ctx, n, files>> /\ lost' = lost \cup {m0}
      /\ status' = [status EXCEPT ![f] = "CLEAN"]
  BY <1>1, <1>2 DEF FlushElemEnd, WriteFile
<1>4. Occupied(f) /\ m0 \in Taken
  <2>1. Occupied(f)
    BY <1>1, <1>3 DEF OneWorker, WorksOn, Occupied
  <2> QED BY <1>2, <2>1 DEF Accepted
<1>5. /\ ~Occupied(f)'
      /\ \A k \in Slots : k # f => (Occupied(k)' <=> Occupied(k)) /\ ctx'[k] = ctx[k]
  BY <1>3 DEF Occupied, SlotType
<1>6. Taken' = Taken \ {m0} /\ \A m \in lost' : m[2] <= n'[m[1]]
  BY <1>3, <1>4 DEF Taken, Accepted
<1>7. /\ \A r \in DOMAIN files : m0 \notin files[r]
      /\ \A k \in Slots : k # f /\ Occupied(k) => ctx[k] # m0
  BY <1>2, <1>4 DEF Accepted
<1>8. /\ \A k \in Slots : Occupied(k)' => ctx'[k] \in Taken'
      /\ \A k, j \in Slots : Occupied(k)' /\ Occupied(j)' /\ ctx'[k] = ctx'[j] => k = j
  BY <1>5, <1>6, <1>7 DEF Accepted
<1>9. /\ \A r \in DOMAIN files' : files'[r] \subseteq Taken'
      /\ \A r, s \in DOMAIN files' : \A m \in files'[r] : m \in files'[s] => r = s
  BY <1>3, <1>6, <1>7 DEF Accepted
<1>10. \A k \in Slots, r \in DOMAIN files' : Occupied(k)' => ctx'[k] \notin files'[r]
  BY <1>3, <1>5 DEF Accepted
<1>11. ASSUME NEW m \in Taken'
       PROVE  \/ \E k \in Slots : Occupied(k)' /\ ctx'[k] = m
              \/ \E r \in DOMAIN files' : m \in files'[r]
  <2>1. m # m0 /\ m \in Taken
    BY <1>6
  <2> QED BY <1>2, <1>3, <1>5, <2>1 DEF Accepted
<1> QED BY <1>6, <1>8, <1>9, <1>10, <1>11 DEF Accepted

\* An empty file, or none, is opened.
LEMMA AcceptedOpen ==
  ASSUME Accepted, Open, UNCHANGED <<status, ctx, n, lost>> PROVE Accepted'
<1>1. /\ DOMAIN files \subseteq DOMAIN files'
      /\ \A r \in DOMAIN files : files'[r] = files[r]
      /\ \A r \in DOMAIN files' : r \notin DOMAIN files => files'[r] = {}
  <2>1. CASE files' = files
    BY <2>1
  <2>2. CASE files' # files
    BY <2>2 DEF Open
  <2> QED BY <2>1, <2>2
<1>2. /\ Taken' = Taken /\ \A m \in lost' : m[2] <= n'[m[1]]
      /\ ctx' = ctx /\ \A k \in Slots : Occupied(k)' <=> Occupied(k)
  BY DEF Taken, Accepted, Occupied
<1>3. /\ \A k \in Slots : Occupied(k)' => ctx'[k] \in Taken'
      /\ \A k, j \in Slots : Occupied(k)' /\ Occupied(j)' /\ ctx'[k] = ctx'[j] => k = j
  BY <1>2 DEF Accepted
<1>4. /\ \A r \in DOMAIN files' : files'[r] \subseteq Taken'
      /\ \A k \in Slots, r \in DOMAIN files' : Occupied(k)' => ctx'[k] \notin files'[r]
  BY <1>1, <1>2 DEF Accepted
<1>5. \A r, s \in DOMAIN files' : \A m \in files'[r] : m \in files'[s] => r = s
  BY <1>1 DEF Accepted
<1>6. \A m \in Taken' : \/ \E k \in Slots : Occupied(k)' /\ ctx'[k] = m
                        \/ \E r \in DOMAIN files' : m \in files'[r]
  BY <1>1, <1>2 DEF Accepted
<1> QED BY <1>2, <1>3, <1>4, <1>5, <1>6 DEF Accepted

\* Every step keeps each accepted message in its one place.
LEMMA AcceptedStep ==
  ASSUME RingInv, Revisions, Accepted, Next PROVE Accepted'
<1> USE DEF RingInv, TypeOK
<1>1. ASSUME UNCHANGED <<n, lost>>
      PROVE  Taken' = Taken /\ \A m \in lost' : m[2] <= n'[m[1]]
  BY <1>1 DEF Taken, Accepted
<1>2. ASSUME UNCHANGED <<status, ctx, n, lost, files>> PROVE Accepted'
  <2>1. \A k \in Slots : Occupied(k)' <=> Occupied(k)
    BY <1>2 DEF Occupied
  <2> QED BY <1>1, <1>2, <2>1, AcceptedFrame
<1>3. ASSUME NEW t \in Threads, n' = [n EXCEPT ![t] = @ + 1], lost' = lost \cup {Msg(t)},
             UNCHANGED <<status, ctx, files>>
      PROVE  Accepted'
  <2>1. Taken' = Taken /\ \A m \in lost' : m[2] <= n'[m[1]]
    BY <1>3, TakenLoss DEF FileType, Accepted
  <2>2. \A k \in Slots : Occupied(k)' <=> Occupied(k)
    BY <1>3 DEF Occupied
  <2> QED BY <1>3, <2>1, <2>2, AcceptedFrame
<1>4. ASSUME NEW t \in Threads, Step(t) PROVE Accepted'
  <2>0. my[t] \in Slots /\ FlushSlot(t) \in Slots
    BY FlushSlotType DEF ThreadType
  <2>1. CASE \/ Available(t) \/ CheckFlush(t) \/ WaitFlushed(t) \/ LockFlush(t) \/ LockFails(t)
             \/ FlushEnd(t) \/ RotateClose(t) \/ RotateQueue(t)
    BY <1>2, <2>1 DEF Available, CheckFlush, WaitFlushed, LockFlush, LockFails, FlushEnd,
       RotateClose, RotateQueue, slotVars, fileVars
  <2>2. CASE WriteFails(t)
    BY <1>3, <2>2 DEF WriteFails, Drop, slotVars, fileVars
  <2>3. CASE WriteBegin(t) \/ FlushElem(t)
    <3>1. UNCHANGED <<ctx, n, lost, files>>
      BY <2>3 DEF WriteBegin, FlushElem, fileVars
    <3>2. \A k \in Slots : Occupied(k)' <=> Occupied(k)
      BY <2>0, <2>3 DEF WriteBegin, FlushElem, Occupied, SlotType
    <3> QED BY <1>1, <3>1, <3>2, AcceptedFrame
  <2>4. CASE WriteEnd(t)
    BY <2>4, AcceptedWrite
  <2>5. CASE FlushElemEnd(t)
    BY <2>5, AcceptedFlush, AcceptedBad
  <2>6. CASE RotateOpen(t)
    BY <2>6, AcceptedOpen DEF RotateOpen, slotVars
  <2> QED BY <1>4, <2>1, <2>2, <2>3, <2>4, <2>5, <2>6 DEF Step
<1>5. CASE Start
  BY <1>5, AcceptedOpen DEF Start, slotVars
<1>6. ASSUME NEW t \in Threads, put(t) PROVE Accepted'
  BY <1>2, <1>3, <1>6, PutMoves DEF fileVars
<1>7. ASSUME \/ DtorFlushAll \/ StopCheck \/ StopRemove \/ StopFlushAll \/ StopWait \/ FlushAll
             \/ Compress \/ Stopped
      PROVE  Accepted'
  <2>1. UNCHANGED <<status, ctx, n, lost, files>>
    BY <1>7 DEF DtorFlushAll, StopCheck, StopRemove, StopFlushAll, StopWait, FlushAll,
       Compress, CompTake, CompTar, CompRm, CompRetain, Stopped, vars, slotVars, thVars, fileVars
  <2> QED BY <1>2, <2>1
<1> QED BY <1>4, <1>5, <1>6, <1>7 DEF Next, MainStep, MainPut, PutBegin, Threads

-----------------------------------------------------------------------------
\* The logger's invariant holds at first.
LEMMA LoggerInit == Init => LoggerInv
<1> SUFFICES ASSUME Init PROVE LoggerInv
  OBVIOUS
<1>0. /\ Main \in Threads /\ Flusher \in Threads /\ Putters \subseteq Threads
      /\ Main # Flusher /\ Main \notin Putters /\ Flusher \notin Putters
  BY RingAssumption DEF Threads
<1>1. RingInv
  BY InitRing
<1>2. Phases
  BY <1>0 DEF Init, Phases, MainPhase, InPut, InFlush
<1>3. Emptied
  BY <1>0 DEF Init, Emptied, InFlush
<1>4. Revisions
  <2>1. /\ fs = "closed" /\ curRevnum = 0 /\ Len(pendingCompElems) = 0 /\ minRevnum = 0
        /\ plain = {} /\ tars = {} /\ DOMAIN files = {} /\ comp.pc = "idle" /\ pc[Main] # "stopped"
    BY <1>0, EmptySeq DEF Init
  <2>2. ~Rotating
    BY DEF Init, Rotating
  <2>3. Newest = 0 - 1 /\ Untaken = 0 - 0 - 0
    BY <2>1, <2>2 DEF Newest, Untaken
  <2>4. tars = Archived
    BY <2>1, <2>3 DEF Archived
  <2> QED BY <2>1, <2>3, <2>4 DEF Revisions, Rotated
<1>5. Accepted
  <2>1. \A k \in Slots : ~Occupied(k)
    BY DEF Init, Occupied
  <2>2. Taken = {} /\ lost = {} /\ DOMAIN files = {}
    BY DEF Init, Taken, Messages
  <2> QED BY <2>1, <2>2 DEF Accepted
<1> QED BY <1>1, <1>2, <1>3, <1>4, <1>5 DEF LoggerInv

\* The inductive invariant of the ring, of stop() and of the revisions.
THEOREM LoggerInductive == Spec => []LoggerInv
<1>1. LoggerInv /\ [Next]_vars => LoggerInv'
  <2> SUFFICES ASSUME LoggerInv, [Next]_vars PROVE LoggerInv'
    OBVIOUS
  <2>1. RingInv'
    BY RingStep DEF LoggerInv
  <2>2. CASE Next
    BY <2>1, <2>2, PhasesStep, EmptiedStep, RevisionsStep, AcceptedStep DEF LoggerInv
  <2>3. CASE UNCHANGED vars
    <3> USE <2>3 DEF LoggerInv, vars, slotVars, thVars, fileVars
    <3>1. Phases' /\ Emptied'
      BY DEF Phases, MainPhase, NeverOpened, Emptied
    <3>2. Revisions'
      <4>1. Newest' = Newest /\ (Rotating' <=> Rotating)
        BY DEF Newest, Rotating
      <4> QED BY <4>1, RevisionsFrame DEF Revisions
    <3>3. Accepted'
      <4>1. Taken' = Taken /\ \A k \in Slots : Occupied(k)' <=> Occupied(k)
        BY DEF Taken, Occupied
      <4>2. Accepted /\ files' = files /\ ctx' = ctx /\ \A m \in lost' : m[2] <= n'[m[1]]
        BY DEF Accepted
      <4> QED BY <4>1, <4>2, AcceptedFrame
    <3> QED BY <2>1, <3>1, <3>2, <3>3
  <2> QED BY <2>2, <2>3
<1> QED BY <1>1, LoggerInit, PTL DEF Spec

\* When stop() has closed the file the ring is empty: main is alone by then, so
\* the try_lock of its last flushAll() cannot fail.
THEOREM RingStopFlushesAll == Spec => []StopFlushesAll
<1>1. LoggerInv => StopFlushesAll
  BY DEF LoggerInv, Emptied, StopFlushesAll
<1> QED BY <1>1, LoggerInductive, PTL

\* At every moment of a rotation and of the compressor's work an open file is on
\* disk and plain, and the newest maxLogFiles older ones are there in one form or
\* other.
THEOREM RingNewestKept == Spec => []NewestKept
<1>1. LoggerInv => NewestKept
  <2> SUFFICES ASSUME LoggerInv
               PROVE  /\ IsOpen => curRevnum \in plain \ tars
                      /\ \A r \in 0 .. curRevnum - 1 :
                           MaxLogFiles = 0 \/ r >= curRevnum - MaxLogFiles => r \in plain \cup tars
    BY DEF NewestKept
  <2>1. Rotated /\ FileType
    BY DEF LoggerInv, Revisions, RingInv, TypeOK
  <2>2. /\ curRevnum \in Nat /\ minRevnum \in Nat /\ MaxLogFiles \in Nat
        /\ Untaken \in Int /\ Untaken <= curRevnum
        /\ comp.pc \in {"idle", "tar", "rm", "retain"}
        /\ Newest \in {curRevnum - 1, curRevnum} /\ (IsOpen => Newest = curRevnum)
    BY <2>1, LenProperties, RingAssumption DEF FileType, Untaken, Newest, IsOpen
  <2>3. Untaken .. Newest \subseteq plain
    BY <2>1 DEF Rotated
  <2>4. IsOpen => curRevnum \in plain
    BY <2>2, <2>3
  <2>5. curRevnum \notin tars
    BY <2>1, <2>2 DEF Rotated, Archived
  <2>6. ASSUME NEW r \in 0 .. curRevnum - 1, MaxLogFiles = 0 \/ r >= curRevnum - MaxLogFiles,
               r < Untaken
        PROVE  r \in plain \cup tars
    <3>1. minRevnum <= r
      BY <2>1, <2>2, <2>6 DEF Rotated
    <3>2. CASE comp.pc = "tar" /\ r = Untaken - 1
      BY <2>1, <3>2 DEF Rotated
    <3>3. CASE ~(comp.pc = "tar" /\ r = Untaken - 1)
      BY <2>1, <2>2, <2>6, <3>1, <3>3 DEF Rotated, Archived
    <3> QED BY <3>2, <3>3
  <2>7. \A r \in 0 .. curRevnum - 1 : r >= Untaken => r \in Untaken .. Newest
    BY <2>2
  <2> QED BY <2>2, <2>3, <2>4, <2>5, <2>6, <2>7
<1> QED BY <1>1, LoggerInductive, PTL

\* When a stop() that found the file open returns, every rotated file is archived
\* and the compressor has nothing left that refers to the logger, whether or not
\* the last rotation could open its file.
THEOREM RingStopOutlivesJobs == Spec => []StopOutlivesJobs
<1>1. LoggerInv => StopOutlivesJobs
  <2> SUFFICES ASSUME LoggerInv, pc[Main] = "stopped"
               PROVE  plain \subseteq {curRevnum} /\ pendingCompElems = <<>> /\ comp.pc = "idle"
    BY DEF StopOutlivesJobs
  <2>1. Rotated /\ FileType /\ JobsCounted /\ numCompJobs = 0
    BY DEF LoggerInv, Revisions, RingInv, TypeOK
  <2>2. comp.pc = "idle" /\ Len(pendingCompElems) = 0 /\ pendingCompElems = <<>>
    BY <2>1, NoJobs
  <2>3. ~Rotating
    <3>1. n[Main] = 2
      BY DEF LoggerInv, Phases, MainPhase
    <3>2. \A t \in Threads : t # Main => pc[t] = "idle"
      BY <3>1, StopAlone DEF LoggerInv
    <3> QED BY <3>2 DEF Rotating
  <2>4. Untaken = curRevnum /\ Newest \in {curRevnum - 1, curRevnum} /\ curRevnum \in Nat
    BY <2>1, <2>2, <2>3 DEF Untaken, Newest, FileType
  <2>5. plain = Untaken .. Newest
    BY <2>1, <2>2 DEF Rotated
  <2> QED BY <2>2, <2>4, <2>5
<1> QED BY <1>1, LoggerInductive, PTL

\* A message that put() and the stream took is in exactly one slot or in exactly
\* one log file, however often the threads have gone around the ring; a message
\* that one of them dropped is in none.
THEOREM RingAcceptedOnce == Spec => []AcceptedOnce
<1>1. LoggerInv => AcceptedOnce
  <2> SUFFICES ASSUME LoggerInv, NEW t \in Threads, NEW i \in 1 .. n[t], NEW m, m = <<t, i>>
               PROVE  Cardinality(InRing(m)) +
                        Cardinality({r \in DOMAIN files : m \in files[r]}) =
                          IF m \in lost THEN 0 ELSE 1
    BY DEF AcceptedOnce
  <2>0. /\ m \in Messages /\ m[1] = t /\ m[2] = i /\ 0 < i /\ i <= n[t]
        /\ Accepted
    BY DEF LoggerInv, RingInv, TypeOK, ThreadType, Messages
  <2>1. Accepted /\ (m \in Taken <=> m \notin lost)
    BY <2>0 DEF Taken
  <2>2. InRing(m) = {k \in Slots : Occupied(k) /\ ctx[k] = m}
    BY DEF InRing, Occupied
  <2>a. CASE m \in lost
    <3>1. InRing(m) = {} /\ {r \in DOMAIN files : m \in files[r]} = {}
      BY <2>1, <2>2, <2>a DEF Accepted
    <3>2. Cardinality({}) = 0
      BY FS_EmptySet
    <3> QED BY <2>a, <3>1, <3>2
  <2>3. CASE m \notin lost /\ \E k \in Slots : Occupied(k) /\ ctx[k] = m
    <3>1. PICK k \in Slots : Occupied(k) /\ ctx[k] = m
      BY <2>3
    <3>2. InRing(m) = {k}
      BY <2>1, <2>2, <3>1 DEF Accepted
    <3>3. {r \in DOMAIN files : m \in files[r]} = {}
      BY <2>1, <3>1 DEF Accepted
    <3>4. Cardinality({k}) = 1 /\ Cardinality({}) = 0
      BY FS_Singleton, FS_EmptySet
    <3>5. Cardinality(InRing(m)) = 1 /\ Cardinality({r \in DOMAIN files : m \in files[r]}) = 0
      BY <3>2, <3>3, <3>4
    <3> QED BY <2>3, <3>5
  <2>4. CASE m \notin lost /\ ~\E k \in Slots : Occupied(k) /\ ctx[k] = m
    <3>1. PICK r \in DOMAIN files : m \in files[r]
      BY <2>1, <2>4 DEF Accepted
    <3>2. InRing(m) = {}
      BY <2>2, <2>4
    <3>3. {s \in DOMAIN files : m \in files[s]} = {r}
      BY <2>1, <3>1 DEF Accepted
    <3>4. Cardinality({r}) = 1 /\ Cardinality({}) = 0
      BY FS_Singleton, FS_EmptySet
    <3> QED BY <2>4, <3>2, <3>3, <3>4
  <2> QED BY <2>a, <2>3, <2>4
<1> QED BY <1>1, LoggerInductive, PTL
=============================================================================
