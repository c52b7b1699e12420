------------------------------ MODULE CrashDump ------------------------------
(***************************************************************************)
(* The crash handler of SimpleLoggerMgr (src/server/logger.{h,cpp}): a      *)
(* thread that meets SIGSEGV or SIGABRT logs what happened, and the stacks  *)
(* of all threads, through the same ring, locks and flusher as everyone     *)
(* else, while the other threads run on; the flusher ends the process when  *)
(* that takes too long.                                                     *)
(*                                                                          *)
(* One logger, started.  A step is one access of an atomic, one slot copied *)
(* or one critical section.  pc[t] is where a thread is in put() and        *)
(* flush(), as in LogRing but without rotation; at[t] is where a crashed    *)
(* thread is in its handler.  The code under a signal handler never         *)
(* resumes, so what a crashed thread held it holds for ever.  The threads   *)
(* `App' log, crash and end; `Flusher' is the flushWorker thread.  The     *)
(* text of stacks, the dump file and the console are left out.  A local     *)
(* that is out of scope is 0.                                               *)
(***************************************************************************)
EXTENDS Integers, FiniteSets

CONSTANTS App, Flusher,
          NoThread,     \* a free mutex, no crash origin
          N,            \* logs.size()
          Ticks,        \* the abort timeout, in rounds of the flusher
          OriginOnly,   \* the settings of crashDumpOriginOnly to check
          CrashAt,      \* where in put() a thread may crash; "idle" is outside
          MaxPuts,      \* bound: put() calls of a thread
          MaxCrash      \* bound: signals

Threads == App \cup {Flusher}
Signals == {"SIGSEGV", "SIGABRT"}
Slots   == 0 .. N - 1

ASSUME DumpAssumption ==
  /\ N \in Nat \ {0} /\ Ticks \in Nat \ {0}
  /\ MaxPuts \in Nat /\ MaxCrash \in Nat
  /\ OriginOnly \subseteq BOOLEAN /\ "gone" \notin CrashAt
  /\ Flusher \notin App /\ NoThread \notin Threads
  /\ "none" \notin App /\ "before" \notin App

VARIABLES status,         \* of the LogElems
          due,            \* history: the message in a slot is one that a handler
                          \* is to flush: its own, or one from before a crash
          cursor,
          flushingLogs, loggersLock, activeThreadsLock, \* their holders
          pc, my, pos, n, \* per thread, as in LogRing
          sweep,          \* per thread: its flush() was called by flushAll()
          activeThreads,
          at, sig,        \* per thread: step of its handler, and its signal
          left,           \* per thread: stacks its handler has yet to log
          flushed,        \* per thread, history: its handler's last flushAll() met
                          \* no thread of `App' in flush()
          installed,      \* signals whose handler is this manager's
          crashDumpOriginOnly, crashOriginThread,
          stacks,         \* crashDumpThreadStacks: the threads they are of
          asked,          \* threads the origin has sent SIGUSR2
          usr2, intr,     \* per thread: SIGUSR2 pending; step of its handler
          abortTimer,     \* in rounds, 0 when not set
          ended           \* what ended the process, or "no"

ringVars  == <<status, due, cursor, flushingLogs>>
putVars   == <<pc, my, pos, n, sweep>>
lockVars  == <<loggersLock, activeThreadsLock, activeThreads>>
crashVars == <<at, sig, left, flushed, installed, crashDumpOriginOnly>>
traceVars == <<crashOriginThread, stacks, asked, usr2, intr>>
dumpVars  == <<crashVars, traceVars, abortTimer, ended>>
vars      == <<ringVars, putVars, lockVars, dumpVars>>

Init ==
  /\ status = [k \in Slots |-> "CLEAN"] /\ due = [k \in Slots |-> "none"]
  /\ cursor = 0
  /\ flushingLogs = NoThread /\ loggersLock = NoThread
  /\ activeThreadsLock = NoThread
  /\ pc = [t \in Threads |-> IF t = Flusher THEN "lock" ELSE "idle"]
  /\ my = [t \in Threads |-> 0] /\ pos = [t \in Threads |-> 0]
  /\ n = [t \in Threads |-> 0] /\ sweep = [t \in Threads |-> FALSE]
  /\ activeThreads = {}
  /\ at = [t \in Threads |-> "none"] /\ sig = [t \in Threads |-> "none"]
  /\ left = [t \in Threads |-> 0] /\ flushed = [t \in Threads |-> FALSE]
  /\ installed = Signals
  /\ crashDumpOriginOnly \in OriginOnly
  /\ crashOriginThread = NoThread
  /\ stacks = {} /\ asked = {}
  /\ usr2 = [t \in Threads |-> FALSE] /\ intr = [t \in Threads |-> "none"]
  /\ abortTimer = 0
  /\ ended = "no"

Crashed == {t \in App : at[t] # "none"}

\* A thread that executes its own code: the process lives, and no SIGUSR2
\* handler is on top of it.
Runs(t) == ended = "no" /\ intr[t] = "none"

Goto(t, l)   == pc' = [pc EXCEPT ![t] = l]
GotoAt(t, l) == at' = [at EXCEPT ![t] = l]
-----------------------------------------------------------------------------
\* put(): the thread's first one makes its ThreadWrapper, which registers it.
EnterPut(t) == IF t \in activeThreads THEN "claim" ELSE "wrapper"

PutBegin(t) ==
  /\ Runs(t) /\ t \in App /\ pc[t] = "idle" /\ at[t] = "none" /\ n[t] < MaxPuts
  /\ n' = [n EXCEPT ![t] = @ + 1]
  /\ Goto(t, EnterPut(t))
  /\ UNCHANGED <<ringVars, my, pos, sweep, lockVars, dumpVars>>

AddThread(t) ==
  /\ Runs(t) /\ pc[t] = "wrapper" /\ activeThreadsLock = NoThread
  /\ activeThreads' = activeThreads \cup {t}
  /\ Goto(t, "claim")
  /\ UNCHANGED <<ringVars, my, pos, n, sweep, loggersLock, activeThreadsLock, dumpVars>>

\* Mutant: the cursor does not wrap around.
ClaimNoWrap(t) ==
  /\ Runs(t) /\ pc[t] = "claim"
  /\ my' = [my EXCEPT ![t] = cursor]
  /\ cursor' = cursor + 1
  /\ Goto(t, "avail")
  /\ UNCHANGED <<status, due, flushingLogs, pos, n, sweep, lockVars, dumpVars>>

Claim(t) ==
  /\ Runs(t) /\ pc[t] = "claim"
  /\ my' = [my EXCEPT ![t] = cursor]
  /\ cursor' = (cursor + 1) % N
  /\ Goto(t, "avail")
  /\ UNCHANGED <<status, due, flushingLogs, pos, n, sweep, lockVars, dumpVars>>

\* The three tests of the slot: available(), needToFlush(), and the wait.
TestSlot(t) ==
  /\ Runs(t)
  /\ \/ /\ pc[t] = "avail" /\ status[my[t]] \in {"CLEAN", "DIRTY"}
        /\ Goto(t, "check")
     \/ /\ pc[t] = "check"
        /\ Goto(t, IF status[my[t]] = "DIRTY" THEN "trylock" ELSE "write")
     \/ /\ pc[t] = "wait" /\ status[my[t]] # "DIRTY"
        /\ Goto(t, "write")
  /\ UNCHANGED <<ringVars, my, pos, n, sweep, lockVars, dumpVars>>

\* put() returns: to its caller, or to flushAllLoggers(), which flushes next.
AfterPut(t) == IF at[t] = "none" THEN "idle" ELSE "flushAll"

\* LogElem::write(), which fails when the slot is not CLEAN.
WriteBegin(t) ==
  /\ Runs(t) /\ pc[t] = "write"
  /\ IF status[my[t]] = "CLEAN"
     THEN /\ status' = [status EXCEPT ![my[t]] = "WRITING"]
          /\ Goto(t, "writing")
          /\ UNCHANGED my
     ELSE /\ my' = [my EXCEPT ![t] = 0]
          /\ Goto(t, AfterPut(t))
          /\ UNCHANGED status
  /\ UNCHANGED <<due, cursor, flushingLogs, pos, n, sweep, lockVars,
                 dumpVars>>

DueFor(t) == IF at[t] # "none" THEN t ELSE IF Crashed = {} THEN "before" ELSE "none"

WriteEnd(t) ==
  /\ Runs(t) /\ pc[t] = "writing"
  /\ due' = [due EXCEPT ![my[t]] = DueFor(t)]
  /\ status' = [status EXCEPT ![my[t]] = "DIRTY"]
  /\ my' = [my EXCEPT ![t] = 0]
  /\ Goto(t, AfterPut(t))
  /\ UNCHANGED <<cursor, flushingLogs, pos, n, sweep, lockVars, dumpVars>>

-----------------------------------------------------------------------------
\* What a handler does after each of its messages.
Following == [fatal |-> "timer", critical |-> "pushing", captured |-> "kill",
              gotall |-> "raw", skipped |-> "raw", stack |-> "interpret"]

\* flush() returns to put() at `l', or to flushAll(), with which a round of
\* flushAllLoggers() ends; that of "got all" also ends the block that holds
\* activeThreadsLock.
LeaveFlush(t, l) ==
  IF ~sweep[t] THEN Goto(t, l) /\ UNCHANGED <<my, sweep, loggersLock, activeThreadsLock, at>>
  ELSE /\ loggersLock' = NoThread
       /\ my' = [my EXCEPT ![t] = 0] /\ sweep' = [sweep EXCEPT ![t] = FALSE]
       /\ IF t = Flusher
          THEN Goto(t, "timer") /\ UNCHANGED <<at, activeThreadsLock>>
          ELSE /\ Goto(t, "idle") /\ GotoAt(t, Following[at[t]])
               /\ activeThreadsLock' = IF at[t] = "gotall" THEN NoThread ELSE activeThreadsLock

\* flush(): try_lock or give up: a put() then waits, flushAll() just returns.
TryLock(t) ==
  /\ Runs(t) /\ pc[t] = "trylock"
  /\ IF flushingLogs = NoThread
     THEN /\ flushingLogs' = t
          /\ Goto(t, "flush")
          /\ UNCHANGED <<my, sweep, loggersLock, activeThreadsLock, at>>
     ELSE /\ LeaveFlush(t, "wait")
          /\ UNCHANGED flushingLogs
  /\ flushed' = [flushed EXCEPT ![t] = at[t] # "none" /\ sweep[t] /\ flushingLogs \notin App]
  /\ UNCHANGED <<status, due, cursor, pos, n, activeThreads, sig, left, installed,
                 crashDumpOriginOnly, traceVars, abortTimer, ended>>

FlushSlot(t) == (my[t] + pos[t]) % N

\* Mutant: the walk ends at the end of the ring.
WalkedToEnd(t) == my[t] + pos[t] >= N

Walked(t) == pos[t] = N

FlushElem(t) ==
  /\ Runs(t) /\ pc[t] = "flush" /\ ~Walked(t)
  /\ IF status[FlushSlot(t)] = "DIRTY"
     THEN /\ status' = [status EXCEPT ![FlushSlot(t)] = "FLUSHING"]
          /\ Goto(t, "flushing")
          /\ UNCHANGED pos
     ELSE /\ pos' = [pos EXCEPT ![t] = @ + 1]
          /\ UNCHANGED <<status, pc>>
  /\ UNCHANGED <<due, cursor, flushingLogs, my, n, sweep, lockVars, dumpVars>>

FlushElemEnd(t) ==
  /\ Runs(t) /\ pc[t] = "flushing"
  /\ status' = [status EXCEPT ![FlushSlot(t)] = "CLEAN"]
  /\ due' = [due EXCEPT ![FlushSlot(t)] = "none"]
  /\ pos' = [pos EXCEPT ![t] = @ + 1]
  /\ Goto(t, "flush")
  /\ UNCHANGED <<cursor, flushingLogs, my, n, sweep, lockVars, dumpVars>>

FlushEnd(t) ==
  /\ Runs(t) /\ pc[t] = "flush" /\ Walked(t)
  /\ flushingLogs' = NoThread
  /\ pos' = [pos EXCEPT ![t] = 0]
  /\ LeaveFlush(t, "write")
  /\ UNCHANGED <<status, due, cursor, n, activeThreads, sig, left, flushed, installed,
                 crashDumpOriginOnly, traceVars, abortTimer, ended>>

\* flushAllLoggers(): under loggersLock, put() the message if there is one,
\* then flushAll().
LockLoggers(t) ==
  /\ Runs(t) /\ pc[t] = "lock" /\ at[t] # "displayer" /\ loggersLock = NoThread
  /\ loggersLock' = t
  /\ Goto(t, IF t = Flusher THEN "flushAll" ELSE EnterPut(t))
  /\ UNCHANGED <<ringVars, my, pos, n, sweep, activeThreadsLock,
                 activeThreads, dumpVars>>

FlushAll(t) ==
  /\ Runs(t) /\ pc[t] = "flushAll"
  /\ my' = [my EXCEPT ![t] = cursor]
  /\ sweep' = [sweep EXCEPT ![t] = TRUE]
  /\ Goto(t, "trylock")
  /\ UNCHANGED <<ringVars, pos, n, lockVars, dumpVars>>

\* flushWorker, after each round: count down, or end the process.
CheckTimer ==
  /\ Runs(Flusher) /\ pc[Flusher] = "timer"
  /\ abortTimer' = IF abortTimer > 1 THEN abortTimer - 1 ELSE abortTimer
  /\ ended' = IF abortTimer = 1 THEN "timer" ELSE "no"
  /\ Goto(Flusher, "lock")
  /\ UNCHANGED <<ringVars, my, pos, n, sweep, lockVars, crashVars, traceVars>>

\* Mutant: a thread that ends does not wait for a dump.
RemoveThreadAtOnce(t) ==
  /\ Runs(t) /\ t \in App /\ pc[t] = "idle" /\ at[t] = "none"
  /\ activeThreads' = activeThreads \ {t}
  /\ Goto(t, "gone")
  /\ UNCHANGED <<ringVars, my, pos, n, sweep, loggersLock, activeThreadsLock, dumpVars>>

\* A thread ends; the destructor of its ThreadWrapper takes it off the list.
RemoveThread(t) ==
  /\ Runs(t) /\ t \in App /\ pc[t] = "idle" /\ at[t] = "none"
  /\ t \notin activeThreads \/ activeThreadsLock = NoThread
  /\ activeThreads' = activeThreads \ {t}
  /\ Goto(t, "gone")
  /\ UNCHANGED <<ringVars, my, pos, n, sweep, loggersLock, activeThreadsLock, dumpVars>>
-----------------------------------------------------------------------------
\* A fault or an abort() in any code of the program: the handler, if it is
\* still installed, or else the end.
Crash(t, s) ==
  /\ Runs(t) /\ t \in App /\ pc[t] \in CrashAt /\ at[t] = "none"
  /\ Cardinality(Crashed) < MaxCrash
  /\ IF s \in installed
     THEN /\ GotoAt(t, "signal") /\ sig' = [sig EXCEPT ![t] = s]
          /\ Goto(t, "idle")
          /\ my' = [my EXCEPT ![t] = 0] /\ pos' = [pos EXCEPT ![t] = 0]
          /\ n' = [n EXCEPT ![t] = 0]
          /\ UNCHANGED ended
     ELSE ended' = "signal" /\ UNCHANGED <<at, sig, pc, my, pos, n>>
  /\ UNCHANGED <<ringVars, sweep, lockVars, left, flushed, installed,
                 crashDumpOriginOnly, traceVars, abortTimer>>

\* handleSegFault(), handleSegAbort(): the old handler is put back first.
HandleSignal(t) ==
  /\ Runs(t) /\ at[t] = "signal"
  /\ installed' = installed \ {sig[t]} /\ sig' = [sig EXCEPT ![t] = "none"]
  /\ GotoAt(t, "displayer") /\ Goto(t, "lock")
  /\ UNCHANGED <<ringVars, my, pos, n, sweep, lockVars, left, flushed,
                 crashDumpOriginOnly, traceVars, abortTimer, ended>>

\* enableOnlyOneDisplayer()
EnableOnlyOneDisplayer(t) ==
  /\ Runs(t) /\ at[t] = "displayer" /\ loggersLock = NoThread
  /\ GotoAt(t, "fatal")
  /\ UNCHANGED <<ringVars, putVars, lockVars, sig, left, flushed, installed,
                 crashDumpOriginOnly, traceVars, abortTimer, ended>>

\* A handler's next message: it calls flushAllLoggers().
Announce(t, l) == GotoAt(t, l) /\ Goto(t, "lock")

\* Mutant: the timer is left unset, as by logStackBacktrace(0).
SetAbortTimerZero(t) ==
  /\ Runs(t) /\ at[t] = "timer"
  /\ Announce(t, "critical")
  /\ UNCHANGED <<ringVars, my, pos, n, sweep, lockVars, sig, left, flushed,
                 installed, crashDumpOriginOnly, traceVars, abortTimer, ended>>

\* logStackBacktrace(): set the timer, then flushCriticalInfo().
SetAbortTimer(t) ==
  /\ Runs(t) /\ at[t] = "timer"
  /\ abortTimer' = Ticks
  /\ Announce(t, "critical")
  /\ UNCHANGED <<ringVars, my, pos, n, sweep, lockVars, sig, left, flushed,
                 installed, crashDumpOriginOnly, traceVars, ended>>

\* Threads that change, or walk through, the vector of stacks.
Pushing(t) == at[t] = "pushing" \/ intr[t] = "pushing"
Walking(t) == at[t] \in {"interpret", "stack"}

\* The end of addRawStackInfo().  The vector has no lock: next to another
\* push or a walk the entry may be lost, or the process may die.
PushRawStack(t) ==
  \/ stacks' = stacks \cup {t} /\ UNCHANGED ended
  \/ /\ \E u \in Threads \ {t} : Pushing(u) \/ Walking(u)
     /\ UNCHANGED stacks /\ ended' \in {"no", "signal"}

AddRawStackInfo(t) ==
  /\ Runs(t) /\ at[t] = "pushing"
  /\ PushRawStack(t)
  /\ GotoAt(t, "others")
  /\ UNCHANGED <<ringVars, putVars, lockVars, sig, left, flushed, installed,
                 crashDumpOriginOnly, crashOriginThread, asked, usr2, intr, abortTimer>>

\* logStackBackTraceOtherThreads(): unless disabled, the first thread here is
\* the one that asks the others; a second one leaves.
OtherThreads(t) ==
  /\ Runs(t) /\ at[t] = "others"
  /\ \/ /\ crashDumpOriginOnly
        /\ Announce(t, "skipped")
        /\ UNCHANGED crashOriginThread
     \/ /\ ~crashDumpOriginOnly /\ crashOriginThread = NoThread
        /\ crashOriginThread' = t
        /\ GotoAt(t, "active") /\ UNCHANGED pc
     \/ /\ ~crashDumpOriginOnly /\ crashOriginThread # NoThread
        /\ GotoAt(t, "raw") /\ UNCHANGED <<crashOriginThread, pc>>
  /\ UNCHANGED <<ringVars, my, pos, n, sweep, lockVars, sig, left, flushed, installed,
                 crashDumpOriginOnly, stacks, asked, usr2, intr, abortTimer, ended>>

LockActiveThreads(t) ==
  /\ Runs(t) /\ at[t] = "active" /\ activeThreadsLock = NoThread
  /\ activeThreadsLock' = t
  /\ Announce(t, "captured")
  /\ UNCHANGED <<ringVars, my, pos, n, sweep, loggersLock, activeThreads,
                 sig, left, flushed, installed, crashDumpOriginOnly, traceVars,
                 abortTimer, ended>>

\* The loop over activeThreads: SIGUSR2 to the next thread ...
AskThread(t) ==
  /\ Runs(t) /\ at[t] = "kill"
  /\ \E u \in activeThreads \ (asked \cup {t}) :
       asked' = asked \cup {u} /\ usr2' = [usr2 EXCEPT ![u] = TRUE]
  /\ GotoAt(t, "killed")
  /\ UNCHANGED <<ringVars, putVars, lockVars, sig, left, flushed, installed,
                 crashDumpOriginOnly, crashOriginThread, stacks, intr, abortTimer, ended>>

\* Mutant: the origin does not wait for the answer.
SuspendNot(t) ==
  /\ Runs(t) /\ at[t] = "killed"
  /\ GotoAt(t, "kill")
  /\ UNCHANGED <<ringVars, putVars, lockVars, sig, left, flushed, installed,
                 crashDumpOriginOnly, traceVars, abortTimer, ended>>

\* ... and sigsuspend(), which only a SIGUSR2 that comes from now on ends.
Suspend(t) ==
  /\ Runs(t) /\ at[t] = "killed"
  /\ GotoAt(t, "suspended")
  /\ UNCHANGED <<ringVars, putVars, lockVars, sig, left, flushed, installed,
                 crashDumpOriginOnly, traceVars, abortTimer, ended>>

AllAsked(t) ==
  /\ Runs(t) /\ at[t] = "kill" /\ activeThreads \subseteq asked \cup {t}
  /\ Announce(t, "gotall")
  /\ UNCHANGED <<ringVars, my, pos, n, sweep, lockVars, sig, left, flushed, installed,
                 crashDumpOriginOnly, traceVars, abortTimer, ended>>

\* Mutant: a thread answers first and then pushes its stack.
DeliverUsr2Answers(t) ==
  /\ Runs(t) /\ usr2[t]
  /\ IF t = crashOriginThread
     THEN /\ usr2' = [usr2 EXCEPT ![t] = FALSE]
          /\ GotoAt(t, IF at[t] = "suspended" THEN "kill" ELSE at[t])
          /\ UNCHANGED intr
     ELSE /\ usr2' = [usr2 EXCEPT ![t] = FALSE, ![crashOriginThread] = TRUE]
          /\ intr' = [intr EXCEPT ![t] = "pushing"] /\ UNCHANGED at
  /\ UNCHANGED <<ringVars, putVars, lockVars, sig, left, flushed, installed,
                 crashDumpOriginOnly, crashOriginThread, stacks, asked, abortTimer, ended>>

\* handleStackTrace(): the origin returns at once, and goes on if it was
\* suspended; another thread pushes its stack and then answers.
DeliverUsr2(t) ==
  /\ Runs(t) /\ usr2[t]
  /\ usr2' = [usr2 EXCEPT ![t] = FALSE]
  /\ IF t = crashOriginThread
     THEN /\ GotoAt(t, IF at[t] = "suspended" THEN "kill" ELSE at[t])
          /\ UNCHANGED intr
     ELSE intr' = [intr EXCEPT ![t] = "pushing"] /\ UNCHANGED at
  /\ UNCHANGED <<ringVars, putVars, lockVars, sig, left, flushed, installed,
                 crashDumpOriginOnly, crashOriginThread, stacks, asked, abortTimer, ended>>

TracePush(t) ==
  /\ ended = "no" /\ intr[t] = "pushing"
  /\ PushRawStack(t)
  /\ intr' = [intr EXCEPT ![t] = "reply"]
  /\ UNCHANGED <<ringVars, putVars, lockVars, crashVars, crashOriginThread, asked,
                 usr2, abortTimer>>

TraceReply(t) ==
  /\ ended = "no" /\ intr[t] = "reply"
  /\ usr2' = [usr2 EXCEPT ![crashOriginThread] = TRUE]
  /\ intr' = [intr EXCEPT ![t] = "none"]
  /\ UNCHANGED <<ringVars, putVars, lockVars, crashVars, crashOriginThread, stacks,
                 asked, abortTimer, ended>>

\* flushRawStack() for every stack, then the walk that logs them.
FlushRawStacks(t) ==
  /\ Runs(t) /\ at[t] = "raw"
  /\ left' = [left EXCEPT ![t] = Cardinality(stacks)]
  /\ GotoAt(t, "interpret")
  /\ UNCHANGED <<ringVars, putVars, lockVars, sig, flushed, installed,
                 crashDumpOriginOnly, traceVars, abortTimer, ended>>

\* flushStackTraceBuffer(): addr2line may never answer; a stack with nothing
\* to print has no message.  Bound: the text of a stack is one message.
StackInterpret(t) ==
  /\ Runs(t) /\ at[t] = "interpret" /\ left[t] > 0
  /\ left' = [left EXCEPT ![t] = @ - 1]
  /\ \/ Announce(t, "stack")
     \/ UNCHANGED <<at, pc>>
  /\ UNCHANGED <<ringVars, my, pos, n, sweep, lockVars, sig, flushed, installed,
                 crashDumpOriginOnly, traceVars, abortTimer, ended>>

\* "Flushed all logs safely.", without a look at what flushAll() did.
Flushed(t) ==
  /\ Runs(t) /\ at[t] = "interpret" /\ left[t] = 0
  /\ GotoAt(t, "printed")
  /\ UNCHANGED <<ringVars, putVars, lockVars, sig, left, flushed, installed,
                 crashDumpOriginOnly, traceVars, abortTimer, ended>>

\* exit(), abort(), the old handler, or the return to the fault, which meets the
\* default action now.
Exit(t) ==
  /\ Runs(t) /\ at[t] = "printed"
  /\ ended' = "handler"
  /\ UNCHANGED <<ringVars, putVars, lockVars, crashVars, traceVars, abortTimer>>
-----------------------------------------------------------------------------
PutStep(t) ==
  \/ AddThread(t) \/ Claim(t) \/ TestSlot(t) \/ WriteBegin(t) \/ WriteEnd(t)
FlushStep(t) ==
  \/ TryLock(t) \/ FlushElem(t) \/ FlushElemEnd(t) \/ FlushEnd(t)
  \/ FlushAll(t)
HandlerStep(t) ==
  \/ HandleSignal(t) \/ SetAbortTimer(t) \/ AddRawStackInfo(t) \/ OtherThreads(t)
  \/ LockActiveThreads(t) \/ AskThread(t) \/ Suspend(t) \/ AllAsked(t)
  \/ FlushRawStacks(t) \/ Flushed(t) \/ Exit(t)
TraceStep(t) == DeliverUsr2(t) \/ TracePush(t) \/ TraceReply(t)

AppStep(t)  == PutStep(t) \/ FlushStep(t) \/ HandlerStep(t) \/ TraceStep(t)
TakeLock(t) == LockLoggers(t) \/ EnableOnlyOneDisplayer(t)
FlushWorker == LockLoggers(Flusher) \/ FlushStep(Flusher) \/ CheckTimer

Next ==
  \/ \E t \in App : AppStep(t) \/ TakeLock(t) \/ StackInterpret(t)
  \/ \E t \in App : PutBegin(t) \/ RemoveThread(t)
  \/ \E t \in App, s \in Signals : Crash(t, s)
  \/ FlushWorker

\* Every thread inside a call keeps running, signals are delivered to it, and
\* when it waits for loggersLock it gets that once in a while, because the
\* flusher sleeps between two rounds.  Callers owe no call, addr2line owes no
\* answer.
Fairness ==
  /\ \A t \in App : WF_vars(AppStep(t)) /\ SF_vars(TakeLock(t))
  /\ WF_vars(FlushWorker)

Spec == Init /\ [][Next]_vars /\ Fairness
-----------------------------------------------------------------------------
\* The threads' calls, the handlers' steps and the ring keep to their ranges.
TypeOK ==
  /\ status \in [Slots -> {"CLEAN", "WRITING", "DIRTY", "FLUSHING"}]
  /\ due \in [Slots -> App \cup {"none", "before"}]
  /\ cursor \in Slots
  /\ {flushingLogs, loggersLock, activeThreadsLock, crashOriginThread}
       \subseteq Threads \cup {NoThread}
  /\ pc \in [Threads -> {"idle", "gone", "wrapper", "claim", "avail", "check", "trylock",
                         "wait", "write", "writing", "lock",
                         "flushAll", "flush", "flushing", "timer"}]
  /\ my \in [Threads -> Slots] /\ pos \in [Threads -> 0 .. N]
  /\ n \in [Threads -> 0 .. MaxPuts] /\ sweep \in [Threads -> BOOLEAN]
  /\ activeThreads \subseteq App /\ stacks \subseteq App /\ asked \subseteq App
  /\ at \in [Threads -> {"none", "signal", "displayer", "timer", "pushing", "others",
                         "active", "kill", "killed", "suspended", "raw", "interpret",
                         "printed"} \cup DOMAIN Following]
  /\ sig \in [Threads -> Signals \cup {"none"}] /\ left \in [Threads -> Nat]
  /\ flushed \in [Threads -> BOOLEAN]
  /\ installed \subseteq Signals /\ crashDumpOriginOnly \in BOOLEAN
  /\ usr2 \in [Threads -> BOOLEAN] /\ intr \in [Threads -> {"none", "pushing", "reply"}]
  /\ abortTimer \in 0 .. Ticks
  /\ ended \in {"no", "handler", "timer", "signal"}

\* The vector of stacks has no lock: "Assume that only one thread is updating
\* this."  With one crash that is so, and no thread walks it meanwhile.
OneUpdater ==
  Cardinality(Crashed) <= 1 =>
    \A t, u \in Threads : Pushing(t) /\ (Pushing(u) \/ Walking(u)) => t = u

\* With one crash, when the origin says "got all stack traces" it has that of
\* every active thread.
StacksComplete ==
  Cardinality(Crashed) <= 1 =>
    \A t \in App : at[t] = "gotall" => activeThreads \subseteq stacks

\* A thread that has ended is never sent a signal: pthread_kill() of one is
\* undefined, and the list of threads is only as good as its lock.
SignalledAlive == \A t \in App : pc[t] = "gone" => ~usr2[t] /\ intr[t] = "none"

\* A handler says "Flushed all logs safely." whatever its flushAll() did, and a
\* thread that flushes in a put() of its own, or crashed there, makes that do
\* nothing: then the claim may be false.  Only such a thread can: with none in
\* flush() at its last flushAll(), the handler has left none of its messages in
\* the ring, nor any that was put before the first crash, whatever the flusher
\* did meanwhile.
FlushedUnlessBlocked ==
  \A t \in App : at[t] = "printed" /\ flushed[t] =>
    \A k \in Slots : due[k] \notin {"before", t}

\* A handler inside put(), where it waits for its slot, with loggersLock in
\* hand.
StuckInPut == \E t \in App : loggersLock = t /\ pc[t] \in {"avail", "wait"}

\* Two handlers, each with the lock that the other one waits for: the origin
\* with activeThreadsLock, and one that puts its first message.
Embraced == \E t, u \in App :
  /\ activeThreadsLock = t /\ pc[t] = "lock"
  /\ loggersLock = u /\ pc[u] = "wrapper"

\* A crash ends the process, also if addr2line hangs or the answer to a
\* SIGUSR2 comes too early, unless a handler holds loggersLock for ever: in
\* put(), or in the embrace of two handlers.
CrashEnds ==
  []<>(Crashed # {}) => <>[](ended # "no") \/ <>[]StuckInPut \/ <>[]Embraced

\* "Set abort timeout: 60 seconds.": once set, the process ends.
TimeoutAborts == abortTimer > 0 ~> ended # "no"
=============================================================================
