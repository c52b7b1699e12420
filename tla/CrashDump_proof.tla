--------------------------- MODULE CrashDump_proof ---------------------------
(***************************************************************************)
(* The crash handler for every number of threads, slots, messages and       *)
(* crashes: the dump's handshake of signals, what it has collected when it   *)
(* says so, and what is flushed when it says so.                             *)
(***************************************************************************)
EXTENDS CrashDump, FiniteSetTheorems, TLAPS

\* Where a thread is in put() and in flush(), and where a handler is when it
\* has a message under way, or none.
InFlush    == {"flush", "flushing"}
InPut      == {"wrapper", "claim", "avail", "check", "trylock", "wait", "write", "writing"}
Messages   == {"fatal", "critical", "captured", "gotall", "skipped", "stack"}
Between    == {"signal", "timer", "pushing", "others", "active", "kill", "killed",
               "suspended", "raw", "interpret", "printed"}
\* The steps of a handler that holds activeThreadsLock, and those after which
\* it waits for an answer.
Collecting == {"captured", "kill", "killed", "suspended", "gotall"}
Waiting    == {"killed", "suspended"}

\* Where a thread is in its handler says where it is in put() and flush().
Place(t) ==
  /\ at[t] = "none" => pc[t] \in {"idle", "gone"} \cup InPut \cup InFlush
                       /\ ~sweep[t] /\ ~flushed[t]
  /\ at[t] \in Between => pc[t] = "idle" /\ ~sweep[t]
  /\ at[t] = "displayer" => pc[t] = "lock" /\ ~sweep[t] /\ ~flushed[t]
  /\ at[t] \in Messages => pc[t] \in {"lock", "flushAll"} \cup InPut \cup InFlush
  /\ sweep[t] => pc[t] \in {"trylock"} \cup InFlush
  /\ at[t] = "signal" => sig[t] \in Signals /\ ~flushed[t]
  /\ pc[t] = "gone" => t \notin activeThreads

FlusherPlace ==
  /\ at[Flusher] = "none" /\ ~usr2[Flusher] /\ intr[Flusher] = "none"
  /\ pc[Flusher] \in {"lock", "flushAll", "trylock", "timer"} \cup InFlush
  /\ sweep[Flusher] <=> pc[Flusher] \in {"trylock"} \cup InFlush

Bounds ==
  /\ \A t \in Threads : pc[t] = "flushing" => pos[t] < N
  /\ IsFiniteSet(stacks) /\ IsFiniteSet(Crashed)
  /\ crashOriginThread \in App \cup {NoThread}
  /\ activeThreadsLock \in App \cup {NoThread}

Places == (\A t \in App : Place(t)) /\ FlusherPlace /\ Bounds

\* The origin holds activeThreadsLock while it collects, asks one thread at a
\* time, and nobody else has a signal pending or under way.
Busy(u) == usr2[u] \/ intr[u] # "none"

Handshake ==
  /\ \A t \in App : activeThreadsLock = t <=> at[t] \in Collecting
  /\ \A t \in App : at[t] \in Collecting \cup {"active"} => t = crashOriginThread
  /\ crashOriginThread # NoThread =>
       at[crashOriginThread] # "none" /\ intr[crashOriginThread] = "none"
  /\ \A u \in Threads : Busy(u) =>
       /\ crashOriginThread # NoThread /\ at[crashOriginThread] \in Waiting
       /\ u # crashOriginThread => u \in activeThreads
       /\ usr2[u] => intr[u] = "none"
       /\ \A v \in Threads : Busy(v) => v = u

\* With one crash, the threads that were asked have answered or are about to.
OneCrash == \A t, u \in Crashed : t = u

Collected ==
  OneCrash =>
    /\ \A u \in asked : u \in stacks \/ usr2[u] \/ intr[u] = "pushing"
    /\ \A t \in App : at[t] \in Collecting \cup {"others", "active"} => t \in stacks
    /\ \A t \in App : at[t] = "gotall" => activeThreads \subseteq asked \cup {t}

\* flushingLogs protects the walk; what a slot owes is in it until it is flushed.
Ring ==
  /\ \A t \in Threads : pc[t] \in InFlush => flushingLogs = t
  /\ \A k \in Slots : status[k] = "FLUSHING" =>
       /\ flushingLogs # NoThread
       /\ pc[flushingLogs] \in InFlush =>
            pc[flushingLogs] = "flushing" /\ k = FlushSlot(flushingLogs)
  /\ \A k \in Slots : due[k] # "none" => status[k] \in {"DIRTY", "FLUSHING"}
  /\ \A t \in Threads : pc[t] \notin InFlush => pos[t] = 0

\* Nothing that the handler of t has to flush is left in slot k; in none that
\* its walk is past, and in none at all once it has walked through the ring.
Clear(t, k) == due[k] \notin {"before", t}

Behind(t) ==
  at[t] # "none" =>
    /\ sweep[t] /\ pc[t] \in InFlush =>
         \A i \in 0 .. pos[t] - 1 : Clear(t, (my[t] + i) % N)
    /\ flushed[t] /\ pc[t] = "idle" => \A k \in Slots : Clear(t, k)

Flushing == \A t \in App : Behind(t)

\* A handler with a message under way holds loggersLock, and so does the flusher
\* in its round, outside of which it is not in flush().
Locked ==
  /\ \A t \in App : at[t] \in Messages /\ pc[t] # "lock" => loggersLock = t
  /\ pc[Flusher] \in {"flushAll", "trylock"} \cup InFlush => loggersLock = Flusher
  /\ flushingLogs = Flusher => pc[Flusher] \in InFlush

DumpInv == TypeOK /\ Places /\ Handshake /\ Collected /\ Ring /\ Flushing /\ Locked
-----------------------------------------------------------------------------
\* A handler's messages and what follows each of them.
LEMMA FollowingFacts ==
  /\ DOMAIN Following = Messages
  /\ \A m \in Messages : Following[m] \in {"timer", "pushing", "kill", "raw", "interpret"}
  /\ Following["captured"] = "kill" /\ Following["gotall"] = "raw"
  /\ \A m \in Messages : Following[m] = "kill" => m = "captured"
BY DEF Following, Messages

\* The slot under the walk and the next cursor are slots.
LEMMA SlotFacts ==
  ASSUME NEW a \in Slots, NEW i \in Nat
  PROVE  (a + i) % N \in Slots
BY DumpAssumption DEF Slots

\* The state of a handler with a message, and who it can be.
LEMMA ThreadFacts ==
  ASSUME TypeOK, Places, NEW t \in Threads
  PROVE  /\ at[t] # "none" => t \in App
         /\ sweep[t] /\ t # Flusher => t \in App /\ at[t] \in Messages
         /\ Flusher \in Threads /\ Flusher \notin App /\ App \subseteq Threads
         /\ at[Flusher] = "none"
<1>1. t \in App \/ t = Flusher
  BY DEF Threads
<1>2. at[t] \in {"none", "displayer"} \cup Between \cup Messages
  BY FollowingFacts DEF TypeOK, Between, Messages
<1> QED BY <1>1, <1>2, DumpAssumption DEF Places, Place, FlusherPlace, Threads, InFlush,
                                            Between

\* While a handler is in flushAll(), the flusher is not in flush().
LEMMA FlusherOut ==
  ASSUME TypeOK, Places, Locked, NEW t \in App, sweep[t], flushingLogs # NoThread
  PROVE  flushingLogs \in App
<1>1. t \in Threads /\ t # Flusher
  BY DumpAssumption DEF Threads
<1>2. at[t] \in Messages /\ pc[t] # "lock"
  BY <1>1, ThreadFacts DEF Places, Place, InFlush
<1>3. loggersLock = t
  BY <1>2 DEF Locked
<1> QED BY <1>1, <1>3 DEF Locked, TypeOK, Threads
-----------------------------------------------------------------------------
\* put() and the flusher keep the types.
LEMMA TypePut ==
  ASSUME TypeOK, Places, NEW t \in App,
         PutBegin(t) \/ PutStep(t) \/ RemoveThread(t)
  PROVE  TypeOK'
<1> USE DEF TypeOK, ringVars, putVars, lockVars, crashVars, traceVars, dumpVars, Goto
<1>1. t \in Threads
  BY DEF Threads
<1>2. CASE PutBegin(t)
  BY <1>1, <1>2, DumpAssumption DEF PutBegin, EnterPut
<1>3. CASE AddThread(t)
  BY <1>1, <1>3 DEF AddThread
<1>4. CASE Claim(t)
  <2>1. (cursor + 1) % N \in Slots
    BY SlotFacts
  <2> QED BY <1>1, <1>4, <2>1 DEF Claim
<1>5. CASE TestSlot(t)
  BY <1>1, <1>5 DEF TestSlot
<1>6. CASE WriteBegin(t)
  <2>1. 0 \in Slots
    BY DumpAssumption DEF Slots
  <2>2. AfterPut(t) \in {"idle", "flushAll"}
    BY DEF AfterPut
  <2> QED BY <1>1, <1>6, <2>1, <2>2 DEF WriteBegin
<1>7. CASE WriteEnd(t)
  <2>1. 0 \in Slots
    BY DumpAssumption DEF Slots
  <2>2. AfterPut(t) \in {"idle", "flushAll"} /\ DueFor(t) \in App \cup {"none", "before"}
    BY DEF AfterPut, DueFor
  <2> QED BY <1>1, <1>7, <2>1, <2>2 DEF WriteEnd
<1>8. CASE RemoveThread(t)
  BY <1>1, <1>8 DEF RemoveThread
<1> QED BY <1>2, <1>3, <1>4, <1>5, <1>6, <1>7, <1>8 DEF PutStep


\* flush() returns: in put(), in flushWorker, or in a handler.
LEMMA LeaveFacts ==
  ASSUME TypeOK, Places, NEW t \in Threads, NEW l, LeaveFlush(t, l)
  PROVE  \/ /\ ~sweep[t] /\ pc' = [pc EXCEPT ![t] = l]
            /\ UNCHANGED <<my, sweep, loggersLock, activeThreadsLock, at>>
         \/ /\ sweep[t] /\ t = Flusher /\ pc' = [pc EXCEPT ![t] = "timer"]
            /\ my' = [my EXCEPT ![t] = 0] /\ sweep' = [sweep EXCEPT ![t] = FALSE]
            /\ loggersLock' = NoThread /\ UNCHANGED <<at, activeThreadsLock>>
         \/ /\ sweep[t] /\ t \in App /\ at[t] \in Messages /\ pc' = [pc EXCEPT ![t] = "idle"]
            /\ my' = [my EXCEPT ![t] = 0] /\ sweep' = [sweep EXCEPT ![t] = FALSE]
            /\ loggersLock' = NoThread
            /\ \E f \in {"timer", "pushing", "kill", "raw", "interpret"} :
                 /\ at' = [at EXCEPT ![t] = f]
                 /\ f = "kill" <=> at[t] = "captured"
                 /\ at[t] = "gotall" => f = "raw"
            /\ activeThreadsLock' = IF at[t] = "gotall" THEN NoThread ELSE activeThreadsLock
<1>1. CASE ~sweep[t]
  BY <1>1 DEF LeaveFlush, Goto
<1>2. CASE sweep[t] /\ t = Flusher
  BY <1>2 DEF LeaveFlush, Goto
<1>3. CASE sweep[t] /\ t # Flusher
  <2>1. t \in App /\ at[t] \in Messages
    BY <1>3, ThreadFacts
  <2>2. PICK f : f = Following[at[t]]
    OBVIOUS
  <2>3. /\ f \in {"timer", "pushing", "kill", "raw", "interpret"}
        /\ f = "kill" <=> at[t] = "captured"
        /\ at[t] = "gotall" => f = "raw"
    BY <2>1, <2>2, FollowingFacts
  <2>4. at' = [at EXCEPT ![t] = f]
    BY <1>3, <2>2 DEF LeaveFlush, GotoAt
  <2>5. /\ pc' = [pc EXCEPT ![t] = "idle"] /\ my' = [my EXCEPT ![t] = 0]
        /\ sweep' = [sweep EXCEPT ![t] = FALSE] /\ loggersLock' = NoThread
        /\ activeThreadsLock' = IF at[t] = "gotall" THEN NoThread ELSE activeThreadsLock
    BY <1>3 DEF LeaveFlush, Goto
  <2> QED BY <1>3, <2>1, <2>3, <2>4, <2>5
<1> QED BY <1>1, <1>2, <1>3

\* What flush() returns with has the right types.
LEMMA TypeLeave ==
  ASSUME TypeOK, Places, NEW t \in Threads, NEW l \in {"wait", "write"}, LeaveFlush(t, l)
  PROVE  /\ pc' \in [Threads -> {"idle", "gone", "wrapper", "claim", "avail", "check",
                       "trylock", "wait", "write", "writing", "lock", "flushAll", "flush",
                       "flushing", "timer"}]
         /\ my' \in [Threads -> Slots] /\ sweep' \in [Threads -> BOOLEAN]
         /\ loggersLock' \in Threads \cup {NoThread}
         /\ activeThreadsLock' \in Threads \cup {NoThread}
         /\ at' \in [Threads -> {"none", "signal", "displayer", "timer", "pushing", "others",
                       "active", "kill", "killed", "suspended", "raw", "interpret",
                       "printed"} \cup DOMAIN Following]
<1>1. 0 \in Slots
  BY DumpAssumption DEF Slots
<1>2. my' \in [Threads -> Slots] /\ sweep' \in [Threads -> BOOLEAN]
  <2>1. my' = my \/ my' = [my EXCEPT ![t] = 0]
    BY LeaveFacts
  <2>2. sweep' = sweep \/ sweep' = [sweep EXCEPT ![t] = FALSE]
    BY LeaveFacts
  <2> QED BY <1>1, <2>1, <2>2 DEF TypeOK
<1>3. /\ loggersLock' \in Threads \cup {NoThread}
      /\ activeThreadsLock' \in Threads \cup {NoThread}
  BY LeaveFacts DEF TypeOK
<1>4. pc' \in [Threads -> {"idle", "gone", "wrapper", "claim", "avail", "check", "trylock",
                          "wait", "write", "writing", "lock", "flushAll", "flush",
                          "flushing", "timer"}]
  <2>1. PICK g \in {"idle", "timer", "wait", "write"} : pc' = [pc EXCEPT ![t] = g]
    BY LeaveFacts
  <2> QED BY <2>1 DEF TypeOK
<1>5. at' \in [Threads -> {"none", "signal", "displayer", "timer", "pushing", "others",
                          "active", "kill", "killed", "suspended", "raw", "interpret",
                          "printed"} \cup DOMAIN Following]
  <2>1. CASE at' = at
    BY <2>1 DEF TypeOK
  <2>2. CASE \E f \in {"timer", "pushing", "kill", "raw", "interpret"} :
               at' = [at EXCEPT ![t] = f]
    BY <2>2 DEF TypeOK
  <2> QED BY <2>1, <2>2, LeaveFacts
<1> QED BY <1>2, <1>3, <1>4, <1>5

\* flush() keeps the types.
LEMMA TypeFlush ==
  ASSUME TypeOK, Places, NEW t \in Threads,
         FlushStep(t) \/ LockLoggers(t) \/ (t = Flusher /\ CheckTimer)
  PROVE  TypeOK'
<1> USE DEF TypeOK, ringVars, putVars, lockVars, crashVars, traceVars, dumpVars, Goto
<1>1. FlushSlot(t) \in Slots /\ N \in Nat
  BY SlotFacts, DumpAssumption DEF FlushSlot
<1>2. CASE TryLock(t)
  <2>1. CASE flushingLogs = NoThread
    BY <1>2, <2>1 DEF TryLock
  <2>2. CASE flushingLogs # NoThread
    <3>1. LeaveFlush(t, "wait")
      BY <1>2, <2>2 DEF TryLock
    <3> HIDE DEF Goto
    <3> QED BY <1>2, <2>2, <3>1, TypeLeave DEF TryLock
  <2> QED BY <2>1, <2>2
<1>3. CASE FlushElem(t)
  BY <1>1, <1>3, SMTT(30) DEF FlushElem, Walked
<1>4. CASE FlushElemEnd(t)
  BY <1>1, <1>4 DEF FlushElemEnd, Places, Bounds
<1>5. CASE FlushEnd(t)
  <2>1. LeaveFlush(t, "write")
    BY <1>5 DEF FlushEnd
  <2> HIDE DEF Goto
  <2> QED BY <1>1, <1>5, <2>1, TypeLeave DEF FlushEnd
<1>6. CASE FlushAll(t)
  BY <1>6 DEF FlushAll
<1>7. CASE LockLoggers(t)
  BY <1>7 DEF LockLoggers, EnterPut
<1>8. CASE t = Flusher /\ CheckTimer
  BY <1>8, DumpAssumption DEF CheckTimer
<1> QED BY <1>2, <1>3, <1>4, <1>5, <1>6, <1>7, <1>8 DEF FlushStep

\* The handlers keep the types.
LEMMA TypeHandler ==
  ASSUME TypeOK, Places, Handshake, NEW t \in App,
         \/ HandlerStep(t) \/ TraceStep(t) \/ EnableOnlyOneDisplayer(t)
         \/ StackInterpret(t) \/ \E s \in Signals : Crash(t, s)
  PROVE  TypeOK'
<1> USE DEF TypeOK, ringVars, putVars, lockVars, crashVars, traceVars, dumpVars, Goto, GotoAt,
            Announce
<1>1. t \in Threads /\ 0 \in Slots /\ N \in Nat /\ Ticks \in Nat /\ MaxPuts \in Nat
  BY DumpAssumption DEF Threads, Slots
<1>2. {"fatal", "critical", "captured", "gotall", "skipped", "stack"} \subseteq DOMAIN Following
  BY FollowingFacts DEF Messages
<1>3. CASE \E s \in Signals : Crash(t, s)
  BY <1>1, <1>3, SMTT(30) DEF Crash
<1>4. CASE HandleSignal(t)
  BY <1>1, <1>4 DEF HandleSignal
<1>5. CASE EnableOnlyOneDisplayer(t)
  BY <1>1, <1>2, <1>5 DEF EnableOnlyOneDisplayer
<1>6. CASE SetAbortTimer(t)
  BY <1>1, <1>2, <1>6 DEF SetAbortTimer
<1>7. CASE AddRawStackInfo(t)
  BY <1>1, <1>7 DEF AddRawStackInfo, PushRawStack
<1>8. CASE OtherThreads(t)
  BY <1>1, <1>2, <1>8 DEF OtherThreads
<1>9. CASE LockActiveThreads(t)
  BY <1>1, <1>2, <1>9 DEF LockActiveThreads
<1>10. CASE AskThread(t)
  BY <1>1, <1>10 DEF AskThread
<1>11. CASE Suspend(t) \/ Flushed(t) \/ Exit(t)
  BY <1>1, <1>11 DEF Suspend, Flushed, Exit
<1>12. CASE AllAsked(t)
  BY <1>1, <1>2, <1>12 DEF AllAsked
<1>13. CASE DeliverUsr2(t)
  BY <1>1, <1>13 DEF DeliverUsr2
<1>14. CASE TracePush(t)
  BY <1>1, <1>14 DEF TracePush, PushRawStack
<1>15. CASE TraceReply(t)
  BY <1>1, <1>15 DEF TraceReply
<1>16. CASE FlushRawStacks(t)
  <2>1. Cardinality(stacks) \in Nat
    BY FS_CardinalityType DEF Places, Bounds
  <2> QED BY <1>1, <1>16, <2>1 DEF FlushRawStacks
<1>17. CASE StackInterpret(t)
  BY <1>1, <1>2, <1>17 DEF StackInterpret
<1> QED BY <1>3, <1>4, <1>5, <1>6, <1>7, <1>8, <1>9, <1>10, <1>11, <1>12, <1>13, <1>14, <1>15,
           <1>16, <1>17 DEF HandlerStep, TraceStep
-----------------------------------------------------------------------------
\* What a step of thread t leaves alone.
Others(t) ==
  /\ \A u \in Threads : u # t =>
       /\ pc'[u] = pc[u] /\ at'[u] = at[u] /\ sweep'[u] = sweep[u] /\ pos'[u] = pos[u]
       /\ flushed'[u] = flushed[u] /\ sig'[u] = sig[u]
       /\ u \in activeThreads' => u \in activeThreads
  /\ ~usr2'[Flusher] /\ intr'[Flusher] = "none"
  /\ \/ pc'[t] = "flushing" => pos'[t] < N
     \/ pc'[t] = pc[t] /\ pos'[t] = pos[t]
  /\ stacks' \subseteq stacks \cup {t}
  /\ crashOriginThread' \in {crashOriginThread, t}
  /\ activeThreadsLock' \in {activeThreadsLock, t, NoThread}

\* A step of t leaves every other thread in its place.
LEMMA PlacesFrame ==
  ASSUME TypeOK, TypeOK', Places, NEW t \in App, Others(t), Place(t)'
  PROVE  Places'
<1>1. Flusher \in Threads /\ Flusher # t /\ t \in Threads /\ App \subseteq Threads
  BY DumpAssumption DEF Threads
<1>2. \A u \in App : Place(u)'
  BY <1>1 DEF Places, Place, Others
<1>3. FlusherPlace'
  BY <1>1 DEF Places, FlusherPlace, Others
<1>4. Bounds'
  <2>1. IsFiniteSet(stacks \cup {t}) /\ IsFiniteSet(Crashed \cup {t})
    BY FS_AddElement DEF Places, Bounds
  <2>2. Crashed' \subseteq Crashed \cup {t}
    BY <1>1 DEF Crashed, Others
  <2>3. IsFiniteSet(stacks') /\ IsFiniteSet(Crashed')
    BY <2>1, <2>2, FS_Subset DEF Others
  <2> QED BY <1>1, <2>3 DEF Places, Bounds, Others
<1> QED BY <1>2, <1>3, <1>4 DEF Places

\* A handler goes from one step to the next, announces a message, or has its
\* round of flushAllLoggers() behind it.
Moves(t) ==
  /\ t \in activeThreads' => t \in activeThreads
  /\ \/ /\ at[t] \in Between /\ at'[t] \in Between \ {"signal"}
        /\ pc'[t] = pc[t] /\ sweep'[t] = sweep[t]
     \/ /\ at[t] \in Between /\ at'[t] \in Messages
        /\ pc'[t] = "lock" /\ sweep'[t] = sweep[t]
     \/ at'[t] \in Between \ {"signal"} /\ pc'[t] = "idle" /\ ~sweep'[t]
     \/ /\ at'[t] = at[t] /\ pc'[t] = pc[t] /\ sweep'[t] = sweep[t]
        /\ flushed'[t] = flushed[t] /\ sig'[t] = sig[t]

\* The handler is in its place again.
LEMMA PlaceMoves ==
  ASSUME NEW t, Place(t), Moves(t) PROVE Place(t)'
BY DEF Place, Moves, InPut, InFlush, Between, Messages

\* put() leaves every thread in its place.
LEMMA PlacesPut ==
  ASSUME TypeOK, TypeOK', Places, NEW t \in App,
         PutBegin(t) \/ PutStep(t) \/ RemoveThread(t)
  PROVE  Places'
<1> USE DEF TypeOK, ringVars, putVars, lockVars, crashVars, traceVars, dumpVars, Goto
<1>1. /\ t \in Threads /\ Flusher \in Threads /\ Place(t)
      /\ ~usr2[Flusher] /\ intr[Flusher] = "none"
  BY DEF Threads, Places, FlusherPlace
<1>2. at[t] \in {"none", "displayer"} \cup Between \cup Messages
  BY <1>1, FollowingFacts DEF Between, Messages
<1>3. CASE PutBegin(t)
  <2>1. Place(t)'
    BY <1>1, <1>3 DEF PutBegin, EnterPut, Place, InPut, InFlush, Between, Messages
  <2>2. Others(t)
    BY <1>1, <1>3 DEF PutBegin, EnterPut, Others
  <2> QED BY <2>1, <2>2, PlacesFrame
<1>4. CASE AddThread(t)
  <2>1. Place(t)'
    BY <1>1, <1>4 DEF AddThread, Place, InPut, InFlush, Between, Messages
  <2>2. Others(t)
    BY <1>1, <1>4 DEF AddThread, Others
  <2> QED BY <2>1, <2>2, PlacesFrame
<1>5. CASE Claim(t)
  <2>1. Place(t)'
    BY <1>1, <1>5 DEF Claim, Place, InPut, InFlush, Between, Messages
  <2>2. Others(t)
    BY <1>1, <1>5 DEF Claim, Others
  <2> QED BY <2>1, <2>2, PlacesFrame
<1>6. CASE TestSlot(t)
  <2>1. Place(t)'
    BY <1>1, <1>6 DEF TestSlot, Place, InPut, InFlush, Between, Messages
  <2>2. Others(t)
    BY <1>1, <1>6 DEF TestSlot, Others
  <2> QED BY <2>1, <2>2, PlacesFrame
<1>7. CASE WriteBegin(t)
  <2>1. Place(t)'
    BY <1>1, <1>2, <1>7 DEF WriteBegin, AfterPut, Place, InPut, InFlush, Between, Messages
  <2>2. Others(t)
    BY <1>1, <1>2, <1>7 DEF WriteBegin, AfterPut, Others
  <2> QED BY <2>1, <2>2, PlacesFrame
<1>8. CASE WriteEnd(t)
  <2>1. Place(t)'
    BY <1>1, <1>2, <1>8 DEF WriteEnd, AfterPut, Place, InPut, InFlush, Between, Messages
  <2>2. Others(t)
    BY <1>1, <1>2, <1>8 DEF WriteEnd, AfterPut, Others
  <2> QED BY <2>1, <2>2, PlacesFrame
<1>9. CASE RemoveThread(t)
  <2>1. Place(t)'
    BY <1>1, <1>9 DEF RemoveThread, Place, InPut, InFlush, Between, Messages
  <2>2. Others(t)
    BY <1>1, <1>9 DEF RemoveThread, Others
  <2> QED BY <2>1, <2>2, PlacesFrame
<1> QED BY <1>3, <1>4, <1>5, <1>6, <1>7, <1>8, <1>9 DEF PutStep

\* flush() of a thread leaves every thread in its place.
LEMMA PlacesFlush ==
  ASSUME TypeOK, TypeOK', Places, Locked, NEW t \in App, FlushStep(t) \/ LockLoggers(t)
  PROVE  Places'
<1> USE DEF TypeOK, ringVars, putVars, lockVars, crashVars, traceVars, dumpVars, Goto
<1>1. /\ t \in Threads /\ Flusher \in Threads /\ Place(t) /\ Flusher # t
      /\ ~usr2[Flusher] /\ intr[Flusher] = "none" /\ N \in Nat
  BY DumpAssumption DEF Threads, Places, FlusherPlace
<1>2. at[t] \in {"none", "displayer"} \cup Between \cup Messages
  BY <1>1, FollowingFacts DEF Between, Messages
<1>3. CASE TryLock(t)
  <2>1. CASE flushingLogs = NoThread
    <3>1. Place(t)'
      BY <1>1, <1>2, <1>3, <2>1 DEF TryLock, Place, InPut, InFlush, Between, Messages
    <3>2. Others(t)
      BY <1>1, <1>2, <1>3, <2>1 DEF TryLock, Others
    <3> QED BY <3>1, <3>2, PlacesFrame
  <2>2. CASE flushingLogs # NoThread
    <3>1. LeaveFlush(t, "wait") /\ pc[t] = "trylock"
      BY <1>3, <2>2 DEF TryLock
    <3>2. flushed' = [flushed EXCEPT ![t] = FALSE]
      BY <1>3, <2>2, <3>1, FlusherOut DEF TryLock
    <3>3. UNCHANGED <<pos, usr2, intr, stacks, crashOriginThread, sig, activeThreads>>
      BY <1>3 DEF TryLock
    <3> HIDE DEF Goto, ringVars, putVars, lockVars, crashVars, traceVars, dumpVars
    <3>4. CASE ~sweep[t]
      <4>1. pc' = [pc EXCEPT ![t] = "wait"] /\ UNCHANGED <<sweep, activeThreadsLock, at>>
        BY <1>1, <3>1, <3>4, LeaveFacts
      <4>p. /\ at'[t] = at[t] /\ pc'[t] = "wait" /\ ~sweep'[t] /\ ~flushed'[t]
            /\ sig'[t] = sig[t] /\ at[t] \notin Between \cup {"displayer", "signal"}
        BY <1>1, <3>1, <3>2, <3>3, <3>4, <4>1 DEF Place, Between
      <4>2. Place(t)'
        <5> HIDE DEF TypeOK
        <5> QED BY <1>1, <4>p DEF Place, InPut, Messages
      <4>3. Others(t)
        BY <1>1, <1>2, <3>1, <3>2, <3>3, <4>1 DEF Others
      <4> QED BY <4>2, <4>3, PlacesFrame
    <3>5. CASE sweep[t]
      <4>1. PICK f \in {"timer", "pushing", "kill", "raw", "interpret"} :
              /\ at' = [at EXCEPT ![t] = f] /\ pc' = [pc EXCEPT ![t] = "idle"]
              /\ sweep' = [sweep EXCEPT ![t] = FALSE]
              /\ activeThreadsLock' \in {activeThreadsLock, NoThread}
        BY <1>1, <3>1, <3>5, LeaveFacts
      <4>p. /\ at'[t] \in Between \ {"signal"} /\ pc'[t] = "idle" /\ ~sweep'[t]
            /\ activeThreads' = activeThreads
        BY <1>1, <3>3, <4>1 DEF Between
      <4>2. Moves(t)
        BY <4>p DEF Moves
      <4>3. Others(t)
        BY <1>1, <1>2, <3>1, <3>2, <3>3, <4>1 DEF Others
      <4> QED BY <1>1, <4>2, <4>3, PlaceMoves, PlacesFrame
    <3> QED BY <3>4, <3>5
  <2> QED BY <2>1, <2>2
<1>4. CASE FlushElem(t)
  <2>1. Place(t)'
    BY <1>1, <1>2, <1>4 DEF FlushElem, Walked, Place, InPut, InFlush, Between, Messages
  <2>2. Others(t)
    BY <1>1, <1>2, <1>4 DEF FlushElem, Walked, Others
  <2> QED BY <2>1, <2>2, PlacesFrame
<1>5. CASE FlushElemEnd(t)
  <2>1. Place(t)'
    BY <1>1, <1>2, <1>5 DEF FlushElemEnd, Place, InPut, InFlush, Between, Messages
  <2>2. Others(t)
    BY <1>1, <1>2, <1>5 DEF FlushElemEnd, Others
  <2> QED BY <2>1, <2>2, PlacesFrame
<1>6. CASE FlushEnd(t)
  <2>1. LeaveFlush(t, "write") /\ pc[t] = "flush" /\ pos' = [pos EXCEPT ![t] = 0]
    BY <1>6 DEF FlushEnd
  <2>2. UNCHANGED <<flushed, usr2, intr, stacks, crashOriginThread, sig, activeThreads>>
    BY <1>6 DEF FlushEnd
  <2> HIDE DEF Goto, ringVars, putVars, lockVars, crashVars, traceVars, dumpVars
  <2>3. CASE ~sweep[t]
    <3>1. pc' = [pc EXCEPT ![t] = "write"] /\ UNCHANGED <<sweep, activeThreadsLock, at>>
      BY <1>1, <2>1, <2>3, LeaveFacts
    <3>p. /\ at'[t] = at[t] /\ pc'[t] = "write" /\ ~sweep'[t] /\ flushed'[t] = flushed[t]
          /\ sig'[t] = sig[t] /\ at[t] \notin Between \cup {"displayer", "signal"}
      BY <1>1, <2>1, <2>2, <2>3, <3>1 DEF Place, Between
    <3>2. Place(t)'
      <4> HIDE DEF TypeOK
      <4> QED BY <1>1, <3>p DEF Place, InPut, Messages
    <3>3. Others(t)
      BY <1>1, <1>2, <2>1, <2>2, <3>1 DEF Others
    <3> QED BY <3>2, <3>3, PlacesFrame
  <2>4. CASE sweep[t]
    <3>1. PICK f \in {"timer", "pushing", "kill", "raw", "interpret"} :
            /\ at' = [at EXCEPT ![t] = f] /\ pc' = [pc EXCEPT ![t] = "idle"]
            /\ sweep' = [sweep EXCEPT ![t] = FALSE]
            /\ activeThreadsLock' \in {activeThreadsLock, NoThread}
      BY <1>1, <2>1, <2>4, LeaveFacts
    <3>p. /\ at'[t] \in Between \ {"signal"} /\ pc'[t] = "idle" /\ ~sweep'[t]
          /\ activeThreads' = activeThreads
      BY <1>1, <2>2, <3>1 DEF Between
    <3>2. Moves(t)
      BY <3>p DEF Moves
    <3>3. Others(t)
      BY <1>1, <1>2, <2>1, <2>2, <3>1 DEF Others
    <3> QED BY <1>1, <3>2, <3>3, PlaceMoves, PlacesFrame
  <2> QED BY <2>3, <2>4
<1>7. CASE FlushAll(t)
  <2>1. Place(t)'
    BY <1>1, <1>2, <1>7 DEF FlushAll, Place, InPut, InFlush, Between, Messages
  <2>2. Others(t)
    BY <1>1, <1>2, <1>7 DEF FlushAll, Others
  <2> QED BY <2>1, <2>2, PlacesFrame
<1>8. CASE LockLoggers(t)
  <2>1. Place(t)'
    BY <1>1, <1>2, <1>8 DEF LockLoggers, EnterPut, Place, InPut, InFlush, Between, Messages
  <2>2. Others(t)
    BY <1>1, <1>2, <1>8 DEF LockLoggers, EnterPut, Others
  <2> QED BY <2>1, <2>2, PlacesFrame
<1> QED BY <1>3, <1>4, <1>5, <1>6, <1>7, <1>8 DEF FlushStep

\* flushWorker leaves every thread in its place.
LEMMA PlacesFlusher ==
  ASSUME TypeOK, TypeOK', Places, FlushWorker PROVE Places'
<1> DEFINE t == Flusher
<1> USE DEF TypeOK, ringVars, putVars, lockVars, crashVars, traceVars, dumpVars, Goto
<1>1. t \in Threads /\ t \notin App /\ App \subseteq Threads /\ FlusherPlace /\ N \in Nat
  BY DumpAssumption DEF Threads, Places
<1>2. ASSUME \A u \in App : /\ pc'[u] = pc[u] /\ sweep'[u] = sweep[u] /\ at'[u] = at[u]
                            /\ flushed'[u] = flushed[u] /\ pos'[u] = pos[u],
             UNCHANGED <<usr2, intr, sig, activeThreads, activeThreadsLock, stacks,
                         crashOriginThread>>,
             at'[t] = "none",
             \/ pc'[t] \in {"lock", "flushAll", "timer"} /\ ~sweep'[t]
             \/ pc'[t] \in {"trylock", "flush"} /\ sweep'[t]
             \/ pc'[t] = "flushing" /\ sweep'[t] /\ pos'[t] < N
      PROVE  Places'
  <2> HIDE DEF TypeOK, Goto, ringVars, putVars, lockVars, crashVars, traceVars, dumpVars
  <2>1. \A u \in App : Place(u)'
    BY <1>2 DEF Places, Place
  <2>2. FlusherPlace'
    BY <1>1, <1>2 DEF FlusherPlace, InFlush
  <2>3. Bounds'
    <3>1. Crashed' = Crashed
      BY <1>2 DEF Crashed
    <3>2. \A u \in Threads : pc'[u] = "flushing" => pos'[u] < N
      BY <1>1, <1>2 DEF Places, Bounds, Threads
    <3> QED BY <1>2, <3>1, <3>2 DEF Places, Bounds
  <2> QED BY <2>1, <2>2, <2>3 DEF Places
<1>p. /\ at[t] = "none"
      /\ pc[t] \in {"trylock", "flush", "flushing"} => sweep[t]
      /\ pc[t] \in {"lock", "flushAll", "timer"} => ~sweep[t]
  BY <1>1 DEF FlusherPlace, InFlush
<1>3. CASE TryLock(t)
  <2>1. sweep[t] /\ pc[t] = "trylock" /\ \A u \in App : flushed'[u] = flushed[u]
    BY <1>1, <1>p, <1>3 DEF TryLock
  <2>2. UNCHANGED <<usr2, intr, sig, activeThreads, stacks, crashOriginThread, pos>>
    BY <1>3 DEF TryLock
  <2>3. CASE flushingLogs = NoThread
    <3>1. pc' = [pc EXCEPT ![t] = "flush"] /\ UNCHANGED <<at, sweep, activeThreadsLock>>
      BY <1>3, <2>3 DEF TryLock
    <3> QED BY <1>1, <1>2, <1>p, <2>1, <2>2, <3>1
  <2>4. CASE flushingLogs # NoThread
    <3>1. /\ pc' = [pc EXCEPT ![t] = "timer"] /\ sweep' = [sweep EXCEPT ![t] = FALSE]
          /\ UNCHANGED <<at, activeThreadsLock>>
      BY <1>1, <1>3, <2>1, <2>4 DEF TryLock, LeaveFlush
    <3>a. pc'[t] = "timer" /\ \A u \in App : pc'[u] = pc[u]
      BY <1>1, <3>1
    <3>2. ~sweep'[t] /\ \A u \in App : sweep'[u] = sweep[u]
      <4>1. sweep \in [Threads -> BOOLEAN]
        OBVIOUS
      <4> HIDE DEF TypeOK
      <4> QED BY <1>1, <3>1, <4>1, Zenon
    <3> QED BY <1>1, <1>2, <1>p, <2>1, <2>2, <3>1, <3>a, <3>2
  <2> QED BY <2>3, <2>4
<1>4. CASE FlushElem(t)
  BY <1>1, <1>2, <1>p, <1>4 DEF FlushElem, Walked
<1>5. CASE FlushElemEnd(t)
  BY <1>1, <1>2, <1>p, <1>5 DEF FlushElemEnd
<1>6. CASE FlushEnd(t)
  <2>1. /\ pc' = [pc EXCEPT ![t] = "timer"] /\ sweep' = [sweep EXCEPT ![t] = FALSE]
        /\ UNCHANGED <<at, activeThreadsLock>>
    BY <1>1, <1>p, <1>6 DEF FlushEnd, LeaveFlush
  <2>a. pc'[t] = "timer" /\ \A u \in App : pc'[u] = pc[u]
    BY <1>1, <2>1
  <2>2. ~sweep'[t] /\ \A u \in App : sweep'[u] = sweep[u]
    <3>1. sweep \in [Threads -> BOOLEAN]
      OBVIOUS
    <3> HIDE DEF TypeOK
    <3> QED BY <1>1, <2>1, <3>1, Zenon
  <2>3. /\ UNCHANGED <<usr2, intr, sig, activeThreads, stacks, crashOriginThread, flushed>>
        /\ \A u \in App : pos'[u] = pos[u]
    BY <1>1, <1>6 DEF FlushEnd
  <2> QED BY <1>1, <1>2, <1>p, <2>1, <2>a, <2>2, <2>3
<1>7. CASE FlushAll(t)
  <2>1. /\ pc' = [pc EXCEPT ![t] = "trylock"] /\ sweep' = [sweep EXCEPT ![t] = TRUE]
        /\ UNCHANGED <<usr2, intr, sig, activeThreads, activeThreadsLock, stacks,
                       crashOriginThread, flushed, pos, at>>
    BY <1>7 DEF FlushAll
  <2>a. pc'[t] = "trylock" /\ \A u \in App : pc'[u] = pc[u]
    BY <1>1, <2>1
  <2>2. sweep'[t] /\ \A u \in App : sweep'[u] = sweep[u]
    <3>1. sweep \in [Threads -> BOOLEAN]
      OBVIOUS
    <3> HIDE DEF TypeOK
    <3> QED BY <1>1, <2>1, <3>1, Zenon
  <2> QED BY <1>1, <1>2, <1>p, <2>1, <2>a, <2>2
<1>8. CASE LockLoggers(t)
  BY <1>1, <1>2, <1>p, <1>8 DEF LockLoggers
<1>9. CASE CheckTimer
  BY <1>1, <1>2, <1>p, <1>9 DEF CheckTimer
<1> QED BY <1>3, <1>4, <1>5, <1>6, <1>7, <1>8, <1>9 DEF FlushWorker, FlushStep

\* The handlers leave every thread in its place.
LEMMA PlacesHandler ==
  ASSUME TypeOK, TypeOK', Places, NEW t \in App,
         \/ HandlerStep(t) \/ TraceStep(t) \/ EnableOnlyOneDisplayer(t)
         \/ StackInterpret(t) \/ \E s \in Signals : Crash(t, s)
  PROVE  Places'
<1> USE DEF TypeOK, ringVars, putVars, lockVars, crashVars, traceVars, dumpVars, Goto, GotoAt,
            Announce
<1>1. /\ t \in Threads /\ Flusher \in Threads /\ Place(t) /\ Flusher # t
      /\ ~usr2[Flusher] /\ intr[Flusher] = "none" /\ Flusher \notin App
      /\ crashOriginThread # Flusher
  BY DumpAssumption DEF Threads, Places, FlusherPlace, Bounds
<1>3. CASE \E s \in Signals : Crash(t, s)
  <2>1. Place(t)'
    <3>1. CASE at' = at
      BY <1>1, <1>3, <3>1 DEF Crash, Place
    <3>2. CASE at' # at
      <4>1. /\ at'[t] = "signal" /\ pc'[t] = "idle" /\ sig'[t] \in Signals /\ at[t] = "none"
            /\ sweep'[t] = sweep[t] /\ flushed'[t] = flushed[t]
        BY <1>1, <1>3, <3>2 DEF Crash
      <4> HIDE DEF TypeOK
      <4> QED BY <1>1, <4>1 DEF Place, Between, Messages
    <3> QED BY <3>1, <3>2
  <2>2. Others(t)
    BY <1>1, <1>3 DEF Crash, Others
  <2> QED BY <2>1, <2>2, PlacesFrame
<1>4. CASE HandleSignal(t)
  <2>1. /\ at'[t] = "displayer" /\ pc'[t] = "lock" /\ at[t] = "signal"
        /\ sweep'[t] = sweep[t] /\ flushed'[t] = flushed[t]
    BY <1>1, <1>4 DEF HandleSignal
  <2>p. Place(t)'
    <3> HIDE DEF TypeOK
    <3> QED BY <1>1, <2>1 DEF Place, Between, Messages
  <2>2. Others(t)
    BY <1>1, <1>4 DEF HandleSignal, Others
  <2> QED BY <2>p, <2>2, PlacesFrame
<1>5. CASE EnableOnlyOneDisplayer(t)
  <2>1. /\ at'[t] = "fatal" /\ pc'[t] = pc[t] /\ at[t] = "displayer"
        /\ sweep'[t] = sweep[t] /\ flushed'[t] = flushed[t]
    BY <1>1, <1>5 DEF EnableOnlyOneDisplayer
  <2>p. Place(t)'
    <3> HIDE DEF TypeOK
    <3> QED BY <1>1, <2>1 DEF Place, Between, Messages
  <2>2. Others(t)
    BY <1>1, <1>5 DEF EnableOnlyOneDisplayer, Others
  <2> QED BY <2>p, <2>2, PlacesFrame
<1>6. CASE SetAbortTimer(t)
  <2>1. Moves(t)
    BY <1>1, <1>6 DEF SetAbortTimer, Moves, Between, Messages
  <2>2. Others(t)
    BY <1>1, <1>6 DEF SetAbortTimer, Others
  <2> QED BY <1>1, <2>1, <2>2, PlaceMoves, PlacesFrame
<1>7. CASE AddRawStackInfo(t)
  <2>1. Moves(t)
    BY <1>1, <1>7 DEF AddRawStackInfo, PushRawStack, Moves, Between, Messages
  <2>2. Others(t)
    BY <1>1, <1>7 DEF AddRawStackInfo, PushRawStack, Others
  <2> QED BY <1>1, <2>1, <2>2, PlaceMoves, PlacesFrame
<1>8. CASE OtherThreads(t)
  <2>1. Moves(t)
    BY <1>1, <1>8 DEF OtherThreads, Moves, Between, Messages
  <2>2. Others(t)
    BY <1>1, <1>8 DEF OtherThreads, Others
  <2> QED BY <1>1, <2>1, <2>2, PlaceMoves, PlacesFrame
<1>9. CASE LockActiveThreads(t)
  <2>1. Moves(t)
    BY <1>1, <1>9 DEF LockActiveThreads, Moves, Between, Messages
  <2>2. Others(t)
    BY <1>1, <1>9 DEF LockActiveThreads, Others
  <2> QED BY <1>1, <2>1, <2>2, PlaceMoves, PlacesFrame
<1>10. CASE AskThread(t)
  <2>1. Moves(t)
    BY <1>1, <1>10 DEF AskThread, Moves, Between, Messages
  <2>2. Others(t)
    BY <1>1, <1>10 DEF AskThread, Others
  <2> QED BY <1>1, <2>1, <2>2, PlaceMoves, PlacesFrame
<1>11. CASE Suspend(t) \/ Flushed(t) \/ Exit(t)
  <2>1. Moves(t)
    BY <1>1, <1>11 DEF Suspend, Flushed, Exit, Moves, Between, Messages
  <2>2. Others(t)
    BY <1>1, <1>11 DEF Suspend, Flushed, Exit, Others
  <2> QED BY <1>1, <2>1, <2>2, PlaceMoves, PlacesFrame
<1>12. CASE AllAsked(t)
  <2>1. Moves(t)
    BY <1>1, <1>12 DEF AllAsked, Moves, Between, Messages
  <2>2. Others(t)
    BY <1>1, <1>12 DEF AllAsked, Others
  <2> QED BY <1>1, <2>1, <2>2, PlaceMoves, PlacesFrame
<1>13. CASE DeliverUsr2(t)
  <2>1. Moves(t)
    BY <1>1, <1>13 DEF DeliverUsr2, Moves, Between, Messages
  <2>2. Others(t)
    BY <1>1, <1>13 DEF DeliverUsr2, Others
  <2> QED BY <1>1, <2>1, <2>2, PlaceMoves, PlacesFrame
<1>14. CASE TracePush(t)
  <2>1. Moves(t)
    BY <1>1, <1>14 DEF TracePush, PushRawStack, Moves, Between, Messages
  <2>2. Others(t)
    BY <1>1, <1>14 DEF TracePush, PushRawStack, Others
  <2> QED BY <1>1, <2>1, <2>2, PlaceMoves, PlacesFrame
<1>15. CASE TraceReply(t)
  <2>1. Moves(t)
    BY <1>1, <1>15 DEF TraceReply, Moves, Between, Messages
  <2>2. Others(t)
    BY <1>1, <1>15 DEF TraceReply, Others
  <2> QED BY <1>1, <2>1, <2>2, PlaceMoves, PlacesFrame
<1>16. CASE FlushRawStacks(t)
  <2>1. Moves(t)
    BY <1>1, <1>16 DEF FlushRawStacks, Moves, Between, Messages
  <2>2. Others(t)
    BY <1>1, <1>16 DEF FlushRawStacks, Others
  <2> QED BY <1>1, <2>1, <2>2, PlaceMoves, PlacesFrame
<1>17. CASE StackInterpret(t)
  <2>1. Moves(t)
    BY <1>1, <1>17 DEF StackInterpret, Moves, Between, Messages
  <2>2. Others(t)
    BY <1>1, <1>17 DEF StackInterpret, Others
  <2> QED BY <1>1, <2>1, <2>2, PlaceMoves, PlacesFrame
<1> QED BY <1>3, <1>4, <1>5, <1>6, <1>7, <1>8, <1>9, <1>10, <1>11, <1>12, <1>13, <1>14, <1>15,
           <1>16, <1>17 DEF HandlerStep, TraceStep
-----------------------------------------------------------------------------
\* A step that neither signals nor moves the origin keeps the handshake.
LEMMA HandshakeQuiet ==
  ASSUME TypeOK, Places, Handshake, UNCHANGED <<activeThreadsLock, crashOriginThread, usr2, intr>>,
         \A u \in activeThreads : Busy(u) => u \in activeThreads',
         \/ at' = at
         \/ \E t \in App : \E f \in Between \cup Messages \cup {"displayer"} :
              /\ at' = [at EXCEPT ![t] = f]
              /\ at[t] \notin Collecting \cup {"active"}
              /\ f \notin Collecting \cup {"active"}
  PROVE  Handshake'
<1>1. \A u : Busy(u)' = Busy(u)
  BY DEF Busy
<1>2. CASE at' = at
  BY <1>1, <1>2 DEF Handshake
<1>3. ASSUME NEW t \in App, NEW f \in Between \cup Messages \cup {"displayer"},
             at' = [at EXCEPT ![t] = f], at[t] \notin Collecting \cup {"active"},
             f \notin Collecting \cup {"active"}
      PROVE  Handshake'
  <2>1. /\ at'[t] = f /\ f # "none" /\ \A u \in App : u # t => at'[u] = at[u]
        /\ crashOriginThread \in App \cup {NoThread}
    BY <1>3 DEF TypeOK, Threads, Places, Bounds, Between, Messages
  <2>2. \A u \in App : at[u] \in Collecting \cup {"active"} <=> at'[u] \in Collecting \cup {"active"}
    BY <1>3, <2>1
  <2>3. \A u \in App : at[u] \in Collecting <=> at'[u] \in Collecting
    BY <1>3, <2>1
  <2>4. ASSUME crashOriginThread # NoThread, at[crashOriginThread] \in Waiting
        PROVE  at'[crashOriginThread] \in Waiting
    BY <1>3, <2>1, <2>4 DEF Waiting, Collecting
  <2>5. crashOriginThread # NoThread => at'[crashOriginThread] # "none"
    BY <2>1 DEF Handshake
  <2> QED BY <1>1, <2>2, <2>3, <2>4, <2>5 DEF Handshake
<1> QED BY <1>2, <1>3

\* The origin's own steps, from one of them that holds the lock to another, with
\* nobody signalled.
LEMMA HandshakeOrigin ==
  ASSUME TypeOK, Places, Handshake, NEW t \in App, NEW f \in Collecting,
         at[t] \in Collecting, at[t] \notin Waiting,
         at' = [at EXCEPT ![t] = f], UNCHANGED <<activeThreadsLock, crashOriginThread, usr2, intr>>
  PROVE  Handshake'
<1>1. \A u : Busy(u)' = Busy(u)
  BY DEF Busy
<1>2. /\ at'[t] = f /\ f # "none" /\ \A u \in App : u # t => at'[u] = at[u]
      /\ crashOriginThread = t
  BY DEF TypeOK, Threads, Handshake, Collecting
<1>3. \A u \in Threads : ~Busy(u)
  BY <1>2 DEF Handshake
<1> QED BY <1>1, <1>2, <1>3 DEF Handshake

\* put() keeps the handshake.
LEMMA HandshakePut ==
  ASSUME TypeOK, Places, Handshake, NEW t \in App,
         PutBegin(t) \/ PutStep(t) \/ RemoveThread(t)
  PROVE  Handshake'
<1> USE DEF ringVars, putVars, lockVars, crashVars, traceVars, dumpVars
<1>1. CASE RemoveThread(t)
  <2>1. /\ UNCHANGED <<at, activeThreadsLock, crashOriginThread, usr2, intr>>
        /\ t \notin activeThreads \/ activeThreadsLock = NoThread
        /\ at[t] = "none" /\ activeThreads' = activeThreads \ {t}
    BY <1>1 DEF RemoveThread
  <2>2. Busy(t) => t \notin activeThreads
    <3>1. SUFFICES ASSUME Busy(t), t \in activeThreads PROVE FALSE
      OBVIOUS
    <3>2. t \in Threads /\ crashOriginThread \in App \cup {NoThread}
      BY DEF Threads, Places, Bounds
    <3>3. crashOriginThread \in App /\ at[crashOriginThread] \in Collecting
      BY <3>1, <3>2 DEF Handshake, Waiting, Collecting
    <3>4. activeThreadsLock = crashOriginThread
      BY <3>3 DEF Handshake
    <3> QED BY <2>1, <3>1, <3>3, <3>4, DumpAssumption DEF Threads
  <2> QED BY <2>1, <2>2, HandshakeQuiet
<1>2. CASE PutBegin(t) \/ PutStep(t)
  <2>1. /\ UNCHANGED <<at, activeThreadsLock, crashOriginThread, usr2, intr>>
        /\ activeThreads \subseteq activeThreads'
    BY <1>2 DEF PutBegin, PutStep, AddThread, Claim, TestSlot, WriteBegin, WriteEnd
  <2> QED BY <2>1, HandshakeQuiet
<1> QED BY <1>1, <1>2

\* flush() keeps the handshake: at the end of "got all" the lock is released.
LEMMA HandshakeFlush ==
  ASSUME TypeOK, Places, Handshake, NEW t \in Threads,
         FlushStep(t) \/ LockLoggers(t) \/ (t = Flusher /\ CheckTimer)
  PROVE  Handshake'
<1>1. ASSUME NEW l, LeaveFlush(t, l),
             UNCHANGED <<activeThreads, crashOriginThread, usr2, intr>>
      PROVE  Handshake'
  <2>1. CASE UNCHANGED <<at, activeThreadsLock>>
    BY <1>1, <2>1, HandshakeQuiet
  <2>2. ASSUME t \in App, at[t] \in Messages,
               NEW f \in {"timer", "pushing", "kill", "raw", "interpret"},
               at' = [at EXCEPT ![t] = f], f = "kill" <=> at[t] = "captured",
               at[t] = "gotall" => f = "raw",
               activeThreadsLock' = IF at[t] = "gotall" THEN NoThread ELSE activeThreadsLock
        PROVE  Handshake'
    <3>1. CASE at[t] = "captured"
      BY <1>1, <2>2, <3>1, HandshakeOrigin DEF Collecting, Waiting
    <3>2. CASE at[t] = "gotall"
      <4>1. /\ at'[t] = "raw" /\ \A u \in App : u # t => at'[u] = at[u]
            /\ crashOriginThread = t /\ activeThreadsLock = t
        BY <2>2, <3>2 DEF TypeOK, Handshake, Collecting
      <4>2. \A u \in Threads : ~Busy(u)
        BY <3>2, <4>1 DEF Handshake, Waiting
      <4>3. \A u \in Threads : ~Busy(u)'
        BY <1>1, <4>2 DEF Busy
      <4>4. activeThreadsLock' = NoThread /\ NoThread \notin App
        BY <2>2, <3>2, DumpAssumption DEF Threads
      <4>5. \A u \in App : at'[u] \notin Collecting \cup {"active"}
        <5>1. \A u \in App : at[u] \in Collecting \cup {"active"} => u = t
          BY <4>1 DEF Handshake
        <5> QED BY <4>1, <5>1 DEF Collecting
      <4>6. at'[crashOriginThread'] # "none" /\ intr'[crashOriginThread'] = "none"
        BY <1>1, <2>2, <4>1, DumpAssumption DEF Handshake, Threads
      <4> QED BY <4>3, <4>4, <4>5, <4>6 DEF Handshake
    <3>3. CASE at[t] \notin {"captured", "gotall"}
      <4>1. /\ f \in Between /\ f \notin Collecting \cup {"active"}
            /\ at[t] \notin Collecting \cup {"active"}
        BY <2>2, <3>3 DEF Between, Collecting, Messages
      <4> QED BY <1>1, <2>2, <3>3, <4>1, HandshakeQuiet
    <3> QED BY <3>1, <3>2, <3>3
  <2> QED BY <1>1, <2>1, <2>2, LeaveFacts
<1> USE DEF ringVars, putVars, lockVars, crashVars, traceVars, dumpVars
<1>2. CASE TryLock(t)
  <2>1. UNCHANGED <<activeThreads, crashOriginThread, usr2, intr>>
    BY <1>2 DEF TryLock
  <2>2. CASE flushingLogs = NoThread
    BY <1>2, <2>1, <2>2, HandshakeQuiet DEF TryLock
  <2>3. CASE flushingLogs # NoThread
    BY <1>1, <1>2, <2>1, <2>3 DEF TryLock
  <2> QED BY <2>2, <2>3
<1>3. CASE FlushEnd(t)
  <2>1. LeaveFlush(t, "write") /\ UNCHANGED <<activeThreads, crashOriginThread, usr2, intr>>
    BY <1>3 DEF FlushEnd
  <2> QED BY <1>1, <2>1
<1>4. CASE FlushElem(t) \/ FlushElemEnd(t) \/ FlushAll(t) \/ LockLoggers(t) \/ CheckTimer
  <2>1. UNCHANGED <<at, activeThreads, activeThreadsLock, crashOriginThread, usr2, intr>>
    BY <1>4 DEF FlushElem, FlushElemEnd, FlushAll, LockLoggers, CheckTimer
  <2> QED BY <2>1, HandshakeQuiet
<1> QED BY <1>2, <1>3, <1>4 DEF FlushStep

\* A signal to a thread, or its answer to the origin: it is the only one busy.
LEMMA HandshakeSignal ==
  ASSUME TypeOK, Places, Handshake, NEW t \in App, t = crashOriginThread,
         crashOriginThread' = crashOriginThread, UNCHANGED <<activeThreadsLock, activeThreads>>,
         at[t] \in Collecting, at'[t] \in Waiting, \A u \in App : u # t => at'[u] = at[u],
         intr'[t] = "none",
         NEW v \in Threads, v # t => v \in activeThreads,
         \A u \in Threads : u # v => ~usr2'[u] /\ intr'[u] = "none",
         usr2'[v] => intr'[v] = "none"
  PROVE  Handshake'
<1>1. t # NoThread
  BY DumpAssumption DEF Threads
<1>2. \A u \in App : at'[u] \in Collecting <=> at[u] \in Collecting
  BY DEF Collecting, Waiting
<1>3. \A u \in App : at'[u] \in Collecting \cup {"active"} => u = t
  <2>1. \A u \in App : at[u] \in Collecting \cup {"active"} => u = t
    BY DEF Handshake
  <2> QED BY <2>1
<1>4. ASSUME NEW u \in Threads, Busy(u)' PROVE u = v
  BY <1>4 DEF Busy
<1>5. at'[t] # "none"
  BY DEF Waiting
<1> QED BY <1>1, <1>2, <1>3, <1>4, <1>5 DEF Handshake

\* The handlers keep the handshake.
LEMMA HandshakeHandler ==
  ASSUME TypeOK, Places, Handshake, NEW t \in App,
         \/ HandlerStep(t) \/ TraceStep(t) \/ EnableOnlyOneDisplayer(t)
         \/ StackInterpret(t) \/ \E s \in Signals : Crash(t, s)
  PROVE  Handshake'
<1>0. /\ t \in Threads /\ t # NoThread /\ App \subseteq Threads /\ NoThread \notin App
      /\ crashOriginThread \in App \cup {NoThread}
  BY DumpAssumption DEF Threads, Places, Bounds
<1> USE DEF ringVars, putVars, lockVars, crashVars, traceVars, dumpVars, GotoAt, Announce
<1>1. ASSUME UNCHANGED <<activeThreadsLock, crashOriginThread, usr2, intr, activeThreads>>,
             \/ at' = at
             \/ \E f \in {"signal", "displayer", "fatal", "critical", "others", "skipped",
                          "raw", "interpret", "stack", "printed"} : at' = [at EXCEPT ![t] = f],
             at[t] \in {"none", "signal", "displayer", "timer", "pushing", "others",
                        "raw", "interpret", "printed"}
      PROVE  Handshake'
  <2>1. at[t] \notin Collecting \cup {"active"}
    BY <1>1 DEF Collecting
  <2>2. \A f \in {"signal", "displayer", "fatal", "critical", "others", "skipped",
                  "raw", "interpret", "stack", "printed"} :
          f \in Between \cup Messages \cup {"displayer"} /\ f \notin Collecting \cup {"active"}
    BY DEF Between, Messages, Collecting
  <2> QED BY <1>1, <2>1, <2>2, HandshakeQuiet
<1>2. CASE \E s \in Signals : Crash(t, s)
  BY <1>1, <1>2 DEF Crash
<1>3. CASE HandleSignal(t) \/ EnableOnlyOneDisplayer(t) \/ SetAbortTimer(t)
  BY <1>1, <1>3 DEF HandleSignal, EnableOnlyOneDisplayer, SetAbortTimer
<1>4. CASE AddRawStackInfo(t)
  BY <1>1, <1>4 DEF AddRawStackInfo
<1>5. CASE FlushRawStacks(t) \/ StackInterpret(t) \/ Flushed(t) \/ Exit(t)
  BY <1>1, <1>5 DEF FlushRawStacks, StackInterpret, Flushed, Exit
<1>6. CASE OtherThreads(t)
  <2>1. CASE crashOriginThread' = crashOriginThread
    BY <1>0, <1>1, <1>6, <2>1 DEF OtherThreads
  <2>2. CASE crashOriginThread' # crashOriginThread
    <3>1. /\ crashOriginThread = NoThread /\ crashOriginThread' = t /\ Runs(t)
          /\ at' = [at EXCEPT ![t] = "active"] /\ at[t] = "others"
          /\ UNCHANGED <<activeThreadsLock, usr2, intr, activeThreads>>
      BY <1>6, <2>2 DEF OtherThreads
    <3>2. /\ at'[t] = "active" /\ \A u \in App : u # t => at'[u] = at[u]
          /\ intr[t] = "none"
      BY <1>0, <3>1 DEF TypeOK, Runs
    <3>3. \A u \in Threads : ~Busy(u)'
      BY <3>1 DEF Handshake, Busy
    <3>4. \A u \in App : at[u] \notin Collecting \cup {"active"}
      BY <1>0, <3>1 DEF Handshake
    <3> QED BY <1>0, <3>1, <3>2, <3>3, <3>4 DEF Handshake, Collecting
  <2> QED BY <2>1, <2>2
<1>7. CASE LockActiveThreads(t)
  <2>1. /\ at[t] = "active" /\ at' = [at EXCEPT ![t] = "captured"]
        /\ activeThreadsLock = NoThread /\ activeThreadsLock' = t
        /\ UNCHANGED <<crashOriginThread, usr2, intr, activeThreads>>
    BY <1>7 DEF LockActiveThreads
  <2>2. /\ at'[t] = "captured" /\ \A u \in App : u # t => at'[u] = at[u]
        /\ crashOriginThread = t
    BY <1>0, <2>1 DEF TypeOK, Handshake
  <2>3. \A u \in Threads : ~Busy(u)
    BY <1>0, <2>1, <2>2 DEF Handshake, Waiting
  <2>4. \A u \in Threads : ~Busy(u)'
    BY <2>1, <2>3 DEF Busy
  <2>5. \A u \in App : at[u] \notin Collecting
    BY <1>0, <2>1 DEF Handshake
  <2>6. \A u \in App : at[u] = "active" => u = t
    BY <2>2 DEF Handshake
  <2> QED BY <1>0, <2>1, <2>2, <2>4, <2>5, <2>6 DEF Handshake, Collecting
<1>8. CASE AskThread(t)
  <2>1. PICK v \in activeThreads : v # t /\ usr2' = [usr2 EXCEPT ![v] = TRUE]
    BY <1>8 DEF AskThread
  <2>2. /\ at[t] = "kill" /\ at' = [at EXCEPT ![t] = "killed"] /\ Runs(t)
        /\ UNCHANGED <<activeThreadsLock, crashOriginThread, intr, activeThreads>>
    BY <1>8 DEF AskThread
  <2>3. /\ at'[t] = "killed" /\ \A u \in App : u # t => at'[u] = at[u]
        /\ crashOriginThread = t /\ v \in Threads
    BY <1>0, <2>1, <2>2 DEF TypeOK, Handshake, Collecting
  <2>4. \A u \in Threads : ~Busy(u)
    BY <1>0, <2>2, <2>3 DEF Handshake, Waiting
  <2>5. \A u \in Threads : u # v => ~usr2'[u] /\ intr'[u] = "none"
    BY <2>1, <2>2, <2>4 DEF Busy, TypeOK
  <2>6. intr'[t] = "none" /\ at[t] \in Collecting /\ at'[t] \in Waiting
    BY <2>2, <2>3 DEF Runs, Collecting, Waiting
  <2>7. intr'[v] = "none"
    BY <2>2, <2>3, <2>4 DEF Busy
  <2> QED BY <2>1, <2>2, <2>3, <2>5, <2>6, <2>7, HandshakeSignal
<1>9. CASE Suspend(t)
  <2>1. /\ at[t] = "killed" /\ at' = [at EXCEPT ![t] = "suspended"]
        /\ UNCHANGED <<activeThreadsLock, crashOriginThread, usr2, intr, activeThreads>>
    BY <1>9 DEF Suspend
  <2>2. /\ at'[t] = "suspended" /\ \A u \in App : u # t => at'[u] = at[u]
        /\ crashOriginThread = t
    BY <1>0, <2>1 DEF TypeOK, Handshake, Collecting
  <2>3. \A u : Busy(u)' = Busy(u)
    BY <2>1 DEF Busy
  <2>4. at[t] \in Collecting /\ at'[t] \in Waiting \cap Collecting
    BY <2>1, <2>2 DEF Collecting, Waiting
  <2> QED BY <1>0, <2>1, <2>2, <2>3, <2>4 DEF Handshake
<1>10. CASE AllAsked(t)
  BY <1>10, HandshakeOrigin DEF AllAsked, Collecting, Waiting
<1>11. ASSUME Busy(t) PROVE /\ crashOriginThread \in App /\ at[crashOriginThread] \in Waiting
                            /\ t # crashOriginThread => t \in activeThreads
                            /\ \A v \in Threads : v # t => ~usr2[v] /\ intr[v] = "none"
                            /\ intr[crashOriginThread] = "none"
                            /\ usr2[t] => intr[t] = "none"
                            /\ at[crashOriginThread] \in Collecting
  BY <1>0, <1>11 DEF Handshake, Busy, Waiting, Collecting
<1>12. CASE DeliverUsr2(t)
  <2>1. /\ usr2[t] /\ intr[t] = "none" /\ usr2' = [usr2 EXCEPT ![t] = FALSE]
        /\ UNCHANGED <<activeThreadsLock, crashOriginThread, activeThreads>>
    BY <1>12 DEF DeliverUsr2, Runs
  <2>2. Busy(t)
    BY <2>1 DEF Busy
  <2>3. CASE t = crashOriginThread
    <3>1. /\ at' = [at EXCEPT ![t] = IF at[t] = "suspended" THEN "kill" ELSE at[t]]
          /\ intr' = intr
      BY <1>12, <2>3 DEF DeliverUsr2
    <3>2. \A u \in Threads : ~Busy(u)'
      BY <1>0, <1>11, <2>1, <2>2, <3>1 DEF Busy, TypeOK
    <3>3. \A u \in App : u # t => at'[u] = at[u]
      BY <1>0, <3>1 DEF TypeOK
    <3>4. at'[t] \in Collecting
      BY <1>0, <1>11, <2>2, <2>3, <3>1 DEF TypeOK, Collecting
    <3>5. at[t] \in Collecting
      BY <1>11, <2>2, <2>3
    <3>6. at'[t] # "none" /\ intr'[t] = "none"
      BY <2>1, <3>1, <3>4 DEF Collecting
    <3> QED BY <1>0, <2>1, <2>3, <3>2, <3>3, <3>4, <3>5, <3>6 DEF Handshake
  <2>4. CASE t # crashOriginThread
    <3>1. intr' = [intr EXCEPT ![t] = "pushing"] /\ at' = at
      BY <1>12, <2>4 DEF DeliverUsr2
    <3>2. \A u \in Threads : u # t => ~usr2'[u] /\ intr'[u] = "none"
      BY <1>0, <1>11, <2>1, <2>2, <3>1 DEF TypeOK
    <3>3. intr'[crashOriginThread] = "none"
      BY <1>0, <1>11, <2>2, <2>4, <3>2
    <3>4. PICK o \in App : /\ o = crashOriginThread /\ at[o] \in Collecting /\ at'[o] \in Waiting
                           /\ \A u \in App : u # o => at'[u] = at[u]
      BY <1>11, <2>2, <3>1
    <3>5. ~usr2'[t]
      BY <1>0, <2>1 DEF TypeOK
    <3> QED BY <1>0, <1>11, <2>1, <2>2, <3>2, <3>3, <3>4, <3>5, HandshakeSignal
  <2> QED BY <2>3, <2>4
<1>13. CASE TracePush(t)
  <2>1. /\ intr[t] = "pushing" /\ intr' = [intr EXCEPT ![t] = "reply"]
        /\ UNCHANGED <<at, activeThreadsLock, crashOriginThread, activeThreads, usr2>>
    BY <1>13 DEF TracePush
  <2>2. Busy(t) /\ crashOriginThread # t
    <3>1. Busy(t)
      BY <2>1 DEF Busy
    <3> QED BY <1>11, <2>1, <3>1
  <2>3. \A u \in Threads : u # t => ~usr2'[u] /\ intr'[u] = "none"
    BY <1>0, <1>11, <2>1, <2>2 DEF TypeOK
  <2>4. intr'[crashOriginThread] = "none"
    BY <1>0, <1>11, <2>2, <2>3
  <2>5. PICK o \in App : /\ o = crashOriginThread /\ at[o] \in Collecting /\ at'[o] \in Waiting
                         /\ \A u \in App : u # o => at'[u] = at[u]
    BY <1>11, <2>1, <2>2
  <2>6. ~usr2'[t]
    BY <1>0, <1>11, <2>1, <2>2
  <2> QED BY <1>0, <1>11, <2>1, <2>2, <2>3, <2>4, <2>5, <2>6, HandshakeSignal
<1>14. CASE TraceReply(t)
  <2>1. /\ intr[t] = "reply" /\ intr' = [intr EXCEPT ![t] = "none"]
        /\ usr2' = [usr2 EXCEPT ![crashOriginThread] = TRUE]
        /\ UNCHANGED <<at, activeThreadsLock, crashOriginThread, activeThreads>>
    BY <1>14 DEF TraceReply
  <2>2. Busy(t) /\ crashOriginThread # t
    <3>1. Busy(t)
      BY <2>1 DEF Busy
    <3> QED BY <1>11, <2>1, <3>1
  <2>3. PICK o \in App : /\ o = crashOriginThread /\ at[o] \in Collecting /\ at'[o] \in Waiting
                         /\ \A u \in App : u # o => at'[u] = at[u]
    BY <1>11, <2>1, <2>2
  <2>4. ~usr2[t]
    BY <1>0, <1>11, <2>1, <2>2
  <2>5. \A u \in Threads : u # o => ~usr2'[u] /\ intr'[u] = "none"
    BY <1>0, <1>11, <2>1, <2>2, <2>3, <2>4 DEF TypeOK
  <2>6. intr'[o] = "none"
    BY <1>0, <1>11, <2>1, <2>2, <2>3 DEF TypeOK
  <2> QED BY <1>0, <2>1, <2>3, <2>5, <2>6, HandshakeSignal
<1> QED BY <1>2, <1>3, <1>4, <1>5, <1>6, <1>7, <1>8, <1>9, <1>10, <1>12, <1>13, <1>14
        DEF HandlerStep, TraceStep
-----------------------------------------------------------------------------
\* With one crash the vector of stacks has one thread at a time.
LEMMA OnlyUpdater ==
  ASSUME TypeOK, Places, Handshake, OneCrash, NEW t \in Threads, NEW u \in Threads,
         Pushing(t), Pushing(u) \/ Walking(u)
  PROVE  t = u
<1>1. ASSUME NEW v \in Threads, at[v] # "none" PROVE v \in Crashed
  BY <1>1, ThreadFacts DEF Crashed
<1>2. ASSUME NEW v \in Threads, intr[v] = "pushing", NEW w \in Threads,
             at[w] \in {"pushing", "interpret", "stack"}
      PROVE  FALSE
  <2>1. Busy(v)
    BY <1>2 DEF Busy
  <2>2. /\ crashOriginThread \in App \cup {NoThread} /\ crashOriginThread # NoThread
        /\ at[crashOriginThread] \in Waiting
    BY <2>1 DEF Handshake, Places, Bounds
  <2>3. crashOriginThread \in Crashed /\ w \in Crashed
    BY <1>1, <1>2, <2>2 DEF Threads, Waiting
  <2>4. crashOriginThread = w
    BY <2>3 DEF OneCrash
  <2> QED BY <1>2, <2>2, <2>4 DEF Waiting
<1>3. CASE at[t] = "pushing" /\ at[u] \in {"pushing", "interpret", "stack"}
  <2>1. t \in Crashed /\ u \in Crashed
    BY <1>1, <1>3
  <2> QED BY <2>1 DEF OneCrash
<1>4. CASE intr[t] = "pushing" /\ intr[u] = "pushing"
  <2>1. Busy(t) /\ Busy(u)
    BY <1>4 DEF Busy
  <2> QED BY <2>1 DEF Handshake
<1> QED BY <1>2, <1>3, <1>4 DEF Pushing, Walking

\* With one crash, and so with no second thread on the vector, a push succeeds.
LEMMA PushSucceeds ==
  ASSUME TypeOK, Places, Handshake, OneCrash, NEW t \in Threads, Pushing(t), PushRawStack(t)
  PROVE  stacks' = stacks \cup {t}
BY OnlyUpdater DEF PushRawStack

\* A crash is for ever.
LEMMA OneCrashBefore ==
  ASSUME TypeOK, OneCrash', at' = at \/ \E t \in Threads : \E f : f # "none" /\ at' = [at EXCEPT ![t] = f]
  PROVE  OneCrash
<1>1. \A u \in App : u \in Threads /\ (at[u] # "none" => at'[u] # "none")
  BY DEF TypeOK, Threads
<1>2. Crashed \subseteq Crashed'
  BY <1>1 DEF Crashed
<1> QED BY <1>2 DEF OneCrash

\* The steps of a handler that has pushed its own stack.
Past == Collecting \cup {"others", "active"}

\* A step that asks nobody and gets no answer keeps what is collected.
LEMMA CollectedQuiet ==
  ASSUME TypeOK, Collected, UNCHANGED <<asked, usr2, intr>>, stacks \subseteq stacks',
         activeThreads' \subseteq activeThreads \/ \A u \in App : at[u] # "gotall",
         \/ at' = at
         \/ \E t \in Threads : \E f :
              /\ at' = [at EXCEPT ![t] = f] /\ f \notin {"none", "gotall"}
              /\ f \in Past => at[t] \in Past
  PROVE  Collected'
<1>1. SUFFICES ASSUME OneCrash' PROVE /\ \A u \in asked' : u \in stacks' \/ usr2'[u] \/ intr'[u] = "pushing"
                                      /\ \A t \in App : at'[t] \in Past => t \in stacks'
                                      /\ \A t \in App : at'[t] = "gotall" =>
                                           activeThreads' \subseteq asked' \cup {t}
  BY DEF Collected, Past
<1>2. OneCrash
  <2>1. at' = at \/ \E t \in Threads : \E f : f # "none" /\ at' = [at EXCEPT ![t] = f]
    OBVIOUS
  <2> QED BY <1>1, <2>1, OneCrashBefore
<1>3. \A u \in App : (at'[u] \in Past => at[u] \in Past) /\ (at'[u] = "gotall" => at[u] = "gotall")
  BY DEF TypeOK, Threads
<1> QED BY <1>2, <1>3 DEF Collected, Past

\* put() and flush() keep what is collected.
LEMMA CollectedPut ==
  ASSUME TypeOK, Places, Handshake, Collected, NEW t \in Threads,
         \/ t \in App /\ (PutBegin(t) \/ PutStep(t) \/ RemoveThread(t))
         \/ FlushStep(t) \/ LockLoggers(t) \/ CheckTimer
  PROVE  Collected'
<1> USE DEF ringVars, putVars, lockVars, crashVars, traceVars, dumpVars
<1>1. CASE AddThread(t)
  <2>1. activeThreadsLock = NoThread /\ UNCHANGED <<at, asked, usr2, intr, stacks>>
    BY <1>1 DEF AddThread
  <2>2. \A u \in App : at[u] # "gotall"
    BY <2>1, DumpAssumption DEF Handshake, Collecting, Threads
  <2> QED BY <2>1, <2>2, CollectedQuiet
<1>2. CASE \/ PutBegin(t) \/ Claim(t) \/ TestSlot(t) \/ WriteBegin(t) \/ WriteEnd(t)
           \/ RemoveThread(t) \/ FlushElem(t) \/ FlushElemEnd(t) \/ FlushAll(t)
           \/ LockLoggers(t) \/ CheckTimer
  <2>1. UNCHANGED <<at, asked, usr2, intr, stacks>> /\ activeThreads' \subseteq activeThreads
    BY <1>2 DEF PutBegin, Claim, TestSlot, WriteBegin, WriteEnd, RemoveThread, FlushElem,
                FlushElemEnd, FlushAll, LockLoggers, CheckTimer
  <2> QED BY <2>1, CollectedQuiet
<1>3. ASSUME NEW l, LeaveFlush(t, l), UNCHANGED <<asked, usr2, intr, stacks, activeThreads>>
      PROVE  Collected'
  <2>1. \/ at' = at
        \/ \E f \in {"timer", "pushing", "kill", "raw", "interpret"} :
             at' = [at EXCEPT ![t] = f] /\ (f = "kill" => at[t] = "captured")
    BY <1>3, LeaveFacts
  <2>2. \A f \in {"timer", "pushing", "kill", "raw", "interpret"} :
          f \notin {"none", "gotall"} /\ (f \in Past => f = "kill")
    BY DEF Past, Collecting
  <2>3. "captured" \in Past
    BY DEF Past, Collecting
  <2> QED BY <1>3, <2>1, <2>2, <2>3, CollectedQuiet
<1>4. CASE TryLock(t)
  <2>1. UNCHANGED <<asked, usr2, intr, stacks, activeThreads>>
    BY <1>4 DEF TryLock
  <2>2. CASE flushingLogs = NoThread
    BY <1>4, <2>1, <2>2, CollectedQuiet DEF TryLock
  <2>3. CASE flushingLogs # NoThread
    BY <1>3, <1>4, <2>1, <2>3 DEF TryLock
  <2> QED BY <2>2, <2>3
<1>5. CASE FlushEnd(t)
  <2>1. LeaveFlush(t, "write") /\ UNCHANGED <<asked, usr2, intr, stacks, activeThreads>>
    BY <1>5 DEF FlushEnd
  <2> QED BY <1>3, <2>1
<1> QED BY <1>1, <1>2, <1>4, <1>5 DEF PutStep, FlushStep

\* The handlers keep what is collected.
LEMMA CollectedHandler ==
  ASSUME TypeOK, Places, Handshake, Collected, NEW t \in App,
         \/ HandlerStep(t) \/ TraceStep(t) \/ EnableOnlyOneDisplayer(t)
         \/ StackInterpret(t) \/ \E s \in Signals : Crash(t, s)
  PROVE  Collected'
<1>0. /\ t \in Threads /\ t # NoThread /\ App \subseteq Threads /\ NoThread \notin App
      /\ crashOriginThread \in App \cup {NoThread}
  BY DumpAssumption DEF Threads, Places, Bounds
<1> USE DEF ringVars, putVars, lockVars, crashVars, traceVars, dumpVars, GotoAt, Announce
<1>1. ASSUME UNCHANGED <<asked, usr2, intr, stacks, activeThreads>>,
             NEW f, at' = [at EXCEPT ![t] = f], f \notin {"none", "gotall"},
             f \in Past => at[t] \in Past
      PROVE  Collected'
  BY <1>0, <1>1, CollectedQuiet
<1>2. CASE \E s \in Signals : Crash(t, s)
  <2>1. UNCHANGED <<asked, usr2, intr, stacks, activeThreads>>
        /\ (at' = at \/ at' = [at EXCEPT ![t] = "signal"])
    BY <1>2 DEF Crash
  <2> QED BY <1>1, <2>1, CollectedQuiet DEF Past, Collecting
<1>3. CASE HandleSignal(t) \/ EnableOnlyOneDisplayer(t) \/ SetAbortTimer(t)
  BY <1>1, <1>3 DEF HandleSignal, EnableOnlyOneDisplayer, SetAbortTimer, Past, Collecting
<1>4. CASE FlushRawStacks(t) \/ Flushed(t)
  BY <1>1, <1>4 DEF FlushRawStacks, Flushed, Past, Collecting
<1>5. CASE StackInterpret(t) \/ Exit(t)
  <2>1. UNCHANGED <<asked, usr2, intr, stacks, activeThreads>>
        /\ (at' = at \/ at' = [at EXCEPT ![t] = "stack"])
    BY <1>5 DEF StackInterpret, Exit
  <2> QED BY <1>1, <2>1, CollectedQuiet DEF Past, Collecting
<1>6. CASE OtherThreads(t)
  BY <1>1, <1>6 DEF OtherThreads, Past, Collecting
<1>7. CASE LockActiveThreads(t) \/ Suspend(t)
  BY <1>1, <1>7 DEF LockActiveThreads, Suspend, Past, Collecting
<1> DEFINE C == /\ \A u \in asked : u \in stacks \/ usr2[u] \/ intr[u] = "pushing"
                /\ \A u \in App : at[u] \in Past => u \in stacks
                /\ \A u \in App : at[u] = "gotall" => activeThreads \subseteq asked \cup {u}
<1>8. /\ OneCrash => C
      /\ (OneCrash' => C') => Collected'
  BY DEF Collected, Past
<1> HIDE DEF C
<1>9. CASE AddRawStackInfo(t)
  <2>1. /\ at[t] = "pushing" /\ at' = [at EXCEPT ![t] = "others"] /\ PushRawStack(t)
        /\ UNCHANGED <<asked, usr2, intr, activeThreads>>
    BY <1>9 DEF AddRawStackInfo
  <2>2. ASSUME OneCrash' PROVE C'
    <3>1. OneCrash
      BY <1>0, <2>1, <2>2, OneCrashBefore
    <3>2. stacks' = stacks \cup {t}
      BY <1>0, <2>1, <3>1, PushSucceeds DEF Pushing
    <3>3. at'[t] = "others" /\ \A u \in App : u # t => at'[u] = at[u]
      BY <1>0, <2>1 DEF TypeOK
    <3> QED BY <1>8, <2>1, <3>1, <3>2, <3>3 DEF C
  <2> QED BY <1>8, <2>2
<1>10. CASE AskThread(t)
  <2>1. PICK v \in activeThreads : asked' = asked \cup {v} /\ usr2' = [usr2 EXCEPT ![v] = TRUE]
    BY <1>10 DEF AskThread
  <2>2. /\ at[t] = "kill" /\ at' = [at EXCEPT ![t] = "killed"]
        /\ UNCHANGED <<intr, activeThreads, stacks>>
    BY <1>10 DEF AskThread
  <2>3. ASSUME OneCrash' PROVE C'
    <3>1. OneCrash
      BY <1>0, <2>2, <2>3, OneCrashBefore
    <3>2. at'[t] = "killed" /\ \A u \in App : u # t => at'[u] = at[u]
      BY <1>0, <2>2 DEF TypeOK
    <3>3. usr2'[v] /\ \A u \in Threads : usr2[u] => usr2'[u]
      BY <1>0, <2>1 DEF TypeOK
    <3>4. "kill" \in Past /\ asked \subseteq Threads
      BY <1>0 DEF Past, Collecting, TypeOK
    <3> QED BY <1>8, <2>1, <2>2, <3>1, <3>2, <3>3, <3>4 DEF C
  <2> QED BY <1>8, <2>3
<1>11. CASE AllAsked(t)
  <2>1. /\ at[t] = "kill" /\ at' = [at EXCEPT ![t] = "gotall"]
        /\ activeThreads \subseteq asked \cup {t}
        /\ UNCHANGED <<asked, usr2, intr, activeThreads, stacks>>
    BY <1>11 DEF AllAsked
  <2>2. ASSUME OneCrash' PROVE C'
    <3>1. OneCrash
      BY <1>0, <2>1, <2>2, OneCrashBefore
    <3>2. at'[t] = "gotall" /\ \A u \in App : u # t => at'[u] = at[u]
      BY <1>0, <2>1 DEF TypeOK
    <3>3. "kill" \in Past
      BY DEF Past, Collecting
    <3> QED BY <1>8, <2>1, <3>1, <3>2, <3>3 DEF C
  <2> QED BY <1>8, <2>2
<1>12. CASE DeliverUsr2(t)
  <2>1. /\ usr2[t] /\ usr2' = [usr2 EXCEPT ![t] = FALSE] /\ intr[t] = "none"
        /\ UNCHANGED <<asked, activeThreads, stacks>>
    BY <1>12 DEF DeliverUsr2, Runs
  <2>2. /\ \A u \in Threads : u # t => usr2'[u] = usr2[u]
        /\ asked \subseteq Threads
    BY <1>0, <2>1 DEF TypeOK
  <2>3. CASE t = crashOriginThread
    <3>1. /\ at' = [at EXCEPT ![t] = IF at[t] = "suspended" THEN "kill" ELSE at[t]]
          /\ intr' = intr
      BY <1>12, <2>3 DEF DeliverUsr2
    <3>2. at[t] \in Waiting
      <4>1. Busy(t)
        BY <2>1 DEF Busy
      <4> QED BY <1>0, <2>3, <4>1 DEF Handshake
    <3>3. /\ at'[t] \in Past /\ at[t] \in Past /\ at'[t] # "gotall"
          /\ \A u \in App : u # t => at'[u] = at[u]
      BY <1>0, <3>1, <3>2 DEF TypeOK, Waiting, Past, Collecting
    <3>4. ASSUME OneCrash' PROVE C'
      <4>1. OneCrash
        <5>1. (IF at[t] = "suspended" THEN "kill" ELSE at[t]) # "none"
          BY <3>2 DEF Waiting
        <5> QED BY <1>0, <3>1, <3>4, <5>1, OneCrashBefore
      <4>2. t \in stacks
        BY <1>8, <3>3, <4>1 DEF C
      <4> QED BY <1>8, <2>1, <2>2, <3>1, <3>3, <4>1, <4>2 DEF C
    <3> QED BY <1>8, <3>4
  <2>4. CASE t # crashOriginThread
    <3>1. intr' = [intr EXCEPT ![t] = "pushing"] /\ at' = at
      BY <1>12, <2>4 DEF DeliverUsr2
    <3>2. intr'[t] = "pushing" /\ \A u \in Threads : u # t => intr'[u] = intr[u]
      BY <1>0, <3>1 DEF TypeOK
    <3>3. ASSUME OneCrash' PROVE C'
      <4>1. OneCrash
        BY <3>1, <3>3, OneCrashBefore
      <4> QED BY <1>8, <2>1, <2>2, <3>1, <3>2, <4>1 DEF C
    <3> QED BY <1>8, <3>3
  <2> QED BY <2>3, <2>4
<1>13. CASE TracePush(t)
  <2>1. /\ intr[t] = "pushing" /\ intr' = [intr EXCEPT ![t] = "reply"] /\ PushRawStack(t)
        /\ UNCHANGED <<at, asked, activeThreads, usr2>>
    BY <1>13 DEF TracePush
  <2>2. ASSUME OneCrash' PROVE C'
    <3>1. OneCrash
      BY <2>1, <2>2, OneCrashBefore
    <3>2. stacks' = stacks \cup {t}
      BY <1>0, <2>1, <3>1, PushSucceeds DEF Pushing
    <3>3. asked \subseteq Threads /\ \A u \in Threads : u # t => intr'[u] = intr[u]
      BY <1>0, <2>1 DEF TypeOK
    <3> QED BY <1>8, <2>1, <3>1, <3>2, <3>3 DEF C
  <2> QED BY <1>8, <2>2
<1>14. CASE TraceReply(t)
  <2>1. /\ intr[t] = "reply" /\ intr' = [intr EXCEPT ![t] = "none"]
        /\ usr2' = [usr2 EXCEPT ![crashOriginThread] = TRUE]
        /\ UNCHANGED <<at, asked, activeThreads, stacks>>
    BY <1>14 DEF TraceReply
  <2>2. /\ asked \subseteq Threads
        /\ \A u \in Threads : (usr2[u] => usr2'[u]) /\ (u # t => intr'[u] = intr[u])
    BY <1>0, <2>1 DEF TypeOK
  <2>3. ASSUME OneCrash' PROVE C'
    <3>1. OneCrash
      BY <2>1, <2>3, OneCrashBefore
    <3> QED BY <1>8, <2>1, <2>2, <3>1 DEF C
  <2> QED BY <1>8, <2>3
<1> QED BY <1>2, <1>3, <1>4, <1>5, <1>6, <1>7, <1>9, <1>10, <1>11, <1>12, <1>13, <1>14
        DEF HandlerStep, TraceStep
-----------------------------------------------------------------------------
\* A number below N is its own remainder, and so is what is N more.
LEMMA ModFacts ==
  ASSUME NEW k \in Slots
  PROVE  k % N = k /\ (k + N) % N = k
<1>1. k \in Int /\ N \in Int /\ 0 <= k /\ k < N
  BY DumpAssumption DEF Slots
<1>2. k % N = k
  BY <1>1
<1>3. (k + N) % N = k
  BY <1>1
<1> QED BY <1>2, <1>3

\* A walk of N slots from any slot meets all of them.
LEMMA WalkMeetsAll ==
  ASSUME NEW a \in Slots, NEW k \in Slots
  PROVE  \E i \in 0 .. N - 1 : (a + i) % N = k
<1>1. N \in Nat /\ a \in 0 .. N - 1 /\ k \in 0 .. N - 1
  BY DumpAssumption DEF Slots
<1>2. CASE k >= a
  <2>1. k - a \in 0 .. N - 1 /\ a + (k - a) = k
    BY <1>1, <1>2
  <2>2. (a + (k - a)) % N = k
    BY <2>1, ModFacts
  <2> QED BY <2>1, <2>2
<1>3. CASE ~(k >= a)
  <2>1. k + N - a \in 0 .. N - 1 /\ a + (k + N - a) = k + N
    BY <1>1, <1>3
  <2>2. (a + (k + N - a)) % N = k
    BY <2>1, ModFacts
  <2> QED BY <2>1, <2>2
<1> QED BY <1>2, <1>3

\* A step that leaves the slots and the mutex alone, and starts no walk.
LEMMA RingQuiet ==
  ASSUME TypeOK, Ring, UNCHANGED <<status, due, flushingLogs>>,
         \A u \in Threads :
           \/ pc'[u] = pc[u] /\ my'[u] = my[u] /\ pos'[u] = pos[u]
           \/ pc'[u] \notin InFlush /\ pos'[u] = 0
  PROVE  Ring'
<1>1. \A u \in Threads : pc'[u] \in InFlush => pc[u] = pc'[u] /\ FlushSlot(u)' = FlushSlot(u)
  BY DEF FlushSlot
<1>2. flushingLogs \in Threads \cup {NoThread}
  BY DEF TypeOK
<1>3. \A u \in Threads : pc'[u] \in InFlush => flushingLogs' = u
  BY <1>1 DEF Ring
<1>4. ASSUME NEW k \in Slots, status'[k] = "FLUSHING"
      PROVE  /\ flushingLogs' # NoThread
             /\ pc'[flushingLogs'] \in InFlush =>
                  pc'[flushingLogs'] = "flushing" /\ k = FlushSlot(flushingLogs)'
  <2>1. status[k] = "FLUSHING"
    BY <1>4
  <2>2. flushingLogs # NoThread /\ flushingLogs' = flushingLogs
    BY <2>1 DEF Ring
  <2>3. ASSUME pc'[flushingLogs] \in InFlush
        PROVE  pc'[flushingLogs] = "flushing" /\ k = FlushSlot(flushingLogs)'
    <3>1. PICK u \in Threads : u = flushingLogs /\ u = flushingLogs'
      BY <1>2, <2>2
    <3>2. pc[u] = pc'[u] /\ FlushSlot(u)' = FlushSlot(u)
      BY <1>1, <2>3, <3>1
    <3>3. pc[u] = "flushing" /\ k = FlushSlot(u)
      BY <2>1, <2>3, <3>1, <3>2 DEF Ring
    <3> QED BY <3>1, <3>2, <3>3 DEF FlushSlot
  <2> QED BY <2>2, <2>3
<1>5. \A k \in Slots : due'[k] # "none" => status'[k] \in {"DIRTY", "FLUSHING"}
  BY DEF Ring
<1>6. \A u \in Threads : pc'[u] \notin InFlush => pos'[u] = 0
  BY DEF Ring
<1> QED BY <1>3, <1>4, <1>5, <1>6 DEF Ring

\* While a thread is between two slots of its walk, no slot is being flushed.
LEMMA NoneFlushing ==
  ASSUME TypeOK, Ring, NEW t \in Threads, pc[t] = "flush"
  PROVE  flushingLogs = t /\ \A k \in Slots : status[k] # "FLUSHING"
BY DEF Ring, InFlush

\* A step of t on one slot keeps the ring: s and d are what the slot gets.
LEMMA RingSlot ==
  ASSUME TypeOK, Ring, NEW t \in Threads, NEW k \in Slots, NEW s, NEW d,
         status' = [status EXCEPT ![k] = s], due' = [due EXCEPT ![k] = d],
         d # "none" => s \in {"DIRTY", "FLUSHING"}, s # "FLUSHING",
         UNCHANGED flushingLogs,
         \A u \in Threads : u # t => pc'[u] = pc[u] /\ my'[u] = my[u] /\ pos'[u] = pos[u],
         \/ pc'[t] \notin InFlush /\ pos'[t] = 0
         \/ /\ pc[t] = "flushing" /\ k = FlushSlot(t) /\ pc'[t] = "flush"
  PROVE  Ring'
<1>1. /\ \A u \in Threads : u # t /\ pc'[u] \in InFlush =>
           pc[u] = pc'[u] /\ FlushSlot(u)' = FlushSlot(u)
  BY DEF FlushSlot
<1>2. flushingLogs \in Threads \cup {NoThread}
  BY DEF TypeOK
<1>3. \A u \in Threads : pc'[u] \in InFlush => flushingLogs' = u
  BY <1>1 DEF Ring, InFlush
<1>4. ASSUME NEW j \in Slots, status'[j] = "FLUSHING"
      PROVE  /\ flushingLogs' # NoThread
             /\ pc'[flushingLogs'] \in InFlush =>
                  pc'[flushingLogs'] = "flushing" /\ j = FlushSlot(flushingLogs)'
  <2>1. status[j] = "FLUSHING" /\ j # k
    BY <1>4 DEF TypeOK
  <2>2. PICK u \in Threads : u = flushingLogs /\ u = flushingLogs'
    BY <1>2, <2>1 DEF Ring
  <2>3. flushingLogs' # NoThread
    BY <2>1 DEF Ring
  <2>4. ASSUME pc'[u] \in InFlush
        PROVE  pc'[u] = "flushing" /\ j = FlushSlot(u)'
    <3>1. u # t
      <4>1. SUFFICES ASSUME u = t PROVE FALSE
        OBVIOUS
      <4>2. pc[t] = "flushing" /\ k = FlushSlot(t)
        BY <2>4, <4>1
      <4> QED BY <2>1, <2>2, <4>1, <4>2 DEF Ring, InFlush
    <3>2. pc[u] = pc'[u] /\ FlushSlot(u)' = FlushSlot(u)
      BY <1>1, <2>4, <3>1
    <3>3. pc[u] = "flushing" /\ j = FlushSlot(u)
      BY <2>1, <2>2, <2>4, <3>2 DEF Ring
    <3> QED BY <3>2, <3>3
  <2> QED BY <2>2, <2>3, <2>4 DEF FlushSlot
<1>5. \A j \in Slots : due'[j] # "none" => status'[j] \in {"DIRTY", "FLUSHING"}
  BY DEF Ring, TypeOK
<1>6. \A u \in Threads : pc'[u] \notin InFlush => pos'[u] = 0
  BY DEF Ring, InFlush
<1> QED BY <1>3, <1>4, <1>5, <1>6 DEF Ring

\* put() keeps the ring.
LEMMA RingPut ==
  ASSUME TypeOK, Places, Ring, NEW t \in App,
         PutBegin(t) \/ PutStep(t) \/ RemoveThread(t)
  PROVE  Ring'
<1> USE DEF ringVars, putVars, lockVars, crashVars, traceVars, dumpVars, Goto
<1>0. t \in Threads /\ my[t] \in Slots
  BY DEF Threads, TypeOK
<1>1. CASE PutBegin(t) \/ AddThread(t) \/ Claim(t) \/ TestSlot(t) \/ RemoveThread(t)
  <2>1. pc[t] \notin InFlush
    BY <1>1 DEF PutBegin, AddThread, Claim, TestSlot, RemoveThread, InFlush
  <2>2. PICK l : pc' = [pc EXCEPT ![t] = l] /\ l \notin InFlush
    BY <1>1 DEF PutBegin, EnterPut, AddThread, Claim, TestSlot, RemoveThread, InFlush
  <2>3. /\ UNCHANGED <<status, due, flushingLogs, pos>>
        /\ \A u \in Threads : u # t => my'[u] = my[u]
    BY <1>1 DEF PutBegin, AddThread, Claim, TestSlot, RemoveThread, TypeOK
  <2>4. pos[t] = 0
    BY <1>0, <2>1 DEF Ring
  <2>5. pc'[t] = l /\ \A u \in Threads : u # t => pc'[u] = pc[u]
    BY <1>0, <2>2 DEF TypeOK
  <2>6. \A u \in Threads : \/ pc'[u] = pc[u] /\ my'[u] = my[u] /\ pos'[u] = pos[u]
                           \/ pc'[u] \notin InFlush /\ pos'[u] = 0
    BY <2>2, <2>3, <2>4, <2>5
  <2> QED BY <2>3, <2>6, RingQuiet
<1>2. CASE WriteBegin(t)
  <2>1. pc[t] = "write" /\ UNCHANGED <<due, flushingLogs, pos>>
    BY <1>2 DEF WriteBegin
  <2>2. PICK l : pc' = [pc EXCEPT ![t] = l] /\ l \notin InFlush
    BY <1>2 DEF WriteBegin, AfterPut, InFlush
  <2>3. pos[t] = 0 /\ \A u \in Threads : u # t => my'[u] = my[u] /\ pc'[u] = pc[u]
    BY <1>0, <1>2, <2>1, <2>2 DEF Ring, InFlush, WriteBegin, TypeOK
  <2>4. pc'[t] \notin InFlush
    BY <1>0, <2>2 DEF TypeOK
  <2>5. CASE status' = status
    <3>1. \A u \in Threads : \/ pc'[u] = pc[u] /\ my'[u] = my[u] /\ pos'[u] = pos[u]
                             \/ pc'[u] \notin InFlush /\ pos'[u] = 0
      BY <2>1, <2>3, <2>4
    <3> QED BY <2>1, <2>5, <3>1, RingQuiet
  <2>6. CASE status' # status
    <3>1. status[my[t]] = "CLEAN" /\ status' = [status EXCEPT ![my[t]] = "WRITING"]
      BY <1>2, <2>6 DEF WriteBegin
    <3>2. due[my[t]] = "none"
      BY <1>0, <3>1 DEF Ring
    <3>3. due' = [due EXCEPT ![my[t]] = "none"]
      BY <1>0, <2>1, <3>2 DEF TypeOK
    <3>4. PICK k \in Slots : k = my[t]
      BY <1>0
    <3>5. status' = [status EXCEPT ![k] = "WRITING"] /\ due' = [due EXCEPT ![k] = "none"]
      BY <3>1, <3>3, <3>4
    <3>6. pos'[t] = 0 /\ \A u \in Threads : u # t => pos'[u] = pos[u]
      BY <2>1, <2>3
    <3>7. \A u \in Threads : u # t => pc'[u] = pc[u] /\ my'[u] = my[u] /\ pos'[u] = pos[u]
      BY <2>3, <3>6
    <3>8. PICK s, d : s = "WRITING" /\ d = "none"
      OBVIOUS
    <3>9. s # "FLUSHING" /\ (d # "none" => s \in {"DIRTY", "FLUSHING"})
      BY <3>8
    <3>10. status' = [status EXCEPT ![k] = s] /\ due' = [due EXCEPT ![k] = d]
      BY <3>5, <3>8
    <3>11. flushingLogs' = flushingLogs /\ pc'[t] \notin InFlush /\ pos'[t] = 0
      BY <2>1, <2>4, <3>6
    <3> QED BY <1>0, <3>7, <3>9, <3>10, <3>11, RingSlot
  <2> QED BY <2>5, <2>6
<1>3. CASE WriteEnd(t)
  <2>1. /\ pc[t] = "writing" /\ UNCHANGED <<flushingLogs, pos>>
        /\ due' = [due EXCEPT ![my[t]] = DueFor(t)]
        /\ status' = [status EXCEPT ![my[t]] = "DIRTY"]
    BY <1>3 DEF WriteEnd
  <2>2. PICK l : pc' = [pc EXCEPT ![t] = l] /\ l \notin InFlush
    <3>1. AfterPut(t) \notin InFlush
      BY DEF AfterPut, InFlush
    <3> QED BY <1>3, <3>1 DEF WriteEnd
  <2>3. pos[t] = 0 /\ \A u \in Threads : u # t => my'[u] = my[u] /\ pc'[u] = pc[u]
    BY <1>0, <1>3, <2>1, <2>2 DEF Ring, InFlush, WriteEnd, TypeOK
  <2>4. pc'[t] \notin InFlush
    BY <1>0, <2>2 DEF TypeOK
  <2> QED BY <1>0, <2>1, <2>3, <2>4, RingSlot
<1> QED BY <1>1, <1>2, <1>3 DEF PutStep

\* flush(), flushAll() and flushWorker keep the ring.
LEMMA RingFlush ==
  ASSUME TypeOK, Places, Ring, NEW t \in Threads,
         FlushStep(t) \/ LockLoggers(t) \/ (t = Flusher /\ CheckTimer)
  PROVE  Ring'
<1> USE DEF ringVars, putVars, lockVars, crashVars, traceVars, dumpVars, Goto
<1>0. my[t] \in Slots /\ FlushSlot(t) \in Slots
  BY SlotFacts DEF TypeOK, FlushSlot
<1>1. CASE FlushAll(t) \/ LockLoggers(t) \/ (t = Flusher /\ CheckTimer)
  <2>1. pc[t] \notin InFlush
    BY <1>1 DEF FlushAll, LockLoggers, CheckTimer, InFlush
  <2>2. PICK l : pc' = [pc EXCEPT ![t] = l] /\ l \notin InFlush
    <3>1. EnterPut(t) \notin InFlush
      BY DEF EnterPut, InFlush
    <3> QED BY <1>1, <3>1 DEF FlushAll, LockLoggers, CheckTimer, InFlush
  <2>3. /\ UNCHANGED <<status, due, flushingLogs, pos>>
        /\ \A u \in Threads : u # t => my'[u] = my[u]
    BY <1>1 DEF FlushAll, LockLoggers, CheckTimer, TypeOK
  <2>4. pos[t] = 0
    BY <2>1 DEF Ring
  <2>5. pc'[t] = l /\ \A u \in Threads : u # t => pc'[u] = pc[u]
    BY <2>2 DEF TypeOK
  <2>6. \A u \in Threads : \/ pc'[u] = pc[u] /\ my'[u] = my[u] /\ pos'[u] = pos[u]
                           \/ pc'[u] \notin InFlush /\ pos'[u] = 0
    BY <2>2, <2>3, <2>4, <2>5
  <2> QED BY <2>3, <2>6, RingQuiet
<1>2. CASE TryLock(t) /\ flushingLogs = NoThread
  <2>1. /\ UNCHANGED <<status, due, pos, my>> /\ flushingLogs' = t
        /\ pc' = [pc EXCEPT ![t] = "flush"]
    BY <1>2 DEF TryLock
  <2>2. /\ \A k \in Slots : status'[k] # "FLUSHING"
        /\ \A u \in Threads : pc[u] \notin InFlush
    BY <1>2, <2>1, DumpAssumption DEF Ring
  <2>3. pc'[t] = "flush" /\ \A u \in Threads : u # t => pc'[u] \notin InFlush
    BY <2>1, <2>2 DEF TypeOK
  <2>4. \A u \in Threads : pc'[u] \in InFlush => flushingLogs' = u
    BY <2>1, <2>3
  <2>5. \A u \in Threads : pc'[u] \notin InFlush => pos'[u] = 0
    BY <2>1, <2>2 DEF Ring
  <2>6. \A k \in Slots : due'[k] # "none" => status'[k] \in {"DIRTY", "FLUSHING"}
    BY <2>1 DEF Ring
  <2> QED BY <2>2, <2>4, <2>5, <2>6 DEF Ring
<1>3. CASE TryLock(t) /\ flushingLogs # NoThread
  <2>1. UNCHANGED <<status, due, pos, flushingLogs>> /\ LeaveFlush(t, "wait") /\ pc[t] = "trylock"
    BY <1>3 DEF TryLock
  <2>2. PICK l \in {"wait", "timer", "idle"} : pc' = [pc EXCEPT ![t] = l]
    BY <2>1, LeaveFacts
  <2>3. \A u \in Threads : u # t => my'[u] = my[u]
    <3>1. my' = my \/ my' = [my EXCEPT ![t] = 0]
      BY <2>1, LeaveFacts
    <3> QED BY <3>1 DEF TypeOK
  <2>4. pos[t] = 0
    BY <2>1 DEF Ring, InFlush
  <2>5. pc'[t] \notin InFlush /\ \A u \in Threads : u # t => pc'[u] = pc[u]
    BY <2>2 DEF TypeOK, InFlush
  <2>6. \A u \in Threads : \/ pc'[u] = pc[u] /\ my'[u] = my[u] /\ pos'[u] = pos[u]
                           \/ pc'[u] \notin InFlush /\ pos'[u] = 0
    BY <2>1, <2>3, <2>4, <2>5
  <2> QED BY <2>1, <2>6, RingQuiet
<1>4. CASE FlushElem(t)
  <2>1. pc[t] = "flush" /\ UNCHANGED <<due, flushingLogs, my>>
    BY <1>4 DEF FlushElem
  <2>2. flushingLogs = t /\ \A k \in Slots : status[k] # "FLUSHING"
    BY <2>1, NoneFlushing
  <2>3. \A u \in Threads : u # t => pc[u] \notin InFlush
    BY <2>2 DEF Ring
  <2>4. CASE status[FlushSlot(t)] = "DIRTY"
    <3>1. /\ status' = [status EXCEPT ![FlushSlot(t)] = "FLUSHING"]
          /\ pc' = [pc EXCEPT ![t] = "flushing"] /\ UNCHANGED pos
      BY <1>4, <2>4 DEF FlushElem
    <3>2. PICK k \in Slots : k = FlushSlot(t)
      BY <1>0
    <3>3. FlushSlot(t)' = k
      BY <2>1, <3>1, <3>2 DEF FlushSlot
    <3>4. \A j \in Slots : status'[j] = "FLUSHING" => j = k
      BY <2>2, <3>1, <3>2 DEF TypeOK
    <3>5. pc'[t] = "flushing" /\ \A u \in Threads : u # t => pc'[u] = pc[u]
      BY <3>1 DEF TypeOK
    <3>6. flushingLogs' = t /\ t # NoThread /\ FlushSlot(flushingLogs)' = k
      BY <2>1, <2>2, <3>3, DumpAssumption DEF FlushSlot
    <3>7. \A j \in Slots : due'[j] # "none" => status'[j] \in {"DIRTY", "FLUSHING"}
      <4>1. \A j \in Slots : due[j] # "none" => status[j] \in {"DIRTY", "FLUSHING"}
        BY DEF Ring
      <4> QED BY <2>1, <3>1, <3>2, <4>1 DEF TypeOK
    <3>8. \A u \in Threads : pc'[u] \in InFlush => flushingLogs' = u
      BY <2>3, <3>5, <3>6
    <3>9. \A u \in Threads : pc'[u] \notin InFlush => pos'[u] = 0
      BY <3>1, <3>5 DEF Ring, InFlush
    <3>10. \A j \in Slots : status'[j] = "FLUSHING" =>
             /\ flushingLogs' # NoThread
             /\ pc'[flushingLogs'] = "flushing" /\ j = FlushSlot(flushingLogs)'
      BY <3>4, <3>5, <3>6
    <3> QED BY <3>7, <3>8, <3>9, <3>10 DEF Ring
  <2>5. CASE status[FlushSlot(t)] # "DIRTY"
    <3>1. pos' = [pos EXCEPT ![t] = @ + 1] /\ UNCHANGED <<status, pc>>
      BY <1>4, <2>5 DEF FlushElem
    <3>2. \A u \in Threads : u # t => pos'[u] = pos[u]
      BY <3>1 DEF TypeOK
    <3>3. \A u \in Threads : pc'[u] \in InFlush => flushingLogs' = u
      BY <2>1, <3>1 DEF Ring
    <3>4. \A u \in Threads : pc'[u] \notin InFlush => pos'[u] = 0
      BY <2>1, <3>1, <3>2 DEF Ring, InFlush
    <3>5. \A k \in Slots : due'[k] # "none" => status'[k] \in {"DIRTY", "FLUSHING"}
      BY <2>1, <3>1 DEF Ring
    <3>6. \A k \in Slots : status'[k] # "FLUSHING"
      BY <2>2, <3>1
    <3> QED BY <3>3, <3>4, <3>5, <3>6 DEF Ring
  <2> QED BY <2>4, <2>5
<1>5. CASE FlushElemEnd(t)
  <2>1. /\ pc[t] = "flushing" /\ UNCHANGED <<flushingLogs, my>>
        /\ status' = [status EXCEPT ![FlushSlot(t)] = "CLEAN"]
        /\ due' = [due EXCEPT ![FlushSlot(t)] = "none"]
        /\ pos' = [pos EXCEPT ![t] = @ + 1] /\ pc' = [pc EXCEPT ![t] = "flush"]
    BY <1>5 DEF FlushElemEnd
  <2>0. PICK s, d : s = "CLEAN" /\ d = "none"
    OBVIOUS
  <2>2. PICK k \in Slots : k = FlushSlot(t) /\ s = "CLEAN" /\ d = "none"
    BY <1>0, <2>0
  <2>3. status' = [status EXCEPT ![k] = s] /\ due' = [due EXCEPT ![k] = d]
    BY <2>1, <2>2
  <2>4. s # "FLUSHING" /\ (d # "none" => s \in {"DIRTY", "FLUSHING"})
    BY <2>2
  <2>5. \A u \in Threads : u # t => pc'[u] = pc[u] /\ my'[u] = my[u] /\ pos'[u] = pos[u]
    BY <2>1 DEF TypeOK
  <2>6. pc'[t] = "flush" /\ pc[t] = "flushing" /\ k = FlushSlot(t)
    BY <2>1, <2>2 DEF TypeOK
  <2>7. flushingLogs' = flushingLogs
    BY <2>1
  <2> QED BY <2>3, <2>4, <2>5, <2>6, <2>7, RingSlot
<1>6. CASE FlushEnd(t)
  <2>1. /\ pc[t] = "flush" /\ UNCHANGED <<status, due>> /\ LeaveFlush(t, "write")
        /\ pos' = [pos EXCEPT ![t] = 0] /\ flushingLogs' = NoThread
    BY <1>6 DEF FlushEnd
  <2>2. flushingLogs = t /\ \A k \in Slots : status[k] # "FLUSHING"
    BY <2>1, NoneFlushing
  <2>3. PICK l \in {"write", "timer", "idle"} : pc' = [pc EXCEPT ![t] = l]
    BY <2>1, LeaveFacts
  <2>4. /\ pc'[t] \notin InFlush /\ pos'[t] = 0
        /\ \A u \in Threads : u # t => pc'[u] = pc[u] /\ pos'[u] = pos[u]
    BY <2>1, <2>3 DEF TypeOK, InFlush
  <2>5. \A u \in Threads : u # t => pc[u] \notin InFlush
    BY <2>2 DEF Ring
  <2>6. \A u \in Threads : pc'[u] \notin InFlush
    BY <2>4, <2>5
  <2>7. \A u \in Threads : pc'[u] \notin InFlush => pos'[u] = 0
    BY <2>4 DEF Ring
  <2>8. /\ \A k \in Slots : due'[k] # "none" => status'[k] \in {"DIRTY", "FLUSHING"}
        /\ \A k \in Slots : status'[k] # "FLUSHING"
    BY <2>1, <2>2 DEF Ring
  <2> QED BY <2>6, <2>7, <2>8 DEF Ring
<1> QED BY <1>1, <1>2, <1>3, <1>4, <1>5, <1>6 DEF FlushStep

\* The handlers keep the ring.
LEMMA RingHandler ==
  ASSUME TypeOK, Places, Ring, NEW t \in App,
         \/ HandlerStep(t) \/ TraceStep(t) \/ EnableOnlyOneDisplayer(t)
         \/ StackInterpret(t) \/ \E s \in Signals : Crash(t, s)
  PROVE  Ring'
<1> USE DEF ringVars, putVars, lockVars, crashVars, traceVars, dumpVars, Goto, GotoAt, Announce
<1>0. t \in Threads /\ Place(t)
  BY DEF Threads, Places
<1>1. CASE \E s \in Signals : Crash(t, s)
  <2>1. UNCHANGED <<status, due, flushingLogs>>
    BY <1>1 DEF Crash
  <2>2. CASE UNCHANGED <<pc, my, pos>>
    BY <2>1, <2>2, RingQuiet
  <2>3. CASE /\ pc' = [pc EXCEPT ![t] = "idle"]
             /\ my' = [my EXCEPT ![t] = 0] /\ pos' = [pos EXCEPT ![t] = 0]
    <3>1. pc'[t] \notin InFlush /\ pos'[t] = 0
      BY <1>0, <2>3 DEF TypeOK, InFlush
    <3>2. \A u \in Threads : u # t => pc'[u] = pc[u] /\ my'[u] = my[u] /\ pos'[u] = pos[u]
      BY <2>3 DEF TypeOK
    <3> QED BY <2>1, <3>1, <3>2, RingQuiet
  <2> QED BY <1>1, <2>2, <2>3 DEF Crash
<1>2. CASE ~\E s \in Signals : Crash(t, s)
  <2>1. UNCHANGED <<status, due, flushingLogs, my, pos>>
    BY <1>2 DEF HandlerStep, TraceStep, EnableOnlyOneDisplayer, StackInterpret, HandleSignal,
       SetAbortTimer, AddRawStackInfo, OtherThreads, LockActiveThreads, AskThread, Suspend,
       AllAsked, FlushRawStacks, Flushed, Exit, DeliverUsr2, TracePush, TraceReply
  <2>2. \/ UNCHANGED pc
        \/ pc' = [pc EXCEPT ![t] = "lock"] /\ at[t] \in Between
    BY <1>2 DEF HandlerStep, TraceStep, EnableOnlyOneDisplayer, StackInterpret, HandleSignal,
       SetAbortTimer, AddRawStackInfo, OtherThreads, LockActiveThreads, AskThread, Suspend,
       AllAsked, FlushRawStacks, Flushed, Exit, DeliverUsr2, TracePush, TraceReply, Between
  <2>3. CASE UNCHANGED pc
    BY <2>1, <2>3, RingQuiet
  <2>4. CASE pc' = [pc EXCEPT ![t] = "lock"] /\ at[t] \in Between
    <3>1. pc[t] = "idle"
      BY <1>0, <2>4 DEF Place
    <3>2. pos'[t] = 0 /\ pc'[t] \notin InFlush
      BY <1>0, <2>1, <2>4, <3>1 DEF Ring, InFlush, TypeOK
    <3>3. \A u \in Threads : u # t => pc'[u] = pc[u] /\ my'[u] = my[u] /\ pos'[u] = pos[u]
      BY <2>1, <2>4 DEF TypeOK
    <3> QED BY <2>1, <3>2, <3>3, RingQuiet
  <2> QED BY <2>2, <2>3, <2>4
<1> QED BY <1>1, <1>2
-----------------------------------------------------------------------------
\* A step that puts nothing into the ring that thread u has to flush, and that
\* leaves u where it is, or takes it out of its walk with nothing to claim.
LEMMA BehindFrame ==
  ASSUME TypeOK, NEW u \in App, Behind(u),
         at'[u] # "none" =>
           \/ /\ \A k \in Slots : Clear(u, k) => Clear(u, k)'
              /\ at[u] # "none" /\ pc'[u] = pc[u] /\ sweep'[u] = sweep[u]
              /\ my'[u] = my[u] /\ pos'[u] = pos[u] /\ flushed'[u] = flushed[u]
           \/ pc'[u] \notin InFlush /\ (pc'[u] = "idle" => ~flushed'[u])
  PROVE  Behind(u)'
<1>1. u \in Threads /\ my[u] \in Slots /\ pos[u] \in 0 .. N /\ N \in Nat
  BY DumpAssumption DEF TypeOK, Threads
<1>2. CASE at'[u] = "none"
  BY <1>2 DEF Behind
<1>3. CASE pc'[u] \notin InFlush /\ (pc'[u] = "idle" => ~flushed'[u])
  BY <1>3 DEF Behind
<1>4. CASE /\ \A k \in Slots : Clear(u, k) => Clear(u, k)'
           /\ at[u] # "none" /\ pc'[u] = pc[u] /\ sweep'[u] = sweep[u]
           /\ my'[u] = my[u] /\ pos'[u] = pos[u] /\ flushed'[u] = flushed[u]
  <2>1. ASSUME sweep'[u], pc'[u] \in InFlush, NEW i \in 0 .. pos'[u] - 1
        PROVE  Clear(u, (my[u] + i) % N)'
    <3>1. i \in 0 .. pos[u] - 1 /\ Clear(u, (my[u] + i) % N)
      BY <1>4, <2>1 DEF Behind
    <3>2. (my[u] + i) % N \in Slots
      BY <1>1, <3>1, SlotFacts
    <3>3. PICK k \in Slots : k = (my[u] + i) % N /\ k = (my'[u] + i) % N
      BY <1>4, <3>2
    <3>4. Clear(u, k)'
      BY <1>4, <3>1, <3>3
    <3> QED BY <1>4, <3>3, <3>4 DEF Clear
  <2>2. ASSUME flushed'[u], pc'[u] = "idle", NEW k \in Slots
        PROVE  Clear(u, k)'
    BY <1>4, <2>2 DEF Behind
  <2> QED BY <2>1, <2>2 DEF Behind
<1> QED BY <1>2, <1>3, <1>4

\* put() writes nothing that another thread has to flush.
LEMMA FlushingPut ==
  ASSUME TypeOK, Places, Flushing, NEW t \in App,
         PutBegin(t) \/ PutStep(t) \/ RemoveThread(t)
  PROVE  Flushing'
<1> USE DEF ringVars, putVars, lockVars, crashVars, traceVars, dumpVars, Goto
<1>0. t \in Threads /\ Place(t) /\ my[t] \in Slots /\ \A u \in App : u \in Threads
  BY DEF Threads, Places, TypeOK
<1>1. UNCHANGED <<at, flushed, sweep, pos>>
  BY DEF PutBegin, PutStep, AddThread, Claim, TestSlot, WriteBegin, WriteEnd, RemoveThread
<1>2. \A u \in Threads : u # t => pc'[u] = pc[u] /\ my'[u] = my[u]
  BY DEF PutBegin, PutStep, AddThread, Claim, TestSlot, WriteBegin, WriteEnd, RemoveThread,
         TypeOK
<1>3. at[t] # "none" => pc'[t] \in {"claim", "avail", "check", "trylock", "write", "writing",
                                   "flushAll"}
  BY <1>0 DEF PutBegin, PutStep, AddThread, Claim, TestSlot, WriteBegin, WriteEnd, RemoveThread,
         AfterPut, TypeOK
<1>4. ASSUME NEW u \in App, u # t, at[u] # "none", NEW k \in Slots, Clear(u, k)
      PROVE  Clear(u, k)'
  <2>1. CASE due' = due
    BY <1>4, <2>1 DEF Clear
  <2>2. CASE due' = [due EXCEPT ![my[t]] = DueFor(t)]
    <3>1. DueFor(t) \notin {"before", u}
      BY <1>4, DumpAssumption DEF DueFor, Crashed
    <3> QED BY <1>4, <2>2, <3>1 DEF Clear, TypeOK
  <2> QED BY <2>1, <2>2 DEF PutBegin, PutStep, AddThread, Claim, TestSlot, WriteBegin, WriteEnd,
                             RemoveThread
<1>5. ASSUME NEW u \in App PROVE Behind(u)'
  <2>1. Behind(u)
    BY DEF Flushing
  <2>2. CASE u = t
    <3>1. at'[u] # "none" => pc'[u] \notin InFlush /\ pc'[u] # "idle"
      BY <1>1, <1>3, <2>2 DEF InFlush
    <3> QED BY <2>1, <3>1, BehindFrame
  <2>3. CASE u # t
    <3>1. at'[u] # "none" =>
            /\ \A k \in Slots : Clear(u, k) => Clear(u, k)'
            /\ at[u] # "none" /\ pc'[u] = pc[u] /\ sweep'[u] = sweep[u]
            /\ my'[u] = my[u] /\ pos'[u] = pos[u] /\ flushed'[u] = flushed[u]
      BY <1>0, <1>1, <1>2, <1>4, <2>3
    <3> QED BY <2>1, <3>1, BehindFrame
  <2> QED BY <2>2, <2>3
<1> QED BY <1>5 DEF Flushing

\* A handler that walks leaves nothing behind.
LEMMA BehindWalk ==
  ASSUME TypeOK, Ring, NEW t \in App, Behind(t), FlushElem(t) \/ FlushElemEnd(t)
  PROVE  Behind(t)'
<1> USE DEF ringVars, putVars, lockVars, crashVars, traceVars, dumpVars, Goto
<1>0. /\ t \in Threads /\ my[t] \in Slots /\ pos[t] \in 0 .. N /\ N \in Nat
      /\ FlushSlot(t) \in Slots
  BY SlotFacts, DumpAssumption DEF TypeOK, Threads, FlushSlot
<1>1. /\ pc[t] \in InFlush /\ UNCHANGED <<at, my, sweep>>
      /\ pos'[t] \in {pos[t], pos[t] + 1} /\ pc'[t] # "idle"
  <2>1. CASE FlushElem(t)
    BY <1>0, <2>1 DEF FlushElem, InFlush, TypeOK
  <2>2. CASE FlushElemEnd(t)
    BY <1>0, <2>2 DEF FlushElemEnd, InFlush, TypeOK
  <2> QED BY <2>1, <2>2
<1>2. PICK f \in Slots : f = FlushSlot(t)
  BY <1>0
<1>3. /\ pos'[t] = pos[t] + 1 => Clear(t, f)'
      /\ \A k \in Slots : Clear(t, k) => Clear(t, k)'
  <2>1. CASE FlushElem(t)
    <3>1. due' = due /\ pc[t] = "flush"
      BY <2>1 DEF FlushElem
    <3>2. ASSUME pos'[t] = pos[t] + 1 PROVE due[f] = "none"
      <4>1. status[f] # "DIRTY"
        BY <1>0, <1>2, <2>1, <3>2 DEF FlushElem
      <4>2. status[f] # "FLUSHING"
        BY <1>0, <3>1, NoneFlushing
      <4> QED BY <4>1, <4>2 DEF Ring
    <3> QED BY <3>1, <3>2, DumpAssumption DEF Clear
  <2>2. CASE FlushElemEnd(t)
    <3>1. due' = [due EXCEPT ![f] = "none"]
      BY <1>2, <2>2 DEF FlushElemEnd
    <3>2. due'[f] = "none" /\ \A k \in Slots : due'[k] = due[k] \/ due'[k] = "none"
      BY <3>1 DEF TypeOK
    <3> QED BY <3>2, DumpAssumption DEF Clear
  <2> QED BY <2>1, <2>2
<1>4. ASSUME at'[t] # "none", sweep'[t], NEW i \in 0 .. pos'[t] - 1
      PROVE  Clear(t, (my[t] + i) % N)'
  <2>1. PICK k \in Slots : k = (my[t] + i) % N /\ k = (my'[t] + i) % N
    <3>1. (my[t] + i) % N \in Slots
      BY <1>0, <1>1, <1>4, SlotFacts
    <3> QED BY <1>1, <3>1
  <2>2. CASE i \in 0 .. pos[t] - 1
    <3>1. Clear(t, k)
      BY <1>1, <1>4, <2>1, <2>2 DEF Behind
    <3>2. Clear(t, k)'
      BY <1>3, <3>1
    <3> QED BY <2>1, <3>2 DEF Clear
  <2>3. CASE i \notin 0 .. pos[t] - 1
    <3>1. i = pos[t] /\ pos'[t] = pos[t] + 1
      BY <1>0, <1>1, <1>4, <2>3
    <3>2. k = f
      BY <1>2, <2>1, <3>1 DEF FlushSlot
    <3> QED BY <1>3, <2>1, <3>1, <3>2 DEF Clear
  <2> QED BY <2>2, <2>3
<1>5. at'[t] # "none" /\ sweep'[t] => \A i \in 0 .. pos'[t] - 1 : due'[(my'[t] + i) % N] \notin {"before", t}
  BY <1>4 DEF Clear
<1> QED BY <1>1, <1>5 DEF Behind, Clear

\* flush() leaves nothing behind, whoever walks.
LEMMA FlushingFlush ==
  ASSUME TypeOK, Places, Ring, Flushing, Locked, NEW t \in Threads,
         FlushStep(t) \/ LockLoggers(t) \/ (t = Flusher /\ CheckTimer)
  PROVE  Flushing'
<1> USE DEF ringVars, putVars, lockVars, crashVars, traceVars, dumpVars, Goto
<1>0. my[t] \in Slots /\ FlushSlot(t) \in Slots /\ \A u \in App : u \in Threads
  <2>1. my[t] \in Slots /\ pos[t] \in Nat
    BY DumpAssumption DEF TypeOK
  <2>2. FlushSlot(t) \in Slots
    BY <2>1, SlotFacts DEF FlushSlot
  <2> QED BY <2>1, <2>2 DEF Threads
<1>1. \A u \in Threads : u # t =>
        /\ at'[u] = at[u] /\ pc'[u] = pc[u] /\ sweep'[u] = sweep[u]
        /\ my'[u] = my[u] /\ pos'[u] = pos[u] /\ flushed'[u] = flushed[u]
  <2>1. CASE TryLock(t) /\ flushingLogs = NoThread
    BY <2>1 DEF TryLock, TypeOK
  <2>2. CASE TryLock(t) /\ flushingLogs # NoThread
    <3>1. LeaveFlush(t, "wait")
      BY <2>2 DEF TryLock
    <3>2. pos' = pos /\ \A u \in Threads : u # t => flushed'[u] = flushed[u]
      BY <2>2 DEF TryLock, TypeOK
    <3>3. PICK l, a : pc' = [pc EXCEPT ![t] = l] /\ (at' = at \/ at' = [at EXCEPT ![t] = a])
      BY <3>1, LeaveFacts
    <3>4. /\ my' = my \/ my' = [my EXCEPT ![t] = 0]
          /\ sweep' = sweep \/ sweep' = [sweep EXCEPT ![t] = FALSE]
      BY <3>1, LeaveFacts
    <3> QED BY <3>2, <3>3, <3>4 DEF TypeOK
  <2>3. CASE FlushEnd(t)
    <3>1. LeaveFlush(t, "write")
      BY <2>3 DEF FlushEnd
    <3>2. flushed' = flushed /\ \A u \in Threads : u # t => pos'[u] = pos[u]
      BY <2>3 DEF FlushEnd, TypeOK
    <3>3. PICK l, a : pc' = [pc EXCEPT ![t] = l] /\ (at' = at \/ at' = [at EXCEPT ![t] = a])
      BY <3>1, LeaveFacts
    <3>4. /\ my' = my \/ my' = [my EXCEPT ![t] = 0]
          /\ sweep' = sweep \/ sweep' = [sweep EXCEPT ![t] = FALSE]
      BY <3>1, LeaveFacts
    <3> QED BY <3>2, <3>3, <3>4 DEF TypeOK
  <2>4. CASE FlushElem(t) \/ FlushElemEnd(t)
    BY <2>4 DEF FlushElem, FlushElemEnd, TypeOK
  <2>5. CASE FlushAll(t) \/ LockLoggers(t) \/ (t = Flusher /\ CheckTimer)
    BY <2>5 DEF FlushAll, LockLoggers, CheckTimer, TypeOK
  <2> QED BY <2>1, <2>2, <2>3, <2>4, <2>5 DEF FlushStep
<1>2. \A k \in Slots : due'[k] = due[k] \/ due'[k] = "none"
  <2>1. due' = due \/ due' = [due EXCEPT ![FlushSlot(t)] = "none"]
    BY DEF FlushStep, TryLock, FlushElem, FlushElemEnd, FlushEnd, FlushAll, LockLoggers,
           CheckTimer
  <2> QED BY <1>0, <2>1 DEF TypeOK
<1>3. \A u \in App, k \in Slots : Clear(u, k) => Clear(u, k)'
  BY <1>2, DumpAssumption DEF Clear
<1>4. ASSUME NEW u \in App, u # t PROVE Behind(u)'
  <2>1. at'[u] # "none" =>
          /\ \A k \in Slots : Clear(u, k) => Clear(u, k)'
          /\ at[u] # "none" /\ pc'[u] = pc[u] /\ sweep'[u] = sweep[u]
          /\ my'[u] = my[u] /\ pos'[u] = pos[u] /\ flushed'[u] = flushed[u]
    BY <1>0, <1>1, <1>3, <1>4
  <2> QED BY <2>1, BehindFrame DEF Flushing
<1>5. ASSUME t \in App PROVE Behind(t)'
  <2>0. Behind(t) /\ t # Flusher
    BY <1>5, DumpAssumption DEF Flushing
  <2>1. CASE TryLock(t) /\ flushingLogs = NoThread
    <3>1. pc[t] = "trylock" /\ pc' = [pc EXCEPT ![t] = "flush"] /\ pos' = pos
      BY <2>1 DEF TryLock
    <3>2. pc'[t] = "flush" /\ pos'[t] = 0
      BY <3>1 DEF Ring, InFlush, TypeOK
    <3>3. 0 .. pos'[t] - 1 = {}
      BY <3>2
    <3> QED BY <3>2, <3>3 DEF Behind
  <2>2. CASE TryLock(t) /\ flushingLogs # NoThread
    <3>1. LeaveFlush(t, "wait")
      BY <2>2 DEF TryLock
    <3>2. ~flushed'[t]
      BY <1>5, <2>2, FlusherOut DEF TryLock, TypeOK
    <3>3. PICK l \in {"wait", "timer", "idle"} : pc' = [pc EXCEPT ![t] = l]
      BY <3>1, LeaveFacts
    <3>4. pc'[t] \notin InFlush
      BY <3>3 DEF InFlush, TypeOK
    <3> QED BY <1>5, <2>0, <3>2, <3>4, BehindFrame
  <2>3. CASE FlushElem(t) \/ FlushElemEnd(t)
    BY <1>5, <2>0, <2>3, BehindWalk
  <2>4. CASE FlushEnd(t)
    <3>1. pc[t] = "flush" /\ pos[t] = N /\ LeaveFlush(t, "write") /\ due' = due
      BY <2>4 DEF FlushEnd, Walked
    <3>2. CASE ~sweep[t]
      <4>1. pc' = [pc EXCEPT ![t] = "write"]
        BY <3>1, <3>2, LeaveFacts
      <4>2. pc'[t] \notin InFlush /\ pc'[t] # "idle"
        BY <4>1 DEF InFlush, TypeOK
      <4> QED BY <1>5, <2>0, <4>2, BehindFrame
    <3>3. CASE sweep[t]
      <4>1. at[t] # "none" /\ pc' = [pc EXCEPT ![t] = "idle"]
        BY <2>0, <3>1, <3>3, LeaveFacts, ThreadFacts DEF Messages
      <4>2. pc'[t] \notin InFlush
        BY <4>1 DEF InFlush, TypeOK
      <4>3. ASSUME NEW k \in Slots PROVE Clear(t, k)'
        <5>1. PICK i \in 0 .. N - 1 : (my[t] + i) % N = k
          BY <1>0, WalkMeetsAll
        <5>2. Clear(t, (my[t] + i) % N)
          BY <2>0, <3>1, <3>3, <4>1 DEF Behind, InFlush
        <5> QED BY <3>1, <5>1, <5>2 DEF Clear
      <4> QED BY <4>2, <4>3 DEF Behind
    <3> QED BY <3>2, <3>3
  <2>5. CASE FlushAll(t) \/ LockLoggers(t)
    <3>1. EnterPut(t) \notin InFlush /\ EnterPut(t) # "idle"
      BY DEF EnterPut, InFlush
    <3>2. pc'[t] \notin InFlush /\ pc'[t] # "idle"
      BY <2>5, <3>1 DEF FlushAll, LockLoggers, InFlush, TypeOK
    <3> QED BY <1>5, <2>0, <3>2, BehindFrame
  <2> QED BY <2>0, <2>1, <2>2, <2>3, <2>4, <2>5 DEF FlushStep
<1> QED BY <1>4, <1>5 DEF Flushing

\* The handlers write nothing, and begin with nothing to claim.
LEMMA FlushingHandler ==
  ASSUME TypeOK, Places, Flushing, NEW t \in App,
         \/ HandlerStep(t) \/ TraceStep(t) \/ EnableOnlyOneDisplayer(t)
         \/ StackInterpret(t) \/ \E s \in Signals : Crash(t, s)
  PROVE  Flushing'
<1> USE DEF ringVars, putVars, lockVars, crashVars, traceVars, dumpVars, Goto, GotoAt, Announce
<1>0. t \in Threads /\ Place(t) /\ \A u \in App : u \in Threads
  BY DEF Threads, Places
<1>1. UNCHANGED <<due, sweep, flushed>>
  BY DEF HandlerStep, TraceStep, EnableOnlyOneDisplayer, StackInterpret, HandleSignal,
     SetAbortTimer, AddRawStackInfo, OtherThreads, LockActiveThreads, AskThread, Suspend,
     AllAsked, FlushRawStacks, Flushed, Exit, DeliverUsr2, TracePush, TraceReply, Crash
<1>2. \/ UNCHANGED <<at, pc, my, pos>>
      \/ \E a : at[t] # "none" /\ at' = [at EXCEPT ![t] = a] /\ UNCHANGED <<pc, my, pos>>
      \/ \E a : at' = [at EXCEPT ![t] = a] /\ pc' = [pc EXCEPT ![t] = "lock"]
                /\ UNCHANGED <<my, pos>>
      \/ /\ at[t] = "none" /\ at' = [at EXCEPT ![t] = "signal"]
         /\ pc' = [pc EXCEPT ![t] = "idle"]
         /\ my' = [my EXCEPT ![t] = 0] /\ pos' = [pos EXCEPT ![t] = 0]
  <2>1. CASE \E s \in Signals : Crash(t, s)
    BY <2>1 DEF Crash
  <2>2. CASE TraceStep(t)
    <3>1. CASE DeliverUsr2(t) /\ t = crashOriginThread
      <4>1. PICK a : /\ a = IF at[t] = "suspended" THEN "kill" ELSE at[t]
                     /\ at' = [at EXCEPT ![t] = a] /\ UNCHANGED <<pc, my, pos>>
        BY <3>1 DEF DeliverUsr2
      <4>2. CASE at[t] # "none"
        BY <4>1, <4>2
      <4>3. CASE at[t] = "none"
        <5>1. at' = at
          BY <1>0, <4>1, <4>3 DEF TypeOK
        <5> QED BY <4>1, <5>1
      <4> QED BY <4>2, <4>3
    <3>2. CASE DeliverUsr2(t) /\ t # crashOriginThread
      BY <3>2 DEF DeliverUsr2
    <3>3. CASE TracePush(t) \/ TraceReply(t)
      BY <3>3 DEF TracePush, TraceReply
    <3> QED BY <2>2, <3>1, <3>2, <3>3 DEF TraceStep
  <2>3. CASE HandlerStep(t) \/ EnableOnlyOneDisplayer(t) \/ StackInterpret(t)
    BY <2>3 DEF HandlerStep, EnableOnlyOneDisplayer, StackInterpret, HandleSignal,
       SetAbortTimer, AddRawStackInfo, OtherThreads, LockActiveThreads, AskThread, Suspend,
       AllAsked, FlushRawStacks, Flushed, Exit
  <2> QED BY <2>1, <2>2, <2>3
<1>3. \A u \in App, k \in Slots : Clear(u, k) => Clear(u, k)'
  BY <1>1 DEF Clear
<1>4. \A u \in App : u # t =>
        at'[u] = at[u] /\ pc'[u] = pc[u] /\ my'[u] = my[u] /\ pos'[u] = pos[u]
  BY <1>0, <1>2 DEF TypeOK
<1>5. at'[t] # "none" =>
        \/ at[t] # "none" /\ pc'[t] = pc[t] /\ my'[t] = my[t] /\ pos'[t] = pos[t]
        \/ pc'[t] = "lock"
        \/ pc'[t] = "idle" /\ at[t] = "none"
  BY <1>0, <1>2 DEF TypeOK
<1>6. at[t] = "none" => ~flushed'[t]
  BY <1>0, <1>1 DEF Place
<1>7. ASSUME NEW u \in App PROVE Behind(u)'
  <2>1. Behind(u)
    BY DEF Flushing
  <2>2. at'[u] # "none" =>
           \/ /\ \A k \in Slots : Clear(u, k) => Clear(u, k)'
              /\ at[u] # "none" /\ pc'[u] = pc[u] /\ sweep'[u] = sweep[u]
              /\ my'[u] = my[u] /\ pos'[u] = pos[u] /\ flushed'[u] = flushed[u]
           \/ pc'[u] \notin InFlush /\ (pc'[u] = "idle" => ~flushed'[u])
    <3>1. CASE u = t
      BY <1>1, <1>3, <1>5, <1>6, <3>1 DEF InFlush
    <3>2. CASE u # t
      BY <1>1, <1>3, <1>4, <3>2
    <3> QED BY <3>1, <3>2
  <2> QED BY <2>1, <2>2, BehindFrame
<1> QED BY <1>7 DEF Flushing
-----------------------------------------------------------------------------
\* The holder of loggersLock: put().
LEMMA LockedPut ==
  ASSUME TypeOK, Places, Locked, NEW t \in App,
         PutBegin(t) \/ PutStep(t) \/ RemoveThread(t)
  PROVE  Locked'
<1> USE DEF ringVars, putVars, lockVars, crashVars, traceVars, dumpVars, Goto
<1>1. t \in Threads /\ Flusher \in Threads /\ App \subseteq Threads /\ t # Flusher
  BY DumpAssumption DEF Threads
<1>2. UNCHANGED <<at, loggersLock, flushingLogs>>
  BY DEF PutBegin, PutStep, RemoveThread, AddThread, Claim, TestSlot, WriteBegin, WriteEnd
<1>3. PICK l : pc' = [pc EXCEPT ![t] = l]
  BY DEF PutBegin, PutStep, RemoveThread, AddThread, Claim, TestSlot, WriteBegin, WriteEnd
<1>4. at[t] \in Messages => pc[t] # "lock"
  BY DEF PutBegin, PutStep, RemoveThread, AddThread, Claim, TestSlot, WriteBegin, WriteEnd
<1>5. pc'[Flusher] = pc[Flusher] /\ \A u \in App : u # t => pc'[u] = pc[u]
  BY <1>1, <1>3 DEF TypeOK
<1> QED BY <1>2, <1>4, <1>5 DEF Locked

\* ... flush() and flushAllLoggers(), which takes it, of whichever thread.
LEMMA LockedFlush ==
  ASSUME TypeOK, Places, Ring, Locked, NEW t \in Threads,
         FlushStep(t) \/ LockLoggers(t) \/ (t = Flusher /\ CheckTimer)
  PROVE  Locked'
<1> USE DEF ringVars, putVars, lockVars, crashVars, traceVars, dumpVars, Goto
<1>1. /\ Flusher \in Threads /\ App \subseteq Threads /\ Flusher \notin App
      /\ NoThread \notin Threads /\ (t \in App \/ t = Flusher)
  BY DumpAssumption DEF Threads
<1>2. CASE FlushAll(t) \/ FlushElem(t) \/ FlushElemEnd(t) \/ (t = Flusher /\ CheckTimer)
  <2>1. UNCHANGED <<at, loggersLock, flushingLogs>>
    BY <1>2 DEF FlushAll, FlushElem, FlushElemEnd, CheckTimer
  <2>2. PICK l : /\ pc' = [pc EXCEPT ![t] = l]
                 /\ l \in {"trylock"} \cup InFlush \/ (t = Flusher /\ l = "lock")
                 /\ pc[t] # "lock"
                 /\ pc[t] \in InFlush => l \in InFlush
                 /\ t = Flusher /\ l # "lock" => pc[t] \in {"flushAll"} \cup InFlush
                 /\ l = "lock" => pc[t] = "timer"
    BY <1>2 DEF FlushAll, FlushElem, FlushElemEnd, CheckTimer, InFlush, TypeOK
  <2>3. pc'[t] = l /\ \A u \in Threads : u # t => pc'[u] = pc[u]
    BY <2>2 DEF TypeOK
  <2> QED BY <1>1, <2>1, <2>2, <2>3 DEF Locked, InFlush
<1>3. CASE LockLoggers(t)
  <2>1. /\ UNCHANGED <<at, flushingLogs>> /\ loggersLock = NoThread /\ loggersLock' = t
        /\ pc[t] = "lock"
    BY <1>3 DEF LockLoggers
  <2>2. PICK l \in {"flushAll", "wrapper", "claim"} : pc' = [pc EXCEPT ![t] = l]
    BY <1>3 DEF LockLoggers, EnterPut
  <2>3. pc'[t] = l /\ \A u \in Threads : u # t => pc'[u] = pc[u]
    BY <2>2 DEF TypeOK
  <2> QED BY <1>1, <2>1, <2>2, <2>3 DEF Locked, InFlush
<1>4. CASE TryLock(t) /\ flushingLogs = NoThread
  <2>1. /\ UNCHANGED <<at, loggersLock>> /\ flushingLogs' = t /\ pc[t] = "trylock"
        /\ pc' = [pc EXCEPT ![t] = "flush"]
    BY <1>4 DEF TryLock
  <2>2. pc'[t] = "flush" /\ \A u \in Threads : u # t => pc'[u] = pc[u]
    BY <2>1 DEF TypeOK
  <2> QED BY <1>1, <2>1, <2>2 DEF Locked, InFlush
<1>5. ASSUME NEW l \in {"wait", "write"}, LeaveFlush(t, l),
             pc[t] \in {"trylock", "flush"},
             flushingLogs' = flushingLogs \/ (flushingLogs' = NoThread),
             flushingLogs = Flusher => flushingLogs' = NoThread \/ pc[t] = "trylock"
      PROVE  Locked'
  <2>1. CASE ~sweep[t]
    <3>1. UNCHANGED <<at, loggersLock>> /\ pc' = [pc EXCEPT ![t] = l]
      BY <1>5, <2>1, LeaveFacts
    <3>2. t # Flusher
      BY <1>5, <2>1 DEF Places, FlusherPlace, InFlush
    <3>3. pc'[Flusher] = pc[Flusher] /\ \A u \in App : u # t => pc'[u] = pc[u]
      BY <1>1, <3>1, <3>2 DEF TypeOK
    <3> QED BY <1>1, <1>5, <3>1, <3>2, <3>3 DEF Locked
  <2>2. CASE sweep[t] /\ t = Flusher
    <3>1. UNCHANGED at /\ pc' = [pc EXCEPT ![t] = "timer"] /\ loggersLock = t
      BY <1>1, <1>5, <2>2, LeaveFacts DEF Locked, InFlush
    <3>2. pc'[t] = "timer" /\ \A u \in Threads : u # t => pc'[u] = pc[u]
      BY <3>1 DEF TypeOK
    <3>3. flushingLogs' # Flusher
      BY <1>1, <1>5, <2>2 DEF Locked, InFlush
    <3> QED BY <1>1, <2>2, <3>1, <3>2, <3>3 DEF Locked, InFlush
  <2>3. CASE sweep[t] /\ t # Flusher
    <3>1. PICK f \in {"timer", "pushing", "kill", "raw", "interpret"} :
            at' = [at EXCEPT ![t] = f]
      BY <1>1, <2>3, <1>5, LeaveFacts
    <3>2. t \in App /\ pc' = [pc EXCEPT ![t] = "idle"] /\ at[t] \in Messages
      BY <1>1, <1>5, <2>3, LeaveFacts
    <3>3. loggersLock = t
      BY <1>5, <3>2 DEF Locked
    <3>4. /\ at'[t] \notin Messages /\ pc'[Flusher] = pc[Flusher]
          /\ \A u \in Threads : u # t => at'[u] = at[u] /\ pc'[u] = pc[u]
      BY <1>1, <2>3, <3>1, <3>2 DEF TypeOK, Messages
    <3> QED BY <1>1, <1>5, <2>3, <3>3, <3>4 DEF Locked
  <2> QED BY <2>1, <2>2, <2>3
<1>6. CASE TryLock(t) /\ flushingLogs # NoThread
  BY <1>5, <1>6 DEF TryLock
<1>7. CASE FlushEnd(t)
  BY <1>5, <1>7 DEF FlushEnd
<1> QED BY <1>2, <1>3, <1>4, <1>6, <1>7 DEF FlushStep

\* ... and the handlers, which come to a message before they ask for it.
LEMMA LockedHandler ==
  ASSUME TypeOK, Places, Locked, NEW t \in App,
         \/ HandlerStep(t) \/ TraceStep(t) \/ EnableOnlyOneDisplayer(t)
         \/ StackInterpret(t) \/ \E s \in Signals : Crash(t, s)
  PROVE  Locked'
<1> USE DEF ringVars, putVars, lockVars, crashVars, traceVars, dumpVars, Goto, GotoAt,
            Announce
<1>1. t \in Threads /\ Flusher \in Threads /\ App \subseteq Threads /\ t # Flusher
  BY DumpAssumption DEF Threads
<1>2. UNCHANGED <<loggersLock, flushingLogs>>
  BY DEF HandlerStep, TraceStep, HandleSignal, SetAbortTimer, AddRawStackInfo, OtherThreads,
         LockActiveThreads, AskThread, Suspend, AllAsked, FlushRawStacks, Flushed, Exit,
         DeliverUsr2, TracePush, TraceReply, EnableOnlyOneDisplayer, StackInterpret, Crash
<1>3. /\ \A u \in Threads : u # t => at'[u] = at[u] /\ pc'[u] = pc[u]
      /\ \/ at'[t] = at[t] /\ pc'[t] = pc[t]
         \/ at'[t] \notin Messages \/ pc'[t] = "lock"
  <2>1. CASE EnableOnlyOneDisplayer(t)
    <3>1. pc[t] = "lock"
      BY <2>1 DEF EnableOnlyOneDisplayer, Places, Place
    <3> QED BY <1>1, <2>1, <3>1 DEF EnableOnlyOneDisplayer, TypeOK
  <2>2. CASE \/ HandleSignal(t) \/ SetAbortTimer(t) \/ AddRawStackInfo(t)
             \/ OtherThreads(t) \/ LockActiveThreads(t)
    BY <1>1, <2>2 DEF HandleSignal, SetAbortTimer, AddRawStackInfo, OtherThreads,
                      LockActiveThreads, TypeOK, Messages
  <2>3. CASE \/ AskThread(t) \/ Suspend(t) \/ AllAsked(t) \/ FlushRawStacks(t)
             \/ Flushed(t) \/ Exit(t) \/ StackInterpret(t)
    BY <1>1, <2>3 DEF AskThread, Suspend, AllAsked, FlushRawStacks, Flushed, Exit,
                      StackInterpret, TypeOK, Messages
  <2>4. CASE TraceStep(t)
    BY <1>1, <2>4 DEF TraceStep, DeliverUsr2, TracePush, TraceReply, TypeOK, Messages
  <2>5. CASE \E s \in Signals : Crash(t, s)
    BY <1>1, <2>5 DEF Crash, TypeOK, Messages
  <2> QED BY <2>1, <2>2, <2>3, <2>4, <2>5 DEF HandlerStep
<1> QED BY <1>1, <1>2, <1>3 DEF Locked
-----------------------------------------------------------------------------
\* The invariant holds at first.
LEMMA DumpInit == Init => DumpInv
<1> SUFFICES ASSUME Init PROVE DumpInv
  OBVIOUS
<1> USE DumpAssumption DEF Init
<1>0. /\ Crashed = {} /\ Flusher \in Threads /\ App \subseteq Threads /\ 0 \in Slots
      /\ \A t \in App : t # Flusher
  BY DEF Crashed, Threads, Slots
<1>1. TypeOK
  <2>1. pc \in [Threads -> {"idle", "gone", "wrapper", "claim", "avail", "check", "trylock",
                         "wait", "write", "writing", "lock",
                         "flushAll", "flush", "flushing", "timer"}]
    OBVIOUS
  <2>2. at \in [Threads -> {"none", "signal", "displayer", "timer", "pushing", "others",
                         "active", "kill", "killed", "suspended", "raw", "interpret",
                         "printed"} \cup DOMAIN Following]
    OBVIOUS
  <2>3. /\ cursor \in Slots /\ my \in [Threads -> Slots] /\ pos \in [Threads -> 0 .. N]
        /\ n \in [Threads -> 0 .. MaxPuts] /\ left \in [Threads -> Nat]
        /\ abortTimer \in 0 .. Ticks
    BY <1>0
  <2> QED BY <2>1, <2>2, <2>3 DEF TypeOK
<1>2. Places
  <2>1. \A t \in App : Place(t)
    BY <1>0 DEF Place, Between, Messages, InPut, InFlush
  <2>2. FlusherPlace
    BY <1>0 DEF FlusherPlace, InFlush
  <2>3. Bounds
    BY <1>0, FS_EmptySet DEF Bounds
  <2> QED BY <2>1, <2>2, <2>3 DEF Places
<1>3. Handshake
  BY <1>0 DEF Handshake, Collecting, Busy
<1>4. Collected
  BY <1>0 DEF Collected, Collecting
<1>5. Ring
  BY <1>0 DEF Ring, InFlush
<1>6. Flushing
  BY <1>0 DEF Flushing, Behind
<1>7. Locked
  BY <1>0 DEF Locked, Messages, InFlush, Threads
<1> QED BY <1>1, <1>2, <1>3, <1>4, <1>5, <1>6, <1>7 DEF DumpInv

\* Every step keeps it.
LEMMA DumpStep == DumpInv /\ [Next]_vars => DumpInv'
<1> SUFFICES ASSUME TypeOK, Places, Handshake, Collected, Ring, Flushing, Locked,
                    [Next]_vars
             PROVE  DumpInv'
  BY DEF DumpInv
<1>0. App \subseteq Threads /\ Flusher \in Threads
  BY DEF Threads
<1>1. ASSUME NEW t \in App, PutBegin(t) \/ PutStep(t) \/ RemoveThread(t)
      PROVE  DumpInv'
  <2>1. TypeOK'
    BY <1>1, TypePut
  <2>2. Places'
    BY <1>1, <2>1, PlacesPut
  <2>3. Handshake' /\ Collected'
    BY <1>0, <1>1, HandshakePut, CollectedPut
  <2> QED BY <1>1, <2>1, <2>2, <2>3, RingPut, FlushingPut, LockedPut
               DEF DumpInv
<1>2. ASSUME NEW t \in App, FlushStep(t) \/ LockLoggers(t)
      PROVE  DumpInv'
  <2>0. t \in Threads
    BY <1>0
  <2>1. TypeOK'
    BY <1>2, <2>0, TypeFlush
  <2>2. Places'
    BY <1>2, <2>1, PlacesFlush
  <2>3. Handshake' /\ Collected'
    BY <1>2, <2>0, HandshakeFlush, CollectedPut
  <2> QED BY <1>2, <2>0, <2>1, <2>2, <2>3, RingFlush, FlushingFlush, LockedFlush
               DEF DumpInv
<1>3. ASSUME FlushWorker
      PROVE  DumpInv'
  <2>0. PICK t \in Threads : t = Flusher
    BY <1>0
  <2>1. FlushStep(t) \/ LockLoggers(t) \/ (t = Flusher /\ CheckTimer)
    BY <1>3, <2>0 DEF FlushWorker
  <2>2. TypeOK'
    BY <2>1, TypeFlush
  <2>3. Places'
    BY <1>3, <2>2, PlacesFlusher
  <2>4. Handshake' /\ Collected'
    BY <2>1, HandshakeFlush, CollectedPut
  <2> QED BY <2>1, <2>2, <2>3, <2>4, RingFlush, FlushingFlush, LockedFlush
               DEF DumpInv
<1>4. ASSUME NEW t \in App,
             \/ HandlerStep(t) \/ TraceStep(t) \/ EnableOnlyOneDisplayer(t)
             \/ StackInterpret(t) \/ \E s \in Signals : Crash(t, s)
      PROVE  DumpInv'
  <2>1. TypeOK'
    BY <1>4, TypeHandler
  <2>2. Places'
    BY <1>4, <2>1, PlacesHandler
  <2>3. Handshake' /\ Collected'
    BY <1>4, HandshakeHandler, CollectedHandler
  <2> QED BY <1>4, <2>1, <2>2, <2>3, RingHandler, FlushingHandler, LockedHandler
               DEF DumpInv
<1>5. CASE UNCHANGED vars
  <2> USE <1>5 DEF vars, ringVars, putVars, lockVars, dumpVars, crashVars, traceVars
  <2>1. TypeOK'
    BY DEF TypeOK
  <2>2. Places'
    BY DEF Places, Place, FlusherPlace, Bounds, Crashed
  <2>3. Handshake'
    BY DEF Handshake, Busy
  <2>4. Collected'
    BY DEF Collected, OneCrash, Crashed
  <2>5. Ring'
    BY DEF Ring, FlushSlot
  <2>6. Flushing'
    BY DEF Flushing, Behind, Clear
  <2>7. Locked'
    BY DEF Locked
  <2> QED BY <2>1, <2>2, <2>3, <2>4, <2>5, <2>6, <2>7 DEF DumpInv
<1> QED BY <1>1, <1>2, <1>3, <1>4, <1>5 DEF Next, AppStep, TakeLock

\* Every behaviour of the crash handler keeps the invariant.
THEOREM DumpInductive == Spec => []DumpInv
BY DumpInit, DumpStep, PTL DEF Spec

\* The calls, the handlers' steps and the ring keep to their ranges.
THEOREM DumpTypes == Spec => []TypeOK
<1>1. DumpInv => TypeOK
  BY DEF DumpInv
<1> QED BY <1>1, DumpInductive, PTL

\* With at most one crash, any two crashed threads are the same.
LEMMA CrashesCounted ==
  ASSUME Places, Cardinality(Crashed) <= 1 PROVE OneCrash
<1>1. IsFiniteSet(Crashed)
  BY DEF Places, Bounds
<1>2. ASSUME NEW t \in Crashed, NEW u \in Crashed, t # u PROVE FALSE
  <2>1. Cardinality({t, u}) = 2
    <3>1. IsFiniteSet({t}) /\ Cardinality({t}) = 1
      BY FS_Singleton
    <3>2. Cardinality({t} \cup {u}) = Cardinality({t}) + 1
      BY <1>2, <3>1, FS_AddElement
    <3>3. {t} \cup {u} = {t, u}
      OBVIOUS
    <3> QED BY <3>1, <3>2, <3>3
  <2>2. Cardinality({t, u}) <= Cardinality(Crashed)
    BY <1>1, FS_Subset
  <2>3. Cardinality(Crashed) \in Nat
    BY <1>1, FS_CardinalityType
  <2> QED BY <2>1, <2>2, <2>3
<1> QED BY <1>2 DEF OneCrash

\* The vector of stacks without a lock: with one crash, no thread changes it
\* while another one changes it or walks through it, as addRawStackInfo()'s
\* comment assumes.
THEOREM DumpOneUpdater == Spec => []OneUpdater
<1>1. DumpInv => OneUpdater
  BY CrashesCounted, OnlyUpdater DEF DumpInv, OneUpdater
<1> QED BY <1>1, DumpInductive, PTL

\* With one crash, "got all stack traces" is true of every active thread.
THEOREM DumpStacksComplete == Spec => []StacksComplete
<1>1. DumpInv => StacksComplete
  <2> SUFFICES ASSUME DumpInv, Cardinality(Crashed) <= 1, NEW t \in App, at[t] = "gotall"
               PROVE  activeThreads \subseteq stacks
    BY DEF StacksComplete
  <2>1. OneCrash
    BY CrashesCounted DEF DumpInv
  <2>2. t = crashOriginThread /\ at[t] \in Collecting /\ crashOriginThread # NoThread
    BY DumpAssumption DEF DumpInv, Handshake, Collecting, Threads
  <2>3. \A u \in Threads : ~Busy(u)
    BY <2>2 DEF DumpInv, Handshake, Waiting
  <2>4. asked \subseteq Threads
    BY DEF DumpInv, TypeOK, Threads
  <2>5. asked \subseteq stacks
    BY <2>1, <2>3, <2>4 DEF DumpInv, Collected, Busy
  <2>6. t \in stacks /\ activeThreads \subseteq asked \cup {t}
    BY <2>1, <2>2 DEF DumpInv, Collected
  <2> QED BY <2>5, <2>6
<1> QED BY <1>1, DumpInductive, PTL

\* A thread that has ended is not sent a signal.
THEOREM DumpSignalsAlive == Spec => []SignalledAlive
<1>1. DumpInv => SignalledAlive
  <2> SUFFICES ASSUME DumpInv, NEW t \in App, pc[t] = "gone" PROVE ~Busy(t)
    BY DEF SignalledAlive, Busy
  <2>1. t \notin activeThreads /\ t \in Threads
    BY DEF DumpInv, Places, Place, Threads
  <2>2. at[t] = "none"
    <3>1. at[t] \in {"none", "displayer"} \cup Between \cup Messages
      BY <2>1, FollowingFacts DEF DumpInv, TypeOK, Between, Messages
    <3> QED BY <3>1 DEF DumpInv, Places, Place, InPut, InFlush
  <2> QED BY <2>1, <2>2 DEF DumpInv, Handshake, Waiting
<1> QED BY <1>1, DumpInductive, PTL

\* When no other thread was in flush() at a handler's last flushAll(), its claim
\* that the logs are flushed is true of its messages and of those from before the
\* first crash: the flusher, which is held off by loggersLock, cannot spoil it.
THEOREM DumpFlushedUnlessBlocked == Spec => []FlushedUnlessBlocked
<1>1. DumpInv => FlushedUnlessBlocked
  <2> SUFFICES ASSUME DumpInv, NEW t \in App, at[t] = "printed", flushed[t]
               PROVE  \A k \in Slots : Clear(t, k)
    BY DEF FlushedUnlessBlocked, Clear
  <2>1. pc[t] = "idle"
    BY DEF DumpInv, Places, Place, Between
  <2> QED BY <2>1 DEF DumpInv, Flushing, Behind
<1> QED BY <1>1, DumpInductive, PTL
=============================================================================
