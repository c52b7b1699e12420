------------------------- MODULE InMemLogStore_proof -------------------------
(***************************************************************************)
(* The log store for every set of entries and readers and every bound: its  *)
(* window is contiguous, readers see slices of it, the emulated disk        *)
(* forgets no write, and the store implements RaftLog.                      *)
(***************************************************************************)
EXTENDS InMemLogStore, FiniteSetTheorems, SequenceTheorems, TLAPS

\* The inductive form of Contiguous: the keys are an interval at every step of
\* every call, start_idx_ is out of step with them only during apply_pack, and
\* the next entry of the pack falls inside the interval or right after it.
WindowInv ==
  /\ AbstractFirst \in Nat \ {0}
  /\ Indices = AbstractFirst .. AbstractEnd - 1
  /\ wr.op # "apply" => AbstractFirst = start_idx_
  /\ wr.op = "apply" /\ wr.left # <<>> =>
       /\ wr.idx >= 1
       /\ Indices = {} \/ wr.idx \in AbstractFirst .. AbstractEnd

IndInv == TypeOK /\ WindowInv

\* The steps of the disk thread but for its scan.
DiskStep == DiskWake \/ DiskTimeout \/ DiskReset \/ DiskExit

\* The least and the number of the elements of an interval.
LEMMA IntervalFacts ==
  ASSUME NEW lo \in Int, NEW b \in Int, lo <= b + 1
  PROVE  /\ Cardinality(lo .. b) = b + 1 - lo
         /\ lo <= b => lo .. b # {} /\ MinOf(lo .. b) = lo
<1>1. Cardinality(lo .. b) = b + 1 - lo
  BY FS_Interval
<1>2. ASSUME lo <= b PROVE lo .. b # {} /\ MinOf(lo .. b) = lo
  <2>1. lo \in lo .. b /\ \A y \in lo .. b : lo <= y
    BY <1>2
  <2>2. \A x \in lo .. b : (\A y \in lo .. b : x <= y) => x = lo
    BY <1>2
  <2> QED BY <2>1, <2>2 DEF MinOf
<1> QED BY <1>1, <1>2

\* With the keys an interval that starts at start_idx_, next_slot() is the
\* index right after it: the dummy entry is the one that size() - 1 discounts.
LEMMA NextSlotIsEnd ==
  ASSUME StoreType, WindowInv
  PROVE  /\ Cardinality(Indices) \in Nat
         /\ AbstractFirst \in Nat \ {0}
         /\ Cardinality(DOMAIN logs_) = Cardinality(Indices) + 1
         /\ AbstractFirst = start_idx_ => next_slot = AbstractEnd
         /\ next_slot \in Nat /\ next_slot >= start_idx_
<1>1. IsFiniteSet(Indices)
  BY FS_Subset DEF StoreType, Indices
<1>2. Cardinality(Indices) \in Nat
  BY <1>1, FS_CardinalityType
<1>3. DOMAIN logs_ = Indices \cup {0} /\ 0 \notin Indices
  BY DEF StoreType, Indices
<1>4. Cardinality(DOMAIN logs_) = Cardinality(Indices) + 1
  BY <1>1, <1>3, FS_AddElement
<1>5. AbstractFirst \in Nat \ {0}
  BY DEF WindowInv
<1> QED BY <1>2, <1>4, <1>5 DEF next_slot, AbstractEnd, StoreType

\* What has to be shown of the next state's keys for the window to be intact.
LEMMA WindowPrime ==
  ASSUME NEW lo \in Nat \ {0}, NEW hi \in Nat, lo <= hi,
         Indices' = lo .. hi - 1,
         lo = hi => start_idx_' = lo
  PROVE  /\ AbstractFirst' = lo /\ AbstractEnd' = hi
         /\ AbstractFirst' \in Nat \ {0}
         /\ Indices' = AbstractFirst' .. AbstractEnd' - 1
<1>1. PICK b \in Int : b = hi - 1
  OBVIOUS
<1>2. /\ Cardinality(lo .. b) = b + 1 - lo
      /\ lo <= b => lo .. b # {} /\ MinOf(lo .. b) = lo
  BY <1>1, IntervalFacts
<1>3. Cardinality(Indices') = hi - lo
  BY <1>1, <1>2
<1>4. AbstractFirst' = lo
  <2>1. CASE lo = hi
    BY <2>1 DEF AbstractFirst
  <2>2. CASE lo < hi
    BY <1>1, <1>2, <2>2 DEF AbstractFirst
  <2> QED BY <2>1, <2>2
<1> QED BY <1>3, <1>4 DEF AbstractEnd

\* The window of the current state, while no pack is being applied.
LEMMA WindowNow ==
  ASSUME IndInv, wr.op # "apply"
  PROVE  /\ start_idx_ \in Nat \ {0} /\ next_slot \in Nat
         /\ start_idx_ <= next_slot
         /\ Indices = start_idx_ .. next_slot - 1
         /\ DOMAIN logs_ = {0} \cup (start_idx_ .. next_slot - 1)
<1>1. start_idx_ = AbstractFirst /\ next_slot = AbstractEnd
  BY NextSlotIsEnd DEF IndInv, TypeOK, WindowInv
<1>2. Indices = start_idx_ .. next_slot - 1
  BY <1>1 DEF IndInv, WindowInv
<1> QED BY <1>2, NextSlotIsEnd DEF IndInv, TypeOK, StoreType, Indices

\* A step that changes neither the keys, start_idx_ nor the writer's call
\* leaves the window alone.
LEMMA WindowUnchanged ==
  ASSUME WindowInv, UNCHANGED <<logs_, start_idx_, wr>>
  PROVE  WindowInv'
  BY DEF WindowInv, AbstractFirst, AbstractEnd, Indices

\* The window survives every step.
LEMMA WindowStep ==
  ASSUME IndInv, Next PROVE WindowInv'
<1> USE DEF IndInv
<1>1. ASSUME NEW e \in Entry, append(e) PROVE WindowInv'
  <2>1. Indices' = start_idx_ .. next_slot /\ start_idx_' = start_idx_ /\ wr' = wr
    BY <1>1, WindowNow DEF append, Put, Indices
  <2>2. wr.op # "apply" BY <1>1 DEF append
  <2>3. AbstractFirst' = start_idx_ /\ AbstractFirst' \in Nat \ {0}
        /\ Indices' = AbstractFirst' .. AbstractEnd' - 1
    <3>1. PICK hi \in Nat : hi = next_slot + 1
      BY <2>2, WindowNow
    <3>2. Indices' = start_idx_ .. hi - 1 /\ start_idx_ < hi
      BY <2>1, <2>2, <3>1, WindowNow
    <3> QED BY <3>2, <2>2, WindowNow, WindowPrime
  <2> QED BY <2>1, <2>2, <2>3 DEF WindowInv
<1>2. ASSUME NEW i \in 1 .. MaxIndex, NEW e \in Entry, write_at(i, e)
      PROVE WindowInv'
  <2>1. wr.op # "apply" /\ wr' = wr /\ start_idx_' = start_idx_
        /\ i \in start_idx_ .. next_slot
    BY <1>2 DEF write_at
  <2>2. Indices' = start_idx_ .. i
    <3>1. DOMAIN logs_' = {j \in DOMAIN logs_ : j < i} \cup {i}
      BY <1>2 DEF write_at, Put, Restrict
    <3> QED BY <2>1, <3>1, WindowNow DEF Indices
  <2>3. AbstractFirst' = start_idx_ /\ AbstractFirst' \in Nat \ {0}
        /\ Indices' = AbstractFirst' .. AbstractEnd' - 1
    <3>1. PICK hi \in Nat : hi = i + 1
      OBVIOUS
    <3>2. Indices' = start_idx_ .. hi - 1 /\ start_idx_ < hi
      BY <2>1, <2>2, <3>1, WindowNow
    <3> QED BY <3>2, <2>1, WindowNow, WindowPrime
  <2> QED BY <2>1, <2>3 DEF WindowInv
<1>3. ASSUME NEW l \in 1 .. MaxIndex, compact(l) PROVE WindowInv'
  <2>1. wr.op # "apply" /\ wr' = wr
    BY <1>3 DEF compact
  <2>2. CASE l < start_idx_
    <3>1. DOMAIN logs_' = DOMAIN logs_ /\ start_idx_' = start_idx_
      BY <1>3, <2>1, <2>2, WindowNow DEF compact, Restrict
    <3>2. Indices' = Indices
      BY <3>1 DEF Indices
    <3> QED BY <2>1, <3>1, <3>2 DEF WindowInv, AbstractFirst, AbstractEnd
  <2>3. CASE start_idx_ <= l
    <3>1. PICK lo \in Nat \ {0} : lo = l + 1
      OBVIOUS
    <3>2. start_idx_' = lo
      BY <1>3, <2>3, <3>1 DEF compact
    <3>3. PICK hi \in Nat : hi = IF l < next_slot THEN next_slot ELSE lo
      BY <2>1, WindowNow
    <3>4. Indices' = lo .. hi - 1 /\ lo <= hi
      <4>1. DOMAIN logs_' = DOMAIN logs_ \ (start_idx_ .. l)
        BY <1>3 DEF compact, Restrict
      <4> QED BY <2>1, <2>3, <3>1, <3>3, <4>1, WindowNow DEF Indices
    <3>5. AbstractFirst' = lo /\ AbstractFirst' \in Nat \ {0}
          /\ Indices' = AbstractFirst' .. AbstractEnd' - 1
      BY <3>2, <3>4, WindowPrime
    <3> QED BY <2>1, <3>2, <3>5 DEF WindowInv
  <2> QED BY <2>1, <2>2, <2>3, WindowNow
<1>4. ASSUME NEW i \in 1 .. MaxIndex, NEW es \in Seq(Entry), ApplyPackBegin(i, es)
      PROVE WindowInv'
  <2>1. wr.op # "apply" /\ wr'.idx = i /\ wr'.op = "apply"
        /\ UNCHANGED <<logs_, start_idx_>>
    BY <1>4 DEF ApplyPackBegin, storeVars
  <2>2. /\ Indices' = Indices /\ AbstractFirst' = AbstractFirst
        /\ AbstractEnd' = AbstractEnd
    BY <2>1 DEF Indices, AbstractFirst, AbstractEnd
  <2>3. AbstractFirst = start_idx_ /\ AbstractEnd = next_slot
    BY <2>1, NextSlotIsEnd DEF WindowInv, TypeOK
  <2>4. Indices = {} \/ i \in AbstractFirst .. AbstractEnd
    BY <1>4, <2>3 DEF ApplyPackBegin, PackFits
  <2> QED BY <2>1, <2>2, <2>4 DEF WindowInv
<1>5. ASSUME ApplyPackEntry PROVE WindowInv'
  <2>1. /\ wr.op = "apply" /\ wr.left # <<>> /\ wr'.op = "apply"
        /\ wr'.idx = wr.idx + 1 /\ start_idx_' = start_idx_
        /\ wr.idx \in Nat \ {0}
    BY <1>5 DEF ApplyPackEntry, TypeOK, CallType, WindowInv
  <2>2. Indices' = Indices \cup {wr.idx}
    BY <1>5, <2>1 DEF ApplyPackEntry, Put, Indices
  <2>3. CASE Indices = {}
    <3>1. PICK lo \in Nat \ {0}, hi \in Nat : lo = wr.idx /\ hi = wr.idx + 1
      BY <2>1
    <3>2. Indices' = lo .. hi - 1 /\ lo < hi
      BY <2>2, <2>3, <3>1
    <3>3. /\ AbstractFirst' = lo /\ AbstractEnd' = hi
          /\ AbstractFirst' \in Nat \ {0}
          /\ Indices' = AbstractFirst' .. AbstractEnd' - 1
      BY <3>2, WindowPrime
    <3> QED BY <2>1, <3>1, <3>3 DEF WindowInv
  <2>4. CASE Indices # {}
    <3>1. PICK lo \in Nat \ {0}, end \in Nat :
             lo = AbstractFirst /\ end = AbstractEnd /\ lo < end
             /\ Indices = lo .. end - 1 /\ wr.idx \in lo .. end
      <4>1. Cardinality(Indices) \in Nat /\ AbstractFirst \in Nat \ {0}
        BY NextSlotIsEnd DEF TypeOK
      <4>2. AbstractEnd \in Nat
        BY <4>1 DEF AbstractEnd
      <4> QED BY <2>1, <2>4, <4>1, <4>2 DEF WindowInv
    <3>2. PICK hi \in Nat : hi = IF wr.idx = end THEN end + 1 ELSE end
      OBVIOUS
    <3>3. Indices' = lo .. hi - 1 /\ lo < hi
      BY <2>2, <3>1, <3>2
    <3>4. /\ AbstractFirst' = lo /\ AbstractEnd' = hi
          /\ AbstractFirst' \in Nat \ {0}
          /\ Indices' = AbstractFirst' .. AbstractEnd' - 1
      BY <3>3, WindowPrime
    <3>5. wr'.idx \in lo .. hi
      BY <2>1, <3>1, <3>2
    <3> QED BY <2>1, <3>4, <3>5 DEF WindowInv
  <2> QED BY <2>3, <2>4
<1>6. ASSUME ApplyPackEnd PROVE WindowInv'
  <2>1. /\ wr'.op = "idle" /\ logs_' = logs_
        /\ start_idx_' = IF Indices # {} THEN AbstractFirst ELSE 1
    BY <1>6 DEF ApplyPackEnd, WriterIdle, AbstractFirst
  <2>2. Indices' = Indices
    BY <2>1 DEF Indices
  <2>3. CASE Indices = {}
    <3>1. AbstractFirst' = 1 /\ start_idx_' = 1 /\ AbstractEnd' = 1
      BY <2>1, <2>2, <2>3, FS_EmptySet DEF AbstractFirst, AbstractEnd
    <3> QED BY <2>1, <2>2, <2>3, <3>1 DEF WindowInv
  <2>4. CASE Indices # {}
    <3>1. AbstractFirst' = AbstractFirst /\ start_idx_' = AbstractFirst
          /\ AbstractEnd' = AbstractEnd
      BY <2>1, <2>2, <2>4 DEF AbstractFirst, AbstractEnd
    <3> QED BY <2>1, <2>2, <3>1 DEF WindowInv
  <2> QED BY <2>3, <2>4
<1>7. ASSUME FlushBegin \/ FlushEnd PROVE WindowInv'
  <2>1. wr.op # "apply" /\ wr'.op # "apply" /\ UNCHANGED <<logs_, start_idx_>>
    BY <1>7 DEF FlushBegin, FlushEnd, storeVars, WriterIdle
  <2> QED BY <2>1 DEF WindowInv, AbstractFirst, AbstractEnd, Indices
<1>8. ASSUME NEW r \in Readers, Reader(r) PROVE UNCHANGED <<logs_, start_idx_, wr>>
  BY <1>8 DEF Reader, LogEntries, Pack, LogEntriesExt, LastEntry, EntryAt, Read,
              ReadStep, PackCrash, Return, storeVars
<1>9. ASSUME \/ \E d \in Delays : SetDiskDelay(d)
             \/ DiskStep \/ DiskScan \/ Destroy \/ Tick \/ Ended
      PROVE UNCHANGED <<logs_, start_idx_, wr>>
  BY <1>9 DEF SetDiskDelay, DiskStep, DiskWake, DiskTimeout, DiskReset,
              DiskExit, LeaveLoop, DiskScan, Destroy, Tick, Ended,
              storeVars, vars
<1>10. \A n \in 0 .. MaxPack : [1 .. n -> Entry] \subseteq Seq(Entry)
  BY SeqDef, ConstAssumption
<1> QED BY <1>1, <1>2, <1>3, <1>4, <1>5, <1>6, <1>7, <1>8, <1>9, <1>10,
           WindowUnchanged DEF Next, Writer, DiskStep

\* A map of the store after one entry was written and some keys dropped.
LEMMA StoreTypePrime ==
  ASSUME StoreType, NEW K \in SUBSET DOMAIN logs_, 0 \in K,
         NEW i \in Nat \ {0}, NEW e \in Entry,
         logs_' = Put(Restrict(logs_, K), i, e), start_idx_' \in Nat \ {0}
  PROVE  StoreType'
<1>1. IsFiniteSet(K)
  BY FS_Subset DEF StoreType
<1>2. DOMAIN logs_' = K \cup {i}
  BY DEF Put, Restrict
<1>3. IsFiniteSet(DOMAIN logs_')
  BY <1>1, <1>2, FS_AddElement
<1>4. \A j \in DOMAIN logs_' : logs_'[j] \in Entry \cup {Dummy}
  BY DEF Put, Restrict, StoreType
<1> QED BY <1>2, <1>3, <1>4 DEF StoreType

\* Marking the overtaken readers keeps the type of their calls.
LEMMA OvertakeType ==
  ASSUME CallType, NEW T, Overtake(T),
         wr' \in [op : {"idle", "apply", "flush"}, idx : Nat, left : Seq(Entry)]
  PROVE  CallType'
  BY ZenonT(60) DEF CallType, Overtake

\* Registering a disk write keeps the types of the pending writes.
LEMMA RegisterType ==
  ASSUME DiskType, NEW i \in Nat, NEW b \in BOOLEAN, Register(i, b),
         UNCHANGED <<disk_emul_delay, disk_emul_last_durable_index_, clock, phase>>
  PROVE  DiskType'
<1>1. clock + disk_emul_delay \in Nat
  BY ConstAssumption DEF DiskType
<1>2. CASE disk_emul_delay = 0
  BY <1>2 DEF DiskType, Register, Restrict
<1>3. CASE disk_emul_delay # 0
  <2> DEFINE at == clock + disk_emul_delay
             w == Put(disk_emul_logs_being_written_, at, i)
             d == Restrict(due, {j \in DOMAIN due : j < i})
  <2>1. DOMAIN w \subseteq Nat /\ \A t \in DOMAIN w : w[t] \in Nat
    BY <1>1 DEF DiskType, Put
  <2>2. disk_emul_logs_being_written_' =
          Restrict(w, {t \in DOMAIN w : b => w[t] <= i})
        /\ due' = Put(d, i, at) /\ disk' = [disk EXCEPT !.ea = TRUE]
    BY <1>3 DEF Register
  <2>6. disk' \in [pc : {"none", "wait", "woken", "scan"}, cur : Nat, ea : BOOLEAN]
    BY <2>2, Zenon DEF DiskType
  <2>3. DOMAIN d \subseteq Nat /\ \A j \in DOMAIN d : d[j] \in Nat
    BY DEF DiskType, Restrict
  <2>4. DOMAIN due' \subseteq Nat /\ \A j \in DOMAIN due' : due'[j] \in Nat
    BY <1>1, <2>2, <2>3 DEF Put
  <2>5. /\ DOMAIN disk_emul_logs_being_written_' \subseteq Nat
        /\ \A t \in DOMAIN disk_emul_logs_being_written_' :
              disk_emul_logs_being_written_'[t] \in Nat
    <3> HIDE DEF w
    <3> QED BY <2>1, <2>2 DEF Restrict
  <2> QED BY <2>4, <2>5, <2>6 DEF DiskType
<1> QED BY <1>2, <1>3

\* The store keeps its type.
LEMMA StoreTypeStep ==
  ASSUME IndInv, Next PROVE StoreType'
<1> USE DEF IndInv, TypeOK
<1>1. ASSUME NEW e \in Entry, append(e) PROVE StoreType'
  <2>1. next_slot \in Nat \ {0} /\ start_idx_' \in Nat \ {0}
    BY <1>1, WindowNow DEF append
  <2>2. logs_' = Put(Restrict(logs_, DOMAIN logs_), next_slot, e)
    BY <1>1 DEF append, Put, Restrict
  <2> QED BY <2>1, <2>2, StoreTypePrime DEF StoreType
<1>2. ASSUME NEW i \in 1 .. MaxIndex, NEW e \in Entry, write_at(i, e)
      PROVE StoreType'
  <2>1. /\ {j \in DOMAIN logs_ : j < i} \in SUBSET DOMAIN logs_
        /\ 0 \in {j \in DOMAIN logs_ : j < i}
        /\ i \in Nat \ {0} /\ start_idx_' \in Nat \ {0}
    BY <1>2 DEF StoreType, write_at
  <2>2. logs_' = Put(Restrict(logs_, {j \in DOMAIN logs_ : j < i}), i, e)
    BY <1>2 DEF write_at
  <2> QED BY <2>1, <2>2, StoreTypePrime
<1>3. ASSUME NEW l \in 1 .. MaxIndex, compact(l) PROVE StoreType'
  <2>1. /\ DOMAIN logs_' = DOMAIN logs_ \ (start_idx_ .. l)
        /\ \A j \in DOMAIN logs_' : logs_'[j] = logs_[j]
    BY <1>3 DEF compact, Restrict
  <2>2. IsFiniteSet(DOMAIN logs_')
    BY <2>1, FS_Subset DEF StoreType
  <2>3. start_idx_' \in Nat \ {0}
    BY <1>3 DEF compact, StoreType
  <2> QED BY <2>1, <2>2, <2>3 DEF StoreType
<1>4. ASSUME ApplyPackEntry PROVE StoreType'
  <2>1. wr.idx \in Nat \ {0} /\ Head(wr.left) \in Entry /\ start_idx_' \in Nat \ {0}
    BY <1>4, HeadTailProperties
    DEF ApplyPackEntry, StoreType, CallType, WindowInv
  <2>2. logs_' = Put(Restrict(logs_, DOMAIN logs_), wr.idx, Head(wr.left))
    BY <1>4 DEF ApplyPackEntry, Put, Restrict
  <2> QED BY <2>1, <2>2, StoreTypePrime DEF StoreType
<1>5. ASSUME ApplyPackEnd PROVE StoreType'
  <2>1. start_idx_' \in Nat \ {0}
    BY <1>5 DEF ApplyPackEnd, WindowInv, AbstractFirst
  <2> QED BY <1>5, <2>1 DEF ApplyPackEnd, StoreType
<1>6. ASSUME UNCHANGED storeVars PROVE StoreType'
  BY <1>6 DEF StoreType, storeVars
<1>7. ASSUME \/ \E i \in 1 .. MaxIndex, n \in 0 .. MaxPack :
                   \E es \in [1 .. n -> Entry] : ApplyPackBegin(i, es)
             \/ FlushBegin \/ FlushEnd
             \/ \E r \in Readers : Reader(r)
             \/ \E d \in Delays : SetDiskDelay(d)
             \/ DiskStep \/ DiskScan \/ Destroy \/ Tick \/ Ended
      PROVE UNCHANGED storeVars
  BY <1>7 DEF ApplyPackBegin, FlushBegin, FlushEnd, Reader, LogEntries, Pack,
     LogEntriesExt, LastEntry, EntryAt, Read, ReadStep, PackCrash, Return,
     SetDiskDelay, DiskStep, DiskWake, DiskTimeout, DiskReset,
              DiskExit, LeaveLoop, DiskScan, Destroy, Tick, Ended, vars
<1> QED BY <1>1, <1>2, <1>3, <1>4, <1>5, <1>6, <1>7 DEF Next, Writer, DiskStep

\* The emulated disk keeps its type.
LEMMA DiskTypeStep ==
  ASSUME IndInv, Next PROVE DiskType'
<1> USE DEF IndInv, TypeOK
<1>1. ASSUME NEW e \in Entry, append(e) PROVE DiskType'
  <2>1. next_slot \in Nat /\ Register(next_slot, FALSE)
    BY <1>1, WindowNow DEF append
  <2> QED BY <1>1, <2>1, RegisterType DEF append
<1>2. ASSUME NEW i \in 1 .. MaxIndex, NEW e \in Entry, write_at(i, e)
      PROVE DiskType'
  <2>1. i \in Nat OBVIOUS
  <2>2. Register(i, TRUE) BY <1>2, Zenon DEF write_at
  <2> QED BY <1>2, <2>1, <2>2, RegisterType DEF write_at
<1>3. ASSUME (\E l \in 1 .. MaxIndex : compact(l)) \/ ApplyPackEntry
      PROVE DiskType'
  BY <1>3 DEF compact, ApplyPackEntry, DiskType, diskVars, Restrict
<1>4. ASSUME FlushEnd PROVE DiskType'
  <2>1. DOMAIN due' = {}
    BY <1>4 DEF FlushEnd
  <2> QED BY <1>4, <2>1 DEF FlushEnd, DiskType, CallType
<1>5. ASSUME (\E d \in Delays : SetDiskDelay(d)) \/ DiskStep \/ DiskScan \/ Destroy
      PROVE disk' \in [pc : {"none", "wait", "woken", "scan"}, cur : Nat, ea : BOOLEAN]
  <2>1. \/ disk' = disk
        \/ \E q \in {"none", "wait", "woken"} : disk' = [disk EXCEPT !.pc = q]
        \/ disk' = [disk EXCEPT !.ea = TRUE]
        \/ disk' = [pc |-> "scan", cur |-> clock, ea |-> FALSE]
    BY <1>5 DEF SetDiskDelay, DiskStep, DiskWake, DiskTimeout, DiskReset, DiskExit,
                DiskScan, LeaveLoop, Destroy
  <2>2. clock \in Nat
    BY DEF DiskType
  <2>3. ASSUME NEW q \in {"none", "wait", "woken"}, disk' = [disk EXCEPT !.pc = q]
        PROVE  disk' \in [pc : {"none", "wait", "woken", "scan"}, cur : Nat, ea : BOOLEAN]
    BY <2>3, Zenon DEF DiskType
  <2>4. CASE disk' = [disk EXCEPT !.ea = TRUE]
    BY <2>4, Zenon DEF DiskType
  <2>5. CASE disk' = [pc |-> "scan", cur |-> clock, ea |-> FALSE]
    BY <2>2, <2>5
  <2> QED BY <2>1, <2>3, <2>4, <2>5 DEF DiskType
<1>6. ASSUME DiskScan PROVE DiskType'
  <2>1. phase' \in {"up", "closing", "destroyed", "crashed"}
    BY <1>6 DEF DiskScan, LeaveLoop, DiskType
  <2>2. /\ disk_emul_last_durable_index_' \in Nat
        /\ DOMAIN disk_emul_logs_being_written_' \subseteq Nat
        /\ \A t \in DOMAIN disk_emul_logs_being_written_' :
              disk_emul_logs_being_written_'[t] \in Nat
    BY <1>6 DEF DiskScan, DiskType, Restrict
  <2>3. UNCHANGED <<disk_emul_delay, clock, due>>
    BY <1>6 DEF DiskScan
  <2> QED BY <1>5, <1>6, <2>1, <2>2, <2>3 DEF DiskType
<1>7. ASSUME \/ \E d \in Delays : SetDiskDelay(d)
             \/ DiskStep \/ Tick \/ Destroy \/ \E r \in Readers : PackCrash(r)
      PROVE DiskType'
  <2>1. CASE (\E d \in Delays : SetDiskDelay(d)) \/ DiskStep \/ Destroy
    <3>1. /\ UNCHANGED <<disk_emul_logs_being_written_, disk_emul_last_durable_index_,
                         clock, due>>
          /\ disk_emul_delay' = disk_emul_delay \/ disk_emul_delay' \in Delays
          /\ phase' = phase \/ phase' \in {"closing", "destroyed"}
      BY <2>1 DEF SetDiskDelay, DiskStep, DiskWake, DiskTimeout, DiskReset, DiskExit,
                  LeaveLoop, Destroy
    <3> QED BY <1>5, <2>1, <3>1 DEF DiskType
  <2>2. CASE Tick \/ \E r \in Readers : PackCrash(r)
    BY <2>2 DEF Tick, PackCrash, DiskType, diskVars
  <2> QED BY <1>7, <2>1, <2>2
<1>8. ASSUME UNCHANGED <<diskVars, clock, phase, due>> PROVE DiskType'
  BY <1>8 DEF DiskType, diskVars
<1>9. ASSUME \/ \E i \in 1 .. MaxIndex, n \in 0 .. MaxPack :
                   \E es \in [1 .. n -> Entry] : ApplyPackBegin(i, es)
             \/ FlushBegin \/ ApplyPackEnd \/ Ended
             \/ \E r \in Readers : Reader(r) /\ ~PackCrash(r)
      PROVE UNCHANGED <<diskVars, clock, phase, due>>
  BY <1>9 DEF ApplyPackBegin, FlushBegin, ApplyPackEnd, Ended, Reader,
     LogEntries, Pack, LogEntriesExt, LastEntry, EntryAt, Read, ReadStep,
     Return, vars
<1> QED BY <1>1, <1>2, <1>3, <1>4, <1>5, <1>6, <1>7, <1>8, <1>9 DEF Next, Writer, DiskStep

\* The calls in progress keep their type.
LEMMA CallTypeStep ==
  ASSUME IndInv, Next PROVE CallType'
<1> USE DEF IndInv, TypeOK
<1>0. <<>> \in Seq(Entry) /\ <<>> \in Seq(Entry \cup {Dummy})
  OBVIOUS
<1>1. \A n \in 0 .. MaxPack : [1 .. n -> Entry] \subseteq Seq(Entry)
  BY SeqDef, ConstAssumption
<1>2. next_slot \in Nat \ {0}
  BY NextSlotIsEnd DEF StoreType
<1>3. ASSUME \/ \E e \in Entry : append(e)
             \/ \E i \in 1 .. MaxIndex, e \in Entry : write_at(i, e)
             \/ \E l \in 1 .. MaxIndex : compact(l)
      PROVE CallType'
  <2>1. (\E T : Overtake(T)) /\ wr' = wr
    BY <1>3 DEF append, write_at, compact
  <2> QED BY <2>1, OvertakeType DEF CallType
<1>4. ASSUME NEW i \in 1 .. MaxIndex, NEW es \in Seq(Entry), ApplyPackBegin(i, es)
      PROVE CallType'
  BY <1>4 DEF ApplyPackBegin, CallType
<1>5. ASSUME ApplyPackEntry PROVE CallType'
  <2>1. Tail(wr.left) \in Seq(Entry) /\ wr.idx + 1 \in Nat
    BY <1>5, HeadTailProperties DEF ApplyPackEntry, CallType
  <2>2. wr' \in [op : {"idle", "apply", "flush"}, idx : Nat, left : Seq(Entry)]
    BY <1>5, <2>1 DEF ApplyPackEntry, CallType
  <2>3. \E T : Overtake(T)
    BY <1>5, Zenon DEF ApplyPackEntry
  <2> QED BY <2>2, <2>3, OvertakeType
<1>6. ASSUME ApplyPackEnd \/ FlushBegin \/ FlushEnd PROVE CallType'
  <2>1. WriterIdle \in [op : {"idle", "apply", "flush"}, idx : Nat, left : Seq(Entry)]
    BY <1>0 DEF WriterIdle
  <2>2. CASE FlushEnd
    BY <2>1, <2>2 DEF FlushEnd, CallType
  <2>4. CASE ApplyPackEnd
    <3>1. wr' = WriterIdle /\ \E T : Overtake(T)
      BY <2>4, Zenon DEF ApplyPackEnd
    <3> QED BY <2>1, <3>1, OvertakeType
  <2>3. CASE FlushBegin
    <3>1. PICK k \in Nat : k = next_slot - 1
      BY <1>2
    <3>2. wr' = [op |-> "flush", idx |-> k, left |-> <<>>] /\ rd' = rd
      BY <2>3, <3>1 DEF FlushBegin
    <3> QED BY <1>0, <3>2 DEF CallType
  <2> QED BY <1>6, <2>2, <2>3, <2>4
<1>7. ASSUME NEW r \in Readers, NEW op \in {"entries", "ext", "pack", "last", "at"},
             NEW i \in Nat, NEW j \in Nat, NEW b \in BOOLEAN, Read(r, op, i, j, b)
      PROVE CallType'
  BY <1>7 DEF Read, CallType, Torn
<1>8. ASSUME NEW r \in Readers, Reader(r) PROVE CallType'
  <2>1. ASSUME NEW i \in start_idx_ .. next_slot, NEW j \in i .. next_slot,
               LogEntries(r, i, j) \/ Pack(r, i, j)
                 \/ \E hint \in {-1, 0, 1} : LogEntriesExt(r, i, j, hint)
        PROVE CallType'
    <3>1. i \in Nat /\ j \in Nat
      BY <1>2 DEF StoreType
    <3>2. CASE LogEntries(r, i, j)
      BY <3>1, <3>2, <1>7 DEF LogEntries
    <3>3. CASE Pack(r, i, j)
      BY <3>1, <3>3, <1>7 DEF Pack
    <3>4. ASSUME NEW hint \in {-1, 0, 1}, LogEntriesExt(r, i, j, hint)
          PROVE CallType'
      <4>1. PICK k \in Nat : k = IF hint < 0 THEN i ELSE j
        BY <3>1
      <4>2. (hint > 0) \in BOOLEAN OBVIOUS
      <4> QED BY <3>1, <3>4, <4>1, <4>2, <1>7 DEF LogEntriesExt
    <3> QED BY <2>1, <3>2, <3>3, <3>4
  <2>2. ASSUME LastEntry(r) PROVE CallType'
    <3>1. PICK i \in Nat, j \in Nat : i = next_slot - 1 /\ j = next_slot
      BY <1>2
    <3> QED BY <2>2, <3>1, <1>7 DEF LastEntry
  <2>3. ASSUME NEW i \in 0 .. MaxIndex, EntryAt(r, i) PROVE CallType'
    <3>1. i \in Nat /\ i + 1 \in Nat OBVIOUS
    <3> QED BY <2>3, <3>1, <1>7 DEF EntryAt
  <2>4. ASSUME ReadStep(r) PROVE CallType'
    <3> DEFINE c == rd[r]
               e == IF c.pos \in DOMAIN logs_ THEN logs_[c.pos] ELSE logs_[0]
    <3>1. e \in Entry \cup {Dummy}
      BY DEF StoreType
    <3>2. c.acc \in Seq(Entry \cup {Dummy}) /\ c.pos + 1 \in Nat /\ c.end \in Nat
      BY DEF CallType
    <3>3. Append(c.acc, e) \in Seq(Entry \cup {Dummy})
      BY <3>1, <3>2, AppendProperties
    <3>4. PICK stop \in {c.pos + 1, c.end} :
            rd' = [rd EXCEPT ![r] = [c EXCEPT !.pos = @ + 1, !.end = stop,
                                              !.acc = Append(@, e)]]
      BY <2>4 DEF ReadStep
    <3>5. stop \in Nat /\ wr' = wr
      BY <2>4, <3>2 DEF ReadStep
    <3> HIDE DEF e
    <3> QED BY <3>2, <3>3, <3>4, <3>5, ZenonT(60) DEF CallType
  <2>5. ASSUME PackCrash(r) \/ Return(r) PROVE CallType'
    <3>1. ReaderIdle \in [op : {"idle", "entries", "ext", "pack", "last", "at"},
             first : Nat, pos : Nat, end : Nat, batch : BOOLEAN,
             acc : Seq(Entry \cup {Dummy}), raced : BOOLEAN, torn : BOOLEAN]
      BY <1>0 DEF ReaderIdle
    <3>2. CASE PackCrash(r)
      BY <3>2 DEF PackCrash, CallType
    <3>3. CASE Return(r)
      <4>1. rd' = [rd EXCEPT ![r] = ReaderIdle] /\ wr' = wr
        BY <3>3 DEF Return
      <4> QED BY <3>1, <4>1 DEF CallType
    <3> QED BY <2>5, <3>2, <3>3
  <2> QED BY <1>8, <2>1, <2>2, <2>3, <2>4, <2>5 DEF Reader
<1>9. ASSUME \/ \E d \in Delays : SetDiskDelay(d)
             \/ DiskStep \/ DiskScan \/ Destroy \/ Tick \/ Ended
      PROVE CallType'
  BY <1>9 DEF SetDiskDelay, DiskStep, DiskWake, DiskTimeout, DiskReset,
              DiskExit, LeaveLoop, DiskScan, Destroy, Tick, Ended,
              vars, CallType
<1> QED BY <1>1, <1>3, <1>4, <1>5, <1>6, <1>8, <1>9 DEF Next, Writer, DiskStep

\* The inductive invariant holds of a store just constructed.
LEMMA InitInd == Init => IndInv
<1> SUFFICES ASSUME Init PROVE IndInv
  OBVIOUS
<1>1. DOMAIN logs_ = {0} /\ Indices = {}
  BY DEF Init, Indices
<1>2. AbstractFirst = 1 /\ AbstractEnd = 1
  BY <1>1, FS_EmptySet DEF Init, AbstractFirst, AbstractEnd
<1>3. WindowInv
  BY <1>1, <1>2 DEF WindowInv, Init, WriterIdle
<1>4. StoreType
  BY <1>1, FS_Singleton DEF Init, StoreType
<1>5. DiskType
  <2>1. DOMAIN disk_emul_logs_being_written_ = {} /\ DOMAIN due = {}
    BY DEF Init
  <2> QED BY <2>1 DEF Init, DiskType
<1>6. CallType
  BY DEF Init, CallType, WriterIdle, ReaderIdle
<1> QED BY <1>3, <1>4, <1>5, <1>6 DEF IndInv, TypeOK

\* The inductive invariant holds of every behaviour of the store.
THEOREM StoreInductive == Spec => []IndInv
<1>1. Init => IndInv
  BY InitInd
<1>2. IndInv /\ [Next]_vars => IndInv'
  <2> SUFFICES ASSUME IndInv, [Next]_vars PROVE IndInv'
    OBVIOUS
  <2>1. CASE Next
    BY <2>1, WindowStep, StoreTypeStep, DiskTypeStep, CallTypeStep
    DEF IndInv, TypeOK
  <2>2. CASE UNCHANGED vars
    BY <2>2 DEF IndInv, TypeOK, StoreType, DiskType, CallType, WindowInv,
       AbstractFirst, AbstractEnd, Indices, vars, storeVars, diskVars
  <2> QED BY <2>1, <2>2
<1> QED BY <1>1, <1>2, PTL DEF Spec

\* Type correctness of inmem_log_store: no call of any interleaving removes
\* the dummy entry at index 0 or drives start_idx_ to 0.
THEOREM StoreTypeCorrect == Spec => []TypeOK
<1>1. IndInv => TypeOK
  BY DEF IndInv
<1> QED BY <1>1, StoreInductive, PTL

\* Between calls of apply_pack the store's keys are exactly the dummy and
\* start_idx_ .. next_slot() - 1, for every log, pack and reader.
THEOREM StoreContiguous == Spec => []Contiguous
<1>1. IndInv => Contiguous
  BY WindowNow DEF Contiguous
<1> QED BY <1>1, StoreInductive, PTL
-----------------------------------------------------------------------------
\* A caller that sets one disk delay, apart from switching it off: then a later
\* write never completes before an earlier one.
OneDelay(D) == D \in Nat \ {0} /\ Delays \subseteq {0, D}

\* The registered write of time t, and all later ones, are of index i or higher.
Covers(t, i) ==
  \A u \in DOMAIN disk_emul_logs_being_written_ :
    u >= t => disk_emul_logs_being_written_[u] >= i

\* The inductive form of NoWriteForgotten: no write is due later than one that
\* is registered now would be, and what is due is covered by a pending write or,
\* when none is left, by the durable index.
PendingInv(D) ==
  /\ \A t \in DOMAIN disk_emul_logs_being_written_ : t <= clock + D
  /\ \A i \in DOMAIN due :
       \/ \E t \in DOMAIN disk_emul_logs_being_written_ : Covers(t, i)
       \/ /\ DOMAIN disk_emul_logs_being_written_ = {}
          /\ i <= disk_emul_last_durable_index_

\* A write registered with the one delay completes last, so it covers its own
\* index and every lower one that is still due.
LEMMA RegisterPending ==
  ASSUME NEW D, OneDelay(D), DiskType, PendingInv(D),
         NEW i \in Nat, NEW b \in BOOLEAN, Register(i, b),
         UNCHANGED <<clock, disk_emul_last_durable_index_>>
  PROVE  PendingInv(D)'
<1>1. CASE disk_emul_delay = 0
  <2>1. /\ DOMAIN due' \subseteq DOMAIN due
        /\ disk_emul_logs_being_written_' = disk_emul_logs_being_written_
    BY <1>1 DEF Register, Restrict
  <2> QED BY <2>1 DEF PendingInv, Covers
<1>2. CASE disk_emul_delay # 0
  <2>1. PICK at \in Nat : at = clock + disk_emul_delay /\ at = clock + D
    BY <1>2 DEF OneDelay, DiskType
  <2> DEFINE w == Put(disk_emul_logs_being_written_, at, i)
             keep == {t \in DOMAIN w : b => w[t] <= i}
             d == Restrict(due, {j \in DOMAIN due : j < i})
  <2>2. disk_emul_logs_being_written_' = Restrict(w, keep) /\ due' = Put(d, i, at)
    BY <1>2, <2>1 DEF Register
  <2>3. /\ DOMAIN w = DOMAIN disk_emul_logs_being_written_ \cup {at} /\ w[at] = i
        /\ at \in keep /\ keep \subseteq DOMAIN w
    BY DEF Put
  <2> HIDE DEF w, keep, d
  <2>4. /\ DOMAIN disk_emul_logs_being_written_' = keep
        /\ disk_emul_logs_being_written_'[at] = i
    BY <2>2, <2>3 DEF Restrict
  <2>5. \A t \in keep : t \in Nat /\ t <= clock + D
    BY <2>1, <2>3 DEF PendingInv, DiskType
  <2>6. \A j \in DOMAIN due' : j \in Nat /\ j <= i
    BY <2>2 DEF d, Put, Restrict, DiskType
  <2>7. \A j \in DOMAIN due' : Covers(at, j)'
    <3> SUFFICES ASSUME NEW j \in DOMAIN due', NEW u \in keep, u >= at
                 PROVE  disk_emul_logs_being_written_'[u] >= j
      BY <2>4 DEF Covers
    <3>1. u = at
      BY <2>1, <2>5
    <3> QED BY <3>1, <2>4, <2>6
  <2> QED BY <2>3, <2>4, <2>5, <2>7 DEF PendingInv
<1> QED BY <1>1, <1>2

\* Every step keeps it: the disk thread leaves the writes that complete later
\* and makes durable the highest of those that it retires.
LEMMA PendingStep ==
  ASSUME NEW D, OneDelay(D), IndInv, PendingInv(D), Next
  PROVE  PendingInv(D)'
<1> USE DEF IndInv, TypeOK
<1>1. ASSUME NEW e \in Entry, append(e) PROVE PendingInv(D)'
  <2>1. next_slot \in Nat /\ Register(next_slot, FALSE)
    BY <1>1, WindowNow DEF append
  <2> QED BY <1>1, <2>1, RegisterPending DEF append
<1>2. ASSUME NEW i \in 1 .. MaxIndex, NEW e \in Entry, write_at(i, e)
      PROVE PendingInv(D)'
  <2>1. i \in Nat OBVIOUS
  <2>2. Register(i, TRUE) BY <1>2, Zenon DEF write_at
  <2> QED BY <1>2, <2>1, <2>2, RegisterPending DEF write_at
<1>3. ASSUME (\E l \in 1 .. MaxIndex : compact(l)) \/ ApplyPackEntry
      PROVE PendingInv(D)'
  <2>1. DOMAIN due' \subseteq DOMAIN due /\ UNCHANGED <<diskVars, clock>>
    BY <1>3 DEF compact, ApplyPackEntry, Restrict
  <2> QED BY <2>1 DEF PendingInv, Covers, diskVars
<1>4. ASSUME FlushEnd PROVE PendingInv(D)'
  <2>1. DOMAIN due' = {}
    BY <1>4 DEF FlushEnd
  <2> QED BY <1>4, <2>1 DEF FlushEnd, PendingInv
<1>5. ASSUME Tick PROVE PendingInv(D)'
  <2>1. clock \in Nat /\ D \in Nat /\ DOMAIN disk_emul_logs_being_written_ \subseteq Nat
    BY DEF DiskType, OneDelay
  <2>2. clock' = clock + 1 /\ UNCHANGED <<diskVars, due>>
    BY <1>5 DEF Tick
  <2>3. \A t \in DOMAIN disk_emul_logs_being_written_' : t <= clock' + D
    BY <2>1, <2>2 DEF PendingInv, diskVars
  <2> QED BY <2>2, <2>3 DEF PendingInv, Covers, diskVars
<1>6. ASSUME DiskScan PROVE PendingInv(D)'
  <2> DEFINE w == disk_emul_logs_being_written_
             done == {t \in DOMAIN w : t <= disk.cur}
  <2>1. /\ disk_emul_logs_being_written_' = Restrict(w, DOMAIN w \ done)
        /\ \/ done = {} /\ UNCHANGED disk_emul_last_durable_index_
           \/ \E t \in done : /\ \A u \in done : u <= t
                              /\ disk_emul_last_durable_index_' = w[t]
        /\ UNCHANGED <<clock, due>>
    BY <1>6 DEF DiskScan
  <2>2. /\ DOMAIN w \subseteq Nat /\ disk.cur \in Nat
        /\ \A t \in DOMAIN w : w[t] \in Nat
        /\ DOMAIN due \subseteq Nat
    BY DEF DiskType
  <2>3. /\ DOMAIN disk_emul_logs_being_written_' = DOMAIN w \ done
        /\ \A t \in DOMAIN w \ done : disk_emul_logs_being_written_'[t] = w[t]
    BY <2>1 DEF Restrict
  <2>4. ASSUME NEW i \in DOMAIN due
        PROVE  \/ \E t \in DOMAIN w \ done : Covers(t, i)'
               \/ DOMAIN w \ done = {} /\ i <= disk_emul_last_durable_index_'
    <3>1. CASE DOMAIN w = {}
      BY <2>1, <3>1 DEF PendingInv
    <3>2. CASE DOMAIN w # {}
      <4>1. PICK t \in DOMAIN w : Covers(t, i)
        BY <3>2 DEF PendingInv
      <4>2. CASE t \notin done
        BY <2>3, <4>1, <4>2 DEF Covers
      <4>3. CASE t \in done
        <5>1. PICK m \in done : /\ \A u \in done : u <= m
                                /\ disk_emul_last_durable_index_' = w[m]
          BY <2>1, <4>3
        <5>2. m >= t /\ w[m] >= i
          BY <2>2, <4>1, <4>3, <5>1 DEF Covers
        <5>3. \A u \in DOMAIN w \ done : u >= t
          BY <2>2, <4>3
        <5>4. \A u \in DOMAIN w \ done : Covers(u, i)'
          BY <2>2, <2>3, <4>1, <5>3 DEF Covers
        <5> QED BY <2>2, <5>1, <5>2, <5>4
      <4> QED BY <4>2, <4>3
    <3> QED BY <3>1, <3>2
  <2> QED BY <2>1, <2>3, <2>4 DEF PendingInv
<1>7. ASSUME UNCHANGED <<disk_emul_logs_being_written_, disk_emul_last_durable_index_,
                         clock, due>>
      PROVE PendingInv(D)'
  BY <1>7 DEF PendingInv, Covers
<1>8. ASSUME \/ \E i \in 1 .. MaxIndex, n \in 0 .. MaxPack :
                   \E es \in [1 .. n -> Entry] : ApplyPackBegin(i, es)
             \/ FlushBegin \/ ApplyPackEnd \/ Ended
             \/ \E r \in Readers : Reader(r)
             \/ \E d \in Delays : SetDiskDelay(d)
             \/ DiskStep \/ Destroy
      PROVE UNCHANGED <<disk_emul_logs_being_written_, disk_emul_last_durable_index_,
                        clock, due>>
  BY <1>8 DEF ApplyPackBegin, FlushBegin, ApplyPackEnd, Ended, Reader,
     LogEntries, Pack, LogEntriesExt, LastEntry, EntryAt, Read, ReadStep, PackCrash,
     Return, SetDiskDelay, DiskStep, DiskWake, DiskTimeout, DiskReset, DiskExit, LeaveLoop,
     Destroy, vars, diskVars
<1> QED BY <1>1, <1>2, <1>3, <1>4, <1>5, <1>6, <1>7, <1>8 DEF Next, Writer, DiskStep

\* The emulated disk of in_memory_log_store.cpp forgets no write, whatever
\* truncations, flushes and writes in the same microsecond it meets, when the
\* delay is only switched on and off.  With two delays it does: a write with
\* the shorter one completes first, and the longer one then lowers the index.
THEOREM StoreForgetsNoWrite ==
  ASSUME NEW D, OneDelay(D)
  PROVE  Spec => []NoWriteForgotten
<1>1. Init => PendingInv(D)
  <2> SUFFICES ASSUME Init PROVE PendingInv(D)
    OBVIOUS
  <2>1. DOMAIN disk_emul_logs_being_written_ = {} /\ DOMAIN due = {}
    BY DEF Init
  <2> QED BY <2>1 DEF PendingInv
<1>2. IndInv /\ PendingInv(D) /\ [Next]_vars => PendingInv(D)'
  <2> SUFFICES ASSUME IndInv, PendingInv(D), [Next]_vars PROVE PendingInv(D)'
    OBVIOUS
  <2>1. CASE Next
    BY <2>1, PendingStep
  <2>2. CASE UNCHANGED vars
    BY <2>2 DEF PendingInv, Covers, vars, diskVars
  <2> QED BY <2>1, <2>2
<1>3. PendingInv(D) => NoWriteForgotten
  BY DEF PendingInv, NoWriteForgotten
<1> QED BY <1>1, <1>2, <1>3, StoreInductive, PTL DEF Spec
-----------------------------------------------------------------------------
\* What a log store lets a reader rely on while mutators run: the dummy stays
\* the dummy, no index is above the bound, and the end of a pack that brought
\* entries does not take start_idx_ back.
BoundInv ==
  /\ logs_[0] = Dummy
  /\ \A i \in Indices : i <= MaxIndex
  /\ wr.op = "apply" =>
       /\ wr.idx + Len(wr.left) <= MaxIndex + 1
       /\ IF Indices # {} THEN AbstractFirst >= start_idx_ ELSE wr.idx >= start_idx_

\* A change of the keys that leaves the first of them where it is.
LEMMA FirstKept ==
  ASSUME IndInv, Indices # {}, DOMAIN logs_' = DOMAIN logs_ \cup {wr.idx},
         wr.idx \in AbstractFirst .. AbstractEnd
  PROVE  AbstractFirst' = AbstractFirst /\ Indices' # {}
<1>1. PICK lo \in Nat \ {0}, end \in Nat :
         lo = AbstractFirst /\ end = AbstractEnd /\ lo < end /\ Indices = lo .. end - 1
  <2>1. Cardinality(Indices) \in Nat /\ AbstractFirst \in Nat \ {0}
    BY NextSlotIsEnd DEF IndInv, TypeOK
  <2>2. AbstractEnd \in Nat
    BY <2>1 DEF AbstractEnd
  <2> QED BY <2>1, <2>2 DEF IndInv, WindowInv
<1>2. PICK hi \in Nat : hi = IF wr.idx = end THEN end + 1 ELSE end
  OBVIOUS
<1>3. Indices' = lo .. hi - 1 /\ lo < hi
  <2>1. Indices' = Indices \cup {wr.idx}
    BY <1>1 DEF Indices
  <2> QED BY <1>1, <1>2, <2>1
<1> QED BY <1>1, <1>3, WindowPrime, SMTT(30)

\* Every step keeps these bounds.
LEMMA BoundStep ==
  ASSUME IndInv, BoundInv, Next PROVE BoundInv'
<1> USE DEF IndInv
<1>0. StoreType /\ 0 \notin Indices /\ Indices \subseteq DOMAIN logs_ /\ MaxIndex \in Nat
  BY ConstAssumption DEF TypeOK, Indices
<1>1. ASSUME NEW e \in Entry, append(e) PROVE BoundInv'
  <2>1. /\ wr.op # "apply" /\ wr' = wr /\ next_slot <= MaxIndex
        /\ logs_' = Put(logs_, next_slot, e)
    BY <1>1 DEF append
  <2>2. Indices' = Indices \cup {next_slot} /\ logs_'[0] = logs_[0]
    BY <1>0, <2>1, WindowNow DEF Put, Indices, StoreType
  <2> QED BY <2>1, <2>2 DEF BoundInv
<1>2. ASSUME NEW i \in 1 .. MaxIndex, NEW e \in Entry, write_at(i, e)
      PROVE BoundInv'
  <2>1. /\ wr.op # "apply" /\ wr' = wr
        /\ logs_' = Put(Restrict(logs_, {j \in DOMAIN logs_ : j < i}), i, e)
    BY <1>2 DEF write_at
  <2>2. Indices' \subseteq Indices \cup {i} /\ logs_'[0] = logs_[0]
    BY <1>0, <2>1 DEF Put, Restrict, Indices, StoreType
  <2> QED BY <2>1, <2>2 DEF BoundInv
<1>3. ASSUME NEW l \in 1 .. MaxIndex, compact(l) PROVE BoundInv'
  <2>1. /\ wr.op # "apply" /\ wr' = wr
        /\ logs_' = Restrict(logs_, DOMAIN logs_ \ (start_idx_ .. l))
    BY <1>3 DEF compact
  <2>2. Indices' \subseteq Indices /\ logs_'[0] = logs_[0]
    BY <1>0, <2>1 DEF Restrict, Indices, StoreType
  <2> QED BY <2>1, <2>2 DEF BoundInv
<1>4. ASSUME NEW i \in 1 .. MaxIndex, NEW es \in Seq(Entry), ApplyPackBegin(i, es)
      PROVE BoundInv'
  <2>1. /\ wr.op # "apply" /\ UNCHANGED <<logs_, start_idx_>>
        /\ wr' = [op |-> "apply", idx |-> i, left |-> es] /\ PackFits(i, es)
    BY <1>4 DEF ApplyPackBegin, storeVars
  <2>2. Indices' = Indices /\ AbstractFirst' = AbstractFirst
    BY <2>1 DEF Indices, AbstractFirst
  <2>3. AbstractFirst = start_idx_ /\ start_idx_ \in Nat
    BY <1>0, <2>1 DEF WindowInv, StoreType
  <2>4. i + Len(es) <= MaxIndex + 1
    BY <1>0, <2>1, LenProperties DEF PackFits
  <2>5. Indices = {} => i >= start_idx_
    BY <2>1 DEF PackFits
  <2> QED BY <2>1, <2>2, <2>3, <2>4, <2>5 DEF BoundInv
<1>5. ASSUME ApplyPackEntry PROVE BoundInv'
  <2>1. /\ wr.op = "apply" /\ wr.left # <<>> /\ start_idx_' = start_idx_
        /\ logs_' = Put(logs_, wr.idx, Head(wr.left))
        /\ wr' = [wr EXCEPT !.idx = @ + 1, !.left = Tail(@)]
    BY <1>5 DEF ApplyPackEntry
  <2>2. /\ wr.idx \in Nat \ {0} /\ wr.left \in Seq(Entry) /\ Len(wr.left) \in Nat \ {0}
        /\ Len(Tail(wr.left)) = Len(wr.left) - 1
    BY <2>1, HeadTailProperties, LenProperties DEF TypeOK, CallType, WindowInv
  <2>3. wr'.op = "apply" /\ wr'.idx = wr.idx + 1 /\ wr'.left = Tail(wr.left)
    BY <2>1 DEF TypeOK, CallType
  <2>4. DOMAIN logs_' = DOMAIN logs_ \cup {wr.idx} /\ logs_'[0] = logs_[0]
    BY <1>0, <2>1, <2>2 DEF Put, StoreType
  <2>5. Indices' = Indices \cup {wr.idx}
    BY <2>2, <2>4 DEF Indices
  <2>6. wr.idx <= MaxIndex /\ wr'.idx + Len(wr'.left) <= MaxIndex + 1
    BY <1>0, <2>1, <2>2, <2>3 DEF BoundInv
  <2>7. AbstractFirst' >= start_idx_
    <3>1. CASE Indices = {}
      <4>1. PICK lo \in Nat \ {0}, hi \in Nat : lo = wr.idx /\ hi = lo + 1
        BY <2>2
      <4>2. Indices' = lo .. hi - 1 /\ lo < hi
        BY <2>5, <3>1, <4>1
      <4>3. AbstractFirst' = wr.idx
        BY <4>1, <4>2, WindowPrime
      <4> QED BY <2>1, <3>1, <4>3 DEF BoundInv
    <3>2. CASE Indices # {}
      <4>1. wr.idx \in AbstractFirst .. AbstractEnd
        BY <2>1, <3>2 DEF WindowInv
      <4>2. AbstractFirst' = AbstractFirst
        BY <2>4, <3>2, <4>1, FirstKept
      <4> QED BY <2>1, <3>2, <4>2 DEF BoundInv
    <3> QED BY <3>1, <3>2
  <2> QED BY <2>1, <2>3, <2>4, <2>5, <2>6, <2>7 DEF BoundInv
<1>6. ASSUME ApplyPackEnd \/ FlushBegin \/ FlushEnd PROVE BoundInv'
  <2>1. wr'.op # "apply" /\ logs_' = logs_
    BY <1>6 DEF ApplyPackEnd, FlushBegin, FlushEnd, WriterIdle, storeVars
  <2> QED BY <2>1 DEF BoundInv, Indices
<1>7. ASSUME UNCHANGED <<logs_, start_idx_, wr>> PROVE BoundInv'
  BY <1>7 DEF BoundInv, Indices, AbstractFirst
<1>8. ASSUME NEW r \in Readers, Reader(r) PROVE UNCHANGED <<logs_, start_idx_, wr>>
  BY <1>8 DEF Reader, LogEntries, Pack, LogEntriesExt, LastEntry, EntryAt, Read,
              ReadStep, PackCrash, Return, storeVars
<1>9. ASSUME \/ \E d \in Delays : SetDiskDelay(d)
             \/ DiskStep \/ DiskScan \/ Destroy \/ Tick \/ Ended
      PROVE UNCHANGED <<logs_, start_idx_, wr>>
  BY <1>9 DEF SetDiskDelay, DiskStep, DiskWake, DiskTimeout, DiskReset,
              DiskExit, LeaveLoop, DiskScan, Destroy, Tick, Ended,
              storeVars, vars
<1>10. \A n \in 0 .. MaxPack : [1 .. n -> Entry] \subseteq Seq(Entry)
  BY SeqDef, ConstAssumption
<1> QED BY <1>1, <1>2, <1>3, <1>4, <1>5, <1>6, <1>7, <1>8, <1>9, <1>10 DEF Next, Writer, DiskStep

\* The bounds hold of every behaviour.
THEOREM StoreBounded == Spec => [](IndInv /\ BoundInv)
<1>1. Init => BoundInv
  <2> SUFFICES ASSUME Init PROVE BoundInv
    OBVIOUS
  <2>1. Indices = {} /\ logs_[0] = Dummy
    BY DEF Init, Indices
  <2> QED BY <2>1 DEF Init, WriterIdle, BoundInv
<1>2. IndInv /\ BoundInv /\ [Next]_vars => BoundInv'
  <2> SUFFICES ASSUME IndInv, BoundInv, [Next]_vars PROVE BoundInv'
    OBVIOUS
  <2>1. CASE Next
    BY <2>1, BoundStep
  <2>2. CASE UNCHANGED vars
    BY <2>2 DEF BoundInv, Indices, AbstractFirst, vars, storeVars
  <2> QED BY <2>1, <2>2
<1> QED BY <1>1, <1>2, StoreInductive, PTL DEF Spec
-----------------------------------------------------------------------------
\* The entry of index i as a reader sees it.
Held(i) == IF i \in Indices THEN logs_[i] ELSE Dummy

\* The inductive form of ReadsAreSlices: a call has collected the entries from
\* the first index of its range up to where it is; until a mutator overtakes it
\* these are still the entries of the log, and no index of its range is missing
\* if none was at first.
CallInv(c) ==
  /\ c.pos = c.first + Len(c.acc) /\ c.pos <= c.end
  /\ ~c.raced => \A k \in DOMAIN c.acc : c.acc[k] = Held(c.first + k - 1)
  /\ ~c.raced /\ ~c.torn => \A i \in c.first .. c.end - 1 :
       /\ c.op # "at" /\ i >= start_idx_ => i \in Indices
       /\ c.op = "pack" => i \in Indices

ReaderInv == \A r \in Readers : CallInv(rd[r])

CrashInv ==
  phase = "crashed" =>
    \E r \in Readers : rd[r].op = "pack" /\ (rd[r].raced \/ rd[r].torn)

\* The types of one reader's call.
LEMMA CallFacts ==
  ASSUME CallType, NEW r \in Readers
  PROVE  /\ rd[r].first \in Nat /\ rd[r].pos \in Nat /\ rd[r].end \in Nat
         /\ rd[r].acc \in Seq(Entry \cup {Dummy}) /\ Len(rd[r].acc) \in Nat
         /\ DOMAIN rd[r].acc = 1 .. Len(rd[r].acc) /\ rd[r].raced \in BOOLEAN
         /\ rd[r].torn \in BOOLEAN
  BY LenProperties DEF CallType

\* A mutator that touches only the indices T leaves the calls that it does not
\* overtake with what they have.
LEMMA OvertakeReaders ==
  ASSUME IndInv, ReaderInv, NEW T, Overtake(T),
         \A i \in Nat \ T : /\ i \in Indices' <=> i \in Indices
                            /\ i \in Indices => logs_'[i] = logs_[i],
         start_idx_' \in Nat, \A i \in Nat \ T : i >= start_idx_' => i >= start_idx_
  PROVE  ReaderInv'
<1> SUFFICES ASSUME NEW r \in Readers PROVE CallInv(rd[r])'
  BY DEF ReaderInv
<1>0. CallType /\ start_idx_ \in Nat
  BY DEF IndInv, TypeOK, StoreType
<1> DEFINE c == rd[r]
<1>a. PICK o : o = c.op
  OBVIOUS
<1>1. PICK f \in Nat, p \in Nat, e \in Nat, a \in Seq(Entry \cup {Dummy}) :
         /\ f = c.first /\ p = c.pos /\ e = c.end /\ a = c.acc /\ o = c.op
         /\ Len(a) \in Nat /\ DOMAIN a = 1 .. Len(a)
  BY <1>0, <1>a, CallFacts
<1>2. rd'[r] = [c EXCEPT !.raced = c.raced \/ (f .. e - 1) \cap T # {}]
  BY <1>1 DEF Overtake
<1>3. /\ rd'[r].first = f /\ rd'[r].pos = p /\ rd'[r].end = e /\ rd'[r].acc = a
      /\ rd'[r].op = o /\ rd'[r].torn = c.torn
      /\ rd'[r].raced = (c.raced \/ (f .. e - 1) \cap T # {})
  BY <1>0, <1>1, <1>2 DEF CallType
<1>4. p = f + Len(a) /\ p <= e
  BY <1>1 DEF ReaderInv, CallInv
<1>5. ASSUME ~c.raced, (f .. e - 1) \cap T = {}
      PROVE  /\ \A k \in DOMAIN a : a[k] = Held(f + k - 1)'
             /\ ~c.torn => \A i \in f .. e - 1 :
                  /\ o # "at" /\ i >= start_idx_' => i \in Indices'
                  /\ o = "pack" => i \in Indices'
  <2>1. \A i \in f .. e - 1 : i \in Nat \ T
    BY <1>5
  <2>2. ASSUME NEW k \in DOMAIN a PROVE a[k] = Held(f + k - 1)'
    <3>0. Len(a) \in Nat /\ k \in 1 .. Len(a)
      BY <1>1
    <3>1. PICK i \in f .. e - 1 : i = f + k - 1
      <4>1. f + k - 1 \in f .. e - 1
        BY <1>4, <3>0
      <4> QED BY <4>1
    <3>2. a[k] = Held(i)
      BY <1>1, <1>5, <3>1 DEF ReaderInv, CallInv
    <3> QED BY <2>1, <3>1, <3>2 DEF Held
  <2>3. ASSUME NEW i \in f .. e - 1, ~c.torn
        PROVE  /\ o # "at" /\ i >= start_idx_' => i \in Indices'
               /\ o = "pack" => i \in Indices'
    <3>1. /\ o # "at" /\ i >= start_idx_ => i \in Indices
          /\ o = "pack" => i \in Indices
      BY <1>1, <1>5, <2>3 DEF ReaderInv, CallInv
    <3> QED BY <1>0, <2>1, <3>1
  <2> QED BY <2>2, <2>3
<1> QED BY <1>3, <1>4, <1>5 DEF CallInv

\* Every mutator touches the indices it says.
LEMMA WriterKeepsReaders ==
  ASSUME IndInv, BoundInv, ReaderInv, Writer PROVE ReaderInv'
<1> USE DEF IndInv
<1>0. /\ StoreType /\ Indices \subseteq Nat \ {0} /\ MaxIndex \in Nat
      /\ start_idx_ \in Nat
      /\ DOMAIN logs_ = Indices \cup {0}
  BY ConstAssumption DEF TypeOK, StoreType, Indices
<1>1. ASSUME NEW e \in Entry, append(e) PROVE ReaderInv'
  <2>1. /\ logs_' = Put(logs_, next_slot, e) /\ start_idx_' = start_idx_
        /\ wr.op # "apply"
    BY <1>1 DEF append
  <2>2. Overtake({next_slot})
    BY <1>1, Zenon DEF append
  <2>3. \A i \in Nat \ {next_slot} : /\ i \in Indices' <=> i \in Indices
                                     /\ i \in Indices => logs_'[i] = logs_[i]
    BY <1>0, <2>1 DEF Put, Indices
  <2> QED BY <1>0, <2>1, <2>2, <2>3, OvertakeReaders
<1>2. ASSUME NEW i \in 1 .. MaxIndex, NEW e \in Entry, write_at(i, e)
      PROVE ReaderInv'
  <2>1. /\ logs_' = Put(Restrict(logs_, {j \in DOMAIN logs_ : j < i}), i, e)
        /\ start_idx_' = start_idx_
    BY <1>2 DEF write_at
  <2>2. Overtake(i .. MaxIndex)
    BY <1>2, Zenon DEF write_at
  <2>3. \A j \in Nat \ (i .. MaxIndex) : /\ j \in Indices' <=> j \in Indices
                                         /\ j \in Indices => logs_'[j] = logs_[j]
    BY <1>0, <2>1 DEF Put, Restrict, Indices, BoundInv
  <2> QED BY <1>0, <2>1, <2>2, <2>3, OvertakeReaders
<1>3. ASSUME NEW l \in 1 .. MaxIndex, compact(l) PROVE ReaderInv'
  <2>1. /\ logs_' = Restrict(logs_, DOMAIN logs_ \ (start_idx_ .. l))
        /\ start_idx_' = IF start_idx_ <= l THEN l + 1 ELSE start_idx_
    BY <1>3 DEF compact
  <2>2. Overtake(start_idx_ .. l)
    BY <1>3, Zenon DEF compact
  <2>3. \A j \in Nat \ (start_idx_ .. l) : /\ j \in Indices' <=> j \in Indices
                                           /\ j \in Indices => logs_'[j] = logs_[j]
    BY <1>0, <2>1 DEF Restrict, Indices
  <2>4. /\ start_idx_' \in Nat
        /\ \A j \in Nat \ (start_idx_ .. l) : j >= start_idx_' => j >= start_idx_
    BY <1>0, <2>1
  <2> QED BY <2>2, <2>3, <2>4, OvertakeReaders
<1>4. ASSUME ApplyPackEntry PROVE ReaderInv'
  <2>1. /\ logs_' = Put(logs_, wr.idx, Head(wr.left)) /\ start_idx_' = start_idx_
    BY <1>4 DEF ApplyPackEntry
  <2>2. Overtake({wr.idx})
    BY <1>4, Zenon DEF ApplyPackEntry
  <2>3. \A i \in Nat \ {wr.idx} : /\ i \in Indices' <=> i \in Indices
                                  /\ i \in Indices => logs_'[i] = logs_[i]
    BY <1>0, <2>1 DEF Put, Indices
  <2> QED BY <1>0, <2>1, <2>2, <2>3, OvertakeReaders
<1>5. ASSUME ApplyPackEnd PROVE ReaderInv'
  <2>1. /\ logs_' = logs_
        /\ start_idx_' = IF Indices # {} THEN AbstractFirst ELSE 1
    BY <1>5 DEF ApplyPackEnd, AbstractFirst
  <2>2. PICK m \in Nat : m = start_idx_'
    BY <2>1 DEF WindowInv
  <2>3. Overtake(m .. start_idx_ - 1)
    BY <1>5, <2>2, Zenon DEF ApplyPackEnd
  <2>4. \A i \in Nat \ (m .. start_idx_ - 1) : i >= start_idx_' => i >= start_idx_
    BY <1>0, <2>2
  <2>5. Indices' = Indices
    BY <2>1 DEF Indices
  <2> QED BY <2>1, <2>2, <2>3, <2>4, <2>5, OvertakeReaders
<1>6. ASSUME UNCHANGED <<logs_, start_idx_, rd>> PROVE ReaderInv'
  BY <1>6 DEF ReaderInv, CallInv, Held, Indices
<1>7. ASSUME \/ \E i \in 1 .. MaxIndex, n \in 0 .. MaxPack :
                   \E es \in [1 .. n -> Entry] : ApplyPackBegin(i, es)
             \/ FlushBegin \/ FlushEnd
      PROVE UNCHANGED <<logs_, start_idx_, rd>>
  BY <1>7 DEF ApplyPackBegin, FlushBegin, FlushEnd, storeVars
<1> QED BY <1>1, <1>2, <1>3, <1>4, <1>5, <1>6, <1>7 DEF Writer

\* Unless start_idx_ is not where the log begins, the window that it and
\* next_slot() show is that of the entries, while a pack is being applied too.
LEMMA WindowShown ==
  ASSUME IndInv, BoundInv, ~Torn
  PROVE  Indices = start_idx_ .. next_slot - 1
<1>1. CASE wr.op # "apply"
  BY <1>1, WindowNow
<1>2. CASE wr.op = "apply"
  <2>1. start_idx_ = AbstractFirst
    <3>1. CASE Indices = {}
      BY <3>1 DEF AbstractFirst
    <3>2. CASE Indices # {}
      <4>1. start_idx_ \in AbstractFirst .. AbstractEnd - 1 /\ AbstractFirst \in Nat
        BY <3>2 DEF Torn, IndInv, WindowInv
      <4>2. AbstractFirst >= start_idx_ /\ start_idx_ \in Nat
        BY <1>2, <3>2 DEF BoundInv, IndInv, TypeOK, StoreType
      <4> QED BY <4>1, <4>2
    <3> QED BY <3>1, <3>2
  <2>2. next_slot = AbstractEnd
    BY <2>1, NextSlotIsEnd DEF IndInv, TypeOK
  <2> QED BY <2>1, <2>2 DEF IndInv, WindowInv
<1> QED BY <1>1, <1>2

\* A call that begins asks for indices of the window, or for one only.
LEMMA ReadBegins ==
  ASSUME IndInv, ReaderInv, NEW r \in Readers, NEW o, NEW i \in Nat, NEW j \in Nat,
         i <= j, NEW b, Read(r, o, i, j, b),
         ~Torn => \A k \in i .. j - 1 :
           /\ o # "at" /\ k >= start_idx_ => k \in Indices
           /\ o = "pack" => k \in Indices
  PROVE  ReaderInv'
<1>1. /\ UNCHANGED <<logs_, start_idx_>>
      /\ rd' = [rd EXCEPT ![r] =
           [op |-> o, first |-> i, pos |-> i, end |-> j,
            batch |-> b, acc |-> <<>>, raced |-> FALSE, torn |-> Torn]]
  BY DEF Read, storeVars
<1>2. rd'[r] = [op |-> o, first |-> i, pos |-> i, end |-> j,
                batch |-> b, acc |-> <<>>, raced |-> FALSE, torn |-> Torn]
      /\ \A u \in Readers : u # r => rd'[u] = rd[u]
  BY <1>1 DEF IndInv, TypeOK, CallType
<1>3. CallInv(rd[r])'
  <2>1. /\ rd'[r].first = i /\ rd'[r].pos = i /\ rd'[r].end = j /\ rd'[r].op = o
        /\ rd'[r].acc = <<>> /\ ~rd'[r].raced /\ rd'[r].torn = Torn
    BY <1>2
  <2>2. Len(<<>>) = 0 /\ DOMAIN <<>> = {} /\ Indices' = Indices
    BY <1>1 DEF Indices
  <2>3. i = i + 0
    OBVIOUS
  <2> QED BY <1>1, <2>1, <2>2, <2>3 DEF CallInv
<1>4. \A u \in Readers : u # r => CallInv(rd[u])'
  BY <1>1, <1>2 DEF ReaderInv, CallInv, Held, Indices
<1> QED BY <1>3, <1>4 DEF ReaderInv

\* One lookup adds the entry of its index.
LEMMA ReadStepKeeps ==
  ASSUME IndInv, BoundInv, ReaderInv, NEW r \in Readers, ReadStep(r)
  PROVE  ReaderInv'
<1> DEFINE c == rd[r]
<1>1. PICK f \in Nat, p \in Nat, e \in Nat, a \in Seq(Entry \cup {Dummy}) :
         /\ f = c.first /\ p = c.pos /\ e = c.end /\ a = c.acc
         /\ Len(a) \in Nat /\ DOMAIN a = 1 .. Len(a)
  BY CallFacts DEF IndInv, TypeOK
<1>2. PICK x : x = IF p \in DOMAIN logs_ THEN logs_[p] ELSE logs_[0]
  OBVIOUS
<1>3. PICK stop \in {p + 1, e} :
        rd' = [rd EXCEPT ![r] = [c EXCEPT !.pos = @ + 1, !.end = stop,
                                          !.acc = Append(@, x)]]
  BY <1>1, <1>2 DEF ReadStep
<1>4. p < e /\ UNCHANGED <<logs_, start_idx_>>
  BY <1>1 DEF ReadStep, storeVars
<1>5. /\ rd'[r].first = f /\ rd'[r].pos = p + 1 /\ rd'[r].end = stop
      /\ rd'[r].acc = Append(a, x) /\ rd'[r].op = c.op /\ rd'[r].raced = c.raced
      /\ rd'[r].torn = c.torn
      /\ \A u \in Readers : u # r => rd'[u] = rd[u]
  BY <1>1, <1>3 DEF IndInv, TypeOK, CallType
<1>6. x = Held(p) /\ x \in Entry \cup {Dummy}
  BY <1>2 DEF Held, Indices, BoundInv, IndInv, TypeOK, StoreType
<1>7. /\ Len(Append(a, x)) = Len(a) + 1
      /\ DOMAIN Append(a, x) = 1 .. Len(a) + 1
      /\ Append(a, x)[Len(a) + 1] = x
      /\ \A k \in 1 .. Len(a) : Append(a, x)[k] = a[k]
  BY <1>1, <1>6, AppendProperties
<1>8. p = f + Len(a) /\ p + 1 <= stop /\ stop <= e
  BY <1>1, <1>4 DEF ReaderInv, CallInv
<1>9. CallInv(rd[r])'
  <2>1. ASSUME ~c.raced, NEW k \in 1 .. Len(a) + 1
        PROVE  Append(a, x)[k] = Held(f + k - 1)
    <3>1. CASE k = Len(a) + 1
      <4>1. f + k - 1 = p
        BY <1>1, <1>8, <3>1
      <4> QED BY <1>6, <1>7, <3>1, <4>1
    <3>2. CASE k \in 1 .. Len(a)
      <4>1. a[k] = Held(f + k - 1)
        BY <1>1, <2>1, <3>2 DEF ReaderInv, CallInv
      <4> QED BY <1>7, <3>2, <4>1
    <3> QED BY <1>1, <3>1, <3>2
  <2>2. ASSUME ~c.raced, ~c.torn, NEW i \in f .. stop - 1
        PROVE  /\ c.op # "at" /\ i >= start_idx_ => i \in Indices
               /\ c.op = "pack" => i \in Indices
    <3>1. i \in f .. e - 1
      BY <1>8
    <3> QED BY <1>1, <2>2, <3>1 DEF ReaderInv, CallInv
  <2>3. Indices' = Indices /\ \A i : Held(i)' = Held(i)
    BY <1>4 DEF Held, Indices
  <2>4. p + 1 = f + Len(Append(a, x))
    <3>1. PICK n \in Nat : n = Len(a)
      BY <1>1
    <3>2. p + 1 = f + (n + 1)
      BY <1>8, <3>1
    <3> QED BY <1>7, <3>1, <3>2, Zenon
  <2> QED BY <1>4, <1>5, <1>7, <1>8, <2>1, <2>2, <2>3, <2>4 DEF CallInv
<1>10. \A u \in Readers : u # r => CallInv(rd[u])'
  BY <1>4, <1>5 DEF ReaderInv, CallInv, Held, Indices
<1> QED BY <1>9, <1>10 DEF ReaderInv

\* Every step of a reader keeps the readers' calls in step with the log.
LEMMA ReaderKeeps ==
  ASSUME IndInv, BoundInv, ReaderInv, NEW r \in Readers, Reader(r)
  PROVE  ReaderInv'
<1>0. /\ start_idx_ \in Nat \ {0} /\ next_slot \in Nat /\ next_slot >= start_idx_
  BY NextSlotIsEnd DEF IndInv, TypeOK, StoreType
<1>1. ~Torn => Indices = start_idx_ .. next_slot - 1
  BY WindowShown
<1>2. ASSUME NEW i \in start_idx_ .. next_slot, NEW j \in i .. next_slot,
             LogEntries(r, i, j) \/ Pack(r, i, j)
               \/ \E hint \in {-1, 0, 1} : LogEntriesExt(r, i, j, hint)
      PROVE  ReaderInv'
  <2>1. i \in Nat /\ j \in Nat /\ i <= j
    BY <1>0
  <2>2. ~Torn => \A k \in i .. j - 1 : k \in Indices
    BY <1>0, <1>1
  <2>3. CASE LogEntries(r, i, j)
    BY <2>1, <2>2, <2>3, ReadBegins DEF LogEntries
  <2>4. CASE Pack(r, i, j)
    BY <2>1, <2>2, <2>4, ReadBegins DEF Pack
  <2>5. ASSUME NEW hint \in {-1, 0, 1}, LogEntriesExt(r, i, j, hint)
        PROVE  ReaderInv'
    <3>1. PICK k \in Nat : k = IF hint < 0 THEN i ELSE j
      BY <2>1
    <3>2. i <= k /\ (~Torn => \A m \in i .. k - 1 : m \in Indices)
      BY <2>1, <2>2, <3>1
    <3>3. Read(r, "ext", i, k, hint > 0)
      BY <2>5, <3>1 DEF LogEntriesExt
    <3> QED BY <2>1, <3>2, <3>3, ReadBegins
  <2> QED BY <1>2, <2>3, <2>4, <2>5
<1>3. ASSUME LastEntry(r) PROVE ReaderInv'
  <2>1. PICK i \in Nat, j \in Nat : i = next_slot - 1 /\ j = next_slot
    BY <1>0
  <2>2. ~Torn => \A k \in i .. j - 1 : k >= start_idx_ => k \in Indices
    BY <1>0, <1>1, <2>1
  <2>3. Read(r, "last", i, j, FALSE)
    BY <1>3, <2>1, Zenon DEF LastEntry
  <2>4. i <= j
    BY <1>0, <2>1
  <2> QED BY <2>2, <2>3, <2>4, ReadBegins
<1>4. ASSUME NEW i \in 0 .. MaxIndex, EntryAt(r, i) PROVE ReaderInv'
  <2>1. i \in Nat /\ i + 1 \in Nat /\ i <= i + 1
    OBVIOUS
  <2> QED BY <1>4, <2>1, ReadBegins DEF EntryAt
<1>5. ASSUME PackCrash(r) PROVE ReaderInv'
  BY <1>5 DEF PackCrash, ReaderInv, CallInv, Held, Indices, storeVars
<1>6. ASSUME Return(r) PROVE ReaderInv'
  <2>1. /\ rd'[r] = ReaderIdle /\ UNCHANGED <<logs_, start_idx_>>
        /\ \A u \in Readers : u # r => rd'[u] = rd[u]
    BY <1>6 DEF Return, storeVars, IndInv, TypeOK, CallType
  <2>2. CallInv(rd[r])'
    BY <2>1 DEF CallInv, ReaderIdle
  <2> QED BY <2>1, <2>2 DEF ReaderInv, CallInv, Held, Indices
<1> QED BY <1>2, <1>3, <1>4, <1>5, <1>6, ReadStepKeeps DEF Reader

\* A step that is none of the writer's and none of the readers'.
LEMMA ElseKeepsReaders ==
  ASSUME \/ \E d \in Delays : SetDiskDelay(d)
         \/ DiskStep \/ DiskScan \/ Destroy \/ Tick \/ Ended
  PROVE  /\ UNCHANGED <<logs_, start_idx_, rd>>
         /\ phase' = "crashed" => phase = "crashed"
<1>1. ASSUME NEW d \in Delays, SetDiskDelay(d)
      PROVE  UNCHANGED <<logs_, start_idx_, rd, phase>>
  BY <1>1 DEF SetDiskDelay, storeVars
<1>2. ASSUME Tick \/ Ended
      PROVE  UNCHANGED <<logs_, start_idx_, rd, phase>>
  BY <1>2 DEF Tick, Ended, storeVars, vars
<1>3. ASSUME Destroy \/ DiskStep \/ DiskScan
      PROVE  UNCHANGED <<logs_, start_idx_, rd>> /\ phase' # "crashed"
  BY <1>3 DEF Destroy, DiskStep, DiskWake, DiskTimeout, DiskReset, DiskExit, DiskScan,
              LeaveLoop, Stopping, storeVars
<1> QED BY <1>1, <1>2, <1>3

\* Only pack() crashes, on an index that is missing: the call was overtaken.
LEMMA CrashStep ==
  ASSUME IndInv, ReaderInv, CrashInv, Next PROVE CrashInv'
<1>1. ASSUME Writer PROVE phase' = "up"
  <2>1. ASSUME NEW e \in Entry, append(e) PROVE phase' = "up"
    BY <2>1 DEF append
  <2>2. ASSUME NEW i \in 1 .. MaxIndex, NEW e \in Entry, write_at(i, e)
        PROVE  phase' = "up"
    BY <2>2 DEF write_at
  <2>3. ASSUME NEW l \in 1 .. MaxIndex, compact(l) PROVE phase' = "up"
    BY <2>3 DEF compact
  <2>4. ASSUME NEW i, NEW es, ApplyPackBegin(i, es) PROVE phase' = "up"
    BY <2>4 DEF ApplyPackBegin
  <2>5. ASSUME ApplyPackEntry \/ ApplyPackEnd \/ FlushBegin \/ FlushEnd
        PROVE  phase' = "up"
    BY <2>5 DEF ApplyPackEntry, ApplyPackEnd, FlushBegin, FlushEnd
  <2> QED BY <1>1, <2>1, <2>2, <2>3, <2>4, <2>5 DEF Writer
<1>2. ASSUME NEW r \in Readers, PackCrash(r) PROVE CrashInv'
  <2>1. /\ rd[r].op = "pack" /\ rd[r].pos < rd[r].end /\ rd[r].pos \notin Indices
        /\ rd' = rd
    BY <1>2 DEF PackCrash, Indices
  <2>2. /\ rd[r].first \in Nat /\ rd[r].pos \in Nat /\ rd[r].end \in Nat
        /\ Len(rd[r].acc) \in Nat /\ rd[r].pos = rd[r].first + Len(rd[r].acc)
    BY CallFacts DEF IndInv, TypeOK, ReaderInv, CallInv
  <2>3. rd[r].pos \in rd[r].first .. rd[r].end - 1
    BY <2>1, <2>2
  <2>4. rd[r].raced \/ rd[r].torn
    BY <2>1, <2>3 DEF ReaderInv, CallInv
  <2> QED BY <2>1, <2>4 DEF CrashInv
<1>3. ASSUME NEW r \in Readers, Reader(r), ~PackCrash(r) PROVE phase' = "up"
  BY <1>3 DEF Reader, LogEntries, Pack, LogEntriesExt, LastEntry, EntryAt, Read,
              ReadStep, Return
<1>4. ASSUME UNCHANGED rd, phase' = "crashed" => phase = "crashed" PROVE CrashInv'
  BY <1>4 DEF CrashInv
<1>5. ASSUME phase' = "up" PROVE CrashInv'
  BY <1>5 DEF CrashInv
<1> QED BY <1>1, <1>2, <1>3, <1>4, <1>5, ElseKeepsReaders DEF Next, DiskStep

\* What the readers hold, and when the process may crash, for every behaviour.
THEOREM StoreReaders == Spec => [](ReaderInv /\ CrashInv)
<1>1. Init => ReaderInv /\ CrashInv
  <2> SUFFICES ASSUME Init PROVE ReaderInv /\ CrashInv
    OBVIOUS
  <2>1. \A r \in Readers : rd[r] = ReaderIdle
    BY DEF Init
  <2>2. CallInv(ReaderIdle)
    <3>1. Len(<<>>) = 0 /\ DOMAIN <<>> = {} /\ 0 .. 0 - 1 = {}
      OBVIOUS
    <3> QED BY <3>1 DEF CallInv, ReaderIdle
  <2> QED BY <2>1, <2>2 DEF ReaderInv, CrashInv, Init
<1>2. IndInv /\ BoundInv /\ ReaderInv /\ CrashInv /\ [Next]_vars
        => (ReaderInv /\ CrashInv)'
  <2> SUFFICES ASSUME IndInv, BoundInv, ReaderInv, CrashInv, [Next]_vars
               PROVE  ReaderInv' /\ CrashInv'
    OBVIOUS
  <2>1. ASSUME UNCHANGED <<logs_, start_idx_, rd>> PROVE ReaderInv'
    BY <2>1 DEF ReaderInv, CallInv, Held, Indices
  <2>2. CASE Next
    <3>1. ReaderInv'
      BY <2>1, <2>2, WriterKeepsReaders, ReaderKeeps, ElseKeepsReaders DEF Next,
         DiskStep
    <3> QED BY <2>2, <3>1, CrashStep
  <2>3. CASE UNCHANGED vars
    BY <2>1, <2>3 DEF CrashInv, vars, storeVars
  <2> QED BY <2>2, <2>3
<1> QED BY <1>1, <1>2, StoreBounded, PTL DEF Spec

\* log_entries, log_entries_ext, pack and last_entry return exactly the entries
\* of their range unless a mutator overtook the call in that range, although
\* each entry is looked up under a lock of its own; a call that began while
\* start_idx_ was not where the log begins may have the dummy among them.
THEOREM StoreReads == Spec => []ReadsAreSlices
<1>1. IndInv /\ ReaderInv => ReadsAreSlices
  <2> SUFFICES ASSUME IndInv, ReaderInv, NEW r \in Readers, ~rd[r].raced,
                      NEW k \in DOMAIN rd[r].acc
               PROVE  LET i == rd[r].first + k - 1 IN
                      /\ rd[r].acc[k] = IF i \in Indices THEN logs_[i] ELSE Dummy
                      /\ rd[r].op # "at" /\ ~rd[r].torn /\ i >= start_idx_ => i \in Indices
    BY DEF ReadsAreSlices
  <2>1. /\ rd[r].first \in Nat /\ rd[r].pos \in Nat /\ rd[r].end \in Nat
        /\ Len(rd[r].acc) \in Nat /\ rd[r].pos = rd[r].first + Len(rd[r].acc)
        /\ rd[r].pos <= rd[r].end /\ k \in 1 .. Len(rd[r].acc)
    BY CallFacts DEF IndInv, TypeOK, ReaderInv, CallInv
  <2>2. PICK i : i = rd[r].first + k - 1
    OBVIOUS
  <2>3. i \in rd[r].first .. rd[r].end - 1
    BY <2>1, <2>2, SMTT(30)
  <2>4. rd[r].acc[k] = Held(i)
    BY <2>2 DEF ReaderInv, CallInv
  <2>5. rd[r].op # "at" /\ ~rd[r].torn /\ i >= start_idx_ => i \in Indices
    BY <2>3 DEF ReaderInv, CallInv
  <2> QED BY <2>2, <2>4, <2>5 DEF Held
<1> QED BY <1>1, StoreBounded, StoreReaders, PTL

\* pack(), which dereferences the entry of every index of its range, kills the
\* process only in a call that a mutator overtook in that range, or that began
\* while apply_pack had put entries past start_idx_ and not yet moved it.
THEOREM StoreCrash == Spec => []CrashOnlyIfOvertaken
<1>1. CrashInv => CrashOnlyIfOvertaken
  BY DEF CrashInv, CrashOnlyIfOvertaken
<1> QED BY <1>1, StoreReaders, PTL
-----------------------------------------------------------------------------
\* The abstract log of the refinement: the entries without the dummy.
Win == Restrict(logs_, Indices)

\* The abstract log's window is the store's.
LEMMA WinFacts ==
  ASSUME IndInv
  PROVE  /\ DOMAIN Win = Indices /\ \A i \in Indices : Win[i] = logs_[i]
         /\ Abstract!NextIndex = AbstractEnd
         /\ AbstractFirst \in Nat \ {0} /\ AbstractEnd \in Nat
         /\ AbstractFirst <= AbstractEnd
         /\ Indices = AbstractFirst .. AbstractEnd - 1
         /\ wr.op # "apply" => AbstractFirst = start_idx_ /\ AbstractEnd = next_slot
<1>1. DOMAIN Win = Indices /\ \A i \in Indices : Win[i] = logs_[i]
  BY DEF Win, Restrict
<1>2. Abstract!NextIndex = AbstractEnd
  <2>1. \A S : Abstract!Cardinality(S) = Cardinality(S)
    BY DEF Abstract!Cardinality, Cardinality, Abstract!IsFiniteSet, IsFiniteSet
  <2> QED BY <1>1, <2>1 DEF Abstract!NextIndex, AbstractEnd, Win
<1>3. Cardinality(Indices) \in Nat /\ AbstractFirst \in Nat \ {0}
  BY NextSlotIsEnd DEF IndInv, TypeOK
<1>4. wr.op # "apply" => AbstractFirst = start_idx_ /\ AbstractEnd = next_slot
  BY NextSlotIsEnd DEF IndInv, TypeOK, WindowInv
<1> QED BY <1>1, <1>2, <1>3, <1>4 DEF AbstractEnd, IndInv, WindowInv

\* A step that puts one entry in the map extends or replaces in the abstract log.
LEMMA WinPut ==
  ASSUME NEW i \in Nat \ {0}, NEW e, logs_' = Put(logs_, i, e)
  PROVE  /\ Win' = [j \in DOMAIN Win \cup {i} |-> IF j = i THEN e ELSE Win[j]]
         /\ Indices' = Indices \cup {i}
<1>1. DOMAIN Win = Indices /\ \A j \in Indices : Win[j] = logs_[j]
  BY DEF Win, Restrict
<1>2. Indices' = Indices \cup {i}
  BY DEF Put, Indices
<1>3. Win' = [j \in Indices \cup {i} |-> logs_'[j]]
  BY <1>2 DEF Win, Restrict
<1>4. \A j \in Indices \cup {i} : logs_'[j] = IF j = i THEN e ELSE Win[j]
  BY <1>1 DEF Put, Indices
<1> QED BY <1>1, <1>2, <1>3, <1>4

\* Nothing of the abstract log changes.
LEMMA WinStutter ==
  ASSUME UNCHANGED <<logs_, start_idx_>>, (wr.op = "apply") = (wr'.op = "apply")
  PROVE  UNCHANGED Abstract!rlvars
  BY DEF Abstract!rlvars, AbstractFirst, Indices

\* append() extends the abstract log.
LEMMA AppendRefines ==
  ASSUME IndInv, IndInv', NEW e \in Entry, append(e)
  PROVE  Abstract!RLNext
<1>1. /\ logs_' = Put(logs_, next_slot, e) /\ start_idx_' = start_idx_
      /\ wr' = wr /\ wr.op # "apply"
  BY DEF append
<1>2. AbstractFirst' = AbstractFirst
  BY <1>1 DEF IndInv, WindowInv
<1>3. next_slot \in Nat \ {0} /\ Abstract!NextIndex = next_slot
  BY <1>1, WindowNow, WinFacts
<1>4. Win' = [j \in DOMAIN Win \cup {next_slot} |->
                IF j = next_slot THEN e ELSE Win[j]]
  BY <1>1, <1>3, WinPut
<1>5. Abstract!RLAppend(e)
  BY <1>1, <1>2, <1>3, <1>4 DEF Abstract!RLAppend, Win
<1> QED BY <1>5 DEF Abstract!RLNext

\* write_at() replaces an entry and drops the later ones.
LEMMA WriteAtRefines ==
  ASSUME IndInv, IndInv', NEW i \in 1 .. MaxIndex, NEW e \in Entry, write_at(i, e)
  PROVE  Abstract!RLNext
<1>1. /\ logs_' = Put(Restrict(logs_, {j \in DOMAIN logs_ : j < i}), i, e)
      /\ start_idx_' = start_idx_ /\ wr' = wr /\ wr.op # "apply"
      /\ i \in start_idx_ .. next_slot
  BY DEF write_at
<1>2. AbstractFirst' = AbstractFirst
  BY <1>1 DEF IndInv, WindowInv
<1>3. /\ AbstractFirst = start_idx_ /\ AbstractEnd = next_slot
      /\ Abstract!NextIndex = next_slot /\ start_idx_ \in Nat \ {0}
      /\ next_slot \in Nat /\ Indices = start_idx_ .. next_slot - 1
      /\ DOMAIN logs_ = {0} \cup (start_idx_ .. next_slot - 1)
  BY <1>1, WindowNow, WinFacts
<1>4. DOMAIN logs_' = {j \in DOMAIN logs_ : j < i} \cup {i}
  BY <1>1 DEF Put, Restrict
<1>5. Indices' = start_idx_ .. i
  <2>1. DOMAIN logs_' = {0} \cup (start_idx_ .. i)
    <3>1. PICK lo \in Nat \ {0}, hi \in Nat : lo = start_idx_ /\ hi = next_slot
      BY <1>3
    <3>2. {j \in {0} \cup (lo .. hi - 1) : j < i} \cup {i} = {0} \cup (lo .. i)
      <4>1. i \in lo .. hi
        BY <1>1, <3>1
      <4> QED BY <4>1
    <3> QED BY <1>3, <1>4, <3>1, <3>2
  <2> QED BY <1>3, <2>1 DEF Indices
<1>6. DOMAIN Win = Indices /\ \A j \in Indices : Win[j] = logs_[j]
  BY WinFacts
<1>7. \A j \in start_idx_ .. i : logs_'[j] = IF j = i THEN e ELSE Win[j]
  <2> SUFFICES ASSUME NEW j \in start_idx_ .. i
               PROVE  logs_'[j] = IF j = i THEN e ELSE Win[j]
    OBVIOUS
  <2>1. j = i \/ (j < i /\ j \in Indices /\ j \in DOMAIN logs_)
    BY <1>1, <1>3
  <2> QED BY <1>1, <1>6, <2>1 DEF Put, Restrict
<1>8. Win' = [j \in start_idx_ .. i |-> IF j = i THEN e ELSE Win[j]]
  BY <1>5, <1>7 DEF Win, Restrict
<1>9. Abstract!RLOverwrite(i, e)
  BY <1>1, <1>2, <1>3, <1>8 DEF Abstract!RLOverwrite, Win
<1>10. i \in DOMAIN Win \cup {Abstract!NextIndex}
  BY <1>1, <1>3, <1>6
<1> QED BY <1>9, <1>10 DEF Abstract!RLNext, Win

\* compact() drops the oldest entries, or does nothing.
LEMMA CompactRefines ==
  ASSUME IndInv, IndInv', NEW l \in 1 .. MaxIndex, compact(l)
  PROVE  Abstract!RLNext \/ UNCHANGED Abstract!rlvars
<1>1. /\ logs_' = Restrict(logs_, DOMAIN logs_ \ (start_idx_ .. l))
      /\ start_idx_' = IF start_idx_ <= l THEN l + 1 ELSE start_idx_
      /\ wr' = wr /\ wr.op # "apply"
  BY DEF compact
<1>2. /\ AbstractFirst = start_idx_ /\ AbstractEnd = next_slot
      /\ start_idx_ \in Nat \ {0} /\ next_slot \in Nat
      /\ Indices = start_idx_ .. next_slot - 1
      /\ DOMAIN logs_ = {0} \cup (start_idx_ .. next_slot - 1)
      /\ DOMAIN Win = Indices /\ \A j \in Indices : Win[j] = logs_[j]
  BY <1>1, WindowNow, WinFacts
<1>3. AbstractFirst' = start_idx_'
  BY <1>1 DEF IndInv, WindowInv
<1>4. CASE l < start_idx_
  <2>1. start_idx_ .. l = {} /\ start_idx_' = start_idx_
    BY <1>1, <1>2, <1>4
  <2>2. DOMAIN logs_' = DOMAIN logs_ /\ \A j \in DOMAIN logs_ : logs_'[j] = logs_[j]
    BY <1>1, <2>1 DEF Restrict
  <2>3. Indices' = Indices /\ \A j \in Indices : logs_'[j] = logs_[j]
    BY <2>2 DEF Indices
  <2>4. Win' = Win
    BY <2>3 DEF Win, Restrict
  <2> QED BY <1>1, <1>2, <1>3, <2>1, <2>4 DEF Abstract!rlvars, Win
<1>5. CASE start_idx_ <= l
  <2>1. AbstractFirst' = l + 1 /\ AbstractFirst' - 1 = l
    BY <1>1, <1>3, <1>5
  <2>2. DOMAIN logs_' = DOMAIN logs_ \ (start_idx_ .. l)
        /\ \A j \in DOMAIN logs_' : logs_'[j] = logs_[j]
    BY <1>1 DEF Restrict
  <2>3. Indices' = {j \in Indices : j > l}
    BY <1>2, <1>5, <2>2 DEF Indices
  <2>4. \A j \in Indices' : logs_'[j] = Win[j]
    BY <1>2, <2>2, <2>3 DEF Indices
  <2>5. Win' = [j \in {k \in DOMAIN Win : k > l} |-> Win[j]]
    BY <1>2, <2>3, <2>4 DEF Win, Restrict
  <2>6. Abstract!RLCompact(l)
    BY <1>1, <1>2, <1>5, <2>1, <2>5 DEF Abstract!RLCompact, Win
  <2>7. Abstract!RLCompact(AbstractFirst' - 1)
    BY <2>1, <2>6
  <2> QED BY <2>7 DEF Abstract!RLNext
<1> QED BY <1>2, <1>4, <1>5

\* An entry of a pack starts, extends or patches the abstract log.
LEMMA PackEntryRefines ==
  ASSUME IndInv, BoundInv, IndInv', ApplyPackEntry
  PROVE  Abstract!RLNext
<1>1. /\ wr.op = "apply" /\ wr.left # <<>> /\ start_idx_' = start_idx_
      /\ logs_' = Put(logs_, wr.idx, Head(wr.left))
      /\ wr'.op = "apply"
  BY DEF ApplyPackEntry, IndInv, TypeOK, CallType
<1>2. PICK i \in Nat \ {0}, e \in Entry : i = wr.idx /\ e = Head(wr.left)
  <2>1. wr.idx \in Nat \ {0}
    BY <1>1 DEF IndInv, TypeOK, CallType, WindowInv
  <2>2. wr.left \in Seq(Entry)
    BY DEF IndInv, TypeOK, CallType
  <2>3. Head(wr.left) \in Entry
    BY <1>1, <2>2, HeadTailProperties
  <2> QED BY <2>1, <2>3
<1>3. /\ Win' = [j \in DOMAIN Win \cup {i} |-> IF j = i THEN e ELSE Win[j]]
      /\ Indices' = Indices \cup {i}
  <2>1. logs_' = Put(logs_, i, e)
    BY <1>1, <1>2
  <2> QED BY <2>1, WinPut
<1>4. /\ DOMAIN Win = Indices /\ Abstract!NextIndex = AbstractEnd
      /\ AbstractFirst \in Nat \ {0} /\ AbstractEnd \in Nat
      /\ AbstractFirst <= AbstractEnd /\ Indices = AbstractFirst .. AbstractEnd - 1
  BY WinFacts
<1>5. CASE Indices = {}
  <2>1. PICK hi \in Nat : hi = i + 1
    OBVIOUS
  <2>2. Indices' = i .. hi - 1 /\ i < hi
    BY <1>3, <1>5, <2>1
  <2>3. AbstractFirst' = i
    BY <2>2, WindowPrime
  <2>4. i >= AbstractFirst
    BY <1>1, <1>2, <1>5 DEF BoundInv, AbstractFirst
  <2>5. Win' = [j \in {i} |-> e] /\ DOMAIN Win = {}
    BY <1>3, <1>4, <1>5
  <2>6. Abstract!RLInstall(i, e)
    BY <1>1, <2>3, <2>4, <2>5 DEF Abstract!RLInstall, Win
  <2>7. i \in DOMAIN Win'
    BY <2>5
  <2> QED BY <2>6, <2>7 DEF Abstract!RLNext, Win
<1>6. CASE Indices # {}
  <2>1. i \in AbstractFirst .. AbstractEnd
    BY <1>1, <1>2, <1>6 DEF IndInv, WindowInv
  <2>2. AbstractFirst' = AbstractFirst
    <3>1. DOMAIN logs_' = DOMAIN logs_ \cup {wr.idx}
      BY <1>1 DEF Put
    <3> QED BY <1>2, <1>6, <2>1, <3>1, FirstKept
  <2>3. CASE i = AbstractEnd
    <3>1. Abstract!RLAppend(e)
      BY <1>1, <1>3, <1>4, <2>2, <2>3 DEF Abstract!RLAppend, Win
    <3> QED BY <3>1 DEF Abstract!RLNext
  <2>4. CASE i # AbstractEnd
    <3>1. i \in DOMAIN Win
      BY <1>4, <2>1, <2>4
    <3>2. Win' = [Win EXCEPT ![i] = e]
      BY <1>3, <3>1 DEF Win, Restrict
    <3>3. Abstract!RLPatch(i, e)
      BY <1>1, <2>2, <3>1, <3>2 DEF Abstract!RLPatch, Win
    <3> QED BY <3>1, <3>3 DEF Abstract!RLNext, Win
  <2> QED BY <2>3, <2>4
<1> QED BY <1>5, <1>6

\* A pack that begins or ends leaves the abstract log alone, but for one that is
\* still empty: where start_idx_ is recomputed, it is the first index that the
\* window already has, or else 1.
LEMMA PackEndsRefine ==
  ASSUME IndInv, BoundInv,
         \/ ApplyPackEnd
         \/ \E i \in 1 .. MaxIndex, n \in 0 .. MaxPack :
               \E es \in [1 .. n -> Entry] : ApplyPackBegin(i, es)
  PROVE  Abstract!RLNext
<1>1. CASE ApplyPackEnd
  <2>1. /\ wr.op = "apply" /\ wr.left = <<>> /\ wr'.op # "apply" /\ logs_' = logs_
        /\ start_idx_' = IF Indices # {} THEN MinOf(Indices) ELSE 1
    BY <1>1 DEF ApplyPackEnd, WriterIdle
  <2>2. Indices' = Indices /\ Win' = Win
    BY <2>1 DEF Indices, Win
  <2>3. DOMAIN Win = Indices
    BY DEF Win, Restrict
  <2>4. CASE Indices # {}
    <3>1. AbstractFirst' = AbstractFirst
      BY <2>1, <2>2, <2>4 DEF AbstractFirst
    <3> QED BY <2>1, <2>2, <2>3, <2>4, <3>1 DEF Abstract!RLNext, Abstract!RLPack, Win
  <2>5. CASE Indices = {}
    <3>1. AbstractFirst' = 1
      BY <2>1, <2>2, <2>5 DEF AbstractFirst
    <3> QED BY <2>1, <2>2, <2>3, <2>5, <3>1 DEF Abstract!RLNext, Abstract!RLReset, Win
  <2> QED BY <2>4, <2>5
<1>2. ASSUME NEW i, NEW es, ApplyPackBegin(i, es) PROVE Abstract!RLNext
  <2>1. wr.op # "apply" /\ wr'.op = "apply" /\ UNCHANGED <<logs_, start_idx_>>
    BY <1>2 DEF ApplyPackBegin, storeVars
  <2>2. UNCHANGED <<AbstractFirst, Win>>
    BY <2>1 DEF AbstractFirst, Indices, Win
  <2> QED BY <2>1, <2>2 DEF Abstract!RLNext, Abstract!RLPack, Win
<1> QED BY <1>1, <1>2

\* The log store implements the abstract Raft log: every critical section of
\* every call extends, truncates, compacts or patches one gap-free window or
\* leaves it alone, the single insertions of apply_pack, between which readers
\* run, included.
THEOREM StoreImplements == Spec => ImplementsRaftLog
<1>1. Init => Abstract!RLInit
  <2> SUFFICES ASSUME Init PROVE Abstract!RLInit
    OBVIOUS
  <2>1. Indices = {} /\ AbstractFirst = 1 /\ wr.op # "apply"
    BY DEF Init, Indices, AbstractFirst, WriterIdle
  <2>2. Restrict(logs_, Indices) = [i \in {} |-> 0]
    BY <2>1 DEF Restrict
  <2> QED BY <2>1, <2>2 DEF Abstract!RLInit
<1>2. IndInv /\ BoundInv /\ IndInv' /\ [Next]_vars => [Abstract!RLNext]_Abstract!rlvars
  <2> SUFFICES ASSUME IndInv, BoundInv, IndInv', [Next]_vars
               PROVE  Abstract!RLNext \/ UNCHANGED Abstract!rlvars
    OBVIOUS
  <2>1. ASSUME Writer, ~FlushBegin, ~FlushEnd
        PROVE  Abstract!RLNext \/ UNCHANGED Abstract!rlvars
    BY <2>1, AppendRefines, WriteAtRefines, CompactRefines, PackEntryRefines,
       PackEndsRefine DEF Writer
  <2>2. ASSUME FlushBegin \/ FlushEnd PROVE UNCHANGED Abstract!rlvars
    BY <2>2, WinStutter DEF FlushBegin, FlushEnd, WriterIdle, storeVars
  <2>3. ASSUME NEW r \in Readers, Reader(r) PROVE UNCHANGED Abstract!rlvars
    <3>1. UNCHANGED <<logs_, start_idx_, wr>>
      BY <2>3 DEF Reader, LogEntries, Pack, LogEntriesExt, LastEntry, EntryAt, Read,
                  ReadStep, PackCrash, Return, storeVars
    <3> QED BY <3>1, WinStutter
  <2>4. ASSUME \/ \E d \in Delays : SetDiskDelay(d)
               \/ DiskStep \/ DiskScan \/ Destroy \/ Tick \/ Ended
               \/ UNCHANGED vars
        PROVE  UNCHANGED Abstract!rlvars
    <3>1. UNCHANGED <<logs_, start_idx_, wr>>
      BY <2>4 DEF SetDiskDelay, DiskStep, DiskWake, DiskTimeout, DiskReset,
              DiskExit, LeaveLoop, DiskScan, Destroy, Tick, Ended,
                  storeVars, vars
    <3> QED BY <3>1, WinStutter
  <2> QED BY <2>1, <2>2, <2>3, <2>4 DEF Next, DiskStep
<1> QED BY <1>1, <1>2, StoreBounded, PTL DEF Spec, ImplementsRaftLog, Abstract!RLSpec
=============================================================================
