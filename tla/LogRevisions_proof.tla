-------------------------- MODULE LogRevisions_proof --------------------------
(***************************************************************************)
(* The order of the lines over runs and crashes and where they can be read, *)
(* for every number of runs, lines and files and every sequence of limits.  *)
(***************************************************************************)
EXTENDS LogRevisions, TLAPS, WellFoundedInduction

\* Revision r is the newest: nothing later is on disk or was ever written.
Newest(r) ==
  /\ r \in DOMAIN file
  /\ \A q \in DOMAIN file : q <= r
  /\ \A q \in DOMAIN tar : q < r
  /\ \A x \in DOMAIN rev : rev[x] <= r

\* The last revision that has been opened; the next one is on its way while a
\* file is rotated.
Top == IF run = "rotating" THEN curRevnum - 1 ELSE curRevnum

\* What a crash leaves: the newest revision is a file, never an archive.
DiskInv ==
  /\ OrderKept
  /\ run # "down" => Top \in Nat /\ Newest(Top)
  /\ run = "down" => \/ Revisions = {} /\ rev = <<>>
                     \/ \E r \in Nat : Newest(r)

\* The jobs are for older files, each of them once and in their order.
JobInv ==
  /\ run = "down" => pendingCompElems = <<>> /\ comp.pc = "idle"
  /\ \A i \in DOMAIN pendingCompElems :
       /\ pendingCompElems[i] \in DOMAIN file /\ pendingCompElems[i] < Top
       /\ comp.pc # "idle" => comp.file < pendingCompElems[i]
  /\ \A i, j \in DOMAIN pendingCompElems : i < j => pendingCompElems[i] < pendingCompElems[j]
  /\ comp.pc # "idle" => comp.file < Top
  /\ comp.pc \in {"tar", "tarring"} => comp.file \in DOMAIN file
  /\ comp.pc = "tarring" => comp.file \in DOMAIN tar

\* The loop of doCompression() has passed nothing that is still there.
MinInv ==
  run # "down" => minRevnum <= Top /\ \A r \in Revisions : r >= minRevnum

RevInv == TypeOK /\ DiskInv /\ JobInv /\ MinInv

\* Every set of natural numbers that is not empty has a least element.
LEMMA LeastExists ==
  ASSUME NEW S \in SUBSET Nat, S # {}
  PROVE  Least(S) \in S /\ \A q \in S : Least(S) <= q
<1>1. PICK x \in S : \A y \in S : ~(<<y, x>> \in OpToRel(<, Nat))
  BY NatLessThanWellFounded, WFMin
<1>2. \A y \in S : x <= y
  <2> SUFFICES ASSUME NEW y \in S, y < x PROVE FALSE
    OBVIOUS
  <2>1. <<y, x>> \in Nat \X Nat /\ <<y, x>>[1] < <<y, x>>[2]
    OBVIOUS
  <2>2. <<y, x>> \in OpToRel(<, Nat)
    BY <2>1 DEF OpToRel
  <2> QED BY <1>1, <2>2
<1> QED BY <1>2 DEF Least

\* The scan of a directory with a newest revision finds it.
LEMMA ScanFindsNewest ==
  ASSUME TypeOK, NEW r \in Nat, Newest(r)
  PROVE  FoundMax = r /\ FoundMin \in Nat /\ FoundMin <= r
         /\ \A q \in Revisions : FoundMin <= q
<1> DEFINE S == {0} \cup DOMAIN file \cup {q + 1 : q \in DOMAIN tar}
<1>1. r \in S /\ \A q \in S : q <= r
  BY DEF Newest, TypeOK, Revisions
<1>2. S \subseteq Nat
  BY DEF TypeOK, Revisions
<1>3. \A x \in S : (\A q \in S : q <= x) => x = r
  BY <1>1, <1>2
<1>4. FoundMax = r
  BY <1>1, <1>3 DEF FoundMax, Greatest
<1>5. Revisions \in SUBSET Nat /\ Revisions # {} /\ r \in Revisions
  BY DEF Newest, TypeOK, Revisions
<1>6. FoundMin \in Revisions /\ \A q \in Revisions : FoundMin <= q
  BY <1>5, LeastExists DEF FoundMin
<1> QED BY <1>4, <1>5, <1>6

\* The scan of an empty directory.
LEMMA ScanEmpty ==
  ASSUME Revisions = {} PROVE FoundMax = 0 /\ FoundMin = 0
<1>1. {0} \cup DOMAIN file \cup {q + 1 : q \in DOMAIN tar} = {0}
  BY DEF Revisions
<1>2. Greatest({0}) = 0
  BY DEF Greatest
<1> QED BY <1>1, <1>2 DEF FoundMax, FoundMin

\* Nothing on disk and nothing written.
LEMMA InitRev == Init => RevInv
<1> SUFFICES ASSUME Init PROVE RevInv
  OBVIOUS
<1>1. DOMAIN file = {} /\ DOMAIN tar = {} /\ DOMAIN rev = {}
      /\ DOMAIN pendingCompElems = {}
  BY DEF Init
<1>2. TypeOK
  BY <1>1 DEF Init, TypeOK, Revisions, CompIdle
<1>3. DiskInv /\ JobInv /\ MinInv
  BY <1>1 DEF Init, DiskInv, JobInv, MinInv, OrderKept, Revisions, CompIdle
<1> QED BY <1>2, <1>3 DEF RevInv

\* The constructor and start() take up the newest revision.
LEMMA StartStep == ASSUME RevInv, Start PROVE RevInv'
<1> USE DEF RevInv
<1>1. /\ FoundMax \in Nat /\ FoundMin \in Nat /\ FoundMin <= FoundMax
      /\ \A q \in Revisions : FoundMin <= q
      /\ \A q \in DOMAIN file : q <= FoundMax
      /\ \A q \in DOMAIN tar : q < FoundMax
      /\ \A x \in DOMAIN rev : rev[x] <= FoundMax
  <2>1. CASE Revisions = {} /\ rev = <<>>
    BY <2>1, ScanEmpty DEF Revisions
  <2>2. CASE \E r \in Nat : Newest(r)
    BY <2>2, ScanFindsNewest DEF Newest
  <2> QED BY <2>1, <2>2 DEF DiskInv, Start
<1>2. /\ DOMAIN file' = DOMAIN file \cup {FoundMax} /\ tar' = tar /\ rev' = rev
      /\ \A r \in DOMAIN file' : file'[r] \subseteq Nat
  BY <1>1 DEF Start, Opened, Put, TypeOK
<1>3. run' = "open" /\ curRevnum' = FoundMax /\ minRevnum' = FoundMin
      /\ pendingCompElems' = <<>> /\ comp' = comp /\ comp.pc = "idle"
  BY DEF Start, JobInv
<1>4. maxLogFiles' \in Nat /\ least' \in Nat
  BY RevisionAssumption DEF Start, NewLimit, TypeOK
<1>5. Top' = FoundMax
  BY <1>3 DEF Top
<1>6. Revisions' = Revisions \cup {FoundMax}
  BY <1>2 DEF Revisions
<1>7. TypeOK'
  BY <1>1, <1>2, <1>3, <1>4, <1>6 DEF TypeOK, Start
<1>8. DiskInv'
  BY <1>1, <1>2, <1>3, <1>5 DEF DiskInv, Newest, OrderKept, TypeOK
<1>9. JobInv'
  BY <1>3 DEF JobInv
<1>10. MinInv'
  BY <1>1, <1>5, <1>6, <1>3 DEF MinInv
<1> QED BY <1>7, <1>8, <1>9, <1>10

\* flush() adds a line to the newest revision.
LEMMA FlushStep == ASSUME RevInv, Flush PROVE RevInv'
<1> USE DEF RevInv
<1>1. run = "open" /\ Top = curRevnum /\ Newest(curRevnum) /\ curRevnum \in Nat
  BY DEF Flush, Top, DiskInv, TypeOK
<1>2. DOMAIN file' = DOMAIN file /\ tar' = tar /\ Revisions' = Revisions
  BY DEF Flush, Revisions
<1>3. \A r \in DOMAIN file' : file'[r] \subseteq Nat
  BY <1>1 DEF Flush, TypeOK, Newest
<1>4. Top' = Top
  BY <1>1 DEF Flush, Top
<1>5. run' \in {"open", "rotating"} /\ curRevnum' \in Nat
  BY <1>1 DEF Flush
<1>6. /\ rev' \in Seq(Nat) /\ DOMAIN rev' = DOMAIN rev \cup {Len(rev) + 1}
      /\ \A x \in DOMAIN rev : x <= Len(rev) /\ rev'[x] = rev[x]
      /\ rev'[Len(rev) + 1] = curRevnum
  BY <1>1 DEF Flush, TypeOK
<1>7. TypeOK'
  BY <1>2, <1>3, <1>5, <1>6 DEF TypeOK, Flush
<1>8. DiskInv'
  <2>1. Newest(Top)'
    BY <1>1, <1>2, <1>4, <1>6 DEF Newest
  <2>2. OrderKept'
    <3> SUFFICES ASSUME NEW x \in DOMAIN rev', NEW y \in DOMAIN rev', x < y
                 PROVE  rev'[x] <= rev'[y]
      BY DEF OrderKept
    <3>1. x \in DOMAIN rev
      BY <1>6 DEF TypeOK
    <3>2. CASE y \in DOMAIN rev
      BY <1>6, <3>1, <3>2 DEF DiskInv, OrderKept
    <3>3. CASE y = Len(rev) + 1
      BY <1>1, <1>6, <3>1, <3>3 DEF Newest
    <3> QED BY <1>6, <3>2, <3>3
  <2>3. Top' \in Nat
    BY <1>1, <1>4
  <2> QED BY <1>5, <2>1, <2>2, <2>3 DEF DiskInv
<1>9. JobInv'
  BY <1>1, <1>2, <1>4, <1>5 DEF JobInv, Flush
<1>10. MinInv'
  BY <1>1, <1>2, <1>4 DEF MinInv, Flush
<1> QED BY <1>7, <1>8, <1>9, <1>10

\* The next revision is opened and the one before becomes a job.
LEMMA RotateStep == ASSUME RevInv, Rotate PROVE RevInv'
<1> USE DEF RevInv
<1>1. run = "rotating" /\ Top = curRevnum - 1 /\ Newest(Top) /\ Top \in Nat
      /\ curRevnum \in Nat
  BY DEF Rotate, Top, DiskInv, TypeOK
<1>2. /\ DOMAIN file' = DOMAIN file \cup {curRevnum} /\ tar' = tar /\ rev' = rev
      /\ \A r \in DOMAIN file' : file'[r] \subseteq Nat
      /\ Revisions' = Revisions \cup {curRevnum}
  BY <1>1 DEF Rotate, Opened, Put, TypeOK, Revisions
<1>3. run' = "open" /\ curRevnum' = curRevnum /\ Top' = curRevnum /\ comp' = comp
  BY DEF Rotate, Top
<1>4. /\ pendingCompElems' = Append(pendingCompElems, Top)
      /\ pendingCompElems \in Seq(Nat) /\ pendingCompElems' \in Seq(Nat)
  BY <1>1 DEF Rotate, TypeOK
<1>5. TypeOK'
  BY <1>1, <1>2, <1>3, <1>4 DEF TypeOK, Rotate
<1>6. DiskInv'
  <2>1. Newest(Top)'
    <3>1. \A q \in DOMAIN file' : q <= curRevnum
      BY <1>1, <1>2 DEF Newest, TypeOK, Revisions
    <3>2. \A q \in DOMAIN tar : q < curRevnum
      BY <1>1 DEF Newest, TypeOK, Revisions
    <3>3. \A x \in DOMAIN rev : rev[x] <= curRevnum
      BY <1>1 DEF Newest, TypeOK
    <3> QED BY <1>2, <1>3, <3>1, <3>2, <3>3 DEF Newest
  <2> QED BY <1>1, <1>2, <1>3, <2>1 DEF DiskInv, OrderKept
<1>7. JobInv'
  <2> DEFINE P == pendingCompElems
             n == Len(P)
  <2>1. /\ DOMAIN P' = DOMAIN P \cup {n + 1} /\ P'[n + 1] = Top
        /\ \A i \in DOMAIN P : P'[i] = P[i] /\ P[i] \in Nat /\ i <= n
        /\ n \in Nat
    BY <1>1, <1>4
  <2>2. \A i \in DOMAIN P' : P'[i] \in DOMAIN file' /\ P'[i] < Top'
    BY <1>1, <1>2, <1>3, <2>1 DEF JobInv, Newest
  <2>3. comp.pc # "idle" => comp.file < Top /\ comp.file \in Nat
    BY DEF JobInv, TypeOK
  <2>4. \A i \in DOMAIN P' : comp'.pc # "idle" => comp'.file < P'[i]
    BY <1>3, <2>1, <2>3 DEF JobInv
  <2>5. \A i, j \in DOMAIN P' : i < j => P'[i] < P'[j]
    <3> SUFFICES ASSUME NEW i \in DOMAIN P', NEW j \in DOMAIN P', i < j
                 PROVE  P'[i] < P'[j]
      OBVIOUS
    <3>1. i \in DOMAIN P
      BY <2>1, <1>4
    <3>2. CASE j \in DOMAIN P
      BY <2>1, <3>1, <3>2 DEF JobInv
    <3>3. CASE j = n + 1
      BY <2>1, <3>1, <3>3 DEF JobInv
    <3> QED BY <2>1, <3>2, <3>3
  <2>6. comp'.pc # "idle" => comp'.file < Top'
    BY <1>1, <1>3, <2>3
  <2>7. (comp'.pc \in {"tar", "tarring"} => comp'.file \in DOMAIN file')
        /\ (comp'.pc = "tarring" => comp'.file \in DOMAIN tar')
    BY <1>2, <1>3 DEF JobInv
  <2> QED BY <1>3, <2>2, <2>4, <2>5, <2>6, <2>7 DEF JobInv
<1>8. MinInv'
  <2>1. minRevnum <= Top /\ minRevnum \in Nat /\ minRevnum' = minRevnum
    BY <1>1 DEF MinInv, TypeOK, Rotate
  <2>2. minRevnum <= curRevnum
    BY <1>1, <2>1
  <2> QED BY <1>1, <1>2, <1>3, <2>1, <2>2 DEF MinInv
<1> QED BY <1>5, <1>6, <1>7, <1>8

\* stop(), a crash, and a new limit leave the disk alone.
LEMMA RunStep ==
  ASSUME RevInv, Stop \/ Crash \/ \E m \in Limits : SetMaxLogFiles(m)
  PROVE  RevInv'
<1> USE DEF RevInv
<1>1. UNCHANGED <<file, tar, rev, curRevnum, minRevnum, runs, failed>>
      /\ Revisions' = Revisions
  BY DEF Stop, Crash, SetMaxLogFiles, Revisions, diskVars
<1>2. \A r : Newest(r) => Newest(r)'
  BY <1>1 DEF Newest
<1>3. CASE Stop \/ Crash
  <2>1. run' = "down" /\ pendingCompElems' = <<>> /\ comp'.pc = "idle"
        /\ comp' \in [pc : {"idle", "tar", "tarring", "rm", "retain"}, file : Nat, max : Nat]
        /\ UNCHANGED <<maxLogFiles, least>> /\ run # "down"
    BY <1>3 DEF Stop, Crash, CompIdle, TypeOK
  <2>2. TypeOK'
    BY <1>1, <2>1 DEF TypeOK
  <2>3. DiskInv'
    BY <1>1, <1>2, <2>1 DEF DiskInv, OrderKept
  <2>4. JobInv' /\ MinInv'
    BY <2>1 DEF JobInv, MinInv
  <2> QED BY <2>2, <2>3, <2>4
<1>4. CASE \E m \in Limits : SetMaxLogFiles(m)
  <2>1. UNCHANGED <<run, pendingCompElems, comp>> /\ maxLogFiles' \in Nat /\ least' \in Nat
    BY <1>4, RevisionAssumption DEF SetMaxLogFiles, NewLimit, TypeOK
  <2>2. Top' = Top
    BY <1>1, <2>1 DEF Top
  <2>3. TypeOK'
    BY <1>1, <2>1 DEF TypeOK
  <2>4. DiskInv' /\ JobInv' /\ MinInv'
    BY <1>1, <1>2, <2>1, <2>2 DEF DiskInv, OrderKept, JobInv, MinInv
  <2> QED BY <2>3, <2>4
<1> QED BY <1>3, <1>4

\* What every step of the compressor leaves alone.
CompSame == UNCHANGED <<run, runs, curRevnum, maxLogFiles, rev, least>>

\* A job is only there while a run is; the run is not over when it takes a step.
LEMMA CompRunning ==
  ASSUME RevInv, CompSame, comp.pc # "idle" \/ pendingCompElems # <<>>
  PROVE  run # "down" /\ Top \in Nat /\ Top' = Top /\ Newest(Top) /\ minRevnum <= Top
<1> QED BY DEF RevInv, JobInv, DiskInv, MinInv, Top, CompSame

\* compressWorker takes the oldest job.
LEMMA CompTakeStep == ASSUME RevInv, CompTake PROVE RevInv'
<1> USE DEF RevInv
<1> DEFINE P == pendingCompElems
           n == Len(P)
<1>1. CompSame /\ P # <<>> /\ UNCHANGED <<file, tar, minRevnum, failed>>
      /\ Revisions' = Revisions
  BY DEF CompTake, CompSame, diskVars, Revisions
<1>2. run # "down" /\ Top \in Nat /\ Top' = Top /\ Newest(Top) /\ minRevnum <= Top
  BY <1>1, CompRunning
<1>3. /\ P \in Seq(Nat) /\ n \in Nat \ {0} /\ 1 \in DOMAIN P /\ Head(P) = P[1]
      /\ P' \in Seq(Nat) /\ DOMAIN P' = 1 .. n - 1
      /\ \A i \in DOMAIN P' : P'[i] = P[i + 1] /\ i \in Nat \ {0} /\ i + 1 \in DOMAIN P
  BY <1>1, SMTT(30) DEF CompTake, TypeOK
<1>4. comp' = [pc |-> "tar", file |-> P[1], max |-> 0] /\ P[1] \in Nat
  <2>1. P[1] \in Nat
    BY <1>3
  <2>2. comp' = [[pc |-> "idle", file |-> 0, max |-> 0] EXCEPT !.pc = "tar", !.file = P[1]]
    BY <1>3 DEF CompTake, CompIdle
  <2> QED BY <2>1, <2>2
<1>5. TypeOK'
  BY <1>1, <1>3, <1>4 DEF TypeOK, CompSame
<1>6. DiskInv' /\ MinInv'
  BY <1>1, <1>2 DEF DiskInv, MinInv, OrderKept, Newest, CompSame
<1>7. JobInv'
  <2>1. P[1] \in DOMAIN file /\ P[1] < Top
    BY <1>3 DEF JobInv
  <2>2. \A i \in DOMAIN P' : P'[i] \in DOMAIN file' /\ P'[i] < Top' /\ P[1] < P'[i]
    BY <1>1, <1>2, <1>3 DEF JobInv
  <2>3. \A i, j \in DOMAIN P' : i < j => P'[i] < P'[j]
    <3> SUFFICES ASSUME NEW i \in DOMAIN P', NEW j \in DOMAIN P', i < j
                 PROVE  P'[i] < P'[j]
      OBVIOUS
    <3>1. P[i + 1] < P[j + 1]
      BY <1>3 DEF JobInv
    <3> QED BY <1>3, <3>1
  <2> QED BY <1>1, <1>2, <1>4, <2>1, <2>2, <2>3 DEF JobInv, CompSame
<1> QED BY <1>5, <1>6, <1>7

\* tar writes the archive of an older revision that is still a file.
LEMMA CompTarStep == ASSUME RevInv, CompTar \/ CompTarEnd PROVE RevInv'
<1> USE DEF RevInv
<1>1. /\ CompSame /\ UNCHANGED <<file, minRevnum, pendingCompElems>>
      /\ comp.pc \in {"tar", "tarring"}
  BY DEF CompTar, CompTarEnd, CompSame, runVars
<1>2. run # "down" /\ Top \in Nat /\ Top' = Top /\ Newest(Top) /\ minRevnum <= Top
  BY <1>1, CompRunning
<1>3. comp.file \in Nat /\ comp.file \in DOMAIN file /\ comp.file < Top
      /\ file[comp.file] \subseteq Nat
  BY <1>1 DEF JobInv, TypeOK
<1>4. /\ comp' \in [pc : {"idle", "tar", "tarring", "rm", "retain"}, file : Nat, max : Nat]
      /\ comp'.file = comp.file /\ comp'.pc \in {"tarring", "rm"}
  BY DEF CompTar, CompTarEnd, TypeOK
<1>5. /\ DOMAIN tar' = DOMAIN tar \cup {comp.file}
      /\ \A r \in DOMAIN tar' : tar'[r] \subseteq Nat
      /\ failed' \subseteq Nat
  <2>1. CASE CompTar
    BY <2>1 DEF CompTar, Put, TypeOK
  <2>2. CASE CompTarEnd
    <3>1. comp.file \in DOMAIN tar
      BY <2>2 DEF CompTarEnd, JobInv
    <3>2. CASE tar' = [tar EXCEPT ![comp.file] = file[comp.file]] /\ UNCHANGED failed
      BY <1>3, <3>1, <3>2 DEF TypeOK
    <3>3. CASE failed' = failed \cup {comp.file} /\ UNCHANGED tar
      BY <1>3, <3>1, <3>3 DEF TypeOK
    <3> QED BY <2>2, <3>2, <3>3 DEF CompTarEnd
  <2> QED BY <2>1, <2>2
<1>6. Revisions' = Revisions
  BY <1>1, <1>3, <1>5 DEF Revisions
<1>7. TypeOK'
  BY <1>1, <1>4, <1>5, <1>6 DEF TypeOK, CompSame
<1>8. DiskInv' /\ MinInv'
  BY <1>1, <1>2, <1>3, <1>5, <1>6 DEF DiskInv, MinInv, OrderKept, Newest, CompSame
<1>9. JobInv'
  <2>1. comp.pc # "idle"
    BY <1>1
  <2> QED BY <1>1, <1>2, <1>3, <1>4, <1>5, <2>1 DEF JobInv, CompSame
<1> QED BY <1>7, <1>8, <1>9

\* rm removes the file of the job, which is older than every other job's.
LEMMA CompRmStep == ASSUME RevInv, CompRm PROVE RevInv'
<1> USE DEF RevInv
<1>1. /\ CompSame /\ UNCHANGED <<tar, minRevnum, pendingCompElems, failed>>
      /\ comp.pc = "rm"
  BY DEF CompRm, CompSame, runVars
<1>2. run # "down" /\ Top \in Nat /\ Top' = Top /\ Newest(Top) /\ minRevnum <= Top
  BY <1>1, CompRunning
<1>3. comp.file \in Nat /\ comp.file < Top
      /\ \A i \in DOMAIN pendingCompElems : comp.file < pendingCompElems[i]
  BY <1>1 DEF JobInv, TypeOK
<1>4. /\ DOMAIN file' = DOMAIN file \ {comp.file}
      /\ \A r \in DOMAIN file' : file'[r] \subseteq Nat
      /\ Revisions' \subseteq Revisions
  BY <1>1 DEF CompRm, Drop, Restrict, TypeOK, Revisions
<1>5. /\ comp' \in [pc : {"idle", "tar", "tarring", "rm", "retain"}, file : Nat, max : Nat]
      /\ comp'.file = comp.file /\ comp'.pc = "retain"
  BY DEF CompRm, TypeOK
<1>6. TypeOK'
  BY <1>1, <1>4, <1>5 DEF TypeOK, CompSame
<1>7. DiskInv' /\ MinInv'
  BY <1>1, <1>2, <1>3, <1>4 DEF DiskInv, MinInv, OrderKept, Newest, CompSame
<1>8. JobInv'
  <2>1. \A i \in DOMAIN pendingCompElems : pendingCompElems[i] # comp.file
    BY <1>3 DEF TypeOK
  <2> QED BY <1>1, <1>2, <1>3, <1>4, <1>5, <2>1 DEF JobInv, CompSame
<1> QED BY <1>6, <1>7, <1>8

\* The loop removes the oldest revision, if it is older than the job's.
LEMMA CompRetainStep == ASSUME RevInv, CompRetain PROVE RevInv'
<1> USE DEF RevInv
<1>1. /\ CompSame /\ UNCHANGED <<pendingCompElems, failed>> /\ comp.pc = "retain"
  BY DEF CompRetain, CompSame
<1>2. run # "down" /\ Top \in Nat /\ Top' = Top /\ Newest(Top) /\ minRevnum <= Top
  BY <1>1, CompRunning
<1>3. /\ comp.file \in Nat /\ comp.max \in Nat /\ minRevnum \in Nat /\ comp.file < Top
      /\ \A i \in DOMAIN pendingCompElems : comp.file < pendingCompElems[i]
      /\ \A i \in DOMAIN pendingCompElems : pendingCompElems[i] \in Nat
  BY <1>1 DEF JobInv, TypeOK
<1>4. CASE comp.max > 0 /\ comp.file >= comp.max /\ minRevnum <= comp.file - comp.max
  <2>1. /\ file' = Drop(file, minRevnum) /\ tar' = Drop(tar, minRevnum)
        /\ minRevnum' = minRevnum + 1 /\ comp' = comp
    BY <1>4 DEF CompRetain
  <2>2. /\ DOMAIN file' = DOMAIN file \ {minRevnum} /\ DOMAIN tar' = DOMAIN tar \ {minRevnum}
        /\ Revisions' = Revisions \ {minRevnum}
        /\ \A r \in DOMAIN file' : file'[r] \subseteq Nat
        /\ \A r \in DOMAIN tar' : tar'[r] \subseteq Nat
    BY <2>1 DEF Drop, Restrict, TypeOK, Revisions
  <2>3. minRevnum < comp.file /\ minRevnum < Top /\ minRevnum + 1 <= Top
        /\ minRevnum + 1 \in Nat
    BY <1>2, <1>3, <1>4
  <2>4. TypeOK'
    BY <1>1, <2>1, <2>2, <2>3 DEF TypeOK, CompSame
  <2>5. DiskInv'
    BY <1>1, <1>2, <2>2, <2>3 DEF DiskInv, OrderKept, Newest, CompSame
  <2>6. JobInv'
    <3>1. \A i \in DOMAIN pendingCompElems : pendingCompElems[i] # minRevnum
      BY <1>3, <2>3
    <3> QED BY <1>1, <1>2, <1>3, <2>1, <2>2, <3>1 DEF JobInv, CompSame
  <2>7. MinInv'
    <3>1. \A r \in Revisions' : r >= minRevnum + 1
      BY <1>2, <1>3, <2>2 DEF MinInv, TypeOK
    <3> QED BY <1>1, <1>2, <2>1, <2>3, <3>1 DEF MinInv
  <2> QED BY <2>4, <2>5, <2>6, <2>7
<1>5. CASE ~(comp.max > 0 /\ comp.file >= comp.max /\ minRevnum <= comp.file - comp.max)
  <2>1. comp' = CompIdle /\ UNCHANGED <<file, tar, minRevnum>> /\ Revisions' = Revisions
    BY <1>5 DEF CompRetain, diskVars, Revisions
  <2>2. TypeOK'
    BY <1>1, <2>1 DEF TypeOK, CompSame, CompIdle
  <2>3. DiskInv' /\ MinInv'
    BY <1>1, <1>2, <2>1 DEF DiskInv, MinInv, OrderKept, Newest, CompSame
  <2>4. JobInv'
    BY <1>1, <1>2, <2>1 DEF JobInv, CompSame, CompIdle
  <2> QED BY <2>2, <2>3, <2>4
<1> QED BY <1>4, <1>5
-----------------------------------------------------------------------------
\* The disk, the jobs and minRevnum fit together after every step, and so in
\* every state a crash can leave.
THEOREM RevisionsInductive == Spec => []RevInv
<1>1. RevInv /\ [Next]_vars => RevInv'
  <2> SUFFICES ASSUME RevInv, [Next]_vars PROVE RevInv'
    OBVIOUS
  <2>1. CASE Start
    BY <2>1, StartStep
  <2>2. CASE Flush
    BY <2>2, FlushStep
  <2>3. CASE Rotate
    BY <2>3, RotateStep
  <2>4. CASE Stop \/ Crash \/ \E m \in Limits : SetMaxLogFiles(m)
    BY <2>4, RunStep
  <2>5. CASE Compress
    BY <2>5, CompTakeStep, CompTarStep, CompRmStep, CompRetainStep DEF Compress
  <2>6. CASE UNCHANGED vars
    BY <2>6 DEF vars, diskVars, runVars, RevInv, TypeOK, DiskInv, JobInv, MinInv, OrderKept,
                Newest, Top, Revisions
  <2> QED BY <2>1, <2>2, <2>3, <2>4, <2>5, <2>6 DEF Next, Ended
<1> QED BY InitRev, <1>1, PTL DEF Spec

\* The shapes, the revisions being natural numbers: no scan leaves the value
\* it compares with in minRevnum.
THEOREM RevisionsTypeCorrect == Spec => []TypeOK
<1>1. RevInv => TypeOK
  BY DEF RevInv
<1> QED BY RevisionsInductive, <1>1, PTL

\* Lines are in revisions in the order they were written, over any number of
\* runs and crashes.
THEOREM LinesInOrder == Spec => []OrderKept
<1>1. RevInv => OrderKept
  BY DEF RevInv, DiskInv
<1> QED BY RevisionsInductive, <1>1, PTL

\* The compressor never touches the file that flush() writes to.
THEOREM CurrentFileKept == Spec => []CurrentNotArchived
<1>1. RevInv => CurrentNotArchived
  BY DEF RevInv, TypeOK, DiskInv, CurrentNotArchived, Newest, Top
<1> QED BY RevisionsInductive, <1>1, PTL

\* What start() takes for the oldest revision is the oldest, and stays so while
\* doCompression() removes them.
THEOREM OldestKnown == Spec => []NoneBelowMin
<1>1. RevInv => NoneBelowMin
  BY DEF RevInv, MinInv, NoneBelowMin
<1> QED BY RevisionsInductive, <1>1, PTL
-----------------------------------------------------------------------------
\* A file that is there has every line that was ever written to it.
InFile == \A x \in DOMAIN rev : rev[x] \in DOMAIN file => x \in file[rev[x]]

\* Line x is in the archive of its revision.
Archived(x) == rev[x] \in DOMAIN tar /\ x \in tar[rev[x]]

\* When r is the newest revision, the lines whose file is gone are archived,
\* apart from those that tar lost or a limit let go.
InTar(r) ==
  \A x \in DOMAIN rev :
    rev[x] \notin DOMAIN file /\ rev[x] \notin failed /\ (least = 0 \/ rev[x] + least >= r)
    => Archived(x)

\* The limit that a job works with is none below the least so far.
LimitInv ==
  /\ maxLogFiles > 0 => least > 0 /\ least <= maxLogFiles
  /\ comp.max > 0 => least > 0 /\ least <= comp.max

\* Where the lines are: the newest revision is that of the disk and not
\* curRevnum, which is one ahead when a rotation crashes, and the next run goes
\* on from the disk.
KeptInv ==
  /\ InFile
  /\ \A r \in Nat : Newest(r) => r <= curRevnum /\ InTar(r)
  /\ comp.pc = "rm" /\ comp.file \notin failed =>
       \A x \in DOMAIN rev : rev[x] = comp.file => Archived(x)
  /\ LimitInv

\* There is one newest revision.
LEMMA NewestUnique ==
  ASSUME TypeOK, NEW r, NEW q, Newest(r), Newest(q) PROVE r = q
<1>1. r \in Nat /\ q \in Nat /\ r <= q /\ q <= r
  BY DEF Newest, TypeOK, Revisions
<1> QED BY <1>1

\* A new limit m: the least so far is no greater than it was, and than m.
LEMMA LimitLowered ==
  ASSUME TypeOK, LimitInv, NEW m \in Nat, NewLimit(m), UNCHANGED comp
  PROVE  LimitInv' /\ (least # 0 => least' # 0 /\ least' <= least) /\ least' \in Nat
<1>1. least \in Nat /\ maxLogFiles' = m /\ comp.max \in Nat
  BY DEF NewLimit, TypeOK
<1>2. CASE m = 0 \/ (least > 0 /\ least < m)
  BY <1>1, <1>2 DEF NewLimit, LimitInv
<1>3. CASE ~(m = 0 \/ (least > 0 /\ least < m))
  BY <1>1, <1>3 DEF NewLimit, LimitInv
<1> QED BY <1>2, <1>3

\* A lower limit and a revision no older ask for no more lines.
LEMMA InTarWeaker ==
  ASSUME TypeOK, NEW r \in Nat, InTar(r), UNCHANGED <<rev, tar>>,
         DOMAIN file \subseteq DOMAIN file', failed \subseteq failed',
         least' \in Nat, least # 0 => least' # 0 /\ least' <= least
  PROVE  InTar(r)'
<1> SUFFICES ASSUME NEW x \in DOMAIN rev', rev'[x] \notin DOMAIN file', rev'[x] \notin failed',
                    least' = 0 \/ rev'[x] + least' >= r
             PROVE  Archived(x)'
  BY DEF InTar
<1>1. rev[x] \in Nat /\ least \in Nat /\ x \in DOMAIN rev
  BY DEF TypeOK
<1>2. least = 0 \/ rev[x] + least >= r
  BY <1>1
<1>3. Archived(x)
  BY <1>1, <1>2 DEF InTar
<1> QED BY <1>3 DEF Archived

\* A run starts with the newest revision of the disk as it is, or on an empty
\* disk, where there are no lines.
LEMMA StartKept == ASSUME RevInv, KeptInv, Start PROVE KeptInv'
<1> USE DEF RevInv
<1>1. PICK m \in Limits : NewLimit(m)
  BY DEF Start
<1>2. LimitInv' /\ (least # 0 => least' # 0 /\ least' <= least) /\ least' \in Nat
  BY <1>1, LimitLowered, RevisionAssumption DEF Start, KeptInv
<1>3. UNCHANGED <<rev, tar, failed, comp>> /\ comp.pc = "idle" /\ curRevnum' = FoundMax
  BY DEF Start, JobInv
<1>4. CASE Revisions = {} /\ rev = <<>>
  <2>1. DOMAIN rev' = {}
    BY <1>3, <1>4
  <2>2. DOMAIN file' = {0} /\ curRevnum' = 0
    BY <1>3, <1>4, ScanEmpty DEF Start, Opened, Put, Revisions
  <2>3. \A r \in Nat : Newest(r)' => r <= curRevnum' /\ InTar(r)'
    BY <2>1, <2>2 DEF Newest, InTar
  <2> QED BY <1>2, <1>3, <2>1, <2>3 DEF KeptInv, InFile
<1>5. CASE \E r \in Nat : Newest(r)
  <2>1. PICK r \in Nat : Newest(r)
    BY <1>5
  <2>2. curRevnum' = r /\ file' = file
    BY <1>3, <2>1, ScanFindsNewest DEF Start, Opened, Newest
  <2>3. InTar(r)'
    BY <1>2, <1>3, <2>1, <2>2, InTarWeaker DEF KeptInv
  <2>4. \A q \in Nat : Newest(q)' => q <= curRevnum' /\ InTar(q)'
    <3> SUFFICES ASSUME NEW q \in Nat, Newest(q)' PROVE q <= curRevnum' /\ InTar(q)'
      OBVIOUS
    <3>1. Newest(q)
      BY <1>3, <2>2 DEF Newest
    <3>2. q = r
      BY <2>1, <3>1, NewestUnique
    <3> QED BY <2>2, <2>3, <3>2
  <2> QED BY <1>2, <1>3, <2>2, <2>4 DEF KeptInv, InFile, Archived
<1> QED BY <1>4, <1>5 DEF DiskInv, Start

\* The line goes to the newest file, which is there, and to no job's.
LEMMA FlushKept == ASSUME RevInv, KeptInv, Flush PROVE KeptInv'
<1> USE DEF RevInv
<1>1. PICK c \in Nat : run = "open" /\ Top = c /\ curRevnum = c /\ Newest(c)
  BY DEF Flush, Top, DiskInv, TypeOK
<1>2. /\ DOMAIN file' = DOMAIN file /\ UNCHANGED <<tar, failed, least, comp, maxLogFiles>>
      /\ \A q \in DOMAIN file : file[q] \subseteq file'[q]
      /\ Len(rev) + 1 \in file'[c]
  BY <1>1 DEF Flush, Newest
<1>3. /\ DOMAIN rev' = DOMAIN rev \cup {Len(rev) + 1}
      /\ \A x \in DOMAIN rev : rev'[x] = rev[x]
      /\ rev'[Len(rev) + 1] = c
      /\ curRevnum' >= c
  BY <1>1, SMTT(30) DEF Flush, TypeOK
<1>4. InFile'
  BY <1>2, <1>3 DEF InFile, KeptInv
<1>5. c \in DOMAIN file'
  BY <1>1, <1>2 DEF Newest
<1>6. InTar(c)
  BY <1>1 DEF KeptInv
<1>7. InTar(c)'
  <2> SUFFICES ASSUME NEW x \in DOMAIN rev', rev'[x] \notin DOMAIN file',
                      rev'[x] \notin failed', least' = 0 \/ rev'[x] + least' >= c
               PROVE  Archived(x)'
    BY <1>1, <1>2, <1>3, <1>5, <1>6 DEF InTar, Archived
  <2>1. x \in DOMAIN rev
    BY <1>3, <1>5
  <2> QED BY <1>2, <1>3, <1>6, <2>1 DEF InTar, Archived
<1>8. \A q \in Nat : Newest(q)' => q <= curRevnum' /\ InTar(q)'
  <2> SUFFICES ASSUME NEW q \in Nat, Newest(q)' PROVE q <= curRevnum' /\ InTar(q)'
    OBVIOUS
  <2>1. q = c
    BY <1>1, <1>2, <1>5 DEF Newest
  <2> QED BY <1>3, <1>1, <1>7, <2>1
<1>9. comp'.pc = "rm" /\ comp'.file \notin failed' =>
        \A x \in DOMAIN rev' : rev'[x] = comp'.file => Archived(x)'
  <2> SUFFICES ASSUME comp.pc = "rm", comp.file \notin failed,
                      NEW x \in DOMAIN rev', rev'[x] = comp.file
               PROVE  Archived(x)'
    BY <1>2
  <2>1. comp.file < c /\ comp.file \in Nat
    BY <1>1 DEF JobInv, TypeOK
  <2>2. x \in DOMAIN rev
    BY <1>1, <1>3, <2>1
  <2> QED BY <1>2, <1>3, <2>2 DEF KeptInv, Archived
<1> QED BY <1>2, <1>4, <1>8, <1>9 DEF KeptInv, LimitInv

\* A step that writes no line and leaves the archives alone: the files that
\* stay keep their lines, and no revision becomes the newest but one that has
\* no lines yet or is the newest already.
LEMMA DiskKept ==
  ASSUME RevInv, KeptInv, UNCHANGED <<rev, tar, failed>>, LimitInv',
         DOMAIN file \subseteq DOMAIN file',
         \A q \in DOMAIN file : file'[q] = file[q],
         \A x \in DOMAIN rev : rev[x] \in DOMAIN file' => rev[x] \in DOMAIN file,
         least' \in Nat, least # 0 => least' # 0 /\ least' <= least,
         NEW r \in Nat, Newest(r),
         \A q \in Nat : Newest(q)' => r <= q /\ q <= curRevnum',
         comp'.pc = "rm" => comp' = comp
  PROVE  KeptInv'
<1> USE DEF RevInv
<1>1. InFile'
  BY DEF InFile, KeptInv
<1>2. \A q \in Nat : Newest(q)' => q <= curRevnum' /\ InTar(q)'
  <2> SUFFICES ASSUME NEW q \in Nat, Newest(q)' PROVE InTar(q)'
    OBVIOUS
  <2>1. InTar(r) /\ r <= q
    BY DEF KeptInv
  <2>2. InTar(q)
    <3> SUFFICES ASSUME NEW x \in DOMAIN rev, rev[x] \notin DOMAIN file, rev[x] \notin failed,
                        least = 0 \/ rev[x] + least >= q
                 PROVE  Archived(x)
      BY DEF InTar
    <3>1. rev[x] \in Nat /\ least \in Nat
      BY DEF TypeOK
    <3>2. least = 0 \/ rev[x] + least >= r
      BY <2>1, <3>1
    <3> QED BY <2>1, <3>2 DEF InTar
  <2> QED BY <2>2, InTarWeaker
<1>3. comp'.pc = "rm" /\ comp'.file \notin failed' =>
        \A x \in DOMAIN rev' : rev'[x] = comp'.file => Archived(x)'
  BY DEF KeptInv, Archived
<1> QED BY <1>1, <1>2, <1>3 DEF KeptInv

\* The file that a rotation opens is new: it is ahead of every line.
LEMMA RotateKept == ASSUME RevInv, KeptInv, Rotate PROVE KeptInv'
<1> USE DEF RevInv
<1>1. PICK c \in Nat : run = "rotating" /\ Top = c - 1 /\ curRevnum = c /\ Newest(c - 1)
                       /\ c - 1 \in Nat
  BY DEF Rotate, Top, DiskInv, TypeOK
<1>2. /\ UNCHANGED <<rev, tar, failed, least, comp, maxLogFiles, curRevnum>>
      /\ DOMAIN file' = DOMAIN file \cup {c} /\ \A q \in DOMAIN file : file'[q] = file[q]
  BY <1>1 DEF Rotate, Opened, Put
<1>3. \A x \in DOMAIN rev : rev[x] # c
  BY <1>1 DEF Newest, TypeOK
<1>4. LimitInv' /\ least' \in Nat
  BY <1>2 DEF LimitInv, KeptInv, TypeOK
<1>5. \A q \in Nat : Newest(q)' => c - 1 <= q /\ q <= curRevnum'
  <2> SUFFICES ASSUME NEW q \in Nat, Newest(q)' PROVE c - 1 <= q /\ q <= curRevnum'
    OBVIOUS
  <2>1. q \in DOMAIN file \/ q = c
    BY <1>2 DEF Newest
  <2>2. c <= q
    BY <1>2 DEF Newest
  <2>3. q <= c
    BY <1>1, <2>1 DEF Newest
  <2> QED BY <1>1, <1>2, <2>2, <2>3
<1>6. /\ \A x \in DOMAIN rev : rev[x] \in DOMAIN file' => rev[x] \in DOMAIN file
      /\ DOMAIN file \subseteq DOMAIN file'
      /\ (least # 0 => least' # 0 /\ least' <= least)
  BY <1>2, <1>3 DEF TypeOK
<1> QED BY <1>1, <1>2, <1>4, <1>5, <1>6, DiskKept

\* stop(), a crash, a new limit and a job that is taken leave the disk alone.
LEMMA RunKept ==
  ASSUME RevInv, KeptInv,
         Stop \/ Crash \/ CompTake \/ \E m \in Limits : SetMaxLogFiles(m)
  PROVE  KeptInv'
<1> USE DEF RevInv
<1>1. UNCHANGED <<file, tar, rev, curRevnum, failed>> /\ \A r : Newest(r)' <=> Newest(r)
  BY DEF Stop, Crash, CompTake, SetMaxLogFiles, diskVars, Newest
<1>2. PICK r \in Nat : Newest(r)
  <2>1. run # "down"
    BY DEF Stop, Crash, CompTake, SetMaxLogFiles, JobInv
  <2> QED BY <2>1 DEF DiskInv
<1>3. \A q \in Nat : Newest(q)' => r <= q /\ q <= curRevnum'
  BY <1>1, <1>2, NewestUnique DEF KeptInv
<1>4. /\ LimitInv' /\ least' \in Nat /\ (least # 0 => least' # 0 /\ least' <= least)
      /\ (comp'.pc = "rm" => comp' = comp)
  <2>1. CASE Stop \/ Crash \/ CompTake
    <3>1. least' = least /\ maxLogFiles' = maxLogFiles /\ least \in Nat
      BY <2>1 DEF Stop, Crash, CompTake, TypeOK
    <3>2. comp' = comp \/ (comp'.max = 0 /\ comp'.pc # "rm")
      <4>1. CASE Stop
        BY <4>1 DEF Stop
      <4>2. CASE Crash
        BY <4>2 DEF Crash, CompIdle
      <4>3. CASE CompTake
        BY <4>3 DEF CompTake, CompIdle
      <4> QED BY <2>1, <4>1, <4>2, <4>3
    <3> QED BY <3>1, <3>2 DEF LimitInv, KeptInv
  <2>2. CASE \E m \in Limits : SetMaxLogFiles(m)
    <3>1. PICK m \in Limits : SetMaxLogFiles(m)
      BY <2>2
    <3>2. m \in Nat /\ NewLimit(m) /\ comp' = comp
      BY <3>1, RevisionAssumption DEF SetMaxLogFiles
    <3> QED BY <3>2, LimitLowered DEF KeptInv
  <2> QED BY <2>1, <2>2
<1> QED BY <1>1, <1>2, <1>3, <1>4, DiskKept

\* tar rewrites the archive of a revision whose file is still there, and when
\* it has completed the archive holds all of the file's lines.
LEMMA CompTarKept == ASSUME RevInv, KeptInv, CompTar \/ CompTarEnd PROVE KeptInv'
<1> USE DEF RevInv
<1>1. /\ UNCHANGED <<file, rev, curRevnum, least, maxLogFiles>>
      /\ comp.pc \in {"tar", "tarring"} /\ failed \subseteq failed'
  BY DEF CompTar, CompTarEnd, runVars
<1>2. comp.file \in DOMAIN file /\ comp.file < Top /\ Newest(Top) /\ Top \in Nat
      /\ comp.file \in Nat
  BY <1>1 DEF JobInv, DiskInv, TypeOK
<1>3. /\ DOMAIN tar' = DOMAIN tar \cup {comp.file}
      /\ \A q \in DOMAIN tar : q # comp.file => tar'[q] = tar[q]
      /\ comp'.max = comp.max /\ comp'.file = comp.file
  <2>1. CASE CompTar
    BY <2>1 DEF CompTar, Put, TypeOK
  <2>2. CASE CompTarEnd
    <3>1. comp.file \in DOMAIN tar
      BY <2>2 DEF CompTarEnd, JobInv
    <3> QED BY <2>2, <3>1 DEF CompTarEnd, TypeOK
  <2> QED BY <2>1, <2>2
<1>4. InFile' /\ LimitInv'
  BY <1>1, <1>3 DEF InFile, LimitInv, KeptInv
<1>5. \A q \in Nat : Newest(q)' => q <= curRevnum' /\ InTar(q)'
  <2> SUFFICES ASSUME NEW q \in Nat, Newest(q)' PROVE q <= curRevnum' /\ InTar(q)'
    OBVIOUS
  <2>1. Newest(q)
    BY <1>1, <1>3 DEF Newest
  <2>2. InTar(q) /\ q <= curRevnum
    BY <2>1 DEF KeptInv
  <2>3. ASSUME NEW x \in DOMAIN rev, rev[x] \notin DOMAIN file, Archived(x)
        PROVE  Archived(x)'
    BY <1>1, <1>2, <1>3, <2>3 DEF Archived
  <2> QED BY <1>1, <2>2, <2>3 DEF InTar
<1>6. comp'.pc = "rm" /\ comp'.file \notin failed' =>
        \A x \in DOMAIN rev' : rev'[x] = comp'.file => Archived(x)'
  <2> SUFFICES ASSUME comp'.pc = "rm", comp.file \notin failed',
                      NEW x \in DOMAIN rev, rev[x] = comp.file
               PROVE  Archived(x)'
    BY <1>1, <1>3
  <2>1. CompTarEnd
    <3>1. CompTar => comp'.pc = "tarring"
      BY DEF CompTar, TypeOK
    <3> QED BY <3>1
  <2>2. comp.file \in DOMAIN tar
    BY <2>1 DEF CompTarEnd, JobInv
  <2>3. tar' = [tar EXCEPT ![comp.file] = file[comp.file]]
    BY <2>1 DEF CompTarEnd
  <2>4. x \in file[comp.file]
    BY <1>2 DEF KeptInv, InFile
  <2> QED BY <1>1, <2>2, <2>3, <2>4 DEF Archived
<1> QED BY <1>4, <1>5, <1>6 DEF KeptInv

\* rm removes the file of which tar has completed the archive, or failed to.
LEMMA CompRmKept == ASSUME RevInv, KeptInv, CompRm PROVE KeptInv'
<1> USE DEF RevInv
<1>1. /\ UNCHANGED <<tar, rev, curRevnum, least, maxLogFiles, failed>> /\ comp.pc = "rm"
      /\ DOMAIN file' = DOMAIN file \ {comp.file}
      /\ \A q \in DOMAIN file' : file'[q] = file[q]
  BY DEF CompRm, runVars, Drop, Restrict
<1>2. comp.file < Top /\ Newest(Top) /\ Top \in Nat /\ comp.file \in Nat
  BY <1>1 DEF JobInv, DiskInv, TypeOK
<1>3. comp'.pc = "retain" /\ comp'.max = maxLogFiles
  BY DEF CompRm, TypeOK
<1>4. InFile' /\ LimitInv'
  BY <1>1, <1>3 DEF InFile, LimitInv, KeptInv
<1>5. \A q \in Nat : Newest(q)' => q <= curRevnum' /\ InTar(q)'
  <2> SUFFICES ASSUME NEW q \in Nat, Newest(q)' PROVE q <= curRevnum' /\ InTar(q)'
    OBVIOUS
  <2>1. Top \in DOMAIN file'
    BY <1>1, <1>2 DEF Newest
  <2>2. Top <= q
    BY <2>1 DEF Newest
  <2>3. Newest(q)
    BY <1>1, <1>2, <2>2 DEF Newest
  <2>4. InTar(q) /\ q <= curRevnum
    BY <2>3 DEF KeptInv
  <2>5. InTar(q)'
    <3> SUFFICES ASSUME NEW x \in DOMAIN rev, rev[x] \notin DOMAIN file', rev[x] \notin failed,
                        least = 0 \/ rev[x] + least >= q
                 PROVE  Archived(x)
      BY <1>1 DEF InTar, Archived
    <3>1. CASE rev[x] = comp.file
      BY <1>1, <3>1 DEF KeptInv
    <3>2. CASE rev[x] # comp.file
      BY <1>1, <2>4, <3>2 DEF InTar
    <3> QED BY <3>1, <3>2
  <2> QED BY <1>1, <2>4, <2>5
<1> QED BY <1>3, <1>4, <1>5 DEF KeptInv

\* What the loop removes is further behind the job's file than the least limit,
\* and so behind the newest.
LEMMA CompRetainKept == ASSUME RevInv, KeptInv, CompRetain PROVE KeptInv'
<1> USE DEF RevInv
<1>1. UNCHANGED <<rev, curRevnum, least, maxLogFiles, failed>> /\ comp.pc = "retain"
  BY DEF CompRetain
<1>2. comp.file < Top /\ Newest(Top) /\ Top \in Nat /\ comp.file \in Nat /\ comp.max \in Nat
      /\ minRevnum \in Nat /\ least \in Nat
  BY <1>1 DEF JobInv, DiskInv, TypeOK
<1>3. CASE comp.max > 0 /\ comp.file >= comp.max /\ minRevnum <= comp.file - comp.max
  <2>1. /\ DOMAIN file' = DOMAIN file \ {minRevnum} /\ DOMAIN tar' = DOMAIN tar \ {minRevnum}
        /\ \A q \in DOMAIN file' : file'[q] = file[q]
        /\ \A q \in DOMAIN tar' : tar'[q] = tar[q]
        /\ comp' = comp
    BY <1>3 DEF CompRetain, Drop, Restrict
  <2>2. least > 0 /\ minRevnum + least < Top
    <3>1. least > 0 /\ least <= comp.max
      BY <1>3 DEF KeptInv, LimitInv
    <3> QED BY <1>2, <1>3, <3>1
  <2>3. InFile' /\ LimitInv'
    BY <1>1, <2>1 DEF InFile, LimitInv, KeptInv
  <2>4. \A q \in Nat : Newest(q)' => q <= curRevnum' /\ InTar(q)'
    <3> SUFFICES ASSUME NEW q \in Nat, Newest(q)' PROVE q <= curRevnum' /\ InTar(q)'
      OBVIOUS
    <3>1. minRevnum < Top
      BY <1>2, <2>2
    <3>2. Top <= q
      BY <1>2, <2>1, <3>1 DEF Newest
    <3>3. q = Top
      BY <1>2, <2>1, <3>2 DEF Newest
    <3>4. InTar(q) /\ q <= curRevnum
      BY <1>2, <3>3 DEF KeptInv
    <3>5. InTar(q)'
      <4> SUFFICES ASSUME NEW x \in DOMAIN rev, rev[x] \notin DOMAIN file',
                          rev[x] \notin failed, least = 0 \/ rev[x] + least >= q
                   PROVE  Archived(x)'
        BY <1>1 DEF InTar
      <4>1. rev[x] # minRevnum
        BY <1>2, <2>2, <3>3
      <4>2. Archived(x)
        BY <2>1, <3>4, <4>1 DEF InTar
      <4> QED BY <1>1, <2>1, <4>1, <4>2 DEF Archived
    <3> QED BY <1>1, <3>4, <3>5
  <2> QED BY <1>1, <2>1, <2>3, <2>4 DEF KeptInv
<1>4. CASE ~(comp.max > 0 /\ comp.file >= comp.max /\ minRevnum <= comp.file - comp.max)
  <2>1. comp'.pc = "idle" /\ comp'.max = 0 /\ UNCHANGED <<file, tar>>
    BY <1>4 DEF CompRetain, diskVars, CompIdle
  <2> QED BY <1>1, <2>1 DEF KeptInv, InFile, LimitInv, Newest, InTar, Archived
<1> QED BY <1>3, <1>4

\* RevInv with the place of every line.
THEOREM LinesPlaced == Spec => [](RevInv /\ KeptInv)
<1>1. Init => KeptInv
  BY DEF Init, KeptInv, InFile, Newest, LimitInv, CompIdle
<1>2. RevInv /\ KeptInv /\ [Next]_vars => KeptInv'
  <2> SUFFICES ASSUME RevInv, KeptInv, [Next]_vars PROVE KeptInv'
    OBVIOUS
  <2>1. CASE Start
    BY <2>1, StartKept
  <2>2. CASE Flush
    BY <2>2, FlushKept
  <2>3. CASE Rotate
    BY <2>3, RotateKept
  <2>4. CASE Stop \/ Crash \/ CompTake \/ \E m \in Limits : SetMaxLogFiles(m)
    BY <2>4, RunKept
  <2>5. CASE CompTar \/ CompTarEnd \/ CompRm \/ CompRetain
    BY <2>5, CompTarKept, CompRmKept, CompRetainKept
  <2>6. CASE UNCHANGED vars
    BY <2>6 DEF vars, diskVars, runVars, KeptInv, InFile, LimitInv, Newest, InTar, Archived
  <2> QED BY <2>1, <2>2, <2>3, <2>4, <2>5, <2>6 DEF Next, Compress, Ended
<1> QED BY RevisionsInductive, <1>1, <1>2, PTL DEF Spec

\* Whatever run crashes between whichever steps, the lines of the newest files,
\* as many as every limit so far allowed, are on disk unless tar failed for
\* their file.
THEOREM NewestLinesReadable == Spec => []NewestReadable
<1>1. RevInv /\ KeptInv => NewestReadable
  <2> SUFFICES ASSUME RevInv, KeptInv, NEW x \in DOMAIN rev, rev[x] \notin failed,
                      least = 0 \/ rev[x] + least >= curRevnum
               PROVE  x \in OnDisk
    BY DEF NewestReadable
  <2>1. PICK r \in Nat : Newest(r)
    <3>1. rev # <<>>
      OBVIOUS
    <3> QED BY <3>1 DEF RevInv, DiskInv
  <2>2. r <= curRevnum /\ InTar(r)
    BY <2>1 DEF KeptInv
  <2>3. rev[x] \in Nat /\ least \in Nat /\ curRevnum \in Nat
    BY DEF RevInv, TypeOK
  <2>4. least = 0 \/ rev[x] + least >= r
    BY <2>2, <2>3
  <2>5. CASE rev[x] \in DOMAIN file
    BY <2>5 DEF KeptInv, InFile, OnDisk
  <2>6. CASE rev[x] \notin DOMAIN file
    <3>1. rev[x] \in DOMAIN tar /\ x \in tar[rev[x]]
      BY <2>2, <2>4, <2>6 DEF InTar, Archived
    <3>2. x \in UNION {tar[q] : q \in DOMAIN tar}
      BY <3>1
    <3> QED BY <3>2 DEF OnDisk
  <2> QED BY <2>5, <2>6
<1> QED BY LinesPlaced, <1>1, PTL
=============================================================================
