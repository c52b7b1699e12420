----------------------------- MODULE LogRevisions -----------------------------
(***************************************************************************)
(* The files of a SimpleLogger (src/server/logger.cpp) over several runs of *)
(* its process: a run finds the revisions that earlier ones left, appends   *)
(* to the newest, rotates, archives and removes old ones, and may crash     *)
(* between any two of these steps.                                          *)
(*                                                                          *)
(* The ring is left out (LogRing): a line is what one flush() wrote to the  *)
(* file.  Lines are numbered in the order they were written.  A revision is *)
(* the number that getLogFilePath() puts at the end of a file's name, and   *)
(* findMinMaxRevNumInternal() reads back from it.                           *)
(***************************************************************************)
EXTENDS Integers, FiniteSets, Sequences, Functions

CONSTANTS Limits,       \* values of maxLogFiles, 0 to keep every file
          MaxFileSize,  \* maxLogFileSize in lines
          MaxLines,     \* bound: lines written
          MaxRuns       \* bound: runs of the process

ASSUME RevisionAssumption ==
  /\ Limits \subseteq Nat /\ Limits # {}
  /\ MaxFileSize \in Nat \ {0} /\ MaxLines \in Nat /\ MaxRuns \in Nat

VARIABLES file,     \* revision -> the lines in its log file
          tar,      \* revision -> the lines in its archive, none if incomplete
          run,      \* "down", "open" or "rotating"
          runs,     \* runs so far
          curRevnum, minRevnum, maxLogFiles,
          pendingCompElems, comp,
          rev,      \* history: the revision each line was written to
          failed,   \* history: revisions whose tar command failed
          least     \* history: the least maxLogFiles so far, of those not 0

diskVars == <<file, tar>>
runVars  == <<run, runs, curRevnum, minRevnum, maxLogFiles, pendingCompElems>>
vars     == <<diskVars, runVars, comp, rev, failed, least>>

Put(f, r, v) == [q \in DOMAIN f \cup {r} |-> IF q = r THEN v ELSE f[q]]
Drop(f, r)   == Restrict(f, DOMAIN f \ {r})

CompIdle == [pc |-> "idle", file |-> 0, max |-> 0]

Init ==
  /\ file = <<>> /\ tar = <<>>
  /\ run = "down" /\ runs = 0
  /\ curRevnum = 0 /\ minRevnum = 0 /\ maxLogFiles = 0
  /\ pendingCompElems = <<>> /\ comp = CompIdle
  /\ rev = <<>> /\ failed = {} /\ least = 0
-----------------------------------------------------------------------------
Least(S)    == CHOOSE r \in S : \A q \in S : r <= q
Greatest(S) == CHOOSE r \in S : \A q \in S : q <= r

Revisions == DOMAIN file \cup DOMAIN tar

\* Mutant: archives are not looked at.
FoundMinPlain == IF DOMAIN file = {} THEN 0 ELSE Least(DOMAIN file)

\* Mutant: nothing found leaves the value to compare with.
FoundMinUnset == IF Revisions = {} THEN -1 ELSE Least(Revisions)

\* findMinMaxRevNum(): the numbers in the names of the files and archives; an
\* archive tells of a next revision.
FoundMin == IF Revisions = {} THEN 0 ELSE Least(Revisions)

\* Mutant: the oldest revision is taken for the newest.
FoundMaxOldest == FoundMin

FoundMax == Greatest({0} \cup DOMAIN file \cup {r + 1 : r \in DOMAIN tar})

NewLimit(m) ==
  /\ maxLogFiles' = m
  /\ least' = IF m = 0 \/ (least > 0 /\ least < m) THEN least ELSE m

Opened(r) == IF r \in DOMAIN file THEN file ELSE Put(file, r, {})

\* The constructor and start(): the newest file is opened at its end.
Start ==
  /\ run = "down" /\ runs < MaxRuns
  /\ run' = "open" /\ runs' = runs + 1
  /\ curRevnum' = FoundMax /\ minRevnum' = FoundMin
  /\ file' = Opened(FoundMax)
  /\ \E m \in Limits : NewLimit(m)
  /\ UNCHANGED <<tar, pendingCompElems, comp, rev, failed>>

\* setMaxLogFiles(), which ignores 0.
SetMaxLogFiles(m) ==
  /\ run = "open" /\ m # 0 /\ m # maxLogFiles
  /\ NewLimit(m)
  /\ UNCHANGED <<diskVars, run, runs, curRevnum, minRevnum, pendingCompElems, comp,
                 rev, failed>>

\* flush() writes a line; a file that is too long by then is closed.
Flush ==
  /\ run = "open" /\ Len(rev) < MaxLines
  /\ LET line == Len(rev) + 1
         full == Cardinality(file[curRevnum]) + 1 > MaxFileSize
     IN /\ file' = [file EXCEPT ![curRevnum] = @ \cup {line}]
        /\ rev' = Append(rev, curRevnum)
        /\ run' = IF full THEN "rotating" ELSE run
        /\ curRevnum' = IF full THEN curRevnum + 1 ELSE curRevnum
  /\ UNCHANGED <<tar, runs, minRevnum, maxLogFiles, pendingCompElems, comp, failed, least>>

\* Mutant: the job is for the file just opened.
RotateWrongFile ==
  /\ run = "rotating"
  /\ file' = Opened(curRevnum)
  /\ pendingCompElems' = Append(pendingCompElems, curRevnum)
  /\ run' = "open"
  /\ UNCHANGED <<tar, runs, curRevnum, minRevnum, maxLogFiles, comp, rev, failed, least>>

\* The rest of flush(): the next file is opened, then the job for the one
\* before is queued.
Rotate ==
  /\ run = "rotating"
  /\ file' = Opened(curRevnum)
  /\ pendingCompElems' = Append(pendingCompElems, curRevnum - 1)
  /\ run' = "open"
  /\ UNCHANGED <<tar, runs, curRevnum, minRevnum, maxLogFiles, comp, rev, failed, least>>

\* stop() returns when numCompJobs is 0.
Stop ==
  /\ run = "open" /\ pendingCompElems = <<>> /\ comp.pc = "idle"
  /\ run' = "down"
  /\ UNCHANGED <<diskVars, runs, curRevnum, minRevnum, maxLogFiles, pendingCompElems,
                 comp, rev, failed, least>>

\* The process dies, and with it the queue and the compressor.
Crash ==
  /\ run # "down"
  /\ run' = "down"
  /\ pendingCompElems' = <<>> /\ comp' = CompIdle
  /\ UNCHANGED <<diskVars, runs, curRevnum, minRevnum, maxLogFiles, rev, failed, least>>
-----------------------------------------------------------------------------
\* compressWorker and doCompression().
CompTake ==
  /\ comp.pc = "idle" /\ pendingCompElems # <<>>
  /\ comp' = [CompIdle EXCEPT !.pc = "tar", !.file = Head(pendingCompElems)]
  /\ pendingCompElems' = Tail(pendingCompElems)
  /\ UNCHANGED <<diskVars, run, runs, curRevnum, minRevnum, maxLogFiles, rev, failed, least>>

\* Mutant: the command is started in the background.
CompTarDetached ==
  /\ comp.pc = "tar"
  /\ tar' = Put(tar, comp.file, {})
  /\ comp' = [comp EXCEPT !.pc = "rm"]
  /\ UNCHANGED <<file, runVars, rev, failed, least>>

\* tar creates the archive ...
CompTar ==
  /\ comp.pc = "tar"
  /\ tar' = Put(tar, comp.file, {})
  /\ comp' = [comp EXCEPT !.pc = "tarring"]
  /\ UNCHANGED <<file, runVars, rev, failed, least>>

\* ... and completes it, or fails, which execCmd() does not report.
CompTarEnd ==
  /\ comp.pc = "tarring"
  /\ \/ tar' = [tar EXCEPT ![comp.file] = file[comp.file]] /\ UNCHANGED failed
     \/ failed' = failed \cup {comp.file} /\ UNCHANGED tar
  /\ comp' = [comp EXCEPT !.pc = "rm"]
  /\ UNCHANGED <<file, runVars, rev, least>>

CompRm ==
  /\ comp.pc = "rm"
  /\ file' = Drop(file, comp.file)
  /\ comp' = [comp EXCEPT !.pc = "retain", !.max = maxLogFiles]
  /\ UNCHANGED <<tar, runVars, rev, failed, least>>

\* One round of the loop that removes the revisions max behind the job's, or
\* its end.
CompRetain ==
  /\ comp.pc = "retain"
  /\ IF comp.max > 0 /\ comp.file >= comp.max /\ minRevnum <= comp.file - comp.max
     THEN /\ file' = Drop(file, minRevnum) /\ tar' = Drop(tar, minRevnum)
          /\ minRevnum' = minRevnum + 1
          /\ UNCHANGED comp
     ELSE /\ comp' = CompIdle
          /\ UNCHANGED <<diskVars, minRevnum>>
  /\ UNCHANGED <<run, runs, curRevnum, maxLogFiles, pendingCompElems, rev, failed, least>>

Compress == CompTake \/ CompTar \/ CompTarEnd \/ CompRm \/ CompRetain

\* The last run is over.
Ended == run = "down" /\ runs = MaxRuns /\ UNCHANGED vars

Next ==
  \/ Start \/ (\E m \in Limits : SetMaxLogFiles(m)) \/ Flush \/ Rotate \/ Stop \/ Crash
  \/ Compress
  \/ Ended

Spec == Init /\ [][Next]_vars
-----------------------------------------------------------------------------
\* Shapes of the disk, the run and the compressor; revisions are unsigned.
TypeOK ==
  /\ Revisions \subseteq Nat
  /\ \A r \in DOMAIN file : file[r] \subseteq Nat
  /\ \A r \in DOMAIN tar : tar[r] \subseteq Nat
  /\ run \in {"down", "open", "rotating"} /\ runs \in Nat
  /\ curRevnum \in Nat /\ minRevnum \in Nat /\ maxLogFiles \in Nat
  /\ pendingCompElems \in Seq(Nat)
  /\ comp \in [pc : {"idle", "tar", "tarring", "rm", "retain"}, file : Nat, max : Nat]
  /\ rev \in Seq(Nat) /\ failed \subseteq Nat /\ least \in Nat

OnDisk == (UNION {file[r] : r \in DOMAIN file}) \cup (UNION {tar[r] : r \in DOMAIN tar})

\* Whenever the process crashes, every line of the current file and of the
\* maxLogFiles revisions before it can be read from a file or from a complete
\* archive, unless tar failed for its revision.
NewestReadable ==
  \A x \in DOMAIN rev :
    rev[x] \notin failed /\ (least = 0 \/ rev[x] + least >= curRevnum) => x \in OnDisk

\* A run goes on where the earlier ones stopped: no line is in an older
\* revision than a line written before it.
OrderKept == \A x, y \in DOMAIN rev : x < y => rev[x] <= rev[y]

\* The file being written has no archive, so that no later line is missing
\* from one and the compressor never removes it.
CurrentNotArchived == run = "open" => curRevnum \in DOMAIN file \ DOMAIN tar

\* No revision is older than minRevnum: those the loop of doCompression()
\* starts above would stay on disk for ever.
NoneBelowMin == run # "down" => \A r \in Revisions : r >= minRevnum
=============================================================================
