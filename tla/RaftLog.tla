------------------------------ MODULE RaftLog ------------------------------
(***************************************************************************)
(* What a Raft log store promises to the consensus library that drives it: *)
(* one gap-free window of entries.  Indices below `first' were compacted    *)
(* away; the window is first .. first + |log| - 1.  Outside a pack the log  *)
(* is extended, truncated at a conflict or compacted; while a pack is being *)
(* received entries are extended or replaced one by one, and a log that is  *)
(* still empty after it begins at 1.                                        *)
(***************************************************************************)
EXTENDS Integers, FiniteSets

CONSTANT Entry      \* what a log entry may hold (term and payload)

VARIABLES first,    \* index of the oldest retained entry
          log,      \* the retained entries, a function on an interval
          receiving \* a pack is being applied

rlvars == <<first, log, receiving>>

NextIndex == first + Cardinality(DOMAIN log)

RLInit == first = 1 /\ log = [i \in {} |-> 0] /\ receiving = FALSE

\* A new entry goes right after the last one.
RLAppend(e) ==
  /\ log' = [i \in DOMAIN log \cup {NextIndex} |->
                IF i = NextIndex THEN e ELSE log[i]]
  /\ UNCHANGED <<first, receiving>>

\* A conflicting entry replaces the one at i and everything after it goes.
RLOverwrite(i, e) ==
  /\ ~receiving /\ i \in first .. NextIndex
  /\ log' = [j \in first .. i |-> IF j = i THEN e ELSE log[j]]
  /\ UNCHANGED <<first, receiving>>

\* An entry received in a pack replaces the one at i; later entries stay.
RLPatch(i, e) ==
  /\ receiving /\ i \in DOMAIN log
  /\ log' = [log EXCEPT ![i] = e]
  /\ UNCHANGED <<first, receiving>>

\* An empty log may skip to a later index, that of the first entry received.
RLInstall(i, e) ==
  /\ receiving /\ DOMAIN log = {} /\ i >= first
  /\ first' = i
  /\ log' = [j \in {i} |-> e]
  /\ UNCHANGED receiving

\* Drops every entry up to l, even when that is past the end of the window.
RLCompact(l) ==
  /\ ~receiving /\ l >= first
  /\ first' = l + 1
  /\ log' = [i \in {j \in DOMAIN log : j > l} |-> log[i]]
  /\ UNCHANGED receiving

\* A pack that leaves the log empty starts it over.
RLReset ==
  /\ receiving /\ DOMAIN log = {}
  /\ first' = 1 /\ receiving' = FALSE
  /\ UNCHANGED log

\* A pack begins or is complete, which leaves the entries alone.
RLPack ==
  /\ receiving => DOMAIN log # {}
  /\ receiving' = ~receiving
  /\ UNCHANGED <<first, log>>

RLNext ==
  \/ \E e \in Entry : RLAppend(e)
  \/ \E i \in DOMAIN log \cup {NextIndex}, e \in Entry : RLOverwrite(i, e)
  \/ \E i \in DOMAIN log, e \in Entry : RLPatch(i, e)
  \/ \E i \in DOMAIN log', e \in Entry : RLInstall(i, e)
  \/ RLCompact(first' - 1)
  \/ RLPack \/ RLReset

RLSpec == RLInit /\ [][RLNext]_rlvars
=============================================================================
