------------------------------ MODULE RaftGroup ------------------------------
(***************************************************************************)
(* The Raft library (NuRaft), external, as the replicas use raft_instance_. *)
(* What it promises is modelled rather than its protocol:                   *)
(*   - there is one sequence of committed entries, which every server's     *)
(*     commit callback follows at its own pace;                             *)
(*   - the terms of committed entries never decrease, entries of one term   *)
(*     are committed in the order their leader accepted them, and an entry  *)
(*     that is not committed when one accepted after it is, never will be   *)
(*     (by log matching it is in no log that has the later one);            *)
(*   - until then it may be committed, however long ago its leader lost     *)
(*     its term;                                                            *)
(*   - each server has an opinion on who leads, possibly out of date, and a *)
(*     deposed leader may not know it yet.                                  *)
(* A server never restarts: its log, inmem_log_store, is in memory.         *)
(***************************************************************************)
EXTENDS Integers, FiniteSets, Sequences

CONSTANTS Servers,    \* server ids
          NoLeader,   \* get_leader() = -1
          NoCall,     \* the call of a configuration entry
          MaxTerm,    \* bound: elections
          MaxExpire,  \* bound: timers that expire
          MaxCrash    \* bound: servers that crash

ASSUME GroupAssumption ==
  /\ Servers \subseteq Nat /\ IsFiniteSet(Servers)
  /\ NoLeader \notin Servers
  /\ MaxTerm \in Nat /\ MaxExpire \in Nat /\ MaxCrash \in Nat

VARIABLES up,        \* servers that have not crashed
          term,      \* the latest term
          leads,     \* the term a server believes to lead, or 0
          view,      \* get_leader() of each server
          log,       \* committed entries
          pending,   \* entries accepted by a leader and not committed
          expired    \* how many timers have expired

leaderVars == <<up, term, leads, view, expired>>
raftVars   == <<leaderVars, log, pending>>

HasQuorum == 2 * Cardinality(up) > Cardinality(Servers)

RaftInit ==
  /\ up = Servers /\ term = 0 /\ expired = 0
  /\ leads = [s \in Servers |-> 0] /\ view = [s \in Servers |-> NoLeader]
  /\ log = <<>> /\ pending = <<>>

ConfigEntry(t) == [term |-> t, op |-> "CONFIG", key |-> NoCall, call |-> NoCall,
                   try |-> 0, fwd |-> FALSE]

\* A quorum elects l, which opens its term with a configuration entry.
Elect(l) ==
  /\ l \in up /\ HasQuorum /\ term < MaxTerm
  /\ term' = term + 1
  /\ leads' = [leads EXCEPT ![l] = term + 1]
  /\ view' = [view EXCEPT ![l] = l]
  /\ pending' = Append(pending, ConfigEntry(term + 1))
  /\ UNCHANGED <<up, expired, log>>

\* s hears of leader l; if it led an earlier term, it steps down.
Heartbeat(l, s) ==
  /\ {l, s} \subseteq up /\ leads[l] > leads[s] /\ view[s] # l
  /\ view' = [view EXCEPT ![s] = l]
  /\ leads' = [leads EXCEPT ![s] = 0]
  /\ UNCHANGED <<up, term, expired, log, pending>>

\* The election or leadership timer of s expires: it knows no leader.
Expire(s) ==
  /\ s \in up /\ view[s] # NoLeader /\ expired < MaxExpire
  /\ expired' = expired + 1
  /\ view' = [view EXCEPT ![s] = NoLeader]
  /\ leads' = [leads EXCEPT ![s] = 0]
  /\ UNCHANGED <<up, term, log, pending>>

LastTerm == IF log = <<>> THEN 0 ELSE log[Len(log)].term

\* The next entry is committed, the first pending one of its term; the pending
\* entries accepted before it are overwritten, and those of earlier terms can
\* no longer be committed.
Decide ==
  /\ HasQuorum
  /\ \E j \in DOMAIN pending :
       LET e == pending[j]
       IN /\ e.term >= LastTerm
          /\ \A m \in 1 .. j - 1 : pending[m].term # e.term
          /\ log' = Append(log, e)
          /\ pending' = SubSeq(pending, j + 1, Len(pending))
  /\ UNCHANGED leaderVars

\* Server l accepts the entry of a client call.
Accept(l, e) ==
  /\ l \in up /\ leads[l] > 0
  /\ pending' = Append(pending, e)
  /\ UNCHANGED <<leaderVars, log>>

Crash(s) ==
  /\ s \in up /\ Cardinality(Servers \ up) < MaxCrash
  /\ up' = up \ {s}
  /\ UNCHANGED <<term, leads, view, expired, log, pending>>

RaftStep ==
  \/ \E l \in Servers : Elect(l)
  \/ \E l, s \in Servers : Heartbeat(l, s)
  \/ \E s \in Servers : Expire(s)
  \/ Decide
=============================================================================
