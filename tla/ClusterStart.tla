---------------------------- MODULE ClusterStart ----------------------------
(***************************************************************************)
(* How a server comes to be part of a cluster: main() and try_join_cluster  *)
(* (apps/spl_server.cpp), the constructors of server and replica, the join  *)
(* RPC, and the state manager, which keeps everything in memory, so that a  *)
(* process that ends has lost its log, its vote and its configuration.      *)
(*                                                                          *)
(* A group is a Raft cluster, named by the start that founded it: every     *)
(* start of a server founds one, of which it is the only member until       *)
(* another group invites it.  What NuRaft does is external: add_srv()       *)
(* answers before the invited server has joined, an invitation may come to  *)
(* nothing, and a group calls on its members also after they restarted.     *)
(* Messages between groups are left out otherwise.  Every start has a flag  *)
(* -seed of its own: docker/start_servers names the first server, and       *)
(* docker/restart_server starts any server again, without one by default.   *)
(* The call in try_join_cluster sets no timeout, so that a request that     *)
(* nobody will answer may keep its sender waiting for ever.                 *)
(***************************************************************************)
EXTENDS Integers, FiniteSets

CONSTANTS Servers, NoServer,
          Seeds,      \* what -seed of each server may be, NoServer if empty
          Retries,    \* initialization_retries_
          MaxStarts   \* bound: starts of each server

ASSUME StartAssumption ==
  /\ NoServer \notin Servers
  /\ Seeds \in [Servers -> SUBSET (Servers \cup {NoServer})]
  /\ Retries \in Nat /\ MaxStarts \in Nat

VARIABLES proc,     \* "off", "init", "join", "asked" or "run"
          tries,    \* calls of is_initialized()
          starts,   \* how often a server was started
          seed,     \* -seed of its latest start
          asks,     \* join RPCs that wait for an answer
          group,    \* the group that raft_instance_ is part of
          saved,    \* saved_config_
          members,  \* configuration of each group
          joining,  \* the server that a group has invited
          lost,     \* history: the groups whose log a server had when it ended
          via       \* history: the group that answered the join request of a
                    \* server's latest start, its own until then

procVars  == <<proc, tries, starts, seed, asks>>
groupVars == <<group, saved, members, joining>>
vars      == <<procVars, groupVars, lost, via>>

Groups  == Servers \X (0 .. MaxStarts)
Own(s)  == <<s, starts[s]>>

Init ==
  /\ proc = [s \in Servers |-> "off"] /\ tries = [s \in Servers |-> 0]
  /\ starts = [s \in Servers |-> 0] /\ asks = {}
  /\ seed = [s \in Servers |-> NoServer]
  /\ group = [s \in Servers |-> <<s, 0>>] /\ saved = [s \in Servers |-> {}]
  /\ members = [g \in Groups |-> {}] /\ joining = [g \in Groups |-> NoServer]
  /\ lost = [s \in Servers |-> {}] /\ via = group
-----------------------------------------------------------------------------
\* The configuration of a new inmem_state_mgr.
InitialConfig(s) == {s}

\* main() with -seed r, and the constructor of the replica up to initialize().
Start(s, r) ==
  /\ proc[s] = "off" /\ starts[s] < MaxStarts /\ r \in Seeds[s]
  /\ LET g == <<s, starts[s] + 1>>
     IN /\ group' = [group EXCEPT ![s] = g]
        /\ members' = [members EXCEPT ![g] = InitialConfig(s)]
        /\ via' = [via EXCEPT ![s] = g]
  /\ saved' = [saved EXCEPT ![s] = InitialConfig(s)]
  /\ starts' = [starts EXCEPT ![s] = @ + 1]
  /\ seed' = [seed EXCEPT ![s] = r]
  /\ tries' = [tries EXCEPT ![s] = 0]
  /\ proc' = [proc EXCEPT ![s] = "init"]
  /\ UNCHANGED <<asks, joining, lost>>

\* The process ends; the requests that others sent to it are lost, its own are
\* not.
Ends(s) ==
  /\ proc' = [proc EXCEPT ![s] = "off"]
  /\ asks' = {a \in asks : a.to # s}
  /\ lost' = [lost EXCEPT ![s] = @ \cup {group[s]}]
  /\ UNCHANGED <<tries, starts, seed, groupVars, via>>

\* main() once the server is constructed.
AfterInit(s) == IF seed[s] = NoServer THEN "run" ELSE "join"

Initialized(s) ==
  /\ proc[s] = "init" /\ tries[s] < Retries
  /\ proc' = [proc EXCEPT ![s] = AfterInit(s)]
  /\ UNCHANGED <<tries, starts, seed, asks, groupVars, lost, via>>

\* Mutant: one poll too many.
PollAgainOneMore(s) ==
  /\ proc[s] = "init" /\ tries[s] <= Retries
  /\ tries' = [tries EXCEPT ![s] = @ + 1]
  /\ UNCHANGED <<proc, starts, seed, asks, groupVars, lost, via>>

\* initialize() polls is_initialized() ...
PollAgain(s) ==
  /\ proc[s] = "init" /\ tries[s] < Retries
  /\ tries' = [tries EXCEPT ![s] = @ + 1]
  /\ UNCHANGED <<proc, starts, seed, asks, groupVars, lost, via>>

\* Mutant: the polls begin again.
InitFailsStartsOver(s) ==
  /\ proc[s] = "init" /\ tries[s] >= Retries
  /\ tries' = [tries EXCEPT ![s] = 0]
  /\ UNCHANGED <<proc, starts, seed, asks, groupVars, lost, via>>

\* ... and ends the process when it has done so too often.
InitFails(s) ==
  /\ proc[s] = "init" /\ tries[s] >= Retries
  /\ Ends(s)

Poll(s) == Initialized(s) \/ PollAgain(s) \/ InitFails(s)
-----------------------------------------------------------------------------
\* join_srv_ is constructed after the replica and served by run().
JoinPortOpen(r) == proc[r] \in {"join", "asked", "run"}

Ask(s) == [from |-> s, start |-> starts[s], to |-> seed[s]]

\* try_join_cluster() sends its request, to nobody when the seed is not there.
Call(s) ==
  /\ proc[s] = "join"
  /\ proc' = [proc EXCEPT ![s] = "asked"]
  /\ asks' = IF JoinPortOpen(seed[s]) THEN asks \cup {Ask(s)} ELSE asks
  /\ UNCHANGED <<tries, starts, seed, groupVars, lost, via>>

\* Group g has a leader.
HasLeader(g) ==
  2 * Cardinality({m \in members[g] : group[m] = g /\ proc[m] # "off"})
    > Cardinality(members[g])

\* raft_server::add_srv() can only succeed for one new server at a time.
CanAdd(g, s) == HasLeader(g) /\ joining[g] = NoServer /\ s \notin members[g]

\* The caller of a that is still waiting for its answer.
Waits(a) == proc[a.from] = "asked" /\ starts[a.from] = a.start

\* The join handler of the seed and replica::add_server(), answered with 0.
JoinAccepted(a) ==
  LET s == a.from
      g == group[a.to]
  IN /\ proc[a.to] = "run" /\ CanAdd(g, s)
     /\ joining' = [joining EXCEPT ![g] = s]
     /\ asks' = asks \ {a}
     /\ IF Waits(a) THEN /\ proc' = [proc EXCEPT ![s] = "run"]
                         /\ via' = [via EXCEPT ![s] = g]
        ELSE UNCHANGED <<proc, via>>
     /\ UNCHANGED <<tries, starts, seed, group, saved, members, lost>>

\* Mutant: the code of the answer is not looked at.
JoinRefusedRuns(a) ==
  /\ proc[a.to] = "run"
  /\ asks' = asks \ {a}
  /\ IF Waits(a) THEN /\ proc' = [proc EXCEPT ![a.from] = "run"]
                      /\ via' = [via EXCEPT ![a.from] = group[a.to]]
     ELSE UNCHANGED <<proc, via>>
  /\ UNCHANGED <<tries, starts, seed, groupVars, lost>>

\* The same, answered with another code: there is no leader, the server is in
\* the configuration already, or another one is about to be.
JoinRefused(a) ==
  /\ proc[a.to] = "run"
  /\ IF Waits(a)
     THEN /\ proc' = [proc EXCEPT ![a.from] = "off"]
          /\ lost' = [lost EXCEPT ![a.from] = @ \cup {group[a.from]}]
          /\ asks' = {b \in asks \ {a} : b.to # a.from}
     ELSE /\ asks' = asks \ {a}
          /\ UNCHANGED <<proc, lost>>
  /\ UNCHANGED <<tries, starts, seed, groupVars, via>>

\* The call throws, and nobody catches it, when the library notices that the
\* seed is not there or has ended before it answered.
SeedLost(s) ==
  /\ proc[s] = "asked" /\ Ask(s) \notin asks
  /\ Ends(s)

Crash(s) ==
  /\ proc[s] # "off"
  /\ Ends(s)
-----------------------------------------------------------------------------
\* The leader of g brings the invited server in, whichever start of it answers,
Invite(g) ==
  LET s == joining[g] IN
  /\ s # NoServer /\ HasLeader(g) /\ proc[s] # "off"
  /\ group' = [group EXCEPT ![s] = g]
  /\ members' = [members EXCEPT ![g] = @ \cup {s}]
  /\ joining' = [joining EXCEPT ![g] = NoServer]
  /\ UNCHANGED <<procVars, saved, lost, via>>

\* or gives it up.
GiveUp(g) ==
  /\ joining[g] # NoServer
  /\ joining' = [joining EXCEPT ![g] = NoServer]
  /\ UNCHANGED <<procVars, group, saved, members, lost, via>>

\* The leader of g calls on a member that has started again.
Recall(g, s) ==
  /\ s \in members[g] /\ group[s] # g /\ proc[s] # "off" /\ HasLeader(g)
  /\ group' = [group EXCEPT ![s] = g]
  /\ UNCHANGED <<procVars, saved, members, joining, lost, via>>

\* save_config(), from which get_all_servers() is answered.
SaveConfig(s) ==
  /\ proc[s] # "off" /\ saved[s] # members[group[s]]
  /\ saved' = [saved EXCEPT ![s] = members[group[s]]]
  /\ UNCHANGED <<procVars, group, members, joining, lost, via>>

\* No server will be started any more.
Ended ==
  /\ \A s \in Servers : proc[s] = "off" /\ starts[s] = MaxStarts
  /\ UNCHANGED vars

\* The request is sent, and answered by a seed that runs.
Join(s) == Call(s) \/ \E a \in asks : a.from = s /\ (JoinAccepted(a) \/ JoinRefused(a))

Next ==
  \/ \E s \in Servers, r \in Servers \cup {NoServer} : Start(s, r)
  \/ \E s \in Servers : Poll(s) \/ Join(s) \/ SeedLost(s) \/ Crash(s) \/ SaveConfig(s)
  \/ \E g \in Groups : Invite(g) \/ GiveUp(g) \/ \E s \in Servers : Recall(g, s)
  \/ Ended

Spec == Init /\ [][Next]_vars

\* A process keeps running and a seed that runs answers; that a call notices a
\* seed that is gone is owed by nobody.
Fairness == \A s \in Servers : WF_vars(Poll(s)) /\ WF_vars(Join(s))

FairSpec == Spec /\ Fairness
-----------------------------------------------------------------------------
\* Shapes of the processes and the groups.
TypeOK ==
  /\ proc \in [Servers -> {"off", "init", "join", "asked", "run"}]
  /\ tries \in [Servers -> 0 .. Retries] /\ starts \in [Servers -> 0 .. MaxStarts]
  /\ seed \in [Servers -> Servers \cup {NoServer}]
  /\ asks \subseteq [from : Servers, start : 0 .. MaxStarts, to : Servers]
  /\ group \in [Servers -> Groups] /\ saved \in [Servers -> SUBSET Servers]
  /\ members \in [Groups -> SUBSET Servers]
  /\ joining \in [Groups -> Servers \cup {NoServer}]
  /\ lost \in [Servers -> SUBSET Groups] /\ via \in [Servers -> Groups]

\* A start-up does not bring a server back into a group whose log it has lost:
\* a seed of that group knows the server and refuses it, and it exits, also
\* when requests of its earlier starts are still around.  So a server without
\* its log that serves clients of its old group was called back by the group
\* (Recall) after it was let in elsewhere: by no seed, as docker/restart_server
\* starts it, or by a seed of another group.
AmnesiacNotAdmitted ==
  \A s \in Servers : proc[s] = "run" => via[s] \notin lost[s]

\* s is one of several servers each of which waits for another one of them,
\* or for an answer that nobody will give.
Stranded(s) ==
  \E W \in SUBSET Servers :
    s \in W /\ \A w \in W : proc[w] = "asked" /\ (Ask(w) \notin asks \/ seed[w] \in W)

\* Every start comes to an end, the server serves or its process is gone, also
\* when its seed is still waiting for its own, unless it is stranded: its seed,
\* or the seed of its seed, went away, or the seeds form a cycle.
StartUpEnds ==
  \A s \in Servers : proc[s] = "init" ~> proc[s] \in {"run", "off"} \/ Stranded(s)
=============================================================================
