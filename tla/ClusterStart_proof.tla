-------------------------- MODULE ClusterStart_proof --------------------------
(***************************************************************************)
(* A start-up does not bring a server back into a group whose log it has    *)
(* lost, for every number of servers and starts and whatever seeds they are *)
(* given.                                                                   *)
(***************************************************************************)
EXTENDS ClusterStart, TLAPS

\* A start that has happened founded g.
Founded(g) == g[2] <= starts[g[1]]

\* Groups that have members, or invite one, were founded, and a process is a
\* member of the group it is in.
OriginInv ==
  /\ \A g \in Groups : members[g] # {} \/ joining[g] # NoServer => Founded(g)
  /\ \A s \in Servers : proc[s] # "off" => s \in members[group[s]]

\* A group that a server was in when it ended still counts it as a member.
LostInv == \A s \in Servers : \A g \in lost[s] : s \in members[g]

\* The group that answered a process is none that it has lost.
ServeInv == \A s \in Servers : proc[s] # "off" => via[s] \notin lost[s]

\* Only a server with a seed sends a request.
SeedInv == \A s \in Servers : proc[s] \in {"join", "asked"} => seed[s] \in Servers

StartInv == TypeOK /\ OriginInv /\ LostInv /\ ServeInv /\ SeedInv

\* Nothing is running.
LEMMA InitStart == Init => StartInv
<1> SUFFICES ASSUME Init PROVE StartInv
  OBVIOUS
<1>1. \A s \in Servers : <<s, 0>> \in Groups
  BY StartAssumption DEF Groups
<1>2. TypeOK
  BY <1>1, StartAssumption DEF Init, TypeOK
<1> QED BY <1>2 DEF Init, StartInv, OriginInv, LostInv, ServeInv, SeedInv

\* A process ends: what it held is lost, nothing else changes.
LEMMA EndStep ==
  ASSUME StartInv, NEW s \in Servers, proc[s] # "off",
         proc' = [proc EXCEPT ![s] = "off"],
         lost' = [lost EXCEPT ![s] = @ \cup {group[s]}],
         asks' \subseteq asks, UNCHANGED <<tries, starts, seed, groupVars, via>>
  PROVE  StartInv'
<1> USE DEF groupVars
<1>1. TypeOK'
  BY DEF StartInv, TypeOK
<1>2. \A x \in Servers : proc'[x] = IF x = s THEN "off" ELSE proc[x]
  BY DEF StartInv, TypeOK
<1>3. \A x \in Servers : lost'[x] = IF x = s THEN lost[x] \cup {group[x]} ELSE lost[x]
  BY DEF StartInv, TypeOK
<1>4. OriginInv'
  BY <1>2 DEF StartInv, OriginInv, Founded
<1>5. LostInv'
  BY <1>3 DEF StartInv, LostInv, OriginInv
<1>6. ServeInv' /\ SeedInv'
  BY <1>2, <1>3 DEF StartInv, ServeInv, SeedInv
<1> QED BY <1>1, <1>4, <1>5, <1>6 DEF StartInv

\* A process goes on, and sends a request only if it has a seed.
LEMMA ProcStep ==
  ASSUME StartInv, NEW s \in Servers, NEW p \in {"init", "join", "asked", "run"},
         proc[s] # "off", proc' = [proc EXCEPT ![s] = p],
         p \in {"join", "asked"} => seed[s] \in Servers,
         tries' \in [Servers -> 0 .. Retries],
         asks' \subseteq [from : Servers, start : 0 .. MaxStarts, to : Servers],
         UNCHANGED <<starts, seed, groupVars, lost, via>>
  PROVE  StartInv'
<1> USE DEF groupVars
<1>1. TypeOK'
  BY DEF StartInv, TypeOK
<1>2. \A x \in Servers : proc'[x] = IF x = s THEN p ELSE proc[x]
  BY DEF StartInv, TypeOK
<1>3. OriginInv'
  BY <1>2 DEF StartInv, OriginInv, Founded
<1>4. LostInv' /\ ServeInv' /\ SeedInv'
  BY <1>2 DEF StartInv, LostInv, ServeInv, SeedInv
<1> QED BY <1>1, <1>3, <1>4 DEF StartInv

\* A start founds a group of its own, which no start before it was in.
LEMMA StartStep ==
  ASSUME StartInv, NEW s \in Servers, NEW r \in Servers \cup {NoServer}, Start(s, r)
  PROVE  StartInv'
<1> DEFINE n == starts[s] + 1
           h == <<s, n>>
<1>1. starts[s] \in Nat /\ n \in 1 .. MaxStarts /\ h \in Groups /\ h[1] = s /\ h[2] = n
  BY StartAssumption DEF StartInv, TypeOK, Start, Groups
<1>2. TypeOK'
  BY <1>1, StartAssumption DEF StartInv, TypeOK, Start, InitialConfig
<1>3. \A x \in Servers : /\ starts[x] \in Nat /\ starts'[x] = IF x = s THEN n ELSE starts[x]
                         /\ proc'[x] = IF x = s THEN "init" ELSE proc[x]
                         /\ group'[x] = IF x = s THEN h ELSE group[x]
                         /\ via'[x] = IF x = s THEN h ELSE via[x]
                         /\ seed'[x] = IF x = s THEN r ELSE seed[x]
                         /\ lost'[x] = lost[x] /\ lost[x] \subseteq Groups
                         /\ group[x] \in Groups
  BY <1>1, StartAssumption DEF StartInv, TypeOK, Start
<1>4. \A g \in Groups : members'[g] = IF g = h THEN {s} ELSE members[g]
  BY <1>1 DEF StartInv, TypeOK, Start, InitialConfig
<1>5. members[h] = {}
  BY <1>1 DEF StartInv, OriginInv, Founded
<1>6. \A g \in Groups : g[1] \in Servers /\ g[2] \in Nat
  BY StartAssumption DEF Groups
<1>7. OriginInv'
  <2>1. \A g \in Groups : Founded(g) => Founded(g)'
    BY <1>1, <1>3, <1>6 DEF Founded
  <2>2. \A g \in Groups : members'[g] # {} \/ joining'[g] # NoServer => Founded(g)'
    <3> SUFFICES ASSUME NEW g \in Groups, members'[g] # {} \/ joining'[g] # NoServer
                 PROVE  Founded(g)'
      OBVIOUS
    <3>1. CASE g = h
      BY <1>1, <1>3, <3>1 DEF Founded
    <3>2. CASE g # h
      BY <1>4, <2>1, <3>2 DEF StartInv, OriginInv, Start
    <3> QED BY <3>1, <3>2
  <2>3. \A x \in Servers : proc'[x] # "off" => x \in members'[group'[x]]
    <3> SUFFICES ASSUME NEW x \in Servers, proc'[x] # "off" PROVE x \in members'[group'[x]]
      OBVIOUS
    <3>1. CASE x = s
      BY <1>1, <1>3, <1>4, <3>1
    <3>2. CASE x # s
      <4>1. x \in members[group[x]]
        BY <1>3, <3>2 DEF StartInv, OriginInv
      <4> QED BY <1>3, <1>4, <1>5, <3>2, <4>1
    <3> QED BY <3>1, <3>2
  <2> QED BY <2>2, <2>3 DEF OriginInv
<1>8. LostInv'
  BY <1>3, <1>4, <1>5 DEF StartInv, LostInv
<1>9. ServeInv'
  <2>1. h \notin lost[s]
    BY <1>5 DEF StartInv, LostInv
  <2> QED BY <1>3, <2>1 DEF StartInv, ServeInv
<1>10. SeedInv'
  BY <1>3 DEF StartInv, SeedInv
<1> QED BY <1>2, <1>7, <1>8, <1>9, <1>10 DEF StartInv

\* The seed accepts the request: the caller was not a member of its group, so
\* it cannot have lost it.
LEMMA AcceptStep == ASSUME StartInv, NEW a \in asks, JoinAccepted(a) PROVE StartInv'
<1> DEFINE s == a.from
           g == group[a.to]
<1>1. s \in Servers /\ a.to \in Servers
  BY DEF StartInv, TypeOK
<1>2. g \in Groups
  BY <1>1 DEF StartInv, TypeOK
<1>3. UNCHANGED <<tries, starts, seed, group, saved, members, lost>> /\ proc[a.to] = "run"
      /\ s \notin members[g] /\ asks' \subseteq asks
      /\ joining' = [joining EXCEPT ![g] = s]
  BY DEF JoinAccepted, CanAdd
<1>4. \A x \in Servers : \/ proc'[x] = proc[x] /\ via'[x] = via[x]
                         \/ x = s /\ proc[x] = "asked" /\ proc'[x] = "run" /\ via'[x] = g
  BY <1>1 DEF JoinAccepted, Waits, StartInv, TypeOK
<1>5. TypeOK'
  <2>1. proc' \in [Servers -> {"off", "init", "join", "asked", "run"}]
        /\ via' \in [Servers -> Groups]
    BY <1>2 DEF JoinAccepted, StartInv, TypeOK
  <2> QED BY <1>1, <1>2, <1>3, <2>1 DEF StartInv, TypeOK
<1>6. OriginInv'
  <2>1. Founded(g)
    BY <1>1, <1>2, <1>3 DEF StartInv, OriginInv
  <2>2. \A h \in Groups : h = g \/ joining'[h] = joining[h]
    BY <1>3 DEF StartInv, TypeOK
  <2> QED BY <1>3, <1>4, <2>1, <2>2 DEF StartInv, OriginInv, Founded
<1>7. LostInv' /\ SeedInv'
  BY <1>3, <1>4 DEF StartInv, LostInv, SeedInv
<1>8. ServeInv'
  <2>1. g \notin lost[s]
    BY <1>1, <1>3 DEF StartInv, LostInv
  <2> QED BY <1>3, <1>4, <2>1 DEF StartInv, ServeInv
<1> QED BY <1>5, <1>6, <1>7, <1>8 DEF StartInv

\* The seed refuses the request, and the caller exits.
LEMMA RefuseStep == ASSUME StartInv, NEW a \in asks, JoinRefused(a) PROVE StartInv'
<1>1. a.from \in Servers
  BY DEF StartInv, TypeOK
<1>2. CASE Waits(a)
  <2>1. /\ proc[a.from] # "off" /\ proc' = [proc EXCEPT ![a.from] = "off"]
        /\ lost' = [lost EXCEPT ![a.from] = @ \cup {group[a.from]}]
        /\ asks' \subseteq asks /\ UNCHANGED <<tries, starts, seed, groupVars, via>>
    BY <1>2 DEF JoinRefused, Waits
  <2> QED BY <1>1, <2>1, EndStep
<1>3. CASE ~Waits(a)
  <2>1. asks' \subseteq asks /\ UNCHANGED <<proc, lost, tries, starts, seed, groupVars, via>>
    BY <1>3 DEF JoinRefused
  <2> QED BY <2>1 DEF StartInv, TypeOK, OriginInv, LostInv, ServeInv, SeedInv, Founded, groupVars
<1> QED BY <1>2, <1>3

\* A server is brought into a group, which counts it as a member from now on.
LEMMA MoveStep ==
  ASSUME StartInv, UNCHANGED <<procVars, saved, lost, via>>, NEW s \in Servers,
         NEW g \in Groups, Founded(g),
         joining' \in [Groups -> Servers \cup {NoServer}],
         \A h \in Groups : joining'[h] \in {joining[h], NoServer},
         group' = [group EXCEPT ![s] = g], members' = [members EXCEPT ![g] = @ \cup {s}]
  PROVE  StartInv'
<1>1. UNCHANGED <<proc, tries, starts, seed, asks>>
  BY DEF procVars
<1>2. TypeOK'
  BY <1>1 DEF StartInv, TypeOK
<1>3. \A h \in Groups : members'[h] = IF h = g THEN members[h] \cup {s} ELSE members[h]
  BY DEF StartInv, TypeOK
<1>4. \A x \in Servers : /\ group'[x] = IF x = s THEN g ELSE group[x]
                         /\ group[x] \in Groups /\ lost[x] \subseteq Groups
  BY DEF StartInv, TypeOK
<1>5. OriginInv'
  <2>1. \A h \in Groups : members'[h] # {} \/ joining'[h] # NoServer => Founded(h)
    BY <1>3 DEF StartInv, OriginInv
  <2>2. \A x \in Servers : proc[x] # "off" => x \in members'[group'[x]]
    BY <1>3, <1>4 DEF StartInv, OriginInv
  <2> QED BY <1>1, <2>1, <2>2 DEF OriginInv, Founded
<1>6. LostInv'
  BY <1>3, <1>4 DEF StartInv, LostInv
<1>7. ServeInv' /\ SeedInv'
  BY <1>1 DEF StartInv, ServeInv, SeedInv
<1> QED BY <1>2, <1>5, <1>6, <1>7 DEF StartInv

\* The invited server joins.
LEMMA InviteStep == ASSUME StartInv, NEW g \in Groups, Invite(g) PROVE StartInv'
<1>1. joining[g] \in Servers
  BY DEF StartInv, TypeOK, Invite
<1>2. joining' \in [Groups -> Servers \cup {NoServer}]
      /\ \A h \in Groups : joining'[h] \in {joining[h], NoServer}
  BY DEF StartInv, TypeOK, Invite
<1>3. Founded(g)
  BY DEF StartInv, OriginInv, Invite
<1> QED BY <1>1, <1>2, <1>3, MoveStep DEF Invite

\* A restarted member is called back.
LEMMA RecallStep == ASSUME StartInv, NEW g \in Groups, NEW s \in Servers, Recall(g, s)
                    PROVE  StartInv'
<1>1. Founded(g)
  BY DEF Recall, StartInv, OriginInv
<1>2. members' = [members EXCEPT ![g] = @ \cup {s}]
  BY DEF Recall, StartInv, TypeOK
<1>3. joining' \in [Groups -> Servers \cup {NoServer}]
      /\ \A h \in Groups : joining'[h] \in {joining[h], NoServer}
  BY DEF StartInv, TypeOK, Recall
<1> QED BY <1>1, <1>2, <1>3, MoveStep DEF Recall

\* An invitation is given up, or a configuration saved.
LEMMA QuietStep ==
  ASSUME StartInv,
         (\E g \in Groups : GiveUp(g)) \/ (\E s \in Servers : SaveConfig(s)) \/ UNCHANGED vars
  PROVE  StartInv'
<1>1. UNCHANGED <<proc, tries, starts, seed, asks, group, members, lost, via>>
  BY DEF GiveUp, SaveConfig, vars, procVars, groupVars
<1>2. joining' \in [Groups -> Servers \cup {NoServer}]
      /\ \A h \in Groups : joining'[h] \in {joining[h], NoServer}
  BY DEF StartInv, TypeOK, GiveUp, SaveConfig, vars, groupVars
<1>3. saved' \in [Servers -> SUBSET Servers]
  <2>1. \A s \in Servers : members[group[s]] \in SUBSET Servers
    BY DEF StartInv, TypeOK
  <2> QED BY <2>1 DEF StartInv, TypeOK, GiveUp, SaveConfig, vars, groupVars
<1>4. TypeOK'
  BY <1>1, <1>2, <1>3 DEF StartInv, TypeOK
<1>5. OriginInv'
  BY <1>1, <1>2 DEF StartInv, OriginInv, Founded
<1> QED BY <1>1, <1>4, <1>5 DEF StartInv, LostInv, ServeInv, SeedInv

\* initialize() polls, and the request to the seed is sent.
LEMMA PollStep == ASSUME StartInv, NEW s \in Servers, Poll(s) \/ Call(s) PROVE StartInv'
<1> USE DEF StartInv, TypeOK
<1>1. CASE Initialized(s)
  <2>1. AfterInit(s) \in {"join", "run"} /\ (AfterInit(s) = "join" => seed[s] \in Servers)
    BY DEF AfterInit
  <2> QED BY <1>1, <2>1, ProcStep DEF Initialized
<1>2. CASE PollAgain(s)
  <2>1. proc' = [proc EXCEPT ![s] = "init"] /\ proc[s] = "init"
    BY <1>2 DEF PollAgain
  <2>2. tries' \in [Servers -> 0 .. Retries]
    BY <1>2, StartAssumption DEF PollAgain
  <2> QED BY <1>2, <2>1, <2>2, ProcStep DEF PollAgain
<1>3. CASE InitFails(s)
  BY <1>3, EndStep DEF InitFails, Ends
<1>4. CASE Call(s)
  <2>1. proc[s] = "join" /\ seed[s] \in Servers /\ proc' = [proc EXCEPT ![s] = "asked"]
    BY <1>4 DEF Call, SeedInv
  <2>2. asks' \subseteq [from : Servers, start : 0 .. MaxStarts, to : Servers]
    BY <1>4, <2>1 DEF Call, Ask
  <2> QED BY <1>4, <2>1, <2>2, ProcStep DEF Call
<1> QED BY <1>1, <1>2, <1>3, <1>4 DEF Poll
-----------------------------------------------------------------------------
\* The invariant above, kept by every step.
THEOREM StartInductive == Spec => []StartInv
<1>1. StartInv /\ [Next]_vars => StartInv'
  <2> SUFFICES ASSUME StartInv, [Next]_vars PROVE StartInv'
    OBVIOUS
  <2>1. CASE \E s \in Servers, r \in Servers \cup {NoServer} : Start(s, r)
    BY <2>1, StartStep
  <2>2. CASE \E s \in Servers : Poll(s) \/ Call(s)
    BY <2>2, PollStep
  <2>3. CASE \E s \in Servers : SeedLost(s) \/ Crash(s)
    BY <2>3, EndStep DEF SeedLost, Crash, Ends
  <2>4. CASE \E a \in asks : JoinAccepted(a) \/ JoinRefused(a)
    BY <2>4, AcceptStep, RefuseStep
  <2>5. CASE \E g \in Groups : Invite(g) \/ \E s \in Servers : Recall(g, s)
    BY <2>5, InviteStep, RecallStep
  <2>6. CASE (\E g \in Groups : GiveUp(g)) \/ (\E s \in Servers : SaveConfig(s)) \/ UNCHANGED vars
    BY <2>6, QuietStep
  <2> QED BY <2>1, <2>2, <2>3, <2>4, <2>5, <2>6 DEF Next, Join, Ended
<1> QED BY InitStart, <1>1, PTL DEF Spec

\* The shapes: every request is from a server and to one.
THEOREM StartTypeCorrect == Spec => []TypeOK
<1>1. StartInv => TypeOK
  BY DEF StartInv
<1> QED BY StartInductive, <1>1, PTL

\* Whatever seeds the starts of the servers are given, none or one that itself
\* has restarted included, no start-up brings a server into a group whose log
\* it has lost.
THEOREM AmnesiacRefused == Spec => []AmnesiacNotAdmitted
<1>1. StartInv => AmnesiacNotAdmitted
  BY DEF StartInv, ServeInv, AmnesiacNotAdmitted
<1> QED BY StartInductive, <1>1, PTL
=============================================================================
