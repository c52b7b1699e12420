------------------------- MODULE ReplicatedKV_proof -------------------------
(***************************************************************************)
(* What a client may rely on when a mutation returns, for every number of   *)
(* servers, clients, calls, retries, elections and crashes.                 *)
(***************************************************************************)
EXTENDS ReplicatedKV, FiniteSetTheorems, SequenceTheorems, WellFoundedInduction,
        TLAPS

EntryType == [term : Nat, op : {"CONFIG", "PUT", "DELETE"},
              key : Keys \cup {NoCall}, call : Calls \cup {NoCall},
              try : Nat, fwd : BOOLEAN]

HandlerType == [call : Calls, try : Nat, srv : Servers,
                at : Servers \cup {NoLeader}, term : Nat]
ForwardType == [call : Calls, try : Nat, to : Servers]

Runs == [pc : {"new", "idle", "send", "rpc", "got", "ask"},
         cl : Servers \cup {NoLeader}, i : Nat,
         rc : {"OK", "NOT_LEADER", "CANCELLED", "OTHER"}, spl : {0, 1},
         srv : Servers \cup {NoLeader}, tries : Nat]

\* The types of the state.
RaftType ==
  /\ up \subseteq Servers /\ term \in Nat
  /\ leads \in [Servers -> Nat] /\ view \in [Servers -> Servers \cup {NoLeader}]
  /\ log \in Seq(EntryType) /\ pending \in Seq(EntryType)

ServerType ==
  /\ db \in [Servers -> [Keys -> Calls \cup {NoValue}]]
  /\ last_committed_idx_ \in [Servers -> Nat]
  /\ \A s \in Servers : last_committed_idx_[s] <= Len(log)
  /\ failed \subseteq Servers \X Nat
  /\ \A f \in failed : f[2] <= last_committed_idx_[f[1]]
  /\ handlers \subseteq HandlerType /\ forwards \subseteq ForwardType

ClientType ==
  /\ clients_ \in [Clients -> SUBSET Servers]
  /\ leader_id_ \in [Clients -> Servers \cup {NoLeader}]
  /\ run \in [Clients -> Runs]
  /\ \A c \in Clients : run[c].i < NumRetries
  /\ asked \in [Clients -> Seq([op : OpTypes, key : Keys])]
  /\ acked \subseteq Calls

KVType == RaftType /\ ServerType /\ ClientType
-----------------------------------------------------------------------------
\* A call that its client has made, and an attempt of one.
Asked(a) == a \in Calls /\ a[2] \in 1 .. Len(asked[a[1]])
Made(x)  == Asked(x.call) /\ x.try < NumRetries

\* An entry is a configuration or what the handlers make of a call.
Describes(e) ==
  \/ e.op = "CONFIG" /\ e.call = NoCall /\ e.key = NoCall
  \/ LET o == asked[e.call[1]][e.call[2]]
     IN Made(e) /\ e.op = MakeOp(o.op) /\ e.key = o.key

\* The entries that are or may be committed.
InPlay == {log[j] : j \in DOMAIN log} \cup {pending[j] : j \in DOMAIN pending}

Named ==
  /\ \A e \in InPlay : Describes(e)
  /\ \A x \in handlers \cup forwards : Made(x)
  /\ \A a \in acked : Asked(a)

\* Of two entries of a call, x accepted before y: they are different attempts,
\* and y is the later one unless it came through a follower.
Ordered(x, y) ==
  x.call = y.call /\ x.call # NoCall =>
    x.try # y.try /\ (~y.fwd => x.try < y.try)

InOrder ==
  /\ \A i, j \in DOMAIN log : i < j => Ordered(log[i], log[j])
  /\ \A i \in DOMAIN log, j \in DOMAIN pending : Ordered(log[i], pending[j])
  /\ \A i, j \in DOMAIN pending : i < j => Ordered(pending[i], pending[j])

\* An attempt is in one place at a time: a handler that has not passed it on is
\* that of the last attempt, and one on its way to the leader is in no log.
Fresh(h) == h.at = NoLeader

Single ==
  /\ \A h \in handlers : Fresh(h) =>
       /\ \A g \in handlers : g.call = h.call /\ g # h => g.try < h.try
       /\ \A x \in forwards \cup InPlay : x.call = h.call => x.try < h.try
  /\ \A r, q \in forwards : r.call = q.call /\ r.try = q.try => r = q
  /\ \A r \in forwards, e \in InPlay : ~(r.call = e.call /\ r.try = e.try)

\* The client's loop is ahead of its attempts, and the attempt that has been
\* answered is not going to be accepted by the server it was sent to.
InCall(c) == run[c].pc \in {"send", "rpc", "got", "ask"}

Loop ==
  \A c \in Clients : InCall(c) =>
    /\ Asked(Call(c)) /\ Call(c) \notin acked
    /\ \A x \in handlers \cup forwards \cup InPlay : x.call = Call(c) =>
         x.try <= run[c].i /\ (run[c].pc = "send" => x.try # run[c].i)
    /\ run[c].pc # "rpc" => \A h \in handlers : h.call = Call(c) => ~Fresh(h)

\* A call whose last answer was OK: it is committed, and only a forwarded copy
\* of it may still be.
Settled(a) ==
  /\ \E j \in DOMAIN log : log[j].call = a
  /\ \A j \in DOMAIN pending : pending[j].call = a => pending[j].fwd
  /\ \A h \in handlers : h.call = a => ~Fresh(h)

Answered ==
  /\ \A a \in acked : Settled(a)
  /\ \A c \in Clients : run[c].pc = "got" /\ run[c].rc = "OK" => Settled(Call(c))

Core == /\ Named /\ InOrder /\ Single /\ Loop /\ Answered
        /\ AckedCommitted /\ SessionOrder

\* A database has taken an entry of the call.
Took(a) == \E s \in Servers : \E j \in 1 .. last_committed_idx_[s] :
             log[j].call = a /\ <<s, j>> \notin failed

\* A client has the result of a call that succeeded.
GotSuccess(c) == run[c].pc = "got" /\ run[c].rc = "OK" /\ run[c].spl = 0

Success ==
  /\ \A a \in succeeded : Took(a)
  /\ \A c \in Clients : GotSuccess(c) => Took(Call(c))

KVInv == KVType /\ Core /\ Success /\ ReplicasAgree
-----------------------------------------------------------------------------
\* A sequence with an element more.
LEMMA OneMore ==
  ASSUME NEW S, NEW s \in Seq(S), NEW e \in S, NEW t, t = Append(s, e)
  PROVE  /\ t \in Seq(S) /\ Len(s) \in Nat /\ Len(t) = Len(s) + 1
         /\ DOMAIN s = 1 .. Len(s) /\ DOMAIN t = 1 .. Len(s) + 1
         /\ \A i \in 1 .. Len(s) : t[i] = s[i]
         /\ t[Len(s) + 1] = e
<1>1. /\ t \in Seq(S) /\ Len(t) = Len(s) + 1
      /\ \A i \in 1 .. Len(s) : t[i] = s[i]
      /\ t[Len(s) + 1] = e
  BY AppendProperties
<1> QED BY <1>1, LenProperties

\* The entries in play are entries.
LEMMA InPlayType ==
  ASSUME RaftType, NEW x \in InPlay PROVE x \in EntryType
<1>1. /\ log \in Seq(EntryType) /\ DOMAIN log = 1 .. Len(log)
      /\ pending \in Seq(EntryType) /\ DOMAIN pending = 1 .. Len(pending)
  BY LenProperties DEF RaftType
<1>2. \A j \in DOMAIN log : log[j] \in EntryType
  BY <1>1, ElementOfSeq
<1>3. \A j \in DOMAIN pending : pending[j] \in EntryType
  BY <1>1, ElementOfSeq
<1> QED BY <1>2, <1>3 DEF InPlay

\* A leader accepts an entry.
LEMMA Accepted ==
  ASSUME RaftType, NEW e \in EntryType, pending' = Append(pending, e), log' = log
  PROVE  /\ pending' \in Seq(EntryType) /\ log' \in Seq(EntryType)
         /\ Len(pending) \in Nat
         /\ DOMAIN pending = 1 .. Len(pending)
         /\ DOMAIN pending' = 1 .. Len(pending) + 1
         /\ \A i \in 1 .. Len(pending) : pending'[i] = pending[i]
         /\ pending'[Len(pending) + 1] = e
         /\ InPlay' = InPlay \cup {e}
<1>1. /\ pending' \in Seq(EntryType) /\ Len(pending) \in Nat
      /\ DOMAIN pending = 1 .. Len(pending)
      /\ DOMAIN pending' = 1 .. Len(pending) + 1
      /\ \A i \in 1 .. Len(pending) : pending'[i] = pending[i]
      /\ pending'[Len(pending) + 1] = e
  BY OneMore DEF RaftType
<1>2. {pending'[j] : j \in DOMAIN pending'} = {pending[j] : j \in DOMAIN pending} \cup {e}
  BY <1>1
<1>3. InPlay' = InPlay \cup {e}
  BY <1>2 DEF InPlay
<1> QED BY <1>1, <1>3 DEF RaftType

\* An entry is committed: the sequences of committed and of pending entries
\* change, one after the other in the order of acceptance, only by losing some.
LEMMA Decided ==
  ASSUME RaftType, Decide
  PROVE  /\ log' \in Seq(EntryType) /\ pending' \in Seq(EntryType)
         /\ Len(log) \in Nat /\ Len(pending) \in Nat /\ Len(log') = Len(log) + 1
         /\ DOMAIN log = 1 .. Len(log) /\ DOMAIN log' = 1 .. Len(log) + 1
         /\ DOMAIN pending = 1 .. Len(pending)
         /\ \A i \in 1 .. Len(log) : log'[i] = log[i]
         /\ \E j \in 1 .. Len(pending) :
              /\ log'[Len(log) + 1] = pending[j]
              /\ DOMAIN pending' = 1 .. Len(pending) - j
              /\ \A i \in 1 .. Len(pending) - j : pending'[i] = pending[j + i]
         /\ InPlay' \subseteq InPlay
<1>1. Len(pending) \in Nat /\ DOMAIN pending = 1 .. Len(pending)
  BY LenProperties DEF RaftType
<1>2. PICK j \in 1 .. Len(pending) :
        /\ log' = Append(log, pending[j])
        /\ pending' = SubSeq(pending, j + 1, Len(pending))
  BY <1>1 DEF Decide
<1>3. pending[j] \in EntryType
  BY <1>2, ElementOfSeq DEF RaftType
<1>4. /\ log' \in Seq(EntryType) /\ Len(log) \in Nat /\ Len(log') = Len(log) + 1
      /\ DOMAIN log = 1 .. Len(log) /\ DOMAIN log' = 1 .. Len(log) + 1
      /\ \A i \in 1 .. Len(log) : log'[i] = log[i]
      /\ log'[Len(log) + 1] = pending[j]
  BY <1>2, <1>3, OneMore DEF RaftType
<1>5. PICK m \in Int, n \in Int : m = j + 1 /\ n = Len(pending) /\ j \in 1 .. n
  <2>1. j + 1 \in Int /\ Len(pending) \in Int
    BY <1>1, <1>2
  <2> QED BY <1>2, <2>1
<1>6. \A i \in m .. n : pending[i] \in EntryType
  BY <1>1, <1>5, ElementOfSeq DEF RaftType
<1>7. /\ SubSeq(pending, m, n) \in Seq(EntryType)
      /\ Len(SubSeq(pending, m, n)) = IF m <= n THEN n - m + 1 ELSE 0
      /\ \A i \in 1 .. n - m + 1 : SubSeq(pending, m, n)[i] = pending[m + i - 1]
  BY <1>6, SubSeqProperties
<1>8. pending' = SubSeq(pending, m, n)
  BY <1>2, <1>5
<1>9. /\ pending' \in Seq(EntryType) /\ Len(pending') = Len(pending) - j
      /\ \A i \in 1 .. Len(pending) - j : pending'[i] = pending[j + i]
  <2>1. Len(pending') = n - j
    <3>1. (IF m <= n THEN n - m + 1 ELSE 0) = n - j
      BY <1>5
    <3> QED BY <1>7, <1>8, <3>1
  <2>2. ASSUME NEW i \in 1 .. n - j PROVE pending'[i] = pending[j + i]
    <3>1. i \in 1 .. n - m + 1 /\ m + i - 1 = j + i
      BY <1>5
    <3> QED BY <1>7, <1>8, <3>1
  <2> QED BY <1>5, <1>7, <1>8, <2>1, <2>2
<1>10. DOMAIN pending' = 1 .. Len(pending) - j
  BY <1>9, LenProperties
<1>11. \A x \in InPlay' : x \in InPlay
  <2>1. ASSUME NEW i \in DOMAIN log' PROVE log'[i] \in InPlay
    BY <1>1, <1>4 DEF InPlay
  <2>2. ASSUME NEW i \in DOMAIN pending' PROVE pending'[i] \in InPlay
    <3>1. pending'[i] = pending[j + i] /\ j + i \in 1 .. Len(pending)
      BY <1>1, <1>9, <1>10
    <3> QED BY <1>1, <3>1 DEF InPlay
  <2> QED BY <2>1, <2>2 DEF InPlay
<1> QED BY <1>1, <1>4, <1>9, <1>10, <1>11
-----------------------------------------------------------------------------
\* The entry that a leader makes of an attempt.
LEMMA EntryMade ==
  ASSUME KVType, NEW r, r.call \in Calls, r.try \in Nat, Made(r),
         NEW t \in Nat, NEW b \in BOOLEAN, NEW e, e = LogEntry(r, t, b)
  PROVE  /\ e \in EntryType /\ Describes(e)
         /\ e.call = r.call /\ e.try = r.try /\ e.fwd = b /\ e.call # NoCall
<1>1. PICK o : o = asked[r.call[1]][r.call[2]]
  OBVIOUS
<1>2. o \in [op : OpTypes, key : Keys]
  <2>1. r.call[1] \in Clients
    BY DEF Calls
  <2>2. asked[r.call[1]] \in Seq([op : OpTypes, key : Keys])
    BY <2>1 DEF KVType, ClientType
  <2> QED BY <1>1, <2>2, ElementOfSeq DEF Made, Asked
<1>3. e = [term |-> t, op |-> MakeOp(o.op), key |-> o.key, call |-> r.call,
           try |-> r.try, fwd |-> b]
  BY <1>1 DEF LogEntry
<1>4. MakeOp(o.op) \in {"PUT", "DELETE"}
  BY DEF MakeOp
<1>5. e.call = r.call /\ e.try = r.try /\ e.fwd = b /\ e.op = MakeOp(o.op) /\ e.key = o.key
  BY <1>3
<1>6. e \in EntryType
  BY <1>2, <1>3, <1>4 DEF EntryType
<1>7. Describes(e)
  BY <1>1, <1>5 DEF Describes, Made
<1>8. NoCall # r.call
  BY ClientAssumption DEF Calls
<1> QED BY <1>5, <1>6, <1>7, <1>8

\* append_log() on the leader: the attempt of h is accepted, directly.
LEMMA AppendLogFacts ==
  ASSUME KVType, Named, NEW h \in handlers, AppendLog(h)
  PROVE  /\ Fresh(h)
         /\ \E e \in EntryType :
              /\ e.call = h.call /\ e.try = h.try /\ ~e.fwd /\ Describes(e)
              /\ e.call # NoCall
              /\ pending' = Append(pending, e) /\ log' = log
         /\ \E g \in HandlerType :
              /\ g.call = h.call /\ g.try = h.try /\ ~Fresh(g)
              /\ handlers' = (handlers \ {h}) \cup {g}
         /\ UNCHANGED <<leaderVars, smVars, forwards, clientVars>>
<1>1. /\ h \in HandlerType /\ h.call \in Calls /\ h.try \in Nat
      /\ h.srv \in Servers /\ Made(h)
  BY DEF KVType, ServerType, HandlerType, Named
<1>2. /\ h.at = NoLeader /\ h.srv \in up /\ leads[h.srv] > 0
      /\ pending' = Append(pending, LogEntry(h, leads[h.srv], FALSE))
      /\ handlers' = (handlers \ {h}) \cup {[h EXCEPT !.at = h.srv, !.term = leads[h.srv]]}
      /\ log' = log /\ UNCHANGED <<leaderVars, smVars, forwards, clientVars>>
  BY DEF AppendLog, Accept
<1>3. leads[h.srv] \in Nat
  BY <1>1 DEF KVType, RaftType
<1>4. PICK e \in EntryType : /\ e = LogEntry(h, leads[h.srv], FALSE)
                             /\ e.call = h.call /\ e.try = h.try /\ ~e.fwd
                             /\ e.call # NoCall /\ Describes(e)
  BY <1>1, <1>3, EntryMade
<1>5. PICK g : g = [h EXCEPT !.at = h.srv, !.term = leads[h.srv]]
  OBVIOUS
<1>6. g \in HandlerType /\ g.call = h.call /\ g.try = h.try /\ g.at = h.srv
  BY <1>1, <1>3, <1>5 DEF HandlerType
<1>7. ~Fresh(g)
  BY <1>1, <1>6, GroupAssumption DEF Fresh
<1> QED BY <1>2, <1>4, <1>5, <1>6, <1>7 DEF Fresh

\* append_log() on a follower: the attempt of h is on its way to a server.
LEMMA ForwardFacts ==
  ASSUME KVType, NEW h \in handlers, Forward(h)
  PROVE  /\ Fresh(h)
         /\ \E g \in HandlerType :
              /\ g.call = h.call /\ g.try = h.try /\ ~Fresh(g)
              /\ handlers' = (handlers \ {h}) \cup {g}
         /\ \E r \in ForwardType :
              /\ r.call = h.call /\ r.try = h.try
              /\ forwards' = forwards \cup {r}
         /\ UNCHANGED <<raftVars, smVars, clientVars>>
<1>1. /\ h \in HandlerType /\ h.call \in Calls /\ h.try \in Nat /\ h.srv \in Servers
  BY DEF KVType, ServerType, HandlerType
<1>2. PICK l : l = view[h.srv]
  OBVIOUS
<1>3. /\ h.at = NoLeader /\ l # NoLeader
      /\ handlers' = (handlers \ {h}) \cup {[h EXCEPT !.at = l]}
      /\ forwards' = forwards \cup {[call |-> h.call, try |-> h.try, to |-> l]}
      /\ UNCHANGED <<raftVars, smVars, clientVars>>
  BY <1>2 DEF Forward
<1>4. l \in Servers
  BY <1>1, <1>2, <1>3 DEF KVType, RaftType
<1>5. PICK g : g = [h EXCEPT !.at = l]
  OBVIOUS
<1>6. g \in HandlerType /\ g.call = h.call /\ g.try = h.try /\ g.at = l
  BY <1>1, <1>4, <1>5 DEF HandlerType
<1>7. PICK r : r = [call |-> h.call, try |-> h.try, to |-> l]
  OBVIOUS
<1>8. r \in ForwardType /\ r.call = h.call /\ r.try = h.try
  BY <1>1, <1>4, <1>7 DEF ForwardType
<1> QED BY <1>3, <1>5, <1>6, <1>7, <1>8 DEF Fresh

\* What Reply does with the two codes that extract_result makes of a result.
Answer(h, rc, spl) ==
  LET c == h.call[1] IN
  /\ run' = IF run[c].pc = "rpc" /\ h.call = Call(c) /\ h.try = run[c].i
            THEN [run EXCEPT ![c].pc = "got", ![c].rc = rc, ![c].spl = spl] ELSE run
  /\ handlers' = handlers \ {h}
  /\ UNCHANGED <<raftVars, smVars, forwards, clients_, leader_id_, asked, acked, succeeded>>

\* extract_result: the code, and 0 unless there is a buffer.
LEMMA ReplyAnswers ==
  ASSUME NEW h, NEW rc
  PROVE  /\ Reply(h, Refused(rc)) => Answer(h, rc, 0)
         /\ Reply(h, NoResult(rc)) => Answer(h, rc, 0)
         /\ Reply(h, Result(rc, <<>>)) => Answer(h, rc, 0)
         /\ \A n : Reply(h, Result(rc, <<n>>)) => Answer(h, rc, n)
<1>1. /\ ExtractResult(Refused(rc)).rc = rc /\ ExtractResult(Refused(rc)).spl = 0
      /\ ExtractResult(NoResult(rc)).rc = rc /\ ExtractResult(NoResult(rc)).spl = 0
      /\ ExtractResult(Result(rc, <<>>)).rc = rc /\ ExtractResult(Result(rc, <<>>)).spl = 0
  BY DEF ExtractResult, Refused, NoResult, Result
<1>2. \A n : /\ ExtractResult(Result(rc, <<n>>)).rc = rc
             /\ ExtractResult(Result(rc, <<n>>)).spl = n
  BY DEF ExtractResult, Result
<1>3. \A res : Reply(h, res) => Answer(h, ExtractResult(res).rc, ExtractResult(res).spl)
  BY DEF Reply, Answer
<1> QED BY <1>1, <1>2, <1>3

\* The answers of append_log(): OK only for an attempt that is committed, and
\* with 0 only for one that a database has taken.
LEMMA ReplyFacts ==
  ASSUME KVType, NEW h \in handlers,
         AppendRefused(h) \/ AppendDone(h) \/ AppendCancelled(h) \/ AppendTimeout(h)
  PROVE  \E rc \in {"OK", "NOT_LEADER", "CANCELLED", "OTHER"}, spl \in {0, 1} :
           /\ Answer(h, rc, spl)
           /\ rc = "OK" => \E j \in DOMAIN log : log[j].call = h.call /\ log[j].try = h.try
           /\ rc = "OK" /\ spl = 0 => Took(h.call)
<1>1. CASE AppendRefused(h)
  <2>1. PICK rc \in {"NOT_LEADER", "OTHER"} : Reply(h, Refused(rc))
    BY <1>1 DEF AppendRefused
  <2> QED BY <2>1, ReplyAnswers
<1>2. CASE AppendCancelled(h) \/ AppendTimeout(h)
  <2>1. \/ Reply(h, Result("CANCELLED", <<>>)) \/ Reply(h, Result("OTHER", <<>>))
        \/ Reply(h, NoResult("OTHER"))
    BY <1>2 DEF AppendCancelled, AppendTimeout
  <2> QED BY <2>1, ReplyAnswers
<1>3. CASE AppendDone(h)
  <2>1. PICK j \in Applied(h, h.at) : Reply(h, Result("OK", <<RetCode(h.at, j)>>))
    BY <1>3 DEF AppendDone
  <2>2. h.at \in Servers
    BY <1>3 DEF AppendDone, StillLeads, KVType, RaftType
  <2>3. j \in 1 .. last_committed_idx_[h.at] /\ log[j].call = h.call /\ log[j].try = h.try
    BY <2>1 DEF Applied
  <2>4. last_committed_idx_[h.at] \in Nat /\ last_committed_idx_[h.at] <= Len(log)
    BY <2>2 DEF KVType, ServerType
  <2>5. Len(log) \in Nat /\ DOMAIN log = 1 .. Len(log)
    BY LenProperties DEF KVType, RaftType
  <2>6. j \in DOMAIN log
    BY <2>3, <2>4, <2>5
  <2>7. PICK n \in {0, 1} : n = RetCode(h.at, j) /\ (n = 0 => <<h.at, j>> \notin failed)
    BY DEF RetCode
  <2>8. Answer(h, "OK", n)
    BY <2>1, <2>7, ReplyAnswers
  <2>9. n = 0 => Took(h.call)
    BY <2>2, <2>3, <2>7 DEF Took
  <2> QED BY <2>3, <2>6, <2>8, <2>9
<1> QED BY <1>1, <1>2, <1>3

\* A forwarded request arrives: it is accepted, or refused.
LEMMA ArrivesFacts ==
  ASSUME KVType, Named, NEW r \in forwards, ForwardArrives(r)
  PROVE  /\ forwards' = forwards \ {r}
         /\ handlers' \subseteq HandlerType
         /\ \A g \in handlers' : g \in handlers \/
              \E h \in handlers : /\ h.call = r.call /\ h.try = r.try
                                  /\ g.call = h.call /\ g.try = h.try
                                  /\ g.at = h.at
         /\ \/ UNCHANGED raftVars
            \/ \E e \in EntryType :
                 /\ e.call = r.call /\ e.try = r.try /\ e.fwd /\ Describes(e)
                 /\ e.call # NoCall
                 /\ pending' = Append(pending, e) /\ log' = log
                 /\ UNCHANGED leaderVars
         /\ UNCHANGED <<smVars, clientVars>>
<1>1. /\ r.call \in Calls /\ r.try \in Nat /\ r.to \in Servers /\ Made(r)
  BY DEF KVType, ServerType, ForwardType, Named
<1>2. forwards' = forwards \ {r} /\ UNCHANGED <<smVars, clientVars>>
  BY DEF ForwardArrives
<1>3. CASE leads[r.to] > 0
  <2>1. PICK t \in Nat : t = leads[r.to]
    BY <1>1 DEF KVType, RaftType
  <2>2. PICK e \in EntryType : /\ e = LogEntry(r, t, TRUE)
                               /\ e.call = r.call /\ e.try = r.try /\ e.fwd
                               /\ e.call # NoCall /\ Describes(e)
    BY <1>1, EntryMade
  <2>3. /\ pending' = Append(pending, e) /\ log' = log /\ UNCHANGED leaderVars
        /\ handlers' = (handlers \ HandlerOf(r)) \cup {[h EXCEPT !.term = t] : h \in HandlerOf(r)}
    BY <1>3, <2>1, <2>2 DEF ForwardArrives, Accept
  <2>4. ASSUME NEW h \in HandlerOf(r), NEW g, g = [h EXCEPT !.term = t]
        PROVE  /\ g \in HandlerType /\ h \in handlers
               /\ h.call = r.call /\ h.try = r.try
               /\ g.call = h.call /\ g.try = h.try /\ g.at = h.at
    <3>1. h \in HandlerType /\ h \in handlers /\ h.call = r.call /\ h.try = r.try
      BY DEF HandlerOf, KVType, ServerType
    <3> QED BY <2>4, <3>1 DEF HandlerType
  <2>5. \A g \in handlers' : g \in handlers \/
          \E h \in HandlerOf(r) : g = [h EXCEPT !.term = t]
    BY <2>3
  <2>6. handlers' \subseteq HandlerType
    BY <2>4, <2>5 DEF KVType, ServerType
  <2>7. \A g \in handlers' : g \in handlers \/
          \E h \in handlers : /\ h.call = r.call /\ h.try = r.try
                              /\ g.call = h.call /\ g.try = h.try
                              /\ g.at = h.at
    BY <2>4, <2>5
  <2> QED BY <1>2, <2>2, <2>3, <2>6, <2>7
<1>4. CASE ~(leads[r.to] > 0)
  BY <1>2, <1>4 DEF ForwardArrives, KVType, ServerType
<1> QED BY <1>3, <1>4
-----------------------------------------------------------------------------
\* A set of naturals has a least element.
LEMMA LeastNat ==
  ASSUME NEW T \in SUBSET Nat, T # {}
  PROVE  \E s \in T : \A t \in T : s <= t
<1>1. PICK R : R = OpToRel(<, Nat)
  OBVIOUS
<1>2. IsWellFoundedOn(R, Nat)
  BY <1>1, NatLessThanWellFounded
<1>3. PICK s \in T : \A t \in T : ~(<<t, s>> \in R)
  BY <1>2, WFMin
<1>4. \A t \in T : t < s => <<t, s>> \in R
  BY <1>1 DEF OpToRel
<1>5. s \in Nat /\ \A t \in T : t \in Nat
  OBVIOUS
<1>6. ASSUME NEW t \in T PROVE s <= t
  <2>1. ~(t < s)
    BY <1>3, <1>4, Zenon
  <2> QED BY <1>5, <2>1
<1> QED BY <1>6

\* A set of positions has a greatest one.
LEMMA GreatestNat ==
  ASSUME NEW n \in Nat, NEW T \in SUBSET (1 .. n), T # {}
  PROVE  \E j \in T : \A m \in T : m <= j
<1>1. PICK U : U = {x \in 0 .. n : n - x \in T}
  OBVIOUS
<1>2. PICK t : t \in T
  OBVIOUS
<1>3. n - t \in 0 .. n /\ n - (n - t) = t
  BY <1>2
<1>4. U # {} /\ U \in SUBSET Nat
  BY <1>1, <1>2, <1>3
<1>5. PICK u \in U : \A x \in U : u <= x
  BY <1>4, LeastNat
<1>6. ASSUME NEW m \in T PROVE m <= n - u
  <2>1. m \in Nat /\ n - m \in 0 .. n /\ n - (n - m) = m
    OBVIOUS
  <2>2. n - m \in U
    BY <1>1, <2>1
  <2>3. u <= n - m /\ u \in Nat
    BY <1>4, <1>5, <2>2
  <2> QED BY <2>1, <2>3
<1>7. n - u \in T
  BY <1>1, <1>5
<1> QED BY <1>6, <1>7

\* get_leader_id() finds a next server to ask while one is left.
LEMMA LeastServer ==
  ASSUME NEW T \in SUBSET Servers, T # {}
  PROVE  (CHOOSE s \in T : \A t \in T : s <= t) \in Servers
<1>1. T \in SUBSET Nat
  BY GroupAssumption
<1>2. \E s \in T : \A t \in T : s <= t
  BY <1>1, LeastNat
<1> QED BY <1>2

\* What the parts of the retry loop make of a client's state.
LEMMA RunTypes ==
  ASSUME KVType, NEW c \in Clients
  PROVE  /\ Idle \in Runs /\ Idle.pc = "idle" /\ Idle.i = 0
         /\ NextAttempt(run[c]) \in Runs /\ NextAttempt(run[c]).i < NumRetries
         /\ \/ NextAttempt(run[c]) = Idle
            \/ NextAttempt(run[c]).pc = "send" /\ NextAttempt(run[c]).i = run[c].i + 1
         /\ \A S \in SUBSET Servers :
              /\ AskNext(c, S) \in Runs /\ AskNext(c, S).i < NumRetries
              /\ \/ AskNext(c, S) = Idle
                 \/ AskNext(c, S).pc = "ask" /\ AskNext(c, S).i = run[c].i
<1>0. run[c] \in Runs /\ run[c].i < NumRetries /\ NumRetries \in Nat \ {0}
  BY ClientAssumption DEF KVType, ClientType
<1>1. Idle \in Runs /\ Idle.pc = "idle" /\ Idle.i = 0
  BY DEF Idle, Runs
<1>2. PICK n : n = NextAttempt(run[c])
  OBVIOUS
<1>3. /\ n \in Runs /\ n.i < NumRetries
      /\ n = Idle \/ (n.pc = "send" /\ n.i = run[c].i + 1)
  <2>1. CASE run[c].i + 1 < NumRetries
    <3>1. n = [Idle EXCEPT !.pc = "send", !.cl = run[c].cl, !.i = run[c].i + 1]
      BY <1>2, <2>1 DEF NextAttempt
    <3>2. run[c].i + 1 \in Nat /\ run[c].cl \in Servers \cup {NoLeader}
      BY <1>0 DEF Runs
    <3>3. n = [pc |-> "send", cl |-> run[c].cl, i |-> run[c].i + 1, rc |-> "OTHER", spl |-> 0,
               srv |-> NoLeader, tries |-> 0]
      BY <3>1 DEF Idle
    <3> QED BY <2>1, <3>2, <3>3 DEF Runs
  <2>2. CASE ~(run[c].i + 1 < NumRetries)
    <3>1. n = Idle
      BY <1>2, <2>2 DEF NextAttempt
    <3> QED BY <1>0, <1>1, <3>1
  <2> QED BY <2>1, <2>2
<1>4. ASSUME NEW S \in SUBSET Servers, NEW a, a = AskNext(c, S)
      PROVE  /\ a \in Runs /\ a.i < NumRetries
             /\ a = Idle \/ (a.pc = "ask" /\ a.i = run[c].i)
  <2>1. CASE S = {}
    <3>1. a = Idle
      BY <1>4, <2>1 DEF AskNext
    <3> QED BY <1>0, <1>1, <3>1
  <2>2. CASE S # {}
    <3>1. PICK s \in Servers : s = CHOOSE u \in S : \A t \in S : u <= t
      BY <2>2, LeastServer
    <3>2. a = [run[c] EXCEPT !.pc = "ask", !.tries = 0, !.srv = s]
      BY <1>4, <2>2, <3>1 DEF AskNext
    <3> QED BY <1>0, <3>2 DEF Runs
  <2> QED BY <2>1, <2>2
<1> QED BY <1>1, <1>2, <1>3, <1>4

\* The steps of the loop that leave the server side and the history alone: the
\* call ends, asks a server, or goes on to the next attempt.
LoopStep(c) ==
  RpcFails(c) \/ LeaderFound(c) \/ NoLiveLeader(c) \/ AskFails(c)

\* Such a step ends the call, asks the next server, or begins the next attempt.
LEMMA LoopFacts ==
  ASSUME KVType, NEW c \in Clients, LoopStep(c)
  PROVE  /\ \E n \in Runs :
              /\ run' = [run EXCEPT ![c] = n] /\ n.i < NumRetries
              /\ \/ n = Idle
                 \/ run[c].pc = "ask" /\ n.pc = "ask" /\ n.i = run[c].i
                 \/ run[c].pc = "ask" /\ n.pc = "send" /\ n.i = run[c].i + 1
         /\ leader_id_' \in [Clients -> Servers \cup {NoLeader}]
         /\ UNCHANGED <<raftVars, smVars, srvVars, clients_, asked, acked>>
<1>0. /\ run[c] \in Runs /\ run[c].i < NumRetries /\ clients_[c] \subseteq Servers
      /\ NumRetries \in Nat \ {0}
  BY ClientAssumption DEF KVType, ClientType
<1>1. CASE RpcFails(c)
  <2>1. /\ run' = [run EXCEPT ![c] = Idle]
        /\ UNCHANGED <<raftVars, smVars, srvVars, clients_, leader_id_, asked, acked>>
    BY <1>1 DEF RpcFails
  <2>2. Idle \in Runs /\ Idle.i < NumRetries
    BY <1>0, RunTypes
  <2> QED BY <2>1, <2>2 DEF KVType, ClientType
<1>2. CASE LeaderFound(c)
  <2>1. /\ run[c].pc = "ask" /\ run' = [run EXCEPT ![c] = NextAttempt(run[c])]
        /\ leader_id_' = [leader_id_ EXCEPT ![c] = view[run[c].srv]]
        /\ run[c].srv \in up
        /\ UNCHANGED <<raftVars, smVars, srvVars, clients_, asked, acked>>
    BY <1>2 DEF LeaderFound
  <2>2. view[run[c].srv] \in Servers \cup {NoLeader}
    BY <2>1 DEF KVType, RaftType
  <2>3. leader_id_' \in [Clients -> Servers \cup {NoLeader}]
    BY <2>1, <2>2 DEF KVType, ClientType
  <2> QED BY <2>1, <2>3, RunTypes
<1>3. ASSUME run[c].pc = "ask",
             \/ run' = [run EXCEPT ![c] = AskNext(c, Later(c))]
             \/ run' = [run EXCEPT ![c] = [run[c] EXCEPT !.tries = @ + 1]],
             UNCHANGED <<raftVars, smVars, srvVars, clients_, leader_id_, asked, acked>>
      PROVE  /\ \E n \in Runs :
                  /\ run' = [run EXCEPT ![c] = n] /\ n.i < NumRetries
                  /\ n = Idle \/ (n.pc = "ask" /\ n.i = run[c].i)
             /\ leader_id_' \in [Clients -> Servers \cup {NoLeader}]
  <2>1. Later(c) \in SUBSET Servers
    BY <1>0 DEF Later
  <2>2. CASE run' = [run EXCEPT ![c] = AskNext(c, Later(c))]
    BY <1>3, <2>1, <2>2, RunTypes, ZenonT(60) DEF KVType, ClientType
  <2>3. CASE run' = [run EXCEPT ![c] = [run[c] EXCEPT !.tries = @ + 1]]
    <3>1. PICK n : n = [run[c] EXCEPT !.tries = @ + 1]
      OBVIOUS
    <3>2. n \in Runs /\ n.i = run[c].i /\ n.pc = run[c].pc
      BY <1>0, <3>1 DEF Runs
    <3> QED BY <1>0, <1>3, <2>3, <3>1, <3>2 DEF KVType, ClientType
  <2> QED BY <1>3, <2>2, <2>3
<1>4. CASE NoLiveLeader(c)
  BY <1>3, <1>4 DEF NoLiveLeader
<1>5. CASE AskFails(c)
  BY <1>3, <1>5 DEF AskFails
<1> QED BY <1>1, <1>2, <1>4, <1>5 DEF LoopStep

\* put(), update() or del() is called.
LEMMA BeginFacts ==
  ASSUME KVType, NEW c \in Clients, NEW op \in OpTypes, NEW k \in Keys, Begin(c, op, k)
  PROVE  /\ run[c].pc = "idle"
         /\ \E o \in [op : OpTypes, key : Keys] :
              asked' = [asked EXCEPT ![c] = Append(asked[c], o)]
         /\ \/ run' = run
            \/ \E n \in Runs : n.pc = "send" /\ n.i = 0 /\ run' = [run EXCEPT ![c] = n]
         /\ UNCHANGED <<raftVars, smVars, srvVars, clients_, leader_id_, acked>>
<1>1. PICK o : o = [op |-> op, key |-> k]
  OBVIOUS
<1>2. /\ run[c].pc = "idle"
      /\ asked' = [asked EXCEPT ![c] = Append(asked[c], o)]
      /\ \/ run' = run
         \/ run' = [run EXCEPT ![c] = [Idle EXCEPT !.pc = "send", !.cl = leader_id_[c]]]
      /\ UNCHANGED <<raftVars, smVars, srvVars, clients_, leader_id_, acked>>
  BY <1>1 DEF Begin
<1>3. PICK n : n = [Idle EXCEPT !.pc = "send", !.cl = leader_id_[c]]
  OBVIOUS
<1>4. n = [pc |-> "send", cl |-> leader_id_[c], i |-> 0, rc |-> "OTHER", spl |-> 0,
           srv |-> NoLeader, tries |-> 0]
  BY <1>3 DEF Idle
<1>5. n \in Runs /\ n.pc = "send" /\ n.i = 0
  BY <1>4 DEF Runs, KVType, ClientType
<1> QED BY <1>1, <1>2, <1>3, <1>5

\* f(): the attempt goes to the server of the captured handle, or nowhere.
LEMMA SendFacts ==
  ASSUME KVType, NEW c \in Clients, Send(c)
  PROVE  /\ run[c].pc = "send"
         /\ \E n \in Runs : n.pc = "rpc" /\ n.i = run[c].i /\ run' = [run EXCEPT ![c] = n]
         /\ \/ handlers' = handlers
            \/ \E h \in HandlerType :
                 /\ Fresh(h) /\ h.call = Call(c) /\ h.try = run[c].i
                 /\ handlers' = handlers \cup {h}
         /\ UNCHANGED <<raftVars, smVars, forwards, clients_, leader_id_, asked, acked>>
<1>1. run[c] \in Runs /\ Len(asked[c]) \in Nat
  BY LenProperties DEF KVType, ClientType
<1>2. /\ run[c].pc = "send" /\ run' = [run EXCEPT ![c].pc = "rpc"]
      /\ UNCHANGED <<raftVars, smVars, forwards, clients_, leader_id_, asked, acked>>
  BY DEF Send
<1>3. PICK n : n = [run[c] EXCEPT !.pc = "rpc"]
  OBVIOUS
<1>4. n \in Runs /\ n.pc = "rpc" /\ n.i = run[c].i
  BY <1>1, <1>3 DEF Runs
<1>5. run' = [run EXCEPT ![c] = n]
  BY <1>2, <1>3
<1>6. CASE run[c].cl \in up
  <2>1. PICK h : h = [call |-> Call(c), try |-> run[c].i, srv |-> run[c].cl,
                      at |-> NoLeader, term |-> 0]
    OBVIOUS
  <2>2. handlers' = handlers \cup {h}
    BY <1>6, <2>1 DEF Send
  <2>3. Call(c) \in Calls /\ run[c].i \in Nat /\ run[c].cl \in Servers
    BY <1>1, <1>6 DEF Call, Calls, Runs, KVType, RaftType
  <2>4. h \in HandlerType /\ Fresh(h) /\ h.call = Call(c) /\ h.try = run[c].i
    BY <2>1, <2>3 DEF HandlerType, Fresh
  <2> QED BY <1>2, <1>4, <1>5, <2>2, <2>4
<1>7. CASE run[c].cl \notin up
  <2>1. handlers' = handlers
    BY <1>7 DEF Send
  <2> QED BY <1>2, <1>4, <1>5, <2>1
<1> QED BY <1>6, <1>7

\* retry_mutation looks at the result of f().
LEMMA ResultFacts ==
  ASSUME KVType, NEW c \in Clients, HandleResult(c)
  PROVE  /\ run[c].pc = "got"
         /\ \E n \in Runs :
              /\ run' = [run EXCEPT ![c] = n] /\ n.i < NumRetries
              /\ \/ n = Idle
                 \/ run[c].rc # "OK" /\ n.pc = "ask" /\ n.i = run[c].i
                 \/ run[c].rc # "OK" /\ n.pc = "send" /\ n.i = run[c].i + 1
         /\ acked' = IF run[c].rc = "OK" THEN acked \cup {Call(c)} ELSE acked
         /\ UNCHANGED <<raftVars, smVars, srvVars, clients_, leader_id_, asked>>
<1>1. PICK n : n = IF run[c].rc = "OK" THEN Idle
                   ELSE IF LeaderChanged(run[c].rc) THEN AskNext(c, clients_[c])
                   ELSE NextAttempt(run[c])
  OBVIOUS
<1>2. /\ run[c].pc = "got" /\ run' = [run EXCEPT ![c] = n]
      /\ acked' = IF run[c].rc = "OK" THEN acked \cup {Call(c)} ELSE acked
      /\ UNCHANGED <<raftVars, smVars, srvVars, clients_, leader_id_, asked>>
  BY <1>1 DEF HandleResult
<1>3. clients_[c] \in SUBSET Servers /\ NumRetries \in Nat \ {0}
  BY ClientAssumption DEF KVType, ClientType
<1>4. /\ n \in Runs /\ n.i < NumRetries
      /\ \/ n = Idle
         \/ run[c].rc # "OK" /\ n.pc = "ask" /\ n.i = run[c].i
         \/ run[c].rc # "OK" /\ n.pc = "send" /\ n.i = run[c].i + 1
  <2>1. CASE run[c].rc = "OK"
    <3>1. n = Idle /\ Idle \in Runs /\ Idle.i = 0
      BY <1>1, <2>1, RunTypes
    <3> QED BY <1>3, <3>1
  <2>2. CASE run[c].rc # "OK"
    <3>1. CASE LeaderChanged(run[c].rc)
      <4>1. n = AskNext(c, clients_[c])
        BY <1>1, <2>2, <3>1
      <4> QED BY <1>3, <2>2, <4>1, RunTypes
    <3>2. CASE ~LeaderChanged(run[c].rc)
      <4>1. n = NextAttempt(run[c])
        BY <1>1, <2>2, <3>2
      <4> QED BY <2>2, <4>1, RunTypes
    <3> QED BY <3>1, <3>2
  <2> QED BY <2>1, <2>2
<1> QED BY <1>2, <1>4

\* An answer reaches the client that waits for it, or is dropped.
LEMMA ReplyRun ==
  ASSUME KVType, NEW h \in handlers,
         NEW rc \in {"OK", "NOT_LEADER", "CANCELLED", "OTHER"}, NEW spl \in {0, 1},
         Answer(h, rc, spl)
  PROVE  /\ \/ run' = run
            \/ \E c \in Clients, n \in Runs :
                 /\ run[c].pc = "rpc" /\ h.call = Call(c) /\ h.try = run[c].i
                 /\ n.pc = "got" /\ n.rc = rc /\ n.spl = spl /\ n.i = run[c].i
                 /\ run' = [run EXCEPT ![c] = n]
         /\ handlers' = handlers \ {h}
         /\ UNCHANGED <<raftVars, smVars, forwards, clients_, leader_id_, asked, acked>>
<1>1. PICK c : c = h.call[1]
  OBVIOUS
<1>2. c \in Clients /\ run \in [Clients -> Runs] /\ run[c] \in Runs
  BY <1>1 DEF KVType, ServerType, ClientType, HandlerType, Calls
<1>3. /\ run' = IF run[c].pc = "rpc" /\ h.call = Call(c) /\ h.try = run[c].i
                THEN [run EXCEPT ![c].pc = "got", ![c].rc = rc, ![c].spl = spl] ELSE run
      /\ handlers' = handlers \ {h}
      /\ UNCHANGED <<raftVars, smVars, forwards, clients_, leader_id_, asked, acked>>
  BY <1>1 DEF Answer
<1>4. PICK n : n = [run[c] EXCEPT !.pc = "got", !.rc = rc, !.spl = spl]
  OBVIOUS
<1>5. n \in Runs /\ n.pc = "got" /\ n.rc = rc /\ n.spl = spl /\ n.i = run[c].i
  BY <1>2, <1>4 DEF Runs
<1>6. [run EXCEPT ![c].pc = "got", ![c].rc = rc, ![c].spl = spl] = [run EXCEPT ![c] = n]
  BY <1>2, <1>4 DEF Runs
<1> QED BY <1>2, <1>3, <1>5, <1>6
-----------------------------------------------------------------------------
\* A step of one client leaves the others alone.
LEMMA RunKept ==
  ASSUME ClientType, NEW c \in Clients, NEW n \in Runs, n.i < NumRetries,
         run' = [run EXCEPT ![c] = n]
  PROVE  /\ run' \in [Clients -> Runs] /\ \A d \in Clients : run'[d].i < NumRetries
         /\ run'[c] = n /\ \A d \in Clients : d # c => run'[d] = run[d]
  BY DEF ClientType

\* The steps of the Raft library keep the types.
LEMMA RaftTypeStep ==
  ASSUME RaftType, RaftStep
  PROVE  RaftType' /\ (Len(log) \in Nat /\ Len(log') >= Len(log))
<1>0. Len(log) \in Nat
  BY LenProperties DEF RaftType
<1>1. ASSUME NEW l \in Servers, Elect(l) PROVE RaftType' /\ log' = log
  <2>1. PICK e : e = ConfigEntry(term + 1)
    OBVIOUS
  <2>2. e \in EntryType
    BY <2>1 DEF ConfigEntry, EntryType, RaftType
  <2>3. /\ pending' = Append(pending, e) /\ log' = log /\ up' = up /\ term' = term + 1
        /\ leads' = [leads EXCEPT ![l] = term + 1] /\ view' = [view EXCEPT ![l] = l]
    BY <1>1, <2>1 DEF Elect
  <2>4. pending' \in Seq(EntryType)
    BY <2>2, <2>3, Accepted
  <2> QED BY <2>3, <2>4 DEF RaftType
<1>2. ASSUME NEW l \in Servers, NEW s \in Servers, Heartbeat(l, s)
      PROVE  RaftType' /\ log' = log
  BY <1>2 DEF Heartbeat, RaftType
<1>3. ASSUME NEW s \in Servers, Expire(s) PROVE RaftType' /\ log' = log
  BY <1>3 DEF Expire, RaftType
<1>4. ASSUME Decide PROVE RaftType' /\ Len(log') = Len(log) + 1
  <2>1. UNCHANGED leaderVars
    BY <1>4 DEF Decide
  <2> QED BY <1>4, <2>1, Decided DEF RaftType, leaderVars
<1> QED BY <1>0, <1>1, <1>2, <1>3, <1>4 DEF RaftStep

\* Every step keeps the types.
LEMMA TypeStep ==
  ASSUME KVType, Named, Next PROVE KVType'
<1> USE DEF KVType
<1>r. RaftType /\ ServerType /\ ClientType
  OBVIOUS
<1>1. ASSUME RaftStep, UNCHANGED <<smVars, srvVars, clientVars>> PROVE KVType'
  <2>1. RaftType' /\ Len(log) \in Nat /\ Len(log') >= Len(log)
    BY <1>1, RaftTypeStep
  <2>2. Len(log') \in Nat
    BY <2>1, LenProperties DEF RaftType
  <2>3. ServerType'
    BY <1>1, <2>1, <2>2 DEF ServerType, smVars, srvVars
  <2>4. ClientType'
    BY <1>1 DEF ClientType, clientVars
  <2> QED BY <2>1, <2>3, <2>4
<1>2. ASSUME NEW s \in Servers, commit(s) PROVE KVType'
  <2>1. PICK i : i = last_committed_idx_[s] + 1
    OBVIOUS
  <2>2. /\ db' = [db EXCEPT ![s] = Apply(log[i], db[s])] \/ db' = db
        /\ failed' = failed \/ failed' = failed \cup {<<s, i>>}
        /\ last_committed_idx_' = [last_committed_idx_ EXCEPT ![s] = i]
        /\ i <= Len(log)
        /\ UNCHANGED <<raftVars, srvVars, clientVars>>
    BY <1>2, <2>1 DEF commit
  <2>3. Len(log) \in Nat /\ DOMAIN log = 1 .. Len(log)
    BY LenProperties DEF RaftType
  <2>4. i \in 1 .. Len(log)
    BY <2>1, <2>2, <2>3 DEF ServerType
  <2>5. PICK e \in EntryType : e = log[i] /\ Describes(e)
    <3>1. log[i] \in EntryType
      BY <2>4, ElementOfSeq DEF RaftType
    <3>2. Describes(log[i])
      BY <2>3, <2>4 DEF Named, InPlay
    <3> QED BY <3>1, <3>2
  <2>6. e.op # "CONFIG" => e.call \in Calls
    BY <2>5 DEF Describes, Made, Asked
  <2>7. Apply(e, db[s]) \in [Keys -> Calls \cup {NoValue}]
    BY <2>6 DEF Apply, ServerType
  <2>8. ServerType'
    <3>1. db' \in [Servers -> [Keys -> Calls \cup {NoValue}]]
      BY <2>2, <2>5, <2>7 DEF ServerType
    <3>2. /\ last_committed_idx_' \in [Servers -> Nat]
          /\ \A u \in Servers : last_committed_idx_'[u] <= Len(log')
      BY <2>2, <2>3, <2>4 DEF ServerType, raftVars
    <3>3. \A u \in Servers : last_committed_idx_[u] <= last_committed_idx_'[u]
      BY <2>1, <2>2 DEF ServerType
    <3>4. last_committed_idx_'[s] = i /\ <<s, i>> \in Servers \X Nat
      BY <2>2, <2>4 DEF ServerType
    <3>5. ASSUME NEW f \in failed'
          PROVE  f \in Servers \X Nat /\ f[2] <= last_committed_idx_'[f[1]]
      <4>1. CASE f \in failed
        <5>1. /\ f[1] \in Servers /\ f[2] \in Nat /\ f \in Servers \X Nat
              /\ f[2] <= last_committed_idx_[f[1]]
          BY <4>1 DEF ServerType
        <5>2. last_committed_idx_[f[1]] \in Nat /\ last_committed_idx_'[f[1]] \in Nat
          BY <3>2, <5>1 DEF ServerType
        <5> QED BY <3>3, <5>1, <5>2
      <4>2. CASE f \notin failed
        BY <2>2, <2>4, <3>4, <4>2
      <4> QED BY <4>1, <4>2
    <3>6. handlers' \subseteq HandlerType /\ forwards' \subseteq ForwardType
      BY <2>2 DEF ServerType, srvVars
    <3> QED BY <3>1, <3>2, <3>5, <3>6 DEF ServerType
  <2>9. RaftType' /\ ClientType'
    BY <2>2 DEF RaftType, ClientType, raftVars, leaderVars, clientVars
  <2> QED BY <2>8, <2>9
<1>3. ASSUME NEW s \in Servers, ServerCrash(s) PROVE KVType'
  <2>1. /\ up' \subseteq up /\ UNCHANGED <<term, leads, view, log, pending>>
        /\ handlers' \subseteq handlers /\ UNCHANGED <<smVars, forwards, clientVars>>
    BY <1>3 DEF ServerCrash, Crash
  <2>2. RaftType' /\ ClientType'
    BY <2>1 DEF RaftType, ClientType, clientVars
  <2>3. ServerType'
    BY <2>1 DEF ServerType, smVars
  <2> QED BY <2>2, <2>3
<1>4. ASSUME pending' \in Seq(EntryType), log' = log, UNCHANGED leaderVars,
             handlers' \subseteq HandlerType, forwards' \subseteq ForwardType,
             UNCHANGED <<smVars, clientVars>>
      PROVE  KVType'
  <2>1. RaftType' /\ ClientType'
    BY <1>4 DEF RaftType, ClientType, leaderVars, clientVars
  <2>2. ServerType'
    BY <1>4 DEF ServerType, smVars
  <2> QED BY <2>1, <2>2
<1>5. ASSUME NEW h \in handlers, AppendLog(h) PROVE KVType'
  <2>1. pending' \in Seq(EntryType) /\ log' = log
    BY <1>5, AppendLogFacts, Accepted
  <2>2. handlers' \subseteq HandlerType
    BY <1>5, AppendLogFacts DEF ServerType
  <2>3. forwards' \subseteq ForwardType /\ UNCHANGED <<leaderVars, smVars, clientVars>>
    BY <1>5, AppendLogFacts DEF ServerType
  <2> QED BY <1>4, <2>1, <2>2, <2>3
<1>6. ASSUME NEW h \in handlers, Forward(h) PROVE KVType'
  <2>1. handlers' \subseteq HandlerType /\ forwards' \subseteq ForwardType
    BY <1>6, ForwardFacts DEF ServerType
  <2>2. UNCHANGED <<raftVars, smVars, clientVars>>
    BY <1>6, ForwardFacts
  <2> QED BY <1>4, <2>1, <2>2 DEF RaftType, raftVars
<1>7. ASSUME NEW r \in forwards, ForwardArrives(r) PROVE KVType'
  <2>1. /\ forwards' \subseteq ForwardType /\ handlers' \subseteq HandlerType
        /\ UNCHANGED <<smVars, clientVars>>
    BY <1>7, ArrivesFacts DEF ServerType
  <2>2. pending' \in Seq(EntryType) /\ log' = log /\ UNCHANGED leaderVars
    BY <1>7, ArrivesFacts, Accepted DEF RaftType, raftVars
  <2> QED BY <1>4, <2>1, <2>2
<1>8. ASSUME UNCHANGED <<raftVars, smVars>>, handlers' \subseteq HandlerType,
             forwards' \subseteq ForwardType,
             clients_' \in [Clients -> SUBSET Servers],
             leader_id_' \in [Clients -> Servers \cup {NoLeader}],
             run' \in [Clients -> Runs], \A c \in Clients : run'[c].i < NumRetries,
             asked' \in [Clients -> Seq([op : OpTypes, key : Keys])],
             acked' \subseteq Calls
      PROVE  KVType'
  <2>1. RaftType' /\ ClientType'
    BY <1>8 DEF RaftType, ClientType, raftVars, leaderVars
  <2>2. ServerType'
    BY <1>8 DEF ServerType, raftVars, smVars
  <2> QED BY <2>1, <2>2
<1>9. ASSUME NEW h \in handlers,
             AppendRefused(h) \/ AppendDone(h) \/ AppendCancelled(h) \/ AppendTimeout(h)
      PROVE  KVType'
  <2>1. PICK rc \in {"OK", "NOT_LEADER", "CANCELLED", "OTHER"}, spl \in {0, 1} :
          Answer(h, rc, spl)
    BY <1>9, ReplyFacts
  <2>2. /\ handlers' = handlers \ {h}
        /\ UNCHANGED <<raftVars, smVars, forwards, clients_, leader_id_, asked, acked>>
    BY <2>1, ReplyRun
  <2>3. run' \in [Clients -> Runs] /\ \A c \in Clients : run'[c].i < NumRetries
    <3>1. CASE run' = run
      BY <3>1 DEF ClientType
    <3>2. ASSUME NEW c \in Clients, NEW n \in Runs, n.i = run[c].i,
                 run' = [run EXCEPT ![c] = n]
          PROVE  run' \in [Clients -> Runs] /\ \A d \in Clients : run'[d].i < NumRetries
      <4>1. n.i < NumRetries
        BY <3>2 DEF ClientType
      <4> QED BY <1>r, <3>2, <4>1, RunKept
    <3> QED BY <2>1, <3>1, <3>2, ReplyRun
  <2> QED BY <1>8, <2>2, <2>3 DEF ServerType, ClientType
<1>10. ASSUME NEW c \in Clients, Connect(c) PROVE KVType'
  <2>1. PICK s \in up : leader_id_' = [leader_id_ EXCEPT ![c] = view[s]]
    BY <1>10 DEF Connect
  <2>2. /\ clients_' = [clients_ EXCEPT ![c] = up] /\ run' = [run EXCEPT ![c] = Idle]
        /\ UNCHANGED <<raftVars, smVars, srvVars, asked, acked>>
    BY <1>10 DEF Connect
  <2>3. Idle \in Runs /\ Idle.i < NumRetries
    BY RunTypes, ClientAssumption
  <2>4. run' \in [Clients -> Runs] /\ \A d \in Clients : run'[d].i < NumRetries
    BY <1>r, <2>2, <2>3, RunKept
  <2>5. leader_id_' \in [Clients -> Servers \cup {NoLeader}]
    BY <2>1 DEF RaftType, ClientType
  <2>6. clients_' \in [Clients -> SUBSET Servers]
    BY <2>2 DEF RaftType, ClientType
  <2> QED BY <1>8, <2>2, <2>4, <2>5, <2>6 DEF ServerType, ClientType, srvVars
<1>11. ASSUME NEW c \in Clients, LoopStep(c) PROVE KVType'
  <2>1. /\ run' \in [Clients -> Runs] /\ \A d \in Clients : run'[d].i < NumRetries
    BY <1>r, <1>11, LoopFacts, RunKept
  <2>2. /\ leader_id_' \in [Clients -> Servers \cup {NoLeader}]
        /\ UNCHANGED <<raftVars, smVars, srvVars, clients_, asked, acked>>
    BY <1>11, LoopFacts
  <2> QED BY <1>8, <2>1, <2>2 DEF ServerType, ClientType, srvVars
<1>12. ASSUME NEW c \in Clients, HandleResult(c) PROVE KVType'
  <2>1. /\ run' \in [Clients -> Runs] /\ \A d \in Clients : run'[d].i < NumRetries
    BY <1>r, <1>12, ResultFacts, RunKept
  <2>2. acked' \subseteq acked \cup {Call(c)}
        /\ UNCHANGED <<raftVars, smVars, srvVars, clients_, leader_id_, asked>>
    BY <1>12, ResultFacts
  <2>3. Call(c) \in Calls
    BY LenProperties DEF Call, Calls, ClientType
  <2> QED BY <1>8, <2>1, <2>2, <2>3 DEF ServerType, ClientType, srvVars
<1>13. ASSUME NEW c \in Clients, Send(c) PROVE KVType'
  <2>1. PICK n \in Runs : n.i = run[c].i /\ run' = [run EXCEPT ![c] = n]
    BY <1>13, SendFacts
  <2>2. run' \in [Clients -> Runs] /\ \A d \in Clients : run'[d].i < NumRetries
    <3>1. n.i < NumRetries
      BY <2>1 DEF ClientType
    <3> QED BY <1>r, <2>1, <3>1, RunKept
  <2>3. handlers' \subseteq HandlerType
    BY <1>13, SendFacts DEF ServerType
  <2>4. UNCHANGED <<raftVars, smVars, forwards, clients_, leader_id_, asked, acked>>
    BY <1>13, SendFacts
  <2> QED BY <1>8, <2>2, <2>3, <2>4 DEF ServerType, ClientType
<1>14. ASSUME NEW c \in Clients, NEW op \in OpTypes, NEW k \in Keys, Begin(c, op, k)
       PROVE  KVType'
  <2>1. PICK o \in [op : OpTypes, key : Keys] :
          asked' = [asked EXCEPT ![c] = Append(asked[c], o)]
    BY <1>14, BeginFacts
  <2>2. asked' \in [Clients -> Seq([op : OpTypes, key : Keys])]
    <3>1. asked[c] \in Seq([op : OpTypes, key : Keys])
      BY DEF ClientType
    <3>2. Append(asked[c], o) \in Seq([op : OpTypes, key : Keys])
      BY <3>1, AppendProperties
    <3> QED BY <2>1, <3>2 DEF ClientType
  <2>3. run' \in [Clients -> Runs] /\ \A d \in Clients : run'[d].i < NumRetries
    <3>1. CASE run' = run
      BY <3>1 DEF ClientType
    <3>2. ASSUME NEW n \in Runs, n.i = 0, run' = [run EXCEPT ![c] = n]
          PROVE  run' \in [Clients -> Runs] /\ \A d \in Clients : run'[d].i < NumRetries
      <4>1. n.i < NumRetries
        BY <3>2, ClientAssumption
      <4> QED BY <1>r, <3>2, <4>1, RunKept
    <3> QED BY <1>14, <3>1, <3>2, BeginFacts
  <2>4. UNCHANGED <<raftVars, smVars, srvVars, clients_, leader_id_, acked>>
    BY <1>14, BeginFacts
  <2> QED BY <1>8, <2>2, <2>3, <2>4 DEF ServerType, ClientType, srvVars
<1>15. ASSUME Finished PROVE KVType'
  <2>1. UNCHANGED <<raftVars, smVars, srvVars, clientVars>>
    BY <1>15 DEF Finished, vars
  <2> QED BY <1>8, <2>1 DEF ServerType, ClientType, srvVars, clientVars
<1> QED BY <1>1, <1>2, <1>3, <1>5, <1>6, <1>7, <1>9, <1>10, <1>11, <1>12, <1>13, <1>14,
           <1>15 DEF Next, Handler, ClientStep, LoopStep
-----------------------------------------------------------------------------
\* A call is a pair and no configuration entry.
LEMMA CallFacts ==
  ASSUME KVType, NEW c \in Clients
  PROVE  /\ Len(asked[c]) \in Nat /\ Call(c) \in Calls /\ Call(c) # NoCall
         /\ Call(c)[1] = c /\ Call(c)[2] = Len(asked[c])
         /\ \A d \in Clients : d # c => Call(d) # Call(c)
<1>1. Len(asked[c]) \in Nat
  BY LenProperties DEF KVType, ClientType
<1>2. Call(c) \in Calls /\ Call(c)[1] = c /\ Call(c)[2] = Len(asked[c])
  BY <1>1 DEF Call, Calls
<1>3. \A d \in Clients : Call(d)[1] = d
  BY DEF Call
<1> QED BY <1>1, <1>2, <1>3, ClientAssumption DEF Calls

\* What keeps the attempts named: no call or attempt out of nowhere.
LEMMA NamedKept ==
  ASSUME Named, asked' = asked,
         \A e \in InPlay' : e \in InPlay \/ Describes(e),
         \A x \in handlers' \cup forwards' : Made(x),
         \A a \in acked' : a \in acked \/ Asked(a)
  PROVE  Named'
<1>1. \A a : Asked(a)' = Asked(a)
  BY DEF Asked
<1>2. \A e : Describes(e)' = Describes(e)
  BY DEF Describes, Made, Asked
<1>3. \A x : Made(x)' = Made(x)
  BY DEF Made, Asked
<1> QED BY <1>1, <1>2, <1>3 DEF Named

\* What keeps an attempt in one place: no handler begins again, no request is
\* sent again, and what becomes an entry is no longer a request.
LEMMA SingleKept ==
  ASSUME Single,
         \A g \in handlers' : \E h \in handlers :
           /\ h.call = g.call /\ h.try = g.try
           /\ g = h \/ (~Fresh(g) /\ (Fresh(h) => h \notin handlers')),
         forwards' \subseteq forwards,
         \A x \in InPlay' : x \in InPlay \/
           /\ \A h \in handlers' : Fresh(h) /\ x.call = h.call => x.try < h.try
           /\ \A r \in forwards' : ~(r.call = x.call /\ r.try = x.try)
  PROVE  Single'
<1>1. ASSUME NEW h \in handlers', Fresh(h)
      PROVE  /\ h \in handlers
             /\ \A g \in handlers' : g.call = h.call /\ g # h => g.try < h.try
             /\ \A x \in forwards' \cup InPlay' : x.call = h.call => x.try < h.try
  <2>1. h \in handlers
    BY <1>1
  <2>2. ASSUME NEW g \in handlers', g.call = h.call, g # h PROVE g.try < h.try
    <3>1. PICK k \in handlers : /\ k.call = g.call /\ k.try = g.try
                                /\ g = k \/ (~Fresh(g) /\ (Fresh(k) => k \notin handlers'))
      OBVIOUS
    <3>2. k # h
      BY <1>1, <2>2, <3>1
    <3> QED BY <1>1, <2>1, <2>2, <3>1, <3>2 DEF Single
  <2>3. ASSUME NEW x \in forwards' \cup InPlay', x.call = h.call PROVE x.try < h.try
    BY <1>1, <2>1, <2>3 DEF Single
  <2> QED BY <2>1, <2>2, <2>3
<1>2. \A r, q \in forwards' : r.call = q.call /\ r.try = q.try => r = q
  BY DEF Single
<1>3. \A r \in forwards', e \in InPlay' : ~(r.call = e.call /\ r.try = e.try)
  BY DEF Single
<1>4. \A h : Fresh(h)' = Fresh(h)
  BY DEF Fresh
<1> QED BY <1>1, <1>2, <1>3, <1>4 DEF Single

\* What keeps the clients' loops ahead while none of them moves.
LEMMA LoopKept ==
  ASSUME KVType, Loop, UNCHANGED <<run, asked, acked>>,
         \A x \in handlers' \cup forwards' \cup InPlay' : x.call = NoCall \/
           \E y \in handlers \cup forwards \cup InPlay : y.call = x.call /\ y.try = x.try,
         \A h \in handlers' : Fresh(h) => h \in handlers
  PROVE  Loop'
<1> SUFFICES ASSUME NEW c \in Clients, InCall(c)
             PROVE  /\ Asked(Call(c))' /\ Call(c) \notin acked
                    /\ \A x \in handlers' \cup forwards' \cup InPlay' : x.call = Call(c) =>
                         x.try <= run[c].i /\ (run[c].pc = "send" => x.try # run[c].i)
                    /\ run[c].pc # "rpc" =>
                         \A h \in handlers' : h.call = Call(c) => ~Fresh(h)
  BY DEF Loop, InCall, Call, Fresh
<1>1. Asked(Call(c))' /\ Call(c) \notin acked
  BY DEF Loop, Asked, Call
<1>2. Call(c) # NoCall
  BY CallFacts
<1>3. ASSUME NEW x \in handlers' \cup forwards' \cup InPlay', x.call = Call(c)
      PROVE  x.try <= run[c].i /\ (run[c].pc = "send" => x.try # run[c].i)
  <2>1. PICK y \in handlers \cup forwards \cup InPlay : y.call = x.call /\ y.try = x.try
    BY <1>2, <1>3
  <2> QED BY <1>3, <2>1 DEF Loop
<1>4. ASSUME run[c].pc # "rpc", NEW h \in handlers', h.call = Call(c) PROVE ~Fresh(h)
  BY <1>4 DEF Loop
<1> QED BY <1>1, <1>3, <1>4

\* A call that is settled stays so: its server accepts no other copy of it.
LEMMA SettledKept ==
  ASSUME NEW a, a # NoCall, Settled(a),
         \A j \in DOMAIN log : j \in DOMAIN log' /\ log'[j] = log[j],
         \A j \in DOMAIN pending' :
           \/ \E i \in DOMAIN pending : pending'[j] = pending[i]
           \/ pending'[j].fwd \/ pending'[j].call = NoCall
           \/ \E h \in handlers : Fresh(h) /\ pending'[j].call = h.call,
         \A h \in handlers' : Fresh(h) => h \in handlers \/ h.call # a
  PROVE  Settled(a)'
<1>1. \E j \in DOMAIN log' : log'[j].call = a
  BY DEF Settled
<1>2. ASSUME NEW j \in DOMAIN pending', pending'[j].call = a PROVE pending'[j].fwd
  BY <1>2 DEF Settled
<1>3. ASSUME NEW h \in handlers', h.call = a PROVE ~Fresh(h)
  BY <1>3 DEF Settled
<1>4. \A h : Fresh(h)' = Fresh(h)
  BY DEF Fresh
<1> QED BY <1>1, <1>2, <1>3, <1>4 DEF Settled

\* The same for all calls, while no client moves.
LEMMA AnsweredKept ==
  ASSUME KVType, Answered, UNCHANGED <<run, asked, acked>>,
         \A j \in DOMAIN log : j \in DOMAIN log' /\ log'[j] = log[j],
         \A j \in DOMAIN pending' :
           \/ \E i \in DOMAIN pending : pending'[j] = pending[i]
           \/ pending'[j].fwd \/ pending'[j].call = NoCall
           \/ \E h \in handlers : Fresh(h) /\ pending'[j].call = h.call,
         \A h \in handlers' : Fresh(h) => h \in handlers
  PROVE  Answered'
<1>1. ASSUME NEW a \in acked PROVE Settled(a)'
  <2>1. a # NoCall /\ Settled(a)
    BY ClientAssumption DEF KVType, ClientType, Calls, Answered
  <2> QED BY <2>1, SettledKept
<1>2. ASSUME NEW c \in Clients, run[c].pc = "got", run[c].rc = "OK"
      PROVE  Settled(Call(c))'
  <2>1. Call(c) # NoCall /\ Settled(Call(c))
    BY <1>2, CallFacts DEF Answered
  <2>2. PICK a : a = Call(c)
    OBVIOUS
  <2>3. Settled(a)'
    BY <2>1, <2>2, SettledKept
  <2>4. Call(c)' = a
    BY <2>2 DEF Call
  <2> QED BY <2>3, <2>4 DEF Settled
<1> QED BY <1>1, <1>2 DEF Answered
-----------------------------------------------------------------------------
\* A new entry goes after all the others.
LEMMA OrderAccept ==
  ASSUME RaftType, InOrder, NEW e \in EntryType, pending' = Append(pending, e),
         log' = log, \A x \in InPlay : Ordered(x, e)
  PROVE  InOrder'
<1>1. /\ Len(pending) \in Nat /\ DOMAIN pending = 1 .. Len(pending)
      /\ DOMAIN pending' = 1 .. Len(pending) + 1
      /\ \A i \in 1 .. Len(pending) : pending'[i] = pending[i]
      /\ pending'[Len(pending) + 1] = e
  BY Accepted
<1>2. /\ \A i \in DOMAIN log : Ordered(log[i], e)
      /\ \A i \in DOMAIN pending : Ordered(pending[i], e)
  BY DEF InPlay
<1>3. ASSUME NEW i \in DOMAIN log, NEW j \in DOMAIN pending' PROVE Ordered(log[i], pending'[j])
  <2>1. CASE j \in 1 .. Len(pending)
    BY <1>1, <2>1 DEF InOrder
  <2>2. CASE j = Len(pending) + 1
    BY <1>1, <1>2, <2>2
  <2> QED BY <1>1, <2>1, <2>2
<1>4. ASSUME NEW i \in DOMAIN pending', NEW j \in DOMAIN pending', i < j
      PROVE  Ordered(pending'[i], pending'[j])
  <2>1. i \in 1 .. Len(pending)
    BY <1>1, <1>4
  <2>2. CASE j \in 1 .. Len(pending)
    BY <1>1, <1>4, <2>1, <2>2 DEF InOrder
  <2>3. CASE j = Len(pending) + 1
    BY <1>1, <1>2, <2>1, <2>3
  <2> QED BY <1>1, <2>2, <2>3
<1>5. \A x, y : Ordered(x, y)' = Ordered(x, y)
  BY DEF Ordered
<1> QED BY <1>3, <1>4, <1>5 DEF InOrder

\* Committing an entry keeps the order of the ones that remain.
LEMMA OrderDecide ==
  ASSUME RaftType, InOrder, Decide PROVE InOrder'
<1>1. PICK n \in Nat, m \in Nat : n = Len(log) /\ m = Len(pending)
  BY Decided
<1>2. /\ DOMAIN log = 1 .. n /\ DOMAIN log' = 1 .. n + 1 /\ DOMAIN pending = 1 .. m
      /\ \A i \in 1 .. n : log'[i] = log[i]
  BY <1>1, Decided
<1>3. PICK p \in 1 .. m : /\ log'[n + 1] = pending[p]
                          /\ DOMAIN pending' = 1 .. m - p
                          /\ \A i \in 1 .. m - p : pending'[i] = pending[p + i]
  BY <1>1, Decided
<1>4. ASSUME NEW i \in DOMAIN log', NEW j \in DOMAIN log', i < j
      PROVE  Ordered(log'[i], log'[j])
  <2>1. i \in 1 .. n
    BY <1>2, <1>4
  <2>2. CASE j \in 1 .. n
    BY <1>2, <1>4, <2>1, <2>2 DEF InOrder
  <2>3. CASE j = n + 1
    BY <1>2, <1>3, <2>1, <2>3 DEF InOrder
  <2> QED BY <1>2, <2>2, <2>3
<1>5. ASSUME NEW i \in DOMAIN log', NEW j \in DOMAIN pending'
      PROVE  Ordered(log'[i], pending'[j])
  <2>1. p + j \in 1 .. m /\ p < p + j /\ pending'[j] = pending[p + j]
    BY <1>3
  <2>2. CASE i \in 1 .. n
    BY <1>2, <2>1, <2>2 DEF InOrder
  <2>3. CASE i = n + 1
    <3>1. Ordered(pending[p], pending[p + j])
      BY <1>2, <2>1 DEF InOrder
    <3> QED BY <1>3, <2>1, <2>3, <3>1
  <2> QED BY <1>2, <2>2, <2>3
<1>6. ASSUME NEW i \in DOMAIN pending', NEW j \in DOMAIN pending', i < j
      PROVE  Ordered(pending'[i], pending'[j])
  <2>1. /\ p + i \in 1 .. m /\ p + j \in 1 .. m /\ p + i < p + j
        /\ pending'[i] = pending[p + i] /\ pending'[j] = pending[p + j]
    BY <1>3, <1>6
  <2> QED BY <1>2, <2>1 DEF InOrder
<1>7. \A x, y : Ordered(x, y)' = Ordered(x, y)
  BY DEF Ordered
<1> QED BY <1>4, <1>5, <1>6, <1>7 DEF InOrder

\* Nothing but leadership, a state machine or a crash: handlers may be lost.
LEMMA CoreQuiet ==
  ASSUME KVType, Core, UNCHANGED <<log, pending, forwards, run, asked, acked>>,
         handlers' \subseteq handlers
  PROVE  Core'
<1> USE DEF Core
<1>0. InPlay' = InPlay
  BY DEF InPlay
<1>1. Named'
  <2>1. \A x \in handlers' \cup forwards' : Made(x)
    BY DEF Named
  <2> QED BY <1>0, <2>1, NamedKept
<1>2. InOrder'
  BY DEF InOrder, Ordered
<1>3. Single'
  BY <1>0, SingleKept
<1>4. Loop'
  BY <1>0, LoopKept
<1>5. Answered'
  BY AnsweredKept
<1>6. AckedCommitted' /\ SessionOrder'
  BY DEF AckedCommitted, SessionOrder, Follows
<1> QED BY <1>1, <1>2, <1>3, <1>4, <1>5, <1>6

\* A leader is elected.
LEMMA CoreElect ==
  ASSUME KVType, Core, NEW l \in Servers, Elect(l),
         UNCHANGED <<smVars, srvVars, clientVars>>
  PROVE  Core'
<1> USE DEF Core
<1>1. PICK e : e = ConfigEntry(term + 1)
  OBVIOUS
<1>2. e \in EntryType /\ e.op = "CONFIG" /\ e.call = NoCall /\ e.key = NoCall
  BY <1>1 DEF ConfigEntry, EntryType, KVType, RaftType
<1>3. /\ pending' = Append(pending, e) /\ log' = log
      /\ UNCHANGED <<handlers, forwards, run, asked, acked>>
  BY <1>1 DEF Elect, srvVars, clientVars
<1>4. /\ Len(pending) \in Nat /\ DOMAIN pending = 1 .. Len(pending)
      /\ DOMAIN pending' = 1 .. Len(pending) + 1
      /\ \A i \in 1 .. Len(pending) : pending'[i] = pending[i]
      /\ pending'[Len(pending) + 1] = e
      /\ InPlay' = InPlay \cup {e}
  BY <1>2, <1>3, Accepted DEF KVType
<1>5. \A h \in handlers : h.call # NoCall
  BY ClientAssumption DEF KVType, ServerType, HandlerType, Calls
<1>6. \A r \in forwards : r.call # NoCall
  BY ClientAssumption DEF KVType, ServerType, ForwardType, Calls
<1>7. Named'
  <2>1. Describes(e)
    BY <1>2 DEF Describes
  <2>2. \A x \in handlers' \cup forwards' : Made(x)
    BY <1>3 DEF Named
  <2> QED BY <1>3, <1>4, <2>1, <2>2, NamedKept
<1>8. InOrder'
  <2>1. \A x \in InPlay : Ordered(x, e)
    BY <1>2 DEF Ordered
  <2> QED BY <1>2, <1>3, <2>1, OrderAccept DEF KVType
<1>9. Single'
  BY <1>2, <1>3, <1>4, <1>5, <1>6, SingleKept
<1>10. Loop'
  BY <1>2, <1>3, <1>4, LoopKept
<1>11. Answered'
  <2>1. ASSUME NEW j \in DOMAIN pending'
        PROVE  \/ \E i \in DOMAIN pending : pending'[j] = pending[i]
               \/ pending'[j].call = NoCall
    BY <1>2, <1>4
  <2> QED BY <1>3, <2>1, AnsweredKept
<1>12. AckedCommitted' /\ SessionOrder'
  BY <1>3 DEF AckedCommitted, SessionOrder, Follows
<1> QED BY <1>7, <1>8, <1>9, <1>10, <1>11, <1>12

\* An entry is committed.
LEMMA CoreDecide ==
  ASSUME KVType, Core, Decide, UNCHANGED <<smVars, srvVars, clientVars>>
  PROVE  Core'
<1> USE DEF Core
<1>0. RaftType /\ UNCHANGED <<handlers, forwards, run, asked, acked>>
  BY DEF KVType, srvVars, clientVars
<1>1. PICK n \in Nat, m \in Nat : n = Len(log) /\ m = Len(pending)
  BY <1>0, Decided
<1>2. /\ DOMAIN log = 1 .. n /\ DOMAIN log' = 1 .. n + 1 /\ DOMAIN pending = 1 .. m
      /\ \A i \in 1 .. n : log'[i] = log[i]
      /\ InPlay' \subseteq InPlay
  BY <1>0, <1>1, Decided
<1>3. PICK p \in 1 .. m : /\ log'[n + 1] = pending[p]
                          /\ DOMAIN pending' = 1 .. m - p
                          /\ \A i \in 1 .. m - p : pending'[i] = pending[p + i]
  BY <1>0, <1>1, Decided
<1>4. Named'
  <2>1. \A x \in handlers' \cup forwards' : Made(x)
    BY <1>0 DEF Named
  <2> QED BY <1>0, <1>2, <2>1, NamedKept
<1>5. InOrder'
  BY <1>0, OrderDecide
<1>6. Single'
  BY <1>0, <1>2, SingleKept
<1>7. Loop'
  BY <1>0, <1>2, LoopKept
<1>8. Answered'
  <2>1. \A j \in DOMAIN log : j \in DOMAIN log' /\ log'[j] = log[j]
    BY <1>2
  <2>2. ASSUME NEW j \in DOMAIN pending'
        PROVE  \E i \in DOMAIN pending : pending'[j] = pending[i]
    <3>1. p + j \in DOMAIN pending /\ pending'[j] = pending[p + j]
      BY <1>2, <1>3
    <3> QED BY <3>1
  <2> QED BY <1>0, <2>1, <2>2, AnsweredKept
<1>9. AckedCommitted'
  <2> SUFFICES ASSUME NEW a \in acked
               PROVE  \E j \in DOMAIN log' : log'[j].call = a /\
                        \A k \in DOMAIN log' : Follows(log'[k].call, a) => j < k
    BY <1>0 DEF AckedCommitted, Follows
  <2>1. PICK j \in DOMAIN log : log[j].call = a /\
          \A k \in DOMAIN log : Follows(log[k].call, a) => j < k
    BY DEF AckedCommitted
  <2>2. j \in 1 .. n /\ j \in DOMAIN log' /\ log'[j].call = a
    BY <1>2, <2>1
  <2>3. ASSUME NEW k \in DOMAIN log', Follows(log'[k].call, a) PROVE j < k
    <3>1. CASE k \in 1 .. n
      BY <1>2, <2>1, <2>3, <3>1
    <3>2. CASE k = n + 1
      BY <2>2, <3>2
    <3> QED BY <1>2, <3>1, <3>2
  <2> QED BY <2>2, <2>3
<1>10. SessionOrder'
  <2> SUFFICES ASSUME NEW j \in DOMAIN log', NEW k \in DOMAIN log',
                      log'[j].call \in acked, ~log'[j].fwd,
                      Follows(log'[k].call, log'[j].call)
               PROVE  j < k
    BY <1>0 DEF SessionOrder, Follows
  <2>1. j # n + 1
    <3>1. ASSUME j = n + 1 PROVE FALSE
      <4>1. Settled(pending[p].call) /\ ~pending[p].fwd
        BY <1>3, <3>1 DEF Answered
      <4> QED BY <1>2, <4>1 DEF Settled
    <3> QED BY <3>1
  <2>2. j \in 1 .. n /\ log'[j] = log[j]
    BY <1>2, <2>1
  <2>3. CASE k \in 1 .. n
    BY <1>2, <2>2, <2>3 DEF SessionOrder
  <2>4. CASE k = n + 1
    BY <2>2, <2>4
  <2> QED BY <1>2, <2>3, <2>4
<1> QED BY <1>4, <1>5, <1>6, <1>7, <1>8, <1>9, <1>10

\* The attempt of h is accepted by the server it was sent to.
LEMMA CoreAppendLog ==
  ASSUME KVType, Core, NEW h \in handlers, AppendLog(h)
  PROVE  Core'
<1> USE DEF Core
<1>1. PICK e \in EntryType :
        /\ e.call = h.call /\ e.try = h.try /\ ~e.fwd /\ Describes(e) /\ e.call # NoCall
        /\ pending' = Append(pending, e) /\ log' = log
  BY AppendLogFacts
<1>2. PICK g \in HandlerType :
        /\ g.call = h.call /\ g.try = h.try /\ ~Fresh(g)
        /\ handlers' = (handlers \ {h}) \cup {g}
  BY AppendLogFacts
<1>3. Fresh(h) /\ UNCHANGED <<forwards, run, asked, acked>>
  BY AppendLogFacts DEF clientVars
<1>4. /\ Len(pending) \in Nat /\ DOMAIN pending = 1 .. Len(pending)
      /\ DOMAIN pending' = 1 .. Len(pending) + 1
      /\ \A i \in 1 .. Len(pending) : pending'[i] = pending[i]
      /\ pending'[Len(pending) + 1] = e
      /\ InPlay' = InPlay \cup {e}
  BY <1>1, Accepted DEF KVType
<1>5. \A k \in handlers' : Fresh(k) => k \in handlers /\ k # h
  BY <1>2
<1>6. Named'
  <2>1. Made(g)
    BY <1>2 DEF Named, Made
  <2>2. \A x \in handlers' \cup forwards' : Made(x)
    BY <1>2, <1>3, <2>1 DEF Named
  <2> QED BY <1>1, <1>3, <1>4, <2>2, NamedKept
<1>7. InOrder'
  <2>1. ASSUME NEW x \in InPlay PROVE Ordered(x, e)
    <3>1. x.call = h.call => x.try < h.try
      BY <1>3 DEF Single
    <3>2. x.try \in Nat /\ h.try \in Nat
      BY InPlayType DEF KVType, ServerType, EntryType, HandlerType
    <3> QED BY <1>1, <3>1, <3>2 DEF Ordered
  <2> QED BY <1>1, <2>1, OrderAccept DEF KVType
<1>8. Single'
  <2>1. ASSUME NEW k \in handlers' PROVE \E i \in handlers :
          /\ i.call = k.call /\ i.try = k.try
          /\ k = i \/ (~Fresh(k) /\ (Fresh(i) => i \notin handlers'))
    <3>1. CASE k \in handlers
      BY <3>1
    <3>2. CASE k = g
      <4>1. h \notin handlers'
        BY <1>2, <1>3
      <4> QED BY <1>2, <3>2, <4>1
    <3> QED BY <1>2, <3>1, <3>2
  <2>2. ASSUME NEW k \in handlers', Fresh(k), e.call = k.call PROVE e.try < k.try
    BY <1>1, <1>3, <1>5, <2>2 DEF Single
  <2>3. ASSUME NEW r \in forwards', r.call = e.call, r.try = e.try PROVE FALSE
    <3>1. r.try < h.try
      BY <1>1, <1>3, <2>3 DEF Single
    <3>2. h.try \in Nat
      BY DEF KVType, ServerType, HandlerType
    <3> QED BY <1>1, <2>3, <3>1, <3>2
  <2> QED BY <1>3, <1>4, <2>1, <2>2, <2>3, SingleKept
<1>9. Loop'
  <2>1. ASSUME NEW x \in handlers' \cup forwards' \cup InPlay'
        PROVE  \E y \in handlers \cup forwards \cup InPlay : y.call = x.call /\ y.try = x.try
    BY <1>1, <1>2, <1>3, <1>4
  <2> QED BY <1>3, <1>5, <2>1, LoopKept
<1>10. Answered'
  <2>1. ASSUME NEW j \in DOMAIN pending'
        PROVE  \/ \E i \in DOMAIN pending : pending'[j] = pending[i]
               \/ \E k \in handlers : Fresh(k) /\ pending'[j].call = k.call
    BY <1>1, <1>3, <1>4
  <2> QED BY <1>1, <1>3, <1>5, <2>1, AnsweredKept
<1>11. AckedCommitted' /\ SessionOrder'
  BY <1>1, <1>3 DEF AckedCommitted, SessionOrder, Follows
<1> QED BY <1>6, <1>7, <1>8, <1>9, <1>10, <1>11

\* The attempt of h is on its way to the leader that a follower knows.
LEMMA CoreForward ==
  ASSUME KVType, Core, NEW h \in handlers, Forward(h)
  PROVE  Core'
<1> USE DEF Core
<1>1. PICK r \in ForwardType : r.call = h.call /\ r.try = h.try /\ forwards' = forwards \cup {r}
  BY ForwardFacts
<1>2. PICK g \in HandlerType :
        /\ g.call = h.call /\ g.try = h.try /\ ~Fresh(g)
        /\ handlers' = (handlers \ {h}) \cup {g}
  BY ForwardFacts
<1>3. Fresh(h) /\ UNCHANGED <<log, pending, run, asked, acked>>
  BY ForwardFacts DEF raftVars, clientVars
<1>4. InPlay' = InPlay
  BY <1>3 DEF InPlay
<1>5. \A k \in handlers' : Fresh(k) => k \in handlers /\ k # h
  BY <1>2
<1>6. Named'
  <2>1. Made(g) /\ Made(r)
    BY <1>1, <1>2 DEF Named, Made
  <2>2. \A x \in handlers' \cup forwards' : Made(x)
    BY <1>1, <1>2, <2>1 DEF Named
  <2> QED BY <1>3, <1>4, <2>2, NamedKept
<1>7. InOrder'
  BY <1>3 DEF InOrder, Ordered
<1>8. Single'
  <2>0. h.try \in Nat /\ \A q \in forwards : q.call = h.call => q.try < h.try /\ q.try \in Nat
    BY <1>3 DEF Single, KVType, ServerType, HandlerType, ForwardType
  <2>1. ASSUME NEW k \in handlers', Fresh(k)
        PROVE  /\ \A x \in handlers' : x.call = k.call /\ x # k => x.try < k.try
               /\ \A x \in forwards' \cup InPlay' : x.call = k.call => x.try < k.try
    <3>1. k \in handlers /\ k # h /\ (h.call = k.call => h.try < k.try)
      BY <1>5, <2>1 DEF Single
    <3>2. \A x \in handlers' : x.call = k.call /\ x # k => x.try < k.try
      BY <1>2, <2>1, <3>1 DEF Single
    <3>3. \A x \in forwards' \cup InPlay' : x.call = k.call => x.try < k.try
      BY <1>1, <1>4, <2>1, <3>1 DEF Single
    <3> QED BY <3>2, <3>3
  <2>2. \A q, s \in forwards' : q.call = s.call /\ q.try = s.try => q = s
    BY <1>1, <2>0 DEF Single
  <2>3. ASSUME NEW q \in forwards', NEW e \in InPlay', q.call = e.call, q.try = e.try
        PROVE  FALSE
    <3>1. CASE q \in forwards
      BY <1>4, <2>3, <3>1 DEF Single
    <3>2. CASE q = r
      <4>1. e.try < h.try
        BY <1>1, <1>3, <1>4, <2>3, <3>2 DEF Single
      <4> QED BY <1>1, <2>0, <2>3, <3>2, <4>1
    <3> QED BY <1>1, <3>1, <3>2
  <2>4. \A k : Fresh(k)' = Fresh(k)
    BY DEF Fresh
  <2> QED BY <2>1, <2>2, <2>3, <2>4 DEF Single
<1>9. Loop'
  <2>1. ASSUME NEW x \in handlers' \cup forwards' \cup InPlay'
        PROVE  \E y \in handlers \cup forwards \cup InPlay : y.call = x.call /\ y.try = x.try
    BY <1>1, <1>2, <1>4
  <2> QED BY <1>3, <1>5, <2>1, LoopKept
<1>10. Answered'
  BY <1>3, <1>5, AnsweredKept
<1>11. AckedCommitted' /\ SessionOrder'
  BY <1>3 DEF AckedCommitted, SessionOrder, Follows
<1> QED BY <1>6, <1>7, <1>8, <1>9, <1>10, <1>11

\* A forwarded request arrives, however late: the entry is marked as such.
LEMMA CoreArrives ==
  ASSUME KVType, Core, NEW r \in forwards, ForwardArrives(r)
  PROVE  Core'
<1> USE DEF Core
<1>1. forwards' = forwards \ {r} /\ UNCHANGED <<run, asked, acked>>
  BY ArrivesFacts DEF clientVars
<1>2. r.try \in Nat /\ \A h \in handlers : h.try \in Nat
  BY DEF KVType, ServerType, ForwardType, HandlerType
<1>3. ASSUME NEW g \in handlers' PROVE \E h \in handlers :
        /\ h.call = g.call /\ h.try = g.try /\ (g = h \/ (~Fresh(g) /\ ~Fresh(h)))
  <2>1. CASE g \in handlers
    BY <2>1
  <2>2. ASSUME NEW h \in handlers, h.call = r.call, h.try = r.try, g.call = h.call,
               g.try = h.try, g.at = h.at
        PROVE  ~Fresh(g) /\ ~Fresh(h)
    <3>1. Fresh(h) => r.try < h.try
      BY <2>2 DEF Single
    <3> QED BY <1>2, <2>2, <3>1 DEF Fresh
  <2> QED BY <1>3, <2>1, <2>2, ArrivesFacts
<1>4. \A x \in handlers' \cup forwards' : Made(x)
  BY <1>1, <1>3 DEF Named, Made
<1>5. \A h \in handlers' : Fresh(h) => h \in handlers
  BY <1>3
<1>6. CASE UNCHANGED raftVars
  <2>1. UNCHANGED <<log, pending>> /\ InPlay' = InPlay
    BY <1>6 DEF raftVars, InPlay
  <2>2. Named'
    BY <1>1, <1>4, <2>1, NamedKept
  <2>3. InOrder'
    BY <2>1 DEF InOrder, Ordered
  <2>4. Single'
    BY <1>1, <1>3, <2>1, SingleKept
  <2>5. Loop'
    BY <1>1, <1>3, <1>5, <2>1, LoopKept
  <2>6. Answered'
    BY <1>1, <1>5, <2>1, AnsweredKept
  <2>7. AckedCommitted' /\ SessionOrder'
    BY <1>1, <2>1 DEF AckedCommitted, SessionOrder, Follows
  <2> QED BY <2>2, <2>3, <2>4, <2>5, <2>6, <2>7
<1>7. ASSUME NEW e \in EntryType, e.call = r.call, e.try = r.try, e.fwd, Describes(e),
             pending' = Append(pending, e), log' = log
      PROVE  Core'
  <2>1. /\ Len(pending) \in Nat /\ DOMAIN pending = 1 .. Len(pending)
        /\ DOMAIN pending' = 1 .. Len(pending) + 1
        /\ \A i \in 1 .. Len(pending) : pending'[i] = pending[i]
        /\ pending'[Len(pending) + 1] = e
        /\ InPlay' = InPlay \cup {e}
    BY <1>7, Accepted DEF KVType
  <2>2. Named'
    BY <1>1, <1>4, <1>7, <2>1, NamedKept
  <2>3. InOrder'
    <3>1. \A x \in InPlay : Ordered(x, e)
      BY <1>7 DEF Ordered, Single
    <3> QED BY <1>7, <3>1, OrderAccept DEF KVType
  <2>4. Single'
    <3>1. \A h \in handlers' : Fresh(h) /\ e.call = h.call => e.try < h.try
      BY <1>5, <1>7 DEF Single
    <3>2. \A q \in forwards' : ~(q.call = e.call /\ q.try = e.try)
      BY <1>1, <1>7 DEF Single
    <3> QED BY <1>1, <1>3, <2>1, <3>1, <3>2, SingleKept
  <2>5. Loop'
    <3>1. ASSUME NEW x \in handlers' \cup forwards' \cup InPlay'
          PROVE  \E y \in handlers \cup forwards \cup InPlay :
                   y.call = x.call /\ y.try = x.try
      BY <1>1, <1>3, <1>7, <2>1
    <3> QED BY <1>1, <1>5, <3>1, LoopKept
  <2>6. Answered'
    <3>1. ASSUME NEW j \in DOMAIN pending'
          PROVE  (\E i \in DOMAIN pending : pending'[j] = pending[i]) \/ pending'[j].fwd
      BY <1>7, <2>1
    <3> QED BY <1>1, <1>5, <1>7, <3>1, AnsweredKept
  <2>7. AckedCommitted' /\ SessionOrder'
    BY <1>1, <1>7 DEF AckedCommitted, SessionOrder, Follows
  <2> QED BY <2>2, <2>3, <2>4, <2>5, <2>6, <2>7
<1> QED BY <1>6, <1>7, ArrivesFacts

\* The answer to an attempt: when it is OK, the entry of this last attempt is
\* committed and the earlier ones, accepted before it, are not pending.
LEMMA CoreReply ==
  ASSUME KVType, Core, NEW h \in handlers,
         AppendRefused(h) \/ AppendDone(h) \/ AppendCancelled(h) \/ AppendTimeout(h)
  PROVE  Core'
<1> USE DEF Core
<1>1. PICK rc \in {"OK", "NOT_LEADER", "CANCELLED", "OTHER"}, spl \in {0, 1} :
        /\ Answer(h, rc, spl)
        /\ rc = "OK" => \E j \in DOMAIN log : log[j].call = h.call /\ log[j].try = h.try
  BY ReplyFacts
<1>2. /\ handlers' = handlers \ {h}
      /\ UNCHANGED <<log, pending, forwards, asked, acked>>
  BY <1>1, ReplyRun DEF raftVars
<1>3. InPlay' = InPlay
  BY <1>2 DEF InPlay
<1>4. CASE run' = run
  BY <1>2, <1>4, CoreQuiet
<1>5. ASSUME NEW c \in Clients, NEW n \in Runs,
             run[c].pc = "rpc", h.call = Call(c), h.try = run[c].i,
             n.pc = "got", n.rc = rc, n.i = run[c].i, run' = [run EXCEPT ![c] = n]
      PROVE  Core'
  <2>0. run'[c] = n /\ \A d \in Clients : d # c => run'[d] = run[d]
    BY <1>5 DEF KVType, ClientType
  <2>1. Named'
    <3>1. \A x \in handlers' \cup forwards' : Made(x)
      BY <1>2 DEF Named
    <3> QED BY <1>2, <1>3, <3>1, NamedKept
  <2>2. InOrder'
    BY <1>2 DEF InOrder, Ordered
  <2>3. Single'
    BY <1>2, <1>3, SingleKept
  <2>4. /\ InCall(c) /\ h.try \in Nat /\ \A k \in handlers : k.try \in Nat
        /\ \A x \in InPlay : x.try \in Nat
    BY <1>5, InPlayType
    DEF InCall, KVType, ServerType, HandlerType, EntryType
  <2>5. \A k \in handlers' : k.call = Call(c) => ~Fresh(k)
    <3> SUFFICES ASSUME NEW k \in handlers', k.call = Call(c), Fresh(k) PROVE FALSE
      OBVIOUS
    <3>1. k \in handlers /\ k # h
      BY <1>2
    <3>2. h.try < k.try
      BY <1>5, <3>1 DEF Single
    <3>3. k.try <= h.try
      BY <1>5, <2>4, <3>1 DEF Loop
    <3> QED BY <2>4, <3>1, <3>2, <3>3
  <2>6. Loop'
    <3>1. \A d \in Clients : Call(d)' = Call(d) /\ Asked(Call(d))' = Asked(Call(d))
      BY <1>2 DEF Call, Asked
    <3>2. ASSUME NEW d \in Clients, InCall(d)'
          PROVE  /\ Asked(Call(d)) /\ Call(d) \notin acked
                 /\ \A x \in handlers' \cup forwards \cup InPlay : x.call = Call(d) =>
                      x.try <= run'[d].i /\ (run'[d].pc = "send" => x.try # run'[d].i)
                 /\ run'[d].pc # "rpc" =>
                      \A k \in handlers' : k.call = Call(d) => ~Fresh(k)
      <4>1. CASE d = c
        BY <1>2, <1>5, <2>0, <2>4, <2>5, <4>1 DEF Loop
      <4>2. CASE d # c
        <5>1. InCall(d) /\ run'[d] = run[d]
          BY <2>0, <3>2, <4>2 DEF InCall
        <5> QED BY <1>2, <5>1 DEF Loop
      <4> QED BY <4>1, <4>2
    <3>3. \A k : Fresh(k)' = Fresh(k)
      BY DEF Fresh
    <3> QED BY <1>2, <1>3, <3>1, <3>2, <3>3 DEF Loop
  <2>7. Answered'
    <3>1. ASSUME NEW a, a # NoCall, Settled(a) PROVE Settled(a)'
      BY <1>2, <3>1, SettledKept
    <3>2. \A a \in acked' : Settled(a)'
      BY <1>2, <3>1, ClientAssumption DEF KVType, ClientType, Calls, Answered
    <3>3. ASSUME NEW d \in Clients, run'[d].pc = "got", run'[d].rc = "OK"
          PROVE  Settled(Call(d))'
      <4>0. PICK a : a = Call(d)
        OBVIOUS
      <4>1. Call(d)' = a
        BY <1>2, <4>0 DEF Call
      <4>2. CASE d = c
        <5>1. PICK j \in DOMAIN log : log[j].call = a /\ log[j].try = h.try
          BY <1>1, <1>5, <2>0, <3>3, <4>0, <4>2
        <5>2. ASSUME NEW k \in DOMAIN pending, pending[k].call = a, ~pending[k].fwd
              PROVE  FALSE
          <6>1. pending[k].try <= h.try /\ pending[k] \in InPlay
            BY <1>5, <2>4, <4>0, <4>2, <5>2 DEF Loop, InPlay
          <6>2. a # NoCall
            BY <4>0, CallFacts
          <6>3. log[j].try < pending[k].try
            BY <5>1, <5>2, <6>2 DEF InOrder, Ordered
          <6> QED BY <2>4, <5>1, <6>1, <6>3
        <5>3. \A k \in handlers' : k.call = a => ~Fresh(k)
          BY <2>5, <4>0, <4>2
        <5>4. Settled(a)'
          BY <1>2, <5>1, <5>2, <5>3 DEF Settled, Fresh
        <5> QED BY <4>1, <5>4 DEF Settled
      <4>3. CASE d # c
        <5>1. Settled(a) /\ a # NoCall
          BY <2>0, <3>3, <4>0, <4>3, CallFacts DEF Answered
        <5>2. Settled(a)'
          BY <3>1, <5>1
        <5> QED BY <4>1, <5>2 DEF Settled
      <4> QED BY <4>2, <4>3
    <3> QED BY <3>2, <3>3 DEF Answered
  <2>8. AckedCommitted' /\ SessionOrder'
    BY <1>2 DEF AckedCommitted, SessionOrder, Follows
  <2> QED BY <2>1, <2>2, <2>3, <2>6, <2>7, <2>8
<1> QED BY <1>1, <1>4, <1>5, ReplyRun

\* No entry is of a later call than the one its client is making.
LEMMA NoLater ==
  ASSUME KVType, Named, NEW c \in Clients, NEW m \in DOMAIN log
  PROVE  ~Follows(log[m].call, Call(c))
<1> SUFFICES ASSUME Follows(log[m].call, Call(c)) PROVE FALSE
  OBVIOUS
<1>1. PICK b : b = log[m].call
  OBVIOUS
<1>2. b # NoCall /\ c = b[1] /\ Len(asked[c]) < b[2]
  BY <1>1, CallFacts DEF Follows
<1>3. Describes(log[m])
  BY DEF Named, InPlay
<1>4. Asked(b)
  BY <1>1, <1>2, <1>3 DEF Describes, Made
<1>5. b[2] \in 1 .. Len(asked[c]) /\ Len(asked[c]) \in Nat
  BY <1>2, <1>4, CallFacts DEF Asked
<1> QED BY <1>2, <1>5

\* A client goes on by itself: its call ends, with or without an answer, asks
\* for the leader, or goes on to the next attempt.
LEMMA CoreClient ==
  ASSUME KVType, Core, NEW c \in Clients, NEW n \in Runs, run' = [run EXCEPT ![c] = n],
         UNCHANGED <<log, pending, handlers, forwards, asked>>,
         \/ acked' = acked
         \/ acked' = acked \cup {Call(c)} /\ run[c].pc = "got" /\ run[c].rc = "OK"
              /\ n.pc = "idle",
         \/ n.pc = "idle"
         \/ run[c].pc \in {"got", "ask"} /\ n.pc = "ask" /\ n.i = run[c].i
         \/ run[c].pc \in {"got", "ask"} /\ n.pc = "send" /\ n.i = run[c].i + 1
  PROVE  Core'
<1> USE DEF Core
<1>0. /\ InPlay' = InPlay
      /\ run'[c] = n /\ \A d \in Clients : d # c => run'[d] = run[d]
      /\ run[c].i \in Nat
  BY DEF InPlay, KVType, ClientType, Runs
<1>1. run[c].pc \in {"got", "ask"} => InCall(c)
  BY DEF InCall
<1>2. Named'
  <2>1. \A x \in handlers' \cup forwards' : Made(x)
    BY DEF Named
  <2>2. \A a \in acked' : a \in acked \/ Asked(a)
    BY <1>1 DEF Loop
  <2> QED BY <1>0, <2>1, <2>2, NamedKept
<1>3. InOrder'
  BY DEF InOrder, Ordered
<1>4. Single'
  BY <1>0, SingleKept
<1>5. Loop'
  <2>1. \A d \in Clients : Call(d)' = Call(d) /\ Asked(Call(d))' = Asked(Call(d))
    BY DEF Call, Asked
  <2>2. \A x \in handlers \cup forwards \cup InPlay : x.try \in Nat
    BY InPlayType DEF KVType, ServerType, HandlerType, ForwardType, EntryType
  <2>3. ASSUME NEW d \in Clients, InCall(d)'
        PROVE  /\ Asked(Call(d)) /\ Call(d) \notin acked'
               /\ \A x \in handlers \cup forwards \cup InPlay : x.call = Call(d) =>
                    x.try <= run'[d].i /\ (run'[d].pc = "send" => x.try # run'[d].i)
               /\ run'[d].pc # "rpc" =>
                    \A k \in handlers : k.call = Call(d) => ~Fresh(k)
    <3>1. CASE d = c
      <4>1. /\ run[c].pc \in {"got", "ask"} /\ InCall(c) /\ acked' = acked
            /\ \/ n.pc = "ask" /\ n.i = run[c].i
               \/ n.pc = "send" /\ n.i = run[c].i + 1
        BY <1>0, <1>1, <2>3, <3>1 DEF InCall
      <4>2. Asked(Call(d)) /\ Call(d) \notin acked'
        BY <3>1, <4>1 DEF Loop
      <4>3. ASSUME NEW x \in handlers \cup forwards \cup InPlay, x.call = Call(d)
            PROVE  x.try <= run'[d].i /\ (run'[d].pc = "send" => x.try # run'[d].i)
        <5>1. x.try <= run[c].i /\ x.try \in Nat
          BY <2>2, <3>1, <4>1, <4>3 DEF Loop
        <5> QED BY <1>0, <3>1, <4>1, <5>1
      <4>4. \A k \in handlers : k.call = Call(d) => ~Fresh(k)
        BY <3>1, <4>1 DEF Loop
      <4> QED BY <4>2, <4>3, <4>4
    <3>2. CASE d # c
      <4>1. InCall(d) /\ run'[d] = run[d]
        BY <1>0, <2>3, <3>2 DEF InCall
      <4>2. Call(d) \notin acked'
        BY <3>2, <4>1, CallFacts DEF Loop
      <4> QED BY <4>1, <4>2 DEF Loop
    <3> QED BY <3>1, <3>2
  <2>4. \A k : Fresh(k)' = Fresh(k)
    BY DEF Fresh
  <2> QED BY <1>0, <2>1, <2>3, <2>4 DEF Loop
<1>6. Answered'
  <2>1. \A a : Settled(a)' = Settled(a)
    BY DEF Settled, Fresh
  <2>2. \A a \in acked' : Settled(a)
    BY DEF Answered
  <2>3. ASSUME NEW d \in Clients, run'[d].pc = "got", run'[d].rc = "OK"
        PROVE  Settled(Call(d))'
    <3>1. Settled(Call(d)) /\ Call(d)' = Call(d)
      BY <1>0, <2>3 DEF Answered, Call
    <3> QED BY <3>1 DEF Settled, Fresh
  <2> QED BY <2>1, <2>2, <2>3 DEF Answered
<1>7. AckedCommitted'
  <2> SUFFICES ASSUME NEW a \in acked'
               PROVE  \E j \in DOMAIN log : log[j].call = a /\
                        \A m \in DOMAIN log : Follows(log[m].call, a) => j < m
    BY DEF AckedCommitted, Follows
  <2>1. CASE a \in acked
    BY <2>1 DEF AckedCommitted
  <2>2. CASE a = Call(c) /\ run[c].pc = "got" /\ run[c].rc = "OK"
    BY <2>2, NoLater DEF Answered, Settled
  <2> QED BY <2>1, <2>2
<1>8. SessionOrder'
  <2> SUFFICES ASSUME NEW j \in DOMAIN log, NEW m \in DOMAIN log,
                      log[j].call \in acked', ~log[j].fwd,
                      Follows(log[m].call, log[j].call)
               PROVE  j < m
    BY DEF SessionOrder, Follows
  <2>1. CASE log[j].call \in acked
    BY <2>1 DEF SessionOrder
  <2>2. CASE log[j].call = Call(c)
    BY <2>2, NoLater
  <2> QED BY <2>1, <2>2
<1> QED BY <1>2, <1>3, <1>4, <1>5, <1>6, <1>7, <1>8

\* An attempt goes out: it is the only one of its call that no server has.
LEMMA CoreSend ==
  ASSUME KVType, Core, NEW c \in Clients, Send(c)
  PROVE  Core'
<1> USE DEF Core
<1>1. PICK n \in Runs : n.pc = "rpc" /\ n.i = run[c].i /\ run' = [run EXCEPT ![c] = n]
  BY SendFacts
<1>2. run[c].pc = "send" /\ UNCHANGED <<log, pending, forwards, asked, acked>>
  BY SendFacts DEF raftVars
<1>3. /\ InPlay' = InPlay /\ InCall(c)
      /\ run'[c] = n /\ \A d \in Clients : d # c => run'[d] = run[d]
  BY <1>1, <1>2 DEF InPlay, KVType, ClientType, InCall
<1>4. \A k \in handlers' : k \in handlers \/
        (k.call = Call(c) /\ k.try = run[c].i /\ Fresh(k))
  BY SendFacts
<1>5. ASSUME NEW x \in handlers \cup forwards \cup InPlay, x.call = Call(c)
      PROVE  x.try < run[c].i
  <2>1. x.try \in Nat /\ run[c].i \in Nat
    BY InPlayType
    DEF KVType, ServerType, ClientType, HandlerType, ForwardType, EntryType, Runs
  <2>2. x.try <= run[c].i /\ x.try # run[c].i
    BY <1>2, <1>3, <1>5 DEF Loop
  <2> QED BY <2>1, <2>2
<1>6. \A k \in handlers : k.call = Call(c) => ~Fresh(k)
  BY <1>2, <1>3 DEF Loop
<1>7. Named'
  <2>1. Asked(Call(c)) /\ run[c].i < NumRetries
    BY <1>3 DEF Loop, KVType, ClientType
  <2>2. \A x \in handlers' \cup forwards' : Made(x)
    BY <1>2, <1>4, <2>1 DEF Named, Made
  <2> QED BY <1>2, <1>3, <2>2, NamedKept
<1>8. InOrder'
  BY <1>2 DEF InOrder, Ordered
<1>9. Single'
  <2>1. CASE handlers' = handlers
    BY <1>2, <1>3, <2>1, SingleKept
  <2>2. ASSUME NEW h \in HandlerType, Fresh(h), h.call = Call(c), h.try = run[c].i,
               handlers' = handlers \cup {h}
        PROVE  Single'
    <3>1. ASSUME NEW k \in handlers', Fresh(k)
          PROVE  /\ \A g \in handlers' : g.call = k.call /\ g # k => g.try < k.try
                 /\ \A x \in forwards' \cup InPlay' : x.call = k.call => x.try < k.try
      <4>1. CASE k = h
        BY <1>2, <1>3, <1>5, <2>2, <4>1
      <4>2. CASE k \in handlers
        <5>1. k.call # Call(c)
          BY <1>6, <3>1, <4>2
        <5> QED BY <1>2, <1>3, <2>2, <3>1, <4>2, <5>1 DEF Single
      <4> QED BY <2>2, <4>1, <4>2
    <3>2. /\ \A r, q \in forwards' : r.call = q.call /\ r.try = q.try => r = q
          /\ \A r \in forwards', e \in InPlay' : ~(r.call = e.call /\ r.try = e.try)
      BY <1>2, <1>3 DEF Single
    <3>3. \A k : Fresh(k)' = Fresh(k)
      BY DEF Fresh
    <3> QED BY <3>1, <3>2, <3>3 DEF Single
  <2> QED BY <2>1, <2>2, SendFacts
<1>10. Loop'
  <2>1. \A d \in Clients : Call(d)' = Call(d) /\ Asked(Call(d))' = Asked(Call(d))
    BY <1>2 DEF Call, Asked
  <2>2. ASSUME NEW d \in Clients, InCall(d)'
        PROVE  /\ Asked(Call(d)) /\ Call(d) \notin acked
               /\ \A x \in handlers' \cup forwards \cup InPlay : x.call = Call(d) =>
                    x.try <= run'[d].i /\ (run'[d].pc = "send" => x.try # run'[d].i)
               /\ run'[d].pc # "rpc" =>
                    \A k \in handlers' : k.call = Call(d) => ~Fresh(k)
    <3>1. CASE d = c
      <4>0. run[c].i \in Nat
        BY DEF KVType, ClientType, Runs
      <4>1. \A x \in handlers' \cup forwards \cup InPlay : x.call = Call(c) => x.try <= run[c].i
        <5> SUFFICES ASSUME NEW x \in handlers' \cup forwards \cup InPlay, x.call = Call(c)
                     PROVE  x.try <= run[c].i
          OBVIOUS
        <5>1. CASE x \in handlers \cup forwards \cup InPlay
          BY <1>3, <5>1 DEF Loop
        <5>2. CASE x.try = run[c].i
          BY <4>0, <5>2
        <5> QED BY <1>4, <5>1, <5>2
      <4> QED BY <1>1, <1>3, <3>1, <4>1 DEF Loop
    <3>2. CASE d # c
      <4>1. InCall(d) /\ run'[d] = run[d] /\ Call(d) # Call(c)
        BY <1>3, <2>2, <3>2, CallFacts DEF InCall
      <4> QED BY <1>4, <4>1 DEF Loop
    <3> QED BY <3>1, <3>2
  <2>3. \A k : Fresh(k)' = Fresh(k)
    BY DEF Fresh
  <2> QED BY <1>2, <1>3, <2>1, <2>2, <2>3 DEF Loop
<1>11. Answered'
  <2>1. ASSUME NEW a, a # NoCall, a # Call(c), Settled(a) PROVE Settled(a)'
    BY <1>2, <1>4, <2>1, SettledKept
  <2>2. \A a \in acked' : Settled(a)'
    <3> SUFFICES ASSUME NEW a \in acked PROVE Settled(a)'
      BY <1>2
    <3>1. a # NoCall /\ a # Call(c) /\ Settled(a)
      BY <1>3, ClientAssumption DEF KVType, ClientType, Calls, Answered, Loop
    <3> QED BY <2>1, <3>1
  <2>3. ASSUME NEW d \in Clients, run'[d].pc = "got", run'[d].rc = "OK"
        PROVE  Settled(Call(d))'
    <3>1. PICK a : a = Call(d)
      OBVIOUS
    <3>2. d # c
      BY <1>1, <1>3, <2>3
    <3>3. Settled(a) /\ a # NoCall /\ a # Call(c)
      BY <1>3, <2>3, <3>1, <3>2, CallFacts DEF Answered
    <3>4. Settled(a)' /\ Call(d)' = a
      BY <1>2, <2>1, <3>1, <3>3 DEF Call
    <3> QED BY <3>4 DEF Settled
  <2> QED BY <2>2, <2>3 DEF Answered
<1>12. AckedCommitted' /\ SessionOrder'
  BY <1>2 DEF AckedCommitted, SessionOrder, Follows
<1> QED BY <1>7, <1>8, <1>9, <1>10, <1>11, <1>12

\* A client makes one call more.
LEMMA AskedGrows ==
  ASSUME KVType, NEW c \in Clients, NEW o \in [op : OpTypes, key : Keys],
         asked' = [asked EXCEPT ![c] = Append(asked[c], o)]
  PROVE  /\ \A a : Asked(a) => /\ Asked(a)' /\ a # Call(c)'
                               /\ asked'[a[1]][a[2]] = asked[a[1]][a[2]]
         /\ Asked(Call(c))'
         /\ \A d \in Clients : d # c => Call(d)' = Call(d)
<1>1. asked[c] \in Seq([op : OpTypes, key : Keys])
  BY DEF KVType, ClientType
<1>2. PICK s : s = Append(asked[c], o)
  OBVIOUS
<1>3. /\ Len(asked[c]) \in Nat /\ Len(s) = Len(asked[c]) + 1
      /\ \A i \in 1 .. Len(asked[c]) : s[i] = asked[c][i]
  BY <1>1, <1>2, OneMore
<1>4. asked'[c] = s /\ \A d \in Clients : d # c => asked'[d] = asked[d]
  BY <1>2 DEF KVType, ClientType
<1>5. /\ Call(c)' = <<c, Len(asked[c]) + 1>>
      /\ Call(c)'[1] = c /\ Call(c)'[2] = Len(asked[c]) + 1
  BY <1>3, <1>4 DEF Call
<1>6. ASSUME NEW a, Asked(a)
      PROVE  Asked(a)' /\ a # Call(c)' /\ asked'[a[1]][a[2]] = asked[a[1]][a[2]]
  <2>1. a \in Calls /\ a[1] \in Clients /\ a[2] \in 1 .. Len(asked[a[1]])
    BY <1>6 DEF Asked, Calls
  <2>2. CASE a[1] = c
    <3>1. a[2] \in 1 .. Len(s) /\ a[2] # Len(asked[c]) + 1
      BY <1>3, <2>1, <2>2
    <3> QED BY <1>3, <1>4, <1>5, <2>1, <2>2, <3>1 DEF Asked
  <2>3. CASE a[1] # c
    BY <1>4, <1>5, <2>1, <2>3 DEF Asked
  <2> QED BY <2>2, <2>3
<1>7. Asked(Call(c))'
  <2>1. <<c, Len(asked[c]) + 1>> \in Calls
    BY <1>3 DEF Calls
  <2>2. Len(asked[c]) + 1 \in 1 .. Len(s)
    BY <1>3
  <2> QED BY <1>4, <1>5, <2>1, <2>2 DEF Asked
<1>8. \A d \in Clients : d # c => Call(d)' = Call(d)
  BY <1>4 DEF Call
<1> QED BY <1>6, <1>7, <1>8

\* A call begins: nothing of it is anywhere yet.
LEMMA CoreBegin ==
  ASSUME KVType, Core, NEW c \in Clients, NEW op \in OpTypes, NEW key \in Keys,
         Begin(c, op, key)
  PROVE  Core'
<1> USE DEF Core
<1>1. PICK o \in [op : OpTypes, key : Keys] :
        asked' = [asked EXCEPT ![c] = Append(asked[c], o)]
  BY BeginFacts
<1>2. /\ run[c].pc = "idle"
      /\ UNCHANGED <<log, pending, handlers, forwards, acked>>
  BY BeginFacts DEF raftVars, srvVars
<1>3. InPlay' = InPlay
  BY <1>2 DEF InPlay
<1>4. /\ \A a : Asked(a) => /\ Asked(a)' /\ a # Call(c)'
                            /\ asked'[a[1]][a[2]] = asked[a[1]][a[2]]
      /\ Asked(Call(c))'
      /\ \A d \in Clients : d # c => Call(d)' = Call(d)
  BY <1>1, AskedGrows
<1>5. \A x : Made(x) => Made(x)' /\ x.call # Call(c)'
  BY <1>4 DEF Made
<1>6. Named'
  <2>1. \A e : Describes(e) => Describes(e)'
    BY <1>4, <1>5 DEF Describes, Made
  <2> QED BY <1>2, <1>3, <1>4, <1>5, <2>1 DEF Named
<1>7. InOrder' /\ Single'
  BY <1>2, <1>3 DEF InOrder, Ordered, Single, Fresh
<1>8. \A d \in Clients : d # c => run'[d] = run[d]
  BY BeginFacts DEF KVType, ClientType
<1>9. run'[c].pc \in {"idle", "send"}
  BY <1>2, BeginFacts DEF KVType, ClientType
<1>10. Loop'
  <2>1. ASSUME NEW d \in Clients, InCall(d)'
        PROVE  /\ Asked(Call(d))' /\ Call(d)' \notin acked
               /\ \A x \in handlers \cup forwards \cup InPlay : x.call = Call(d)' =>
                    x.try <= run'[d].i /\ (run'[d].pc = "send" => x.try # run'[d].i)
               /\ run'[d].pc # "rpc" =>
                    \A k \in handlers : k.call = Call(d)' => ~Fresh(k)
    <3>1. CASE d = c
      <4>0. PICK a : a = Call(c)'
        OBVIOUS
      <4>1. a \notin acked
        BY <1>4, <4>0 DEF Named
      <4>2. \A x \in handlers \cup forwards : x.call # a
        BY <1>5, <4>0 DEF Named
      <4>3. \A x \in InPlay : x.call # a
        <5>1. a # NoCall
          BY <1>4, <4>0, ClientAssumption DEF Asked, Calls
        <5> QED BY <1>5, <4>0, <5>1 DEF Named, Describes
      <4> QED BY <1>4, <3>1, <4>0, <4>1, <4>2, <4>3
    <3>2. CASE d # c
      <4>1. InCall(d) /\ run'[d] = run[d] /\ Call(d)' = Call(d)
        BY <1>4, <1>8, <2>1, <3>2 DEF InCall
      <4>2. Asked(Call(d))'
        <5>1. PICK a : a = Call(d) /\ Asked(a)
          BY <4>1 DEF Loop
        <5>2. Asked(a)'
          BY <1>4, <5>1
        <5> QED BY <4>1, <5>1, <5>2 DEF Asked
      <4> QED BY <4>1, <4>2 DEF Loop
    <3> QED BY <3>1, <3>2
  <2>2. \A k : Fresh(k)' = Fresh(k)
    BY DEF Fresh
  <2> QED BY <1>2, <1>3, <2>1, <2>2 DEF Loop
<1>11. Answered'
  <2>1. \A a : Settled(a)' = Settled(a)
    BY <1>2 DEF Settled, Fresh
  <2>2. \A a \in acked' : Settled(a)'
    BY <1>2, <2>1 DEF Answered
  <2>3. ASSUME NEW d \in Clients, run'[d].pc = "got", run'[d].rc = "OK"
        PROVE  Settled(Call(d))'
    <3>1. Settled(Call(d)) /\ Call(d)' = Call(d)
      BY <1>4, <1>8, <1>9, <2>3 DEF Answered
    <3> QED BY <1>2, <3>1 DEF Settled, Fresh
  <2> QED BY <2>2, <2>3 DEF Answered
<1>12. AckedCommitted' /\ SessionOrder'
  BY <1>2 DEF AckedCommitted, SessionOrder, Follows
<1> QED BY <1>6, <1>7, <1>10, <1>11, <1>12

\* Every step keeps the core of the invariant.
LEMMA CoreStep ==
  ASSUME KVType, Core, Next PROVE Core'
<1>1. ASSUME RaftStep, UNCHANGED <<smVars, srvVars, clientVars>> PROVE Core'
  <2>1. ASSUME NEW l \in Servers, NEW s \in Servers, Heartbeat(l, s) PROVE Core'
    <3>1. UNCHANGED <<log, pending, handlers, forwards, run, asked, acked>>
      BY <1>1, <2>1 DEF Heartbeat, srvVars, clientVars
    <3> QED BY <3>1, CoreQuiet
  <2>2. ASSUME NEW s \in Servers, Expire(s) PROVE Core'
    <3>1. UNCHANGED <<log, pending, handlers, forwards, run, asked, acked>>
      BY <1>1, <2>2 DEF Expire, srvVars, clientVars
    <3> QED BY <3>1, CoreQuiet
  <2> QED BY <1>1, <2>1, <2>2, CoreElect, CoreDecide DEF RaftStep
<1>2. ASSUME NEW s \in Servers, commit(s) \/ ServerCrash(s) PROVE Core'
  <2>1. /\ UNCHANGED <<log, pending, forwards, run, asked, acked>>
        /\ handlers' \subseteq handlers
    BY <1>2 DEF commit, ServerCrash, Crash, raftVars, srvVars, clientVars
  <2> QED BY <2>1, CoreQuiet
<1>3. ASSUME NEW h \in handlers, Handler(h) PROVE Core'
  BY <1>3, CoreAppendLog, CoreForward, CoreReply DEF Handler
<1>4. ASSUME NEW c \in Clients, Connect(c) PROVE Core'
  <2>1. /\ run' = [run EXCEPT ![c] = Idle] /\ Idle \in Runs /\ Idle.pc = "idle"
        /\ UNCHANGED <<log, pending, handlers, forwards, asked, acked>>
    BY <1>4, RunTypes DEF Connect, raftVars, srvVars
  <2> QED BY <2>1, CoreClient
<1>5. ASSUME NEW c \in Clients, LoopStep(c) PROVE Core'
  <2>1. PICK n \in Runs :
          /\ run' = [run EXCEPT ![c] = n]
          /\ \/ n = Idle
             \/ run[c].pc = "ask" /\ n.pc = "ask" /\ n.i = run[c].i
             \/ run[c].pc = "ask" /\ n.pc = "send" /\ n.i = run[c].i + 1
    BY <1>5, LoopFacts
  <2>2. UNCHANGED <<log, pending, handlers, forwards, asked, acked>> /\ Idle.pc = "idle"
    BY <1>5, LoopFacts, RunTypes DEF raftVars, srvVars
  <2> QED BY <2>1, <2>2, CoreClient
<1>6. ASSUME NEW c \in Clients, HandleResult(c) PROVE Core'
  <2>1. PICK n \in Runs :
          /\ run' = [run EXCEPT ![c] = n]
          /\ \/ n = Idle
             \/ run[c].rc # "OK" /\ n.pc = "ask" /\ n.i = run[c].i
             \/ run[c].rc # "OK" /\ n.pc = "send" /\ n.i = run[c].i + 1
    BY <1>6, ResultFacts
  <2>2. /\ UNCHANGED <<log, pending, handlers, forwards, asked>> /\ Idle.pc = "idle"
        /\ run[c].pc = "got"
        /\ acked' = IF run[c].rc = "OK" THEN acked \cup {Call(c)} ELSE acked
    BY <1>6, ResultFacts, RunTypes DEF raftVars, srvVars
  <2> QED BY <2>1, <2>2, CoreClient
<1>7. ASSUME Finished PROVE Core'
  <2>1. UNCHANGED <<log, pending, handlers, forwards, run, asked, acked>>
    BY <1>7 DEF Finished, vars, raftVars, srvVars, clientVars
  <2> QED BY <2>1, CoreQuiet
<1> QED BY <1>1, <1>2, <1>3, <1>4, <1>5, <1>6, <1>7, CoreArrives, CoreSend, CoreBegin
        DEF Next, ClientStep, LoopStep
-----------------------------------------------------------------------------
\* What a database has taken stays taken: the log grows, and a failure is that
\* of an entry which no database had before.
LEMMA TookKept ==
  ASSUME KVType, NEW a, Took(a),
         \A j \in 1 .. Len(log) : log'[j] = log[j],
         UNCHANGED <<last_committed_idx_, failed>> \/ \E s \in Servers : commit(s)
  PROVE  Took(a)'
<1>s. PICK s \in Servers : \E j \in 1 .. last_committed_idx_[s] :
                             log[j].call = a /\ <<s, j>> \notin failed
  BY DEF Took
<1>1. PICK j \in 1 .. last_committed_idx_[s] : log[j].call = a /\ <<s, j>> \notin failed
  BY <1>s
<1>2. last_committed_idx_[s] \in Nat /\ last_committed_idx_[s] <= Len(log) /\ Len(log) \in Nat
  BY LenProperties DEF KVType, RaftType, ServerType
<1>3. j \in 1 .. Len(log) /\ log'[j].call = a
  BY <1>1, <1>2
<1>4. j \in 1 .. last_committed_idx_'[s] /\ <<s, j>> \notin failed'
  <2>1. CASE UNCHANGED <<last_committed_idx_, failed>>
    BY <1>1, <2>1
  <2>2. ASSUME NEW u \in Servers, commit(u)
        PROVE  j \in 1 .. last_committed_idx_'[s] /\ <<s, j>> \notin failed'
    <3>1. /\ last_committed_idx_' = [last_committed_idx_ EXCEPT ![u] = last_committed_idx_[u] + 1]
          /\ \/ failed' = failed
             \/ failed' = failed \cup {<<u, last_committed_idx_[u] + 1>>}
      BY <2>2 DEF commit
    <3>2. last_committed_idx_[s] <= last_committed_idx_'[s] /\ last_committed_idx_'[s] \in Nat
      BY <1>2, <3>1 DEF KVType, ServerType
    <3>3. <<s, j>> # <<u, last_committed_idx_[u] + 1>>
      BY <1>1, <1>2
    <3> QED BY <1>1, <1>2, <3>1, <3>2, <3>3
  <2> QED BY <2>1, <2>2
<1> QED BY <1>3, <1>4 DEF Took

\* What keeps Success: no success out of nowhere.
LEMMA SuccessKept ==
  ASSUME Success, \A a : Took(a) => Took(a)',
         \A a \in succeeded' : a \in succeeded \/ Took(a),
         \A c \in Clients : GotSuccess(c)' => Took(Call(c)) /\ Call(c)' = Call(c)
  PROVE  Success'
  BY DEF Success, Took

\* Every step keeps what the successful calls are known to have done.
LEMMA SuccessStep ==
  ASSUME KVType, Named, Success, Next PROVE Success'
<1>1. ASSUME UNCHANGED <<run, asked, succeeded>>,
             \A j \in 1 .. Len(log) : log'[j] = log[j],
             UNCHANGED <<last_committed_idx_, failed>> \/ \E s \in Servers : commit(s)
      PROVE  Success'
  <2>1. \A a : Took(a) => Took(a)'
    BY <1>1, TookKept
  <2>2. \A c \in Clients : GotSuccess(c)' => Took(Call(c)) /\ Call(c)' = Call(c)
    BY <1>1 DEF GotSuccess, Call, Success
  <2> QED BY <1>1, <2>1, <2>2, SuccessKept
<1>2. ASSUME NEW c \in Clients, NEW n \in Runs, run' = [run EXCEPT ![c] = n],
             UNCHANGED <<log, last_committed_idx_, failed>>,
             \A a \in succeeded' : a \in succeeded \/ Took(a),
             \A d \in Clients : d # c => Call(d)' = Call(d),
             n.pc = "got" /\ n.rc = "OK" /\ n.spl = 0 => Took(Call(c)) /\ Call(c)' = Call(c)
      PROVE  Success'
  <2>1. \A a : Took(a) => Took(a)'
    BY <1>2, TookKept
  <2>2. run'[c] = n /\ \A d \in Clients : d # c => run'[d] = run[d]
    BY <1>2 DEF KVType, ClientType
  <2>3. ASSUME NEW d \in Clients, GotSuccess(d)'
        PROVE  Took(Call(d)) /\ Call(d)' = Call(d)
    <3>1. CASE d = c
      BY <1>2, <2>2, <2>3, <3>1 DEF GotSuccess
    <3>2. CASE d # c
      BY <1>2, <2>2, <2>3, <3>2 DEF GotSuccess, Success
    <3> QED BY <3>1, <3>2
  <2> QED BY <1>2, <2>1, <2>3, SuccessKept
<1>3. ASSUME RaftStep, UNCHANGED <<smVars, srvVars, clientVars>> PROVE Success'
  <2>1. \A j \in 1 .. Len(log) : log'[j] = log[j]
    <3>1. CASE Decide
      BY <3>1, Decided DEF KVType
    <3>2. CASE ~Decide
      BY <1>3, <3>2 DEF RaftStep, Elect, Heartbeat, Expire
    <3> QED BY <3>1, <3>2
  <2> QED BY <1>1, <1>3, <2>1 DEF smVars, clientVars
<1>4. ASSUME NEW s \in Servers, commit(s) \/ ServerCrash(s) PROVE Success'
  <2>1. CASE commit(s)
    <3>1. UNCHANGED <<log, run, asked, succeeded>>
      BY <2>1 DEF commit, raftVars, clientVars
    <3> QED BY <1>1, <2>1, <3>1
  <2>2. CASE ServerCrash(s)
    BY <1>1, <2>2 DEF ServerCrash, Crash, smVars, clientVars
  <2> QED BY <1>4, <2>1, <2>2
<1>5. ASSUME NEW h \in handlers, Handler(h) PROVE Success'
  <2>1. CASE AppendLog(h)
    BY <1>1, <2>1 DEF AppendLog, Accept, smVars, clientVars
  <2>2. CASE Forward(h)
    BY <1>1, <2>2 DEF Forward, raftVars, smVars, clientVars
  <2>3. CASE AppendRefused(h) \/ AppendDone(h) \/ AppendCancelled(h) \/ AppendTimeout(h)
    <3>1. PICK rc \in {"OK", "NOT_LEADER", "CANCELLED", "OTHER"}, spl \in {0, 1} :
            Answer(h, rc, spl) /\ (rc = "OK" /\ spl = 0 => Took(h.call))
      BY <2>3, ReplyFacts
    <3>2. /\ UNCHANGED <<log, last_committed_idx_, failed, asked, succeeded>>
          /\ \A d \in Clients : Call(d)' = Call(d)
      BY <3>1 DEF Answer, raftVars, smVars, Call
    <3>3. CASE run' = run
      BY <1>1, <3>2, <3>3
    <3>4. ASSUME NEW c \in Clients, NEW n \in Runs, h.call = Call(c), n.rc = rc,
                 n.spl = spl, run' = [run EXCEPT ![c] = n]
          PROVE  Success'
      BY <1>2, <3>1, <3>2, <3>4
    <3> QED BY <3>1, <3>3, <3>4, ReplyRun
  <2> QED BY <1>5, <2>1, <2>2, <2>3 DEF Handler
<1>6. ASSUME NEW r \in forwards, ForwardArrives(r) PROVE Success'
  BY <1>1, <1>6 DEF ForwardArrives, Accept, raftVars, smVars, clientVars
<1>7. ASSUME NEW c \in Clients, NEW n \in Runs, run' = [run EXCEPT ![c] = n], n.pc # "got",
             UNCHANGED <<log, smVars, asked>>,
             \A a \in succeeded' : a \in succeeded \/ Took(a)
      PROVE  Success'
  BY <1>2, <1>7 DEF smVars, Call
<1>8. ASSUME NEW c \in Clients, Connect(c) PROVE Success'
  <2>1. /\ run' = [run EXCEPT ![c] = Idle] /\ Idle \in Runs /\ Idle.pc = "idle"
        /\ UNCHANGED <<log, smVars, asked, succeeded>>
    BY <1>8, RunTypes DEF Connect, raftVars
  <2> QED BY <1>7, <2>1
<1>9. ASSUME NEW c \in Clients, LoopStep(c) PROVE Success'
  <2>1. PICK n \in Runs : run' = [run EXCEPT ![c] = n] /\ n.pc # "got"
    <3>1. PICK n \in Runs : run' = [run EXCEPT ![c] = n] /\ (n = Idle \/ n.pc \in {"ask", "send"})
      BY <1>9, LoopFacts
    <3> QED BY <3>1, RunTypes
  <2>2. UNCHANGED <<log, smVars, asked, succeeded>>
    BY <1>9 DEF LoopStep, RpcFails, LeaderFound, NoLiveLeader, AskFails, raftVars
  <2> QED BY <1>7, <2>1, <2>2
<1>10. ASSUME NEW c \in Clients, HandleResult(c) PROVE Success'
  <2>1. PICK n \in Runs : run' = [run EXCEPT ![c] = n] /\ n.pc # "got"
    <3>1. PICK n \in Runs : run' = [run EXCEPT ![c] = n] /\ (n = Idle \/ n.pc \in {"ask", "send"})
      BY <1>10, ResultFacts
    <3> QED BY <3>1, RunTypes
  <2>2. /\ UNCHANGED <<log, smVars, asked>> /\ run[c].pc = "got"
        /\ succeeded' = IF run[c].rc = "OK" /\ run[c].spl = 0
                        THEN succeeded \cup {Call(c)} ELSE succeeded
    BY <1>10 DEF HandleResult, raftVars
  <2>3. \A a \in succeeded' : a \in succeeded \/ Took(a)
    BY <2>2 DEF Success, GotSuccess
  <2> QED BY <1>7, <2>1, <2>2, <2>3
<1>11. ASSUME NEW c \in Clients, Send(c) PROVE Success'
  <2>1. PICK n \in Runs : run' = [run EXCEPT ![c] = n] /\ n.pc # "got"
    BY <1>11, SendFacts
  <2>2. UNCHANGED <<log, smVars, asked, succeeded>>
    BY <1>11 DEF Send, raftVars
  <2> QED BY <1>7, <2>1, <2>2
<1>12. ASSUME NEW c \in Clients, NEW op \in OpTypes, NEW k \in Keys, Begin(c, op, k)
       PROVE  Success'
  <2>1. PICK n \in Runs : run' = [run EXCEPT ![c] = n] /\ n.pc # "got"
    <3>1. run[c] \in Runs /\ run = [run EXCEPT ![c] = run[c]]
      BY DEF KVType, ClientType
    <3> QED BY <1>12, <3>1, BeginFacts
  <2>2. UNCHANGED <<log, last_committed_idx_, failed, succeeded>>
    BY <1>12 DEF Begin, raftVars, smVars
  <2>3. \A d \in Clients : d # c => Call(d)' = Call(d)
    BY <1>12, BeginFacts DEF KVType, ClientType, Call
  <2> QED BY <1>2, <2>1, <2>2, <2>3
<1>13. ASSUME Finished PROVE Success'
  BY <1>1, <1>13 DEF Finished, vars, raftVars, smVars, clientVars
<1> QED BY <1>3, <1>4, <1>5, <1>6, <1>8, <1>9, <1>10, <1>11, <1>12, <1>13
        DEF Next, ClientStep, LoopStep
-----------------------------------------------------------------------------
\* Outcome and ReplicasAgree with the state as parameters: a are the operations
\* that were asked, l is the log, f are the failures, d are the databases, and c
\* is how far each server has applied the log.
Wrote(a, e) == IF a[e.call[1]][e.call[2]].op = "del" THEN NoValue ELSE e.call

OutcomeOf(a, l, f, n, s, k) ==
  LET on == {j \in 1 .. n : l[j].key = k /\ <<s, j>> \notin f}
      e  == l[CHOOSE j \in on : \A m \in on : m <= j]
  IN IF on = {} \/ a[e.call[1]][e.call[2]].op = "del" THEN NoValue ELSE e.call

AgreeOf(a, l, f, d, c) ==
  \A s \in Servers : d[s] = [k \in Keys |-> OutcomeOf(a, l, f, c[s], s, k)]

\* v is what the first n entries of l leave for key k on server s: what the last
\* of them on k that did not fail wrote.
On(l, f, s, k, m) == l[m].key = k /\ <<s, m>> \notin f

Holds(a, l, f, n, s, k, v) ==
  \/ v = NoValue /\ \A m \in 1 .. n : ~On(l, f, s, k, m)
  \/ \E j \in 1 .. n : /\ On(l, f, s, k, j) /\ v = Wrote(a, l[j])
                       /\ \A m \in 1 .. n : On(l, f, s, k, m) => m <= j

\* Outcome of a prefix of the log is what the prefix holds.
LEMMA OutcomeHolds ==
  ASSUME NEW a, NEW l, NEW f, NEW n \in Nat, NEW s, NEW k, NEW v
  PROVE  v = OutcomeOf(a, l, f, n, s, k) <=> Holds(a, l, f, n, s, k, v)
<1>6. DEFINE on == {j \in 1 .. n : l[j].key = k /\ <<s, j>> \notin f}
             i  == CHOOSE j \in on : \A m \in on : m <= j
             e  == l[i]
<1>7. on \in SUBSET (1 .. n) /\ \A m \in 1 .. n : m \in on <=> On(l, f, s, k, m)
  BY DEF On
<1>8. (\E j \in on : \A m \in on : m <= j) => i \in on /\ \A m \in on : m <= i
  OBVIOUS
<1>9. OutcomeOf(a, l, f, n, s, k) =
        IF on = {} \/ a[e.call[1]][e.call[2]].op = "del" THEN NoValue ELSE e.call
  BY DEF OutcomeOf
<1> HIDE DEF on, i
<1>10. OutcomeOf(a, l, f, n, s, k) = IF on = {} THEN NoValue ELSE Wrote(a, l[i])
  BY <1>9 DEF Wrote
<1>11. CASE on = {}
  <2>1. \A m \in 1 .. n : ~On(l, f, s, k, m)
    BY <1>7, <1>11
  <2> QED BY <1>10, <1>11, <2>1 DEF Holds
<1>12. CASE on # {}
  <2>1. \E j \in on : \A m \in on : m <= j
    BY <1>7, <1>12, GreatestNat
  <2>2. i \in on /\ \A m \in on : m <= i
    BY <1>8, <2>1
  <2>3. /\ i \in 1 .. n /\ On(l, f, s, k, i)
        /\ \A m \in 1 .. n : On(l, f, s, k, m) => m <= i
    BY <1>7, <2>2
  <2>4. \A j \in 1 .. n :
          On(l, f, s, k, j) /\ (\A m \in 1 .. n : On(l, f, s, k, m) => m <= j) => j = i
    BY <2>3
  <2> QED BY <1>10, <1>12, <2>3, <2>4 DEF Holds
<1> QED BY <1>11, <1>12

\* Replicas agree when every database holds what the applied prefix leaves.
LEMMA AgreeMeans ==
  ASSUME NEW a, NEW l, NEW f,
         NEW d \in [Servers -> [Keys -> Calls \cup {NoValue}]],
         NEW c \in [Servers -> Nat]
  PROVE  AgreeOf(a, l, f, d, c) <=>
           \A s \in Servers, k \in Keys : Holds(a, l, f, c[s], s, k, d[s][k])
<1>1. ASSUME NEW s \in Servers
      PROVE  d[s] = [k \in Keys |-> OutcomeOf(a, l, f, c[s], s, k)] <=>
               \A k \in Keys : Holds(a, l, f, c[s], s, k, d[s][k])
  <2>1. c[s] \in Nat /\ d[s] \in [Keys -> Calls \cup {NoValue}]
    OBVIOUS
  <2>2. ASSUME NEW k \in Keys
        PROVE  d[s][k] = OutcomeOf(a, l, f, c[s], s, k) <=>
                 Holds(a, l, f, c[s], s, k, d[s][k])
    BY <2>1, OutcomeHolds
  <2>3. PICK g : g = [k \in Keys |-> OutcomeOf(a, l, f, c[s], s, k)]
    OBVIOUS
  <2>4. d[s] = g <=> \A k \in Keys : d[s][k] = g[k]
    BY <2>1, <2>3
  <2> QED BY <2>2, <2>3, <2>4
<1> QED BY <1>1 DEF AgreeOf

\* The invariant is AgreeOf of the state, before a step and after it.
LEMMA AgreeIs ==
  /\ ReplicasAgree <=> AgreeOf(asked, log, failed, db, last_committed_idx_)
  /\ ReplicasAgree' <=> AgreeOf(asked', log', failed', db', last_committed_idx_')
<1>1. \A s, k : Outcome(s, k) = OutcomeOf(asked, log, failed, last_committed_idx_[s], s, k)
  BY DEF Outcome, OutcomeOf
<1>2. ReplicasAgree <=> AgreeOf(asked, log, failed, db, last_committed_idx_)
  BY <1>1 DEF ReplicasAgree, AgreeOf
<1>3. ReplicasAgree' <=> AgreeOf(asked', log', failed', db', last_committed_idx_')
  BY DEF ReplicasAgree, AgreeOf, Outcome, OutcomeOf
<1> QED BY <1>2, <1>3

\* An entry on a key is a call that was made, and what it writes is told from
\* the operation that was asked.
LEMMA KeyedEntry ==
  ASSUME KVType, Named, NEW j \in DOMAIN log, log[j].key \in Keys
  PROVE  /\ Asked(log[j].call) /\ log[j].op # "CONFIG"
         /\ Wrote(asked, log[j]) = IF log[j].op = "DELETE" THEN NoValue ELSE log[j].call
<1>1. Describes(log[j]) /\ log[j].key # NoCall
  BY ClientAssumption DEF Named, InPlay
<1>2. /\ Made(log[j])
      /\ log[j].op = MakeOp(asked[log[j].call[1]][log[j].call[2]].op)
  BY <1>1 DEF Describes
<1> QED BY <1>2 DEF Made, MakeOp, Wrote

\* A longer log and further calls leave the databases what they have to be.
LEMMA AgreeGrows ==
  ASSUME KVType, KVType', Named, ReplicasAgree, UNCHANGED smVars,
         Len(log) <= Len(log'), \A j \in 1 .. Len(log) : log'[j] = log[j],
         \A a : Asked(a) => asked'[a[1]][a[2]] = asked[a[1]][a[2]]
  PROVE  ReplicasAgree'
<1>1. Len(log) \in Nat /\ DOMAIN log = 1 .. Len(log) /\ log \in Seq(EntryType)
  BY LenProperties DEF KVType, RaftType
<1>2. \A s \in Servers, k \in Keys :
        Holds(asked, log, failed, last_committed_idx_[s], s, k, db[s][k])
  <2>1. AgreeOf(asked, log, failed, db, last_committed_idx_)
    BY AgreeIs
  <2> QED BY <1>1, <2>1, AgreeMeans DEF KVType, ServerType
<1>3. ASSUME NEW s \in Servers, NEW k \in Keys
      PROVE  Holds(asked', log', failed, last_committed_idx_[s], s, k, db[s][k])
  <2>1. PICK n \in Nat : n = last_committed_idx_[s] /\ n <= Len(log)
    BY DEF KVType, ServerType
  <2>2. \A m \in 1 .. n : m \in DOMAIN log /\ log'[m] = log[m]
    BY <1>1, <2>1
  <2>3. ASSUME NEW m \in 1 .. n, log[m].key = k
        PROVE  Wrote(asked', log[m]) = Wrote(asked, log[m])
    BY <2>2, <2>3, KeyedEntry DEF Wrote
  <2>4. Holds(asked, log, failed, n, s, k, db[s][k])
    BY <1>2, <2>1
  <2>5. Holds(asked', log', failed, n, s, k, db[s][k])
    BY <2>2, <2>3, <2>4 DEF Holds, On
  <2> QED BY <2>1, <2>5
<1>4. AgreeOf(asked', log', failed', db', last_committed_idx_')
  <2>1. db' = db /\ last_committed_idx_' = last_committed_idx_ /\ failed' = failed
    BY DEF smVars
  <2>2. \A s \in Servers, k \in Keys :
          Holds(asked', log', failed', last_committed_idx_'[s], s, k, db'[s][k])
    BY <1>3, <2>1
  <2>3. /\ log' \in Seq(EntryType)
        /\ db' \in [Servers -> [Keys -> Calls \cup {NoValue}]]
        /\ last_committed_idx_' \in [Servers -> Nat]
    BY DEF KVType, RaftType, ServerType
  <2> QED BY <2>2, <2>3, AgreeMeans
<1> QED BY <1>4, AgreeIs

\* The commit callback keeps the database what the applied prefix leaves.
LEMMA AgreeCommit ==
  ASSUME KVType, KVType', Named, ReplicasAgree, NEW s \in Servers, commit(s)
  PROVE  ReplicasAgree'
<1>1. Len(log) \in Nat /\ DOMAIN log = 1 .. Len(log) /\ log \in Seq(EntryType)
  BY LenProperties DEF KVType, RaftType
<1>2. \A t \in Servers, k \in Keys :
        Holds(asked, log, failed, last_committed_idx_[t], t, k, db[t][k])
  <2>1. AgreeOf(asked, log, failed, db, last_committed_idx_)
    BY AgreeIs
  <2> QED BY <1>1, <2>1, AgreeMeans DEF KVType, ServerType
<1>3. PICK n \in Nat : n = last_committed_idx_[s] /\ n + 1 <= Len(log)
  BY DEF KVType, ServerType, commit
<1>4. PICK e : e = log[n + 1]
  OBVIOUS
<1>5. /\ \/ db' = [db EXCEPT ![s] = Apply(e, db[s])] /\ failed' = failed
         \/ db' = db /\ failed' = failed \cup {<<s, n + 1>>}
      /\ last_committed_idx_' = [last_committed_idx_ EXCEPT ![s] = n + 1]
      /\ asked' = asked /\ log' = log
  BY <1>3, <1>4 DEF commit, raftVars, clientVars
<1>6. n + 1 \in DOMAIN log /\ Describes(e)
  BY <1>1, <1>3, <1>4 DEF Named, InPlay
<1>7. db[s] \in [Keys -> Calls \cup {NoValue}] /\ <<s, n + 1>> \notin failed
  <2>1. \A f \in failed : f[2] <= last_committed_idx_[f[1]]
    BY DEF KVType, ServerType
  <2>2. <<s, n + 1>> \in failed => n + 1 <= n
    BY <1>3, <2>1
  <2> QED BY <2>2 DEF KVType, ServerType
<1>8. ASSUME NEW k \in Keys PROVE Holds(asked, log, failed', n + 1, s, k, db'[s][k])
  <2>1. \A m \in 1 .. n + 1 : m \in 1 .. n \/ m = n + 1
    OBVIOUS
  <2>2. \A m \in 1 .. n : m \in 1 .. n + 1 /\ m # n + 1
    OBVIOUS
  <2>3. \A m \in 1 .. n : On(log, failed', s, k, m) <=> On(log, failed, s, k, m)
    BY <1>5, <2>2 DEF On
  <2>4. CASE On(log, failed', s, k, n + 1)
    <3>1. e.key = k /\ db' = [db EXCEPT ![s] = Apply(e, db[s])]
      BY <1>4, <1>5, <2>4 DEF On
    <3>2. /\ e.op # "CONFIG"
          /\ Wrote(asked, e) = IF e.op = "DELETE" THEN NoValue ELSE e.call
      BY <1>4, <1>6, <3>1, KeyedEntry
    <3>3. db'[s] = Apply(e, db[s])
      BY <3>1 DEF KVType, ServerType
    <3>4. db'[s][k] = Wrote(asked, e)
      BY <1>7, <3>1, <3>2, <3>3 DEF Apply
    <3>5. n + 1 \in 1 .. n + 1 /\ \A m \in 1 .. n + 1 : m <= n + 1
      OBVIOUS
    <3> QED BY <1>4, <2>4, <3>4, <3>5 DEF Holds
  <2>5. CASE ~On(log, failed', s, k, n + 1)
    <3>1. db'[s][k] = db[s][k]
      <4>1. CASE db' = [db EXCEPT ![s] = Apply(e, db[s])] /\ failed' = failed
        <5>1. e.key # k
          BY <1>4, <1>7, <2>5, <4>1 DEF On
        <5>2. db'[s] = Apply(e, db[s])
          BY <4>1 DEF KVType, ServerType
        <5> QED BY <1>7, <5>1, <5>2 DEF Apply
      <4> QED BY <1>5, <4>1
    <3>2. Holds(asked, log, failed, n, s, k, db[s][k])
      BY <1>2, <1>3
    <3>3. \A m \in 1 .. n + 1 : On(log, failed', s, k, m) => m \in 1 .. n
      BY <2>1, <2>5
    <3> QED BY <2>2, <2>3, <3>1, <3>2, <3>3 DEF Holds
  <2> QED BY <2>4, <2>5
<1>9. \A t \in Servers, k \in Keys :
        Holds(asked', log', failed', last_committed_idx_'[t], t, k, db'[t][k])
  <2>1. last_committed_idx_'[s] = n + 1
    BY <1>5 DEF KVType, ServerType
  <2>2. ASSUME NEW t \in Servers, NEW k \in Keys, t # s
        PROVE  Holds(asked, log, failed', last_committed_idx_'[t], t, k, db'[t][k])
    <3>1. db'[t] = db[t] /\ last_committed_idx_'[t] = last_committed_idx_[t]
      BY <1>5, <2>2 DEF KVType, ServerType
    <3>2. \A m : On(log, failed', t, k, m) <=> On(log, failed, t, k, m)
      BY <1>5, <2>2 DEF On
    <3> QED BY <1>2, <3>1, <3>2 DEF Holds
  <2> QED BY <1>5, <1>8, <2>1, <2>2
<1>10. /\ log' \in Seq(EntryType)
       /\ db' \in [Servers -> [Keys -> Calls \cup {NoValue}]]
       /\ last_committed_idx_' \in [Servers -> Nat]
  BY DEF KVType, RaftType, ServerType
<1>11. AgreeOf(asked', log', failed', db', last_committed_idx_')
  BY <1>9, <1>10, AgreeMeans
<1> QED BY <1>11, AgreeIs

\* Every step keeps the databases what the applied prefixes leave.
LEMMA AgreeStep ==
  ASSUME KVType, KVType', Named, ReplicasAgree, Next PROVE ReplicasAgree'
<1>1. Len(log) \in Nat
  BY LenProperties DEF KVType, RaftType
<1>2. ASSUME UNCHANGED <<smVars, log, asked>> PROVE ReplicasAgree'
  BY <1>1, <1>2, AgreeGrows
<1>3. ASSUME RaftStep, UNCHANGED <<smVars, srvVars, clientVars>> PROVE ReplicasAgree'
  <2>1. ASSUME Decide PROVE ReplicasAgree'
    <3>1. Len(log') = Len(log) + 1 /\ \A j \in 1 .. Len(log) : log'[j] = log[j]
      BY <2>1, Decided DEF KVType
    <3>2. UNCHANGED smVars /\ asked' = asked /\ Len(log) <= Len(log')
      BY <1>1, <1>3, <3>1 DEF clientVars
    <3> QED BY <3>1, <3>2, AgreeGrows
  <2>2. ASSUME ~Decide PROVE ReplicasAgree'
    BY <1>2, <1>3, <2>2 DEF RaftStep, Elect, Heartbeat, Expire, clientVars
  <2> QED BY <2>1, <2>2
<1>4. ASSUME NEW s \in Servers, commit(s) \/ ServerCrash(s) PROVE ReplicasAgree'
  <2>1. CASE commit(s)
    BY <2>1, AgreeCommit
  <2>2. CASE ServerCrash(s)
    BY <1>2, <2>2 DEF ServerCrash, Crash, clientVars
  <2> QED BY <1>4, <2>1, <2>2
<1>5. ASSUME NEW h \in handlers, Handler(h) PROVE ReplicasAgree'
  <2>1. CASE AppendLog(h)
    BY <1>2, <2>1 DEF AppendLog, Accept, clientVars
  <2>2. CASE Forward(h)
    BY <1>2, <2>2 DEF Forward, raftVars, clientVars
  <2>3. CASE AppendRefused(h) \/ AppendDone(h) \/ AppendCancelled(h) \/ AppendTimeout(h)
    <3>1. PICK rc, spl : Answer(h, rc, spl)
      BY <2>3, ReplyFacts
    <3> QED BY <1>2, <3>1 DEF Answer, raftVars
  <2> QED BY <1>5, <2>1, <2>2, <2>3 DEF Handler
<1>6. ASSUME NEW r \in forwards, ForwardArrives(r) PROVE ReplicasAgree'
  BY <1>2, <1>6 DEF ForwardArrives, Accept, raftVars, clientVars
<1>7. ASSUME NEW c \in Clients, Connect(c) \/ ClientStep(c) PROVE ReplicasAgree'
  BY <1>2, <1>7 DEF Connect, ClientStep, Send, RpcFails, HandleResult, LeaderFound,
                    NoLiveLeader, AskFails, raftVars
<1>8. ASSUME NEW c \in Clients, NEW op \in OpTypes, NEW k \in Keys, Begin(c, op, k)
      PROVE  ReplicasAgree'
  <2>1. PICK o \in [op : OpTypes, key : Keys] :
          asked' = [asked EXCEPT ![c] = Append(asked[c], o)]
    BY <1>8, BeginFacts
  <2>2. UNCHANGED smVars /\ log' = log
    BY <1>8 DEF Begin, raftVars
  <2>3. \A a : Asked(a) => asked'[a[1]][a[2]] = asked[a[1]][a[2]]
    BY <2>1, AskedGrows
  <2> QED BY <1>1, <2>2, <2>3, AgreeGrows
<1>9. ASSUME Finished PROVE ReplicasAgree'
  BY <1>2, <1>9 DEF Finished, vars, raftVars, clientVars
<1> QED BY <1>3, <1>4, <1>5, <1>6, <1>7, <1>8, <1>9 DEF Next
-----------------------------------------------------------------------------
\* The invariant holds when the servers and the clients start.
LEMMA KVInit ==
  ASSUME Init PROVE KVInv
<1>1. /\ log = <<>> /\ pending = <<>> /\ handlers = {} /\ forwards = {} /\ acked = {}
      /\ asked = [c \in Clients |-> <<>>]
      /\ run = [c \in Clients |-> [Idle EXCEPT !.pc = "new"]]
      /\ last_committed_idx_ = [s \in Servers |-> 0] /\ failed = {} /\ succeeded = {}
      /\ db = [s \in Servers |-> [k \in Keys |-> NoValue]]
  BY DEF Init, RaftInit
<1>2. /\ log \in Seq(EntryType) /\ pending \in Seq(EntryType)
      /\ Len(log) = 0 /\ DOMAIN log = {} /\ DOMAIN pending = {} /\ InPlay = {}
  <2>1. log \in Seq(EntryType) /\ pending \in Seq(EntryType)
    BY <1>1, EmptySeq
  <2>2. Len(log) = 0 /\ DOMAIN log = {} /\ DOMAIN pending = {}
    BY <1>1, <2>1, EmptySeq
  <2> QED BY <2>1, <2>2 DEF InPlay
<1>3. PICK n : n = [Idle EXCEPT !.pc = "new"]
  OBVIOUS
<1>4. n \in Runs /\ n.pc = "new" /\ n.i = 0
  <2>1. n = [pc |-> "new", cl |-> NoLeader, i |-> 0, rc |-> "OTHER", spl |-> 0,
             srv |-> NoLeader, tries |-> 0]
    BY <1>3 DEF Idle
  <2> QED BY <2>1 DEF Runs
<1>5. \A c \in Clients : run[c] = n
  BY <1>1, <1>3
<1>6. RaftType
  BY <1>2 DEF RaftType, Init, RaftInit
<1>7. ServerType
  BY <1>1, <1>2 DEF ServerType
<1>8. ClientType
  <2>1. run \in [Clients -> Runs] /\ \A c \in Clients : run[c].i < NumRetries
    <3>1. run = [c \in Clients |-> n]
      BY <1>1, <1>3
    <3>2. n.i < NumRetries
      BY <1>4, ClientAssumption
    <3> QED BY <1>4, <3>1, <3>2
  <2>2. asked \in [Clients -> Seq([op : OpTypes, key : Keys])]
    BY <1>1, EmptySeq
  <2> QED BY <1>1, <2>1, <2>2 DEF ClientType, Init
<1>9. Core
  <2>1. Named /\ InOrder /\ Single
    BY <1>1, <1>2 DEF Named, InOrder, Single
  <2>2. Loop /\ Answered
    BY <1>1, <1>4, <1>5 DEF Loop, InCall, Answered
  <2>3. AckedCommitted /\ SessionOrder
    BY <1>1, <1>2 DEF AckedCommitted, SessionOrder
  <2> QED BY <2>1, <2>2, <2>3 DEF Core
<1>10. ReplicasAgree
  <2>1. \A s \in Servers, k \in Keys :
          Holds(asked, log, failed, last_committed_idx_[s], s, k, db[s][k])
    BY <1>1 DEF Holds
  <2>2. AgreeOf(asked, log, failed, db, last_committed_idx_)
    BY <1>2, <1>7, <2>1, AgreeMeans DEF ServerType
  <2> QED BY <2>2, AgreeIs
<1>11. Success
  BY <1>1, <1>4, <1>5 DEF Success, GotSuccess
<1> QED BY <1>6, <1>7, <1>8, <1>9, <1>10, <1>11 DEF KVInv, KVType

\* A step that changes nothing keeps the invariant.
LEMMA KVStutter ==
  ASSUME KVInv, UNCHANGED vars PROVE KVInv'
<1>1. UNCHANGED <<up, term, leads, view, expired, log, pending, db, last_committed_idx_,
                  failed, handlers, forwards, clients_, leader_id_, run, asked, acked,
                  succeeded>>
  BY DEF vars, raftVars, leaderVars, smVars, srvVars, clientVars
<1>2. KVType'
  BY <1>1 DEF KVInv, KVType, RaftType, ServerType, ClientType
<1>3. Core'
  BY <1>1, CoreQuiet DEF KVInv
<1>4. ReplicasAgree'
  <2>1. AgreeOf(asked, log, failed, db, last_committed_idx_)
    BY AgreeIs DEF KVInv
  <2>2. AgreeOf(asked', log', failed', db', last_committed_idx_')
    BY <1>1, <2>1
  <2> QED BY <2>2, AgreeIs
<1>5. Success'
  BY <1>1 DEF KVInv, Success, GotSuccess, Took, Call
<1> QED BY <1>2, <1>3, <1>4, <1>5 DEF KVInv

\* The invariant of a replicated store and its clients is inductive: every
\* behaviour of the retry loops, the handlers, the forwarded requests and the
\* commit callbacks keeps it.
THEOREM KVInductive == Spec => []KVInv
<1>1. Init => KVInv
  BY KVInit
<1>2. KVInv /\ [Next]_vars => KVInv'
  <2>1. ASSUME KVInv, Next PROVE KVInv'
    <3>1. KVType /\ Core /\ Named /\ Success /\ ReplicasAgree
      BY <2>1 DEF KVInv, Core
    <3>2. KVType' /\ Core'
      BY <2>1, <3>1, TypeStep, CoreStep
    <3>3. Success' /\ ReplicasAgree'
      BY <2>1, <3>1, <3>2, SuccessStep, AgreeStep
    <3> QED BY <3>2, <3>3 DEF KVInv
  <2> QED BY <2>1, KVStutter
<1> QED BY <1>1, <1>2, PTL DEF Spec

\* A mutation that put(), update() or del() reported as accepted is committed
\* before every later call of its client, for every number of servers, clients,
\* attempts and changes of leader.
THEOREM MutationsDurable == Spec => []AckedCommitted
<1>1. KVInv => AckedCommitted
  BY DEF KVInv, Core
<1> QED BY <1>1, KVInductive, PTL

\* A mutation that returned as a success is in the database of a server: the
\* codes that the client sees come from commit() of an entry of the call, through
\* the three cases of extract_result and whatever attempts went before.
THEOREM SuccessesApplied == Spec => []SuccessApplied
<1>1. KVInv => SuccessApplied
  BY DEF KVInv, Success, Took, SuccessApplied
<1> QED BY <1>1, KVInductive, PTL

\* A retried copy of an acknowledged call that no follower forwarded is never
\* committed after a later call of the client.
THEOREM SessionsOrdered == Spec => []SessionOrder
<1>1. KVInv => SessionOrder
  BY DEF KVInv, Core
<1> QED BY <1>1, KVInductive, PTL

\* Every replica's database is what the clients' calls in its prefix of the log
\* make of it, however the commit callbacks of the servers interleave, except
\* for those that its own database returned an error for.
THEOREM ReplicasConsistent == Spec => []ReplicasAgree
<1>1. KVInv => ReplicasAgree
  BY DEF KVInv
<1> QED BY <1>1, KVInductive, PTL

\* No call is committed more often than retry_mutation attempts it, although
\* every attempt may be committed: the entries of a call are of different
\* attempts.
THEOREM RetriesBounded == Spec => []AtMostRetries
<1>1. ASSUME KVInv PROVE AtMostRetries
  <2>1. ASSUME NEW c \in Clients, NEW k \in 1 .. Len(asked[c])
        PROVE  Cardinality({j \in DOMAIN log : log[j].call = <<c, k>>}) <= NumRetries
    <3>1. PICK J : J = {j \in DOMAIN log : log[j].call = <<c, k>>}
      OBVIOUS
    <3>2. NumRetries \in Nat /\ NumRetries # 0
      BY ClientAssumption
    <3>3. <<c, k>> # NoCall
      <4>1. <<c, k>> \in Clients \X Nat
        OBVIOUS
      <4> QED BY <4>1, ClientAssumption
    <3>4. /\ Len(log) \in Nat /\ DOMAIN log = 1 .. Len(log)
          /\ \A j \in DOMAIN log : log[j] \in EntryType
      BY <1>1, LenProperties, ElementOfSeq DEF KVInv, KVType, RaftType
    <3>5. \A j \in J : log[j].try \in 0 .. NumRetries - 1
      <4>1. ASSUME NEW j \in J PROVE log[j].try \in 0 .. NumRetries - 1
        <5>1. j \in DOMAIN log /\ log[j].call = <<c, k>>
          BY <3>1
        <5>2. log[j].try \in Nat
          BY <3>4, <5>1 DEF EntryType
        <5>3. Describes(log[j])
          BY <1>1, <5>1 DEF KVInv, Core, Named, InPlay
        <5>4. log[j].try < NumRetries
          BY <3>3, <5>1, <5>3 DEF Describes, Made
        <5> QED BY <3>2, <5>2, <5>4
      <4> QED BY <4>1
    <3>6. \A i, j \in J : log[i].try = log[j].try => i = j
      <4>1. ASSUME NEW i \in J, NEW j \in J, i < j PROVE log[i].try # log[j].try
        <5>1. /\ i \in DOMAIN log /\ log[i].call = <<c, k>>
              /\ j \in DOMAIN log /\ log[j].call = <<c, k>>
          BY <3>1
        <5>2. Ordered(log[i], log[j])
          BY <1>1, <4>1, <5>1 DEF KVInv, Core, InOrder
        <5> QED BY <3>3, <5>1, <5>2 DEF Ordered
      <4>2. \A i, j \in J : i < j \/ j < i \/ i = j
        BY <3>1, <3>4
      <4> QED BY <4>1, <4>2
    <3>7. PICK f : f = [j \in J |-> log[j].try]
      OBVIOUS
    <3>8. f \in Injection(J, 0 .. NumRetries - 1)
      BY <3>5, <3>6, <3>7 DEF Injection, IsInjective
    <3>9. /\ IsFiniteSet(0 .. NumRetries - 1)
          /\ Cardinality(0 .. NumRetries - 1) = NumRetries
      BY <3>2, FS_Interval
    <3>10. Cardinality(J) <= NumRetries
      BY <3>8, <3>9, FS_Injection
    <3> QED BY <3>1, <3>10
  <2> QED BY <2>1 DEF AtMostRetries
<1> QED BY <1>1, KVInductive, PTL
=============================================================================
