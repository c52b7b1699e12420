----------------------------- MODULE ReplicatedKV -----------------------------
(***************************************************************************)
(* A mutation from the client library to the state machines: client::put,   *)
(* update and del with their retry loop (src/client/client.cpp), the RPC    *)
(* handlers of the server (src/server/server.cpp), replica::append_log in   *)
(* blocking mode (src/server/replica.cpp) and the commit callback of        *)
(* splinterdb_state_machine, over a Raft group.                             *)
(*                                                                          *)
(* A client is synchronous; a handler blocks a worker thread of its server  *)
(* until Raft answers.  A call that was given up is still being handled.    *)
(* The value a call writes is its name <<client, number>>.  An answer that  *)
(* a server sends is received at once or, when the client no longer waits   *)
(* for it, dropped; a lost answer is one the client did not wait for.       *)
(***************************************************************************)
EXTENDS RaftGroup

CONSTANTS Clients, Keys,
          OpTypes,      \* the operations clients call
          NoValue,      \* a key that is not in the database
          NumRetries,   \* num_retries_
          MaxCalls,     \* bound: calls of a client
          MaxDbFail     \* bound: calls of the databases that fail

ASSUME ClientAssumption ==
  /\ OpTypes \subseteq {"put", "update", "del"}
  /\ NumRetries \in Nat \ {0} /\ MaxCalls \in Nat /\ MaxDbFail \in Nat
  /\ NoCall \notin Keys /\ NoCall \notin Clients \X Nat

VARIABLES db, last_committed_idx_,  \* the state machine of each server
          failed,      \* the results of commit() that are not 0: <<server, index>>
          handlers,    \* RPCs of mutations being sent or handled
          forwards,    \* requests on their way from a follower to the leader
          clients_, leader_id_,
          run,         \* the call in progress of each client
          asked,       \* history: the operations each client called
          acked,       \* history: the calls that returned as accepted
          succeeded    \* history: those that returned as a success

smVars     == <<db, last_committed_idx_, failed>>
clientVars == <<clients_, leader_id_, run, asked, acked, succeeded>>
srvVars    == <<handlers, forwards>>
vars       == <<raftVars, smVars, srvVars, clientVars>>

\* Where a client is; the handle `cl' that put(), update() or del() captured;
\* `i' and the last raft_rc and splinterdb_rc of retry_mutation; the server
\* get_leader_id asks and how often it has.
Idle == [pc |-> "idle", cl |-> NoLeader, i |-> 0, rc |-> "OTHER", spl |-> 0,
         srv |-> NoLeader, tries |-> 0]

Calls   == Clients \X Nat

Call(c) == <<c, Len(asked[c])>>

Init ==
  /\ RaftInit
  /\ db = [s \in Servers |-> [k \in Keys |-> NoValue]]
  /\ last_committed_idx_ = [s \in Servers |-> 0] /\ failed = {}
  /\ handlers = {} /\ forwards = {}
  /\ clients_ = [c \in Clients |-> {}]
  /\ leader_id_ = [c \in Clients |-> NoLeader]
  /\ run = [c \in Clients |-> [Idle EXCEPT !.pc = "new"]]
  /\ asked = [c \in Clients |-> <<>>] /\ acked = {} /\ succeeded = {}
-----------------------------------------------------------------------------
\* Mutant: a delete leaves the value.
ApplyNoDelete(e, d) ==
  IF e.op # "PUT" THEN d ELSE [d EXCEPT ![e.key] = e.call]

\* What the operation of an entry makes of a database.
Apply(e, d) ==
  IF e.op = "CONFIG" THEN d
  ELSE [d EXCEPT ![e.key] = IF e.op = "DELETE" THEN NoValue ELSE e.call]

\* splinterdb_state_machine::commit and commit_config: the next committed
\* entry goes to the database.  When the database returns an error, and has
\* changed nothing, the error is the result of the entry and last_committed_idx_
\* advances all the same.
commit(s) ==
  LET idx == last_committed_idx_[s] + 1 IN
  /\ s \in up /\ idx <= Len(log)
  /\ \/ db' = [db EXCEPT ![s] = Apply(log[idx], @)] /\ UNCHANGED failed
     \/ /\ log[idx].op # "CONFIG" /\ Cardinality(failed) < MaxDbFail
        /\ failed' = failed \cup {<<s, idx>>}
        /\ UNCHANGED db
  /\ last_committed_idx_' = [last_committed_idx_ EXCEPT ![s] = idx]
  /\ UNCHANGED <<raftVars, srvVars, clientVars>>
-----------------------------------------------------------------------------
\* The constructor: one server tells which servers there are and who leads,
\* possibly nobody; a server that cannot be reached is left out.
Connect(c) ==
  /\ run[c].pc = "new"
  /\ \E s \in up : leader_id_' = [leader_id_ EXCEPT ![c] = view[s]]
  /\ clients_' = [clients_ EXCEPT ![c] = up]
  /\ run' = [run EXCEPT ![c] = Idle]
  /\ UNCHANGED <<raftVars, smVars, srvVars, asked, acked, succeeded>>

\* put(), update() and del() take the handle once, before the retry loop;
\* clients_.at() throws when the leader is not among the connections.
Begin(c, op, key) ==
  /\ run[c].pc = "idle" /\ Len(asked[c]) < MaxCalls
  /\ asked' = [asked EXCEPT ![c] = Append(@, [op |-> op, key |-> key])]
  /\ IF leader_id_[c] \in clients_[c]
     THEN run' = [run EXCEPT ![c] = [Idle EXCEPT !.pc = "send", !.cl = leader_id_[c]]]
     ELSE UNCHANGED run
  /\ UNCHANGED <<raftVars, smVars, srvVars, clients_, leader_id_, acked, succeeded>>

\* f(): the RPC goes out on the captured handle.
Send(c) ==
  /\ run[c].pc = "send"
  /\ handlers' = IF run[c].cl \in up
       THEN handlers \cup {[call |-> Call(c), try |-> run[c].i, srv |-> run[c].cl,
                            at |-> NoLeader, term |-> 0]}
       ELSE handlers
  /\ run' = [run EXCEPT ![c].pc = "rpc"]
  /\ UNCHANGED <<raftVars, smVars, forwards, clients_, leader_id_, asked, acked, succeeded>>

\* Mutant: one attempt too many.
NextAttemptOneMore(r) ==
  IF r.i < NumRetries THEN [Idle EXCEPT !.pc = "send", !.cl = r.cl, !.i = r.i + 1]
  ELSE Idle

\* The end of an iteration of retry_mutation that did not break.
NextAttempt(r) ==
  IF r.i + 1 < NumRetries THEN [Idle EXCEPT !.pc = "send", !.cl = r.cl, !.i = r.i + 1]
  ELSE Idle

\* Mutant: the exception counts as one more failed attempt.
RpcFailsRetries(c) ==
  /\ run[c].pc = "rpc"
  /\ run' = [run EXCEPT ![c] = NextAttempt(@)]
  /\ UNCHANGED <<raftVars, smVars, srvVars, clients_, leader_id_, asked, acked, succeeded>>

\* The RPC times out or the connection breaks: the exception leaves the call.
RpcFails(c) ==
  /\ run[c].pc = "rpc"
  /\ run' = [run EXCEPT ![c] = Idle]
  /\ UNCHANGED <<raftVars, smVars, srvVars, clients_, leader_id_, asked, acked, succeeded>>

\* try_handle_leader_change() looks for the leader after these results only.
LeaderChanged(rc) == rc \in {"NOT_LEADER", "CANCELLED"}

\* get_leader_id() asks the servers of clients_ in the order of their ids and
\* throws when none is left.
AskNext(c, later) ==
  IF later = {} THEN Idle
  ELSE [run[c] EXCEPT !.pc = "ask", !.tries = 0,
                      !.srv = CHOOSE s \in later : \A t \in later : s <= t]

\* retry_mutation with the result of f().
HandleResult(c) ==
  LET r == run[c] IN
  /\ r.pc = "got"
  /\ run' = [run EXCEPT ![c] = IF r.rc = "OK" THEN Idle
                               ELSE IF LeaderChanged(r.rc) THEN AskNext(c, clients_[c])
                               ELSE NextAttempt(r)]
  /\ acked' = IF r.rc = "OK" THEN acked \cup {Call(c)} ELSE acked
  /\ succeeded' = IF r.rc = "OK" /\ r.spl = 0 THEN succeeded \cup {Call(c)} ELSE succeeded
  /\ UNCHANGED <<raftVars, smVars, srvVars, clients_, leader_id_, asked>>

\* The server that is asked names a leader: try_handle_leader_change stores it
\* and the loop goes on, with the handle it has.
LeaderFound(c) ==
  LET s == run[c].srv IN
  /\ run[c].pc = "ask" /\ s \in up /\ view[s] # NoLeader
  /\ leader_id_' = [leader_id_ EXCEPT ![c] = view[s]]
  /\ run' = [run EXCEPT ![c] = NextAttempt(@)]
  /\ UNCHANGED <<raftVars, smVars, srvVars, clients_, asked, acked, succeeded>>

Later(c) == {s \in clients_[c] : s > run[c].srv}

\* Mutant: a server that knows no leader is asked until it does.
NoLiveLeaderForever(c) ==
  /\ run[c].pc = "ask" /\ run[c].srv \in up /\ view[run[c].srv] = NoLeader
  /\ run' = [run EXCEPT ![c].tries = 1 - @]
  /\ UNCHANGED <<raftVars, smVars, srvVars, clients_, leader_id_, asked, acked, succeeded>>

\* A server that knows no leader is asked num_retries_ times.
NoLiveLeader(c) ==
  LET s == run[c].srv IN
  /\ run[c].pc = "ask" /\ s \in up /\ view[s] = NoLeader
  /\ run' = [run EXCEPT ![c] = IF run[c].tries + 1 < NumRetries
                               THEN [run[c] EXCEPT !.tries = @ + 1]
                               ELSE AskNext(c, Later(c))]
  /\ UNCHANGED <<raftVars, smVars, srvVars, clients_, leader_id_, asked, acked, succeeded>>

AskFails(c) ==
  /\ run[c].pc = "ask"
  /\ run' = [run EXCEPT ![c] = AskNext(c, Later(c))]
  /\ UNCHANGED <<raftVars, smVars, srvVars, clients_, leader_id_, asked, acked, succeeded>>
-----------------------------------------------------------------------------
\* What append_log() hands out: whether the entry was accepted and has a result,
\* the code, and the buffer of commit()'s result, <<>> when there is none.
Refused(code)   == [accepted |-> FALSE, has_result |-> FALSE, code |-> code, buf |-> <<>>]
NoResult(code)  == [accepted |-> TRUE, has_result |-> FALSE, code |-> code, buf |-> <<>>]
Result(code, b) == [accepted |-> TRUE, has_result |-> TRUE, code |-> code, buf |-> b]

\* Mutant: the answer is that of an entry whose state machine is not done yet.
ExtractResultNoBuffer(res) == [rc |-> res.code, spl |-> 0]

\* extract_result(): raft_rc is the code in each of the three cases, and
\* splinterdb_rc is that of a buffer, if there is one.
ExtractResult(res) ==
  [rc  |-> res.code,
   spl |-> IF res.accepted /\ res.has_result /\ res.buf # <<>> THEN res.buf[1] ELSE 0]

\* The handler answers the client, if it still waits for this attempt.
Reply(h, res) ==
  LET c == h.call[1]
      x == ExtractResult(res) IN
  /\ run' = IF run[c].pc = "rpc" /\ h.call = Call(c) /\ h.try = run[c].i
            THEN [run EXCEPT ![c].pc = "got", ![c].rc = x.rc, ![c].spl = x.spl] ELSE run
  /\ handlers' = handlers \ {h}
  /\ UNCHANGED <<raftVars, smVars, forwards, clients_, leader_id_, asked, acked, succeeded>>

\* The handlers build the operation: that of UPDATE makes a PUT.
MakeOp(op) == IF op = "del" THEN "DELETE" ELSE "PUT"

\* The serialized operation of a request in an entry of term t: a PUT carries
\* the value, the name of the call, and a DELETE none (Apply does not look at
\* it).  fwd is a history mark: the request came through a follower.
LogEntry(r, t, fwd) ==
  LET o == asked[r.call[1]][r.call[2]] IN
  [term |-> t, op |-> MakeOp(o.op), key |-> o.key, call |-> r.call, try |-> r.try,
   fwd |-> fwd]

\* append_log() on the leader.
AppendLog(h) ==
  LET l == h.srv IN
  /\ h.at = NoLeader /\ view[l] = l
  /\ Accept(l, LogEntry(h, leads[l], FALSE))
  /\ handlers' = (handlers \ {h}) \cup {[h EXCEPT !.at = l, !.term = leads[l]]}
  /\ UNCHANGED <<smVars, forwards, clientVars>>

\* append_log() on a follower, auto_forwarding_: the request goes to the leader
\* it knows.
Forward(h) ==
  LET l == view[h.srv] IN
  /\ h.srv \in up /\ h.at = NoLeader /\ l \notin {NoLeader, h.srv}
  /\ handlers' = (handlers \ {h}) \cup {[h EXCEPT !.at = l]}
  /\ forwards' = forwards \cup {[call |-> h.call, try |-> h.try, to |-> l]}
  /\ UNCHANGED <<raftVars, smVars, clientVars>>

\* The handler of request r, if it has not answered yet.
HandlerOf(r) == {h \in handlers : h.call = r.call /\ h.try = r.try}

\* The request arrives, whether or not its handler still waits; a server that
\* does not lead refuses it.
ForwardArrives(r) ==
  /\ r.to \in up
  /\ forwards' = forwards \ {r}
  /\ IF leads[r.to] > 0
     THEN /\ Accept(r.to, LogEntry(r, leads[r.to], TRUE))
          /\ handlers' = (handlers \ HandlerOf(r))
                \cup {[h EXCEPT !.term = leads[r.to]] : h \in HandlerOf(r)}
     ELSE UNCHANGED <<raftVars, handlers>>
  /\ UNCHANGED <<smVars, clientVars>>

\* No leader is known, or the one that was known has refused.
AppendRefused(h) ==
  /\ h.srv \in up
  /\ \/ h.at = NoLeader /\ view[h.srv] = NoLeader /\ Reply(h, Refused("NOT_LEADER"))
     \/ /\ h.at # NoLeader /\ h.term = 0
        /\ \A r \in forwards : h \notin HandlerOf(r)
        /\ \E rc \in {"NOT_LEADER", "OTHER"} : Reply(h, Refused(rc))

StillLeads(h) == h.at \in up /\ h.term > 0 /\ leads[h.at] = h.term

\* The entry of h, if the state machine of server s has it.
Applied(h, s) ==
  {j \in 1 .. last_committed_idx_[s] : log[j].call = h.call /\ log[j].try = h.try}

\* What commit() returned for entry j on server s.
RetCode(s, j) == IF <<s, j>> \in failed THEN 1 ELSE 0

\* Mutant: the answer does not wait for the state machine.
AppendDoneEarly(h) ==
  /\ h.at # NoLeader /\ StillLeads(h)
  /\ Reply(h, Result("OK", <<0>>))

\* The leader's state machine returned the result of the entry.
AppendDone(h) ==
  /\ h.at # NoLeader /\ StillLeads(h)
  /\ \E j \in Applied(h, h.at) : Reply(h, Result("OK", <<RetCode(h.at, j)>>))

\* The leader lost its term before that: its waiting requests are cancelled.
AppendCancelled(h) ==
  /\ h.at \in up /\ h.term > 0 /\ ~StillLeads(h)
  /\ Reply(h, Result("CANCELLED", <<>>))

\* client_req_timeout_, or no result yet, or the forwarding connection failed;
\* a request on its way stays on its way.
AppendTimeout(h) ==
  /\ h.at # NoLeader
  /\ \/ Reply(h, Result("OTHER", <<>>))
     \/ Reply(h, NoResult("OTHER"))

\* A server crashes with the handlers that run on it.
ServerCrash(s) ==
  /\ Crash(s)
  /\ handlers' = {h \in handlers : h.srv # s}
  /\ UNCHANGED <<smVars, forwards, clientVars>>
-----------------------------------------------------------------------------
ClientStep(c) ==
  \/ Send(c) \/ RpcFails(c) \/ HandleResult(c)
  \/ LeaderFound(c) \/ NoLiveLeader(c) \/ AskFails(c)

Handler(h) ==
  \/ AppendLog(h) \/ Forward(h) \/ AppendRefused(h) \/ AppendDone(h)
  \/ AppendCancelled(h) \/ AppendTimeout(h)

\* Every client is done and Raft has nothing left to do within the bounds.
Finished ==
  /\ \A c \in Clients : run[c].pc = "idle" /\ Len(asked[c]) = MaxCalls
  /\ UNCHANGED vars

Next ==
  \/ RaftStep /\ UNCHANGED <<smVars, srvVars, clientVars>>
  \/ \E s \in Servers : commit(s) \/ ServerCrash(s)
  \/ \E h \in handlers : Handler(h)
  \/ \E r \in forwards : ForwardArrives(r)
  \/ \E c \in Clients : Connect(c) \/ ClientStep(c)
  \/ \E c \in Clients, op \in OpTypes, k \in Keys : Begin(c, op, k)
  \/ Finished

\* A client runs; a pending RPC at the latest times out (set_timeout).
Fairness == \A c \in Clients : WF_vars(ClientStep(c))

Spec == Init /\ [][Next]_vars /\ Fairness
-----------------------------------------------------------------------------
\* Call b is a later one of the client of call a.
Follows(b, a) == b # NoCall /\ a[1] = b[1] /\ a[2] < b[2]

\* A call that put(), update() or del() reported as accepted is committed,
\* before every later call of its client, whatever timeouts, cancellations
\* and changes of leader the attempts met.
AckedCommitted ==
  \A a \in acked : \E j \in DOMAIN log :
    log[j].call = a /\ \A m \in DOMAIN log : Follows(log[m].call, a) => j < m

\* A call that returned as a success (is_success) is in a database: a server has
\* committed one of its entries and its database did not return an error.
SuccessApplied ==
  \A a \in succeeded : \E s \in Servers : \E j \in 1 .. last_committed_idx_[s] :
    log[j].call = a /\ <<s, j>> \notin failed

\* What the database of s holds for k after the calls it has not refused, told
\* from the operations the clients called.
Outcome(s, k) ==
  LET on == {j \in 1 .. last_committed_idx_[s] : log[j].key = k /\ <<s, j>> \notin failed}
      e  == log[CHOOSE j \in on : \A m \in on : m <= j]
  IN IF on = {} \/ asked[e.call[1]][e.call[2]].op = "del" THEN NoValue ELSE e.call

\* Every replica's database is what the clients' calls in its prefix of the
\* log make of it, those left out that the database itself returned an error
\* for: replicas that have applied as much differ by such errors only.
ReplicasAgree ==
  \A s \in Servers : db[s] = [k \in Keys |-> Outcome(s, k)]

\* The retried copies of an acknowledged call do not undo a later call of the
\* client either: a copy whose answer was a timeout or a cancellation may be
\* committed late, but after the later call only if a follower had forwarded it.
SessionOrder ==
  \A j, m \in DOMAIN log :
    (log[j].call \in acked /\ ~log[j].fwd /\ Follows(log[m].call, log[j].call)) => j < m

\* A call is committed at most num_retries_ times.
AtMostRetries ==
  \A c \in Clients : \A k \in 1 .. Len(asked[c]) :
    Cardinality({j \in DOMAIN log : log[j].call = <<c, k>>}) <= NumRetries

\* put(), update() and del() return or throw, whatever happens to the servers.
CallsReturn ==
  \A c \in Clients : run[c].pc \notin {"idle", "new"} ~> run[c].pc = "idle"

\* "leader changed, retrying...": the retry goes to the leader just found.
RetryAtLeader ==
  \A c \in Clients : run[c].pc = "send" => run[c].cl = leader_id_[c]
=============================================================================
