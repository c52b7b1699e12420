----------------------------- MODULE ClientReads -----------------------------
(***************************************************************************)
(* client::get (src/client/client.cpp) and the read policies                *)
(* (include/.../client/read_policy.h): a policy chooses an index into       *)
(* server_ids_ and the server that is there answers from its own database,  *)
(* replica::read, whatever part of the log it has applied.                  *)
(*                                                                          *)
(* One client with one policy.  Servers are named by their index; a value   *)
(* is named by the log index of the write it comes from, its version, and 0 *)
(* stands for a key that was not found.  An index without a server leads to *)
(* reads outside server_ids_ and clients_, which C++ leaves undefined: the  *)
(* model stops there.                                                       *)
(***************************************************************************)
EXTENDS Integers, FiniteSets, Sequences

CONSTANTS Keys,
          MaxToken,    \* the greatest value of the token type
          Hash,        \* MurmurHash3_x86_32 of each key
          MaxServers,  \* bound: servers the client connects to
          MaxTokens,   \* bound: rp_num_tokens
          MaxLog,      \* bound: committed writes
          MaxReads     \* bound: calls of get()

ASSUME ReadAssumption ==
  /\ MaxToken \in Nat /\ Hash \in [Keys -> 0 .. MaxToken]
  /\ MaxServers \in Nat /\ MaxTokens \in Nat /\ MaxServers * MaxTokens <= MaxToken
  /\ MaxLog \in Nat /\ MaxReads \in Nat

Algorithms == {"hash", "round_robin", "random_token", "random_uniform", "fixed"}

VARIABLES algo_, num_servers, num_tokens,  \* how the client was constructed
          rri_, mapping_,   \* state of round_robin and of fixed
          phase,            \* "up" or "undefined"
          written,          \* committed writes: which key the n-th one writes
          applied, ver,     \* per server: entries applied, version of each key
          reads, hits,      \* history: calls of get(), and to which server the
                            \* policy sent them
          seen              \* history: the version that the last successful get()
                            \* by policy returned, 0 when the key was mapped anew

policyVars == <<algo_, num_servers, num_tokens, rri_, mapping_>>
dbVars     == <<written, applied, ver>>
vars       == <<policyVars, phase, dbVars, reads, hits, seen>>

Servers == 0 .. num_servers - 1

\* The constructor of the client, with the servers it could connect to, and of
\* its policy.
Init ==
  /\ algo_ \in Algorithms
  /\ num_servers \in 1 .. MaxServers /\ num_tokens \in 1 .. MaxTokens
  /\ rri_ = 0 /\ mapping_ = [k \in {} |-> 0]
  /\ phase = "up"
  /\ written = <<>>
  /\ applied = [s \in Servers |-> 0]
  /\ ver = [s \in Servers |-> [k \in Keys |-> 0]]
  /\ reads = 0 /\ hits = [s \in Servers |-> 0]
  /\ seen = [k \in Keys |-> 0]
-----------------------------------------------------------------------------
\* A write of k is committed; the servers apply the log one by one.
Write(k) ==
  /\ Len(written) < MaxLog
  /\ written' = Append(written, k)
  /\ UNCHANGED <<policyVars, phase, applied, ver, reads, hits, seen>>

Commit(s) ==
  LET i == applied[s] + 1 IN
  /\ i <= Len(written)
  /\ applied' = [applied EXCEPT ![s] = i]
  /\ ver' = [ver EXCEPT ![s][written[i]] = i]
  /\ UNCHANGED <<policyVars, phase, written, reads, hits, seen>>
-----------------------------------------------------------------------------
\* range_based_read_policy: ranges_[i] is (i + 1) * Incr.
TotalTokens == num_servers * num_tokens

\* Mutant: the tokens of one server only.
IncrOneServer == MaxToken \div num_tokens

Incr == MaxToken \div TotalTokens

\* The first range that holds the token, or -1.
RangeNext(token) ==
  LET hit == {i \in 0 .. TotalTokens - 1 : token <= (i + 1) * Incr}
  IN IF hit = {} THEN -1
     ELSE (CHOOSE i \in hit : \A j \in hit : i <= j) % num_servers

\* Mutant: the key does not decide the token.
get_tokenUnhashed(key) == 0 .. MaxToken

\* get_token(): the tokens it may return.
get_token(key) == IF algo_ = "hash" THEN {Hash[key]} ELSE 0 .. MaxToken

\* next(): the indices it may return; none when mapping_.at() throws.
next_index(key) ==
  CASE algo_ = "round_robin"    -> {rri_}
    [] algo_ = "random_uniform" -> Servers
    [] algo_ \in {"hash", "random_token"} -> {RangeNext(t) : t \in get_token(key)}
    [] algo_ = "fixed"          -> {mapping_[k] : k \in DOMAIN mapping_ \cap {key}}

\* Mutant: counts on after the last server.
AdvanceNoWrap == rri_ + 1

Advance == (rri_ + 1) % num_servers

\* replica::read() on server s.
read(s, key) == ver[s][key]

\* get() without a server: the policy moves on before the call, which may fail.
Get(key) ==
  /\ phase = "up" /\ reads < MaxReads
  /\ reads' = reads + 1
  /\ \E i \in next_index(key) :
       IF i \in Servers
       THEN /\ hits' = [hits EXCEPT ![i] = @ + 1]
            /\ seen' \in {seen, [seen EXCEPT ![key] = read(i, key)]}
            /\ UNCHANGED phase
       ELSE /\ phase' = "undefined"
            /\ UNCHANGED <<hits, seen>>
  /\ rri_' = IF algo_ = "round_robin" THEN Advance ELSE rri_
  /\ UNCHANGED <<algo_, num_servers, num_tokens, mapping_, dbVars>>

\* get() with a server: the policy is not asked.
GetFrom(key, i) ==
  /\ phase = "up" /\ reads < MaxReads
  /\ reads' = reads + 1
  /\ phase' = IF i \in Servers THEN "up" ELSE "undefined"
  /\ UNCHANGED <<policyVars, dbVars, hits, seen>>

\* set_fixed_key_mapping(): nothing unless the policy is fixed.  The caller
\* gives the indices, also one too large.
SetMapping(m) ==
  /\ phase = "up" /\ algo_ = "fixed" /\ m # mapping_
  /\ mapping_' = m
  /\ seen' = [k \in Keys |-> IF k \in DOMAIN m /\ k \in DOMAIN mapping_ /\ m[k] = mapping_[k]
                             THEN seen[k] ELSE 0]
  /\ UNCHANGED <<algo_, num_servers, num_tokens, rri_, phase, dbVars, reads, hits>>

\* The program is in undefined behaviour, or the bounds are reached.
Ended == (phase = "undefined" \/ reads = MaxReads) /\ UNCHANGED vars

Next ==
  \/ \E k \in Keys : Write(k) \/ Get(k)
  \/ \E k \in Keys, i \in 0 .. num_servers : GetFrom(k, i)
  \/ \E s \in Servers : Commit(s)
  \/ \E K \in SUBSET Keys : \E m \in [K -> 0 .. num_servers] : SetMapping(m)
  \/ Ended

Spec == Init /\ [][Next]_vars
-----------------------------------------------------------------------------
\* Shapes; the round robin index is always that of a server.
TypeOK ==
  /\ algo_ \in Algorithms
  /\ num_servers \in Nat \ {0} /\ num_tokens \in Nat \ {0}
  /\ rri_ \in Servers
  /\ DOMAIN mapping_ \subseteq Keys /\ \A k \in DOMAIN mapping_ : mapping_[k] \in Nat
  /\ phase \in {"up", "undefined"}
  /\ written \in Seq(Keys)
  /\ applied \in [Servers -> Nat] /\ ver \in [Servers -> [Keys -> Nat]]
  /\ reads \in Nat /\ hits \in [Servers -> Nat]
  /\ seen \in [Keys -> Nat]

\* The policies that send a key to one server.
Sticky == algo_ \in {"hash", "fixed"}

\* Replicas lag behind each other, so that two reads of a key may go back in
\* time; under the hash policy they do not, nor under the fixed one until the
\* key is mapped to another server.
MonotonicReads ==
  [][Sticky => \A k \in Keys : seen'[k] >= seen[k] \/ mapping_' # mapping_]_vars

\* A server has no version it has not applied.
VerApplied == \A s \in Servers, k \in Keys : ver[s][k] <= applied[s]

\* What makes it so: the server that a key is sent to is not behind what was
\* read from it.
SeenThere ==
  Sticky => \A k \in Keys : \A i \in next_index(k) \cap Servers : seen[k] <= ver[i][k]

\* Round robin spreads the calls evenly, also when some of them fail, and
\* has come around to the servers below rri_ once more than to the others.
EvenSpread ==
  algo_ = "round_robin" =>
    \A s, t \in Servers : hits[s] - hits[t] = IF s < rri_ /\ t >= rri_ THEN 1
                                              ELSE IF t < rri_ /\ s >= rri_ THEN -1
                                              ELSE 0

Owned(s) == {t \in 0 .. MaxToken : RangeNext(t) = s}

\* The token ranges give all servers the same number of tokens, but for token
\* 0, and leave fewer tokens without a server than there are ranges.
TokensShared ==
  /\ Cardinality(Owned(-1)) < TotalTokens
  /\ \A s \in Servers : Cardinality(Owned(s)) = num_tokens * Incr + IF s = 0 THEN 1 ELSE 0
=============================================================================
