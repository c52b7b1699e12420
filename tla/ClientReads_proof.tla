-------------------------- MODULE ClientReads_proof --------------------------
(***************************************************************************)
(* Reads under the hash and the fixed policy do not go back in time, round  *)
(* robin is even, and the ranges share the tokens, for every number of      *)
(* servers, keys, tokens and writes and every hash function.                *)
(***************************************************************************)
EXTENDS ClientReads, TLAPS, FiniteSetTheorems, FunctionTheorems

\* Inductive: SeenThere is kept by a server that applies an entry because the
\* entry is newer than anything it has applied.
ReadInv == TypeOK /\ VerApplied /\ SeenThere /\ EvenSpread

\* A sticky policy has at most one index for a key.
LEMMA OneIndex ==
  ASSUME Sticky, NEW k \in Keys, NEW i \in next_index(k), NEW j \in next_index(k)
  PROVE  i = j
<1>1. CASE algo_ = "hash"
  BY <1>1 DEF next_index, get_token
<1>2. CASE algo_ = "fixed"
  BY <1>2 DEF next_index, get_token
<1> QED BY <1>1, <1>2 DEF Sticky

\* The indices of a key depend on the policy alone, but for round robin.
LEMMA IndexKept ==
  ASSUME Sticky, UNCHANGED <<algo_, num_servers, num_tokens, mapping_>>,
         NEW k \in Keys
  PROVE  next_index(k)' = next_index(k) /\ Servers' = Servers /\ Sticky'
<1>1. Servers' = Servers /\ Sticky'
  BY DEF Servers, Sticky
<1>2. CASE algo_ = "hash"
  <2>1. RangeNext(Hash[k])' = RangeNext(Hash[k])
    BY DEF RangeNext, TotalTokens, Incr
  <2> QED BY <1>1, <1>2, <2>1 DEF next_index, get_token
<1>3. CASE algo_ = "fixed"
  BY <1>1, <1>3 DEF next_index, get_token
<1> QED BY <1>1, <1>2, <1>3 DEF Sticky

\* The constructor establishes the invariant.
LEMMA InitRead == Init => ReadInv
<1> SUFFICES ASSUME Init PROVE ReadInv
  OBVIOUS
<1>1. TypeOK
  <2>1. num_servers \in Nat \ {0} /\ num_tokens \in Nat \ {0}
    BY ReadAssumption DEF Init
  <2> QED BY <2>1 DEF Init, TypeOK, Servers
<1>2. VerApplied /\ EvenSpread
  BY <1>1 DEF Init, VerApplied, EvenSpread, Servers, TypeOK
<1>3. SeenThere
  <2>1. \A k \in Keys : \A s \in Servers : seen[k] <= ver[s][k]
    BY DEF Init
  <2> QED BY <2>1 DEF SeenThere
<1> QED BY <1>1, <1>2, <1>3 DEF ReadInv

\* A write is committed.
LEMMA WriteStep ==
  ASSUME ReadInv, NEW k \in Keys, Write(k) PROVE ReadInv'
<1> USE DEF ReadInv, Write, policyVars
<1>1. TypeOK'
  BY DEF TypeOK, Servers
<1>2. VerApplied' /\ EvenSpread'
  BY DEF VerApplied, EvenSpread, Servers
<1>3. SeenThere'
  BY IndexKept DEF SeenThere, Sticky
<1> QED BY <1>1, <1>2, <1>3

\* A server applies an entry: the version of its key grows.
LEMMA CommitStep ==
  ASSUME ReadInv, NEW s \in Servers, Commit(s)
  PROVE  ReadInv' /\ \A t \in Servers, k \in Keys : ver'[t][k] >= ver[t][k]
<1> USE DEF ReadInv, policyVars
<1> DEFINE i == applied[s] + 1
<1>0. i \in 1 .. Len(written) /\ written[i] \in Keys /\ i \in Nat
  BY SMTT(30) DEF Commit, TypeOK
<1>1. TypeOK'
  BY <1>0 DEF TypeOK, Servers, Commit
<1>2. \A t \in Servers, k \in Keys :
        ver'[t][k] = IF t = s /\ k = written[i] THEN i ELSE ver[t][k]
  BY <1>0 DEF Commit, TypeOK
<1>3. \A t \in Servers : applied'[t] = IF t = s THEN i ELSE applied[t]
  BY <1>0 DEF Commit, TypeOK
<1>4. \A t \in Servers, k \in Keys : ver'[t][k] >= ver[t][k] /\ ver'[t][k] <= applied'[t]
  <2> TAKE t \in Servers, k \in Keys
  <2>1. ver[t][k] \in Nat /\ applied[t] \in Nat /\ ver[t][k] <= applied[t]
    BY DEF VerApplied, TypeOK
  <2>2. ver'[t][k] = IF t = s /\ k = written[i] THEN i ELSE ver[t][k]
    BY <1>2
  <2>3. applied'[t] = IF t = s THEN i ELSE applied[t]
    BY <1>3
  <2>4. t = s => ver[t][k] <= i /\ applied[t] <= i
    BY <2>1
  <2> HIDE DEF i
  <2> QED BY <1>0, <2>1, <2>2, <2>3, <2>4
<1>5. VerApplied' /\ EvenSpread'
  BY <1>4 DEF VerApplied, EvenSpread, Servers, Commit
<1>6. SeenThere'
  <2> SUFFICES ASSUME Sticky', NEW k \in Keys, NEW j \in (next_index(k) \cap Servers)'
               PROVE  seen'[k] <= ver'[j][k]
    BY DEF SeenThere
  <2>1. Sticky /\ j \in next_index(k) /\ j \in Servers
    BY IndexKept DEF Sticky, Commit
  <2>2. seen[k] <= ver[j][k]
    BY <2>1 DEF SeenThere
  <2>3. seen[k] \in Nat /\ ver[j][k] \in Nat
    BY <2>1 DEF TypeOK
  <2>4. ver'[j][k] \in Nat
    BY <1>0, <1>2, <2>1, <2>3
  <2>5. seen' = seen
    BY DEF Commit
  <2> QED BY <2>1, <2>2, <2>3, <2>4, <2>5, <1>4
<1> QED BY <1>1, <1>4, <1>5, <1>6

\* get(): the policy moves on and the version read is remembered.
LEMMA GetStep ==
  ASSUME ReadInv, NEW k \in Keys, Get(k)
  PROVE  ReadInv' /\ (Sticky => \A q \in Keys : seen'[q] >= seen[q])
<1> USE DEF ReadInv
<1>0. UNCHANGED <<algo_, num_servers, num_tokens, mapping_, dbVars>> /\ Servers' = Servers
  BY DEF Get, Servers
<1>1. PICK i \in next_index(k) :
        IF i \in Servers
        THEN /\ hits' = [hits EXCEPT ![i] = @ + 1]
             /\ seen' \in {seen, [seen EXCEPT ![k] = ver[i][k]]}
             /\ UNCHANGED phase
        ELSE /\ phase' = "undefined" /\ UNCHANGED <<hits, seen>>
  BY DEF Get, read
<1>2. rri_' \in Servers
  BY DEF Get, Advance, TypeOK, Servers
<1>3. TypeOK'
  <2>1. hits' \in [Servers -> Nat] /\ seen' \in [Keys -> Nat]
        /\ phase' \in {"up", "undefined"}
    <3>1. CASE i \in Servers
      <4>1. hits' \in [Servers -> Nat]
        <5>1. hits' = [hits EXCEPT ![i] = @ + 1]
          BY <1>1, <3>1
        <5>2. hits \in [Servers -> Nat] /\ hits[i] + 1 \in Nat
          BY <3>1 DEF TypeOK
        <5> QED BY <5>1, <5>2, <3>1
      <4>2. ver[i] \in [Keys -> Nat]
        BY <3>1 DEF TypeOK
      <4>3. seen' \in [Keys -> Nat]
        BY <1>1, <3>1, <4>2 DEF TypeOK
      <4> QED BY <1>1, <3>1, <4>1, <4>3 DEF TypeOK
    <3>2. CASE i \notin Servers
      BY <1>1, <3>2 DEF TypeOK
    <3> QED BY <3>1, <3>2
  <2>2. reads' \in Nat
    BY DEF Get, TypeOK
  <2> QED BY <1>0, <1>2, <2>1, <2>2 DEF TypeOK, dbVars
<1>4. VerApplied'
  BY <1>0 DEF VerApplied, dbVars
<1>5. EvenSpread'
  <2> SUFFICES ASSUME algo_ = "round_robin" PROVE EvenSpread'
    BY <1>0 DEF EvenSpread
  <2>1. i = rri_ /\ rri_ \in Servers /\ rri_' = (rri_ + 1) % num_servers
    BY <1>1 DEF next_index, get_token, TypeOK, Get, Advance
  <2>2. \A s \in Servers : hits'[s] = IF s = rri_ THEN hits[s] + 1 ELSE hits[s]
    BY <1>1, <2>1 DEF TypeOK
  <2>3. num_servers \in Nat \ {0} /\ \A s \in Servers : hits[s] \in Nat
    BY DEF TypeOK
  <2>4. CASE rri_ + 1 = num_servers
    <3>1. rri_' = 0
      BY <2>1, <2>3, <2>4
    <3> QED BY <1>0, <2>1, <2>2, <2>3, <2>4, <3>1 DEF EvenSpread, Servers
  <2>5. CASE rri_ + 1 # num_servers
    <3>1. rri_' = rri_ + 1
      BY <2>1, <2>3, <2>5 DEF Servers
    <3> QED BY <1>0, <2>1, <2>2, <2>3, <2>5, <3>1 DEF EvenSpread, Servers
  <2> QED BY <2>4, <2>5
<1>6. ASSUME Sticky
      PROVE  SeenThere' /\ \A q \in Keys : seen'[q] >= seen[q]
  <2>1. \A q \in Keys : next_index(q)' = next_index(q)
    BY <1>0, <1>6, IndexKept
  <2>2. \A q \in Keys : seen[q] \in Nat /\ \A s \in Servers : ver[s][q] \in Nat
    BY DEF TypeOK
  <2>3. ver' = ver
    BY <1>0 DEF dbVars
  <2>4. CASE seen' = seen
    BY <1>0, <1>6, <2>1, <2>2, <2>3, <2>4 DEF SeenThere
  <2>5. CASE i \in Servers /\ seen' = [seen EXCEPT ![k] = ver[i][k]]
    <3>1. \A q \in Keys : seen'[q] = IF q = k THEN ver[i][k] ELSE seen[q]
      BY <2>5 DEF TypeOK
    <3>2. \A j \in next_index(k) : j = i
      BY <1>1, <1>6, OneIndex
    <3>3. \A q \in Keys : seen'[q] >= seen[q]
      BY <1>1, <1>6, <2>2, <2>5, <3>1 DEF SeenThere
    <3>4. \A q \in Keys : \A j \in next_index(q) \cap Servers : seen'[q] <= ver[j][q]
      BY <1>6, <2>2, <2>5, <3>1, <3>2 DEF SeenThere
    <3> QED BY <1>0, <2>1, <2>3, <3>3, <3>4 DEF SeenThere
  <2> QED BY <1>1, <2>4, <2>5
<1>7. ~Sticky => SeenThere'
  BY <1>0 DEF SeenThere, Sticky
<1> QED BY <1>3, <1>4, <1>5, <1>6, <1>7

\* get() with a server leaves the policy and what it has seen alone.
LEMMA GetFromStep ==
  ASSUME ReadInv, NEW k \in Keys, NEW i, GetFrom(k, i) PROVE ReadInv'
<1> USE DEF ReadInv, GetFrom, policyVars, dbVars
<1>1. TypeOK'
  BY SMTT(30) DEF TypeOK, Servers
<1>2. VerApplied' /\ EvenSpread'
  BY DEF VerApplied, EvenSpread, Servers
<1>3. SeenThere'
  BY IndexKept DEF SeenThere, Sticky
<1> QED BY <1>1, <1>2, <1>3

\* A new mapping: what was read elsewhere no longer counts.
LEMMA SetMappingStep ==
  ASSUME ReadInv, NEW K \in SUBSET Keys, NEW m \in [K -> 0 .. num_servers], SetMapping(m)
  PROVE  ReadInv'
<1> USE DEF ReadInv, SetMapping, dbVars
<1>1. TypeOK'
  BY DEF TypeOK, Servers
<1>2. VerApplied' /\ EvenSpread'
  BY DEF VerApplied, EvenSpread, Servers
<1>3. SeenThere'
  <2> SUFFICES ASSUME NEW k \in Keys, NEW j \in (next_index(k) \cap Servers)'
               PROVE  seen'[k] <= ver'[j][k]
    BY DEF SeenThere
  <2>1. algo_ = "fixed" /\ algo_' = "fixed" /\ Servers' = Servers /\ ver' = ver
    BY DEF Servers
  <2>2. k \in DOMAIN m /\ j = m[k] /\ j \in Servers
    BY <2>1 DEF next_index, get_token
  <2>3. ver[j][k] \in Nat
    BY <2>2 DEF TypeOK
  <2>4. CASE k \in DOMAIN mapping_ /\ m[k] = mapping_[k]
    <3>1. j \in next_index(k)
      BY <2>1, <2>2, <2>4 DEF next_index, get_token
    <3> QED BY <2>1, <2>2, <2>4, <3>1 DEF SeenThere, Sticky
  <2>5. CASE ~(k \in DOMAIN mapping_ /\ m[k] = mapping_[k])
    BY <2>1, <2>3, <2>5
  <2> QED BY <2>4, <2>5
<1> QED BY <1>1, <1>2, <1>3

\* Every step keeps the invariant and, under a sticky policy, what was seen.
LEMMA ReadStep ==
  ASSUME ReadInv, [Next]_vars
  PROVE  /\ ReadInv'
         /\ Sticky => \A k \in Keys : seen'[k] >= seen[k] \/ mapping_' # mapping_
<1> USE DEF ReadInv
<1>0. \A k \in Keys : seen[k] \in Nat
  BY DEF TypeOK
<1>1. ASSUME NEW k \in Keys, Write(k)
      PROVE  ReadInv' /\ \A q \in Keys : seen'[q] >= seen[q]
  BY <1>0, <1>1, WriteStep DEF Write
<1>2. ASSUME NEW k \in Keys, Get(k)
      PROVE  ReadInv' /\ (Sticky => \A q \in Keys : seen'[q] >= seen[q])
  BY <1>2, GetStep
<1>3. ASSUME NEW k \in Keys, NEW i \in 0 .. num_servers, GetFrom(k, i)
      PROVE  ReadInv' /\ \A q \in Keys : seen'[q] >= seen[q]
  BY <1>0, <1>3, GetFromStep DEF GetFrom
<1>4. ASSUME NEW s \in Servers, Commit(s)
      PROVE  ReadInv' /\ \A q \in Keys : seen'[q] >= seen[q]
  <2>1. seen' = seen
    BY <1>4 DEF Commit
  <2>2. ReadInv'
    BY <1>4, CommitStep
  <2> QED BY <1>0, <2>1, <2>2
<1>5. ASSUME NEW K \in SUBSET Keys, NEW m \in [K -> 0 .. num_servers], SetMapping(m)
      PROVE  ReadInv' /\ mapping_' # mapping_
  BY <1>5, SetMappingStep DEF SetMapping
<1>6. ASSUME UNCHANGED vars
      PROVE  ReadInv' /\ \A q \in Keys : seen'[q] >= seen[q]
  <2> USE <1>6 DEF vars, policyVars, dbVars
  <2>1. TypeOK' /\ VerApplied' /\ EvenSpread'
    BY DEF TypeOK, VerApplied, EvenSpread, Servers
  <2>2. SeenThere'
    BY IndexKept DEF SeenThere, Sticky
  <2> QED BY <1>0, <2>1, <2>2
<1> QED BY <1>1, <1>2, <1>3, <1>4, <1>5, <1>6 DEF Next, Ended

\* The inductive invariant holds throughout.
THEOREM ReadsInductive == Spec => []ReadInv
<1>1. ReadInv /\ [Next]_vars => ReadInv'
  BY ReadStep
<1> QED BY InitRead, <1>1, PTL DEF Spec

\* The state keeps its types; the round robin index is that of a server.
THEOREM ReadsTypeCorrect == Spec => []TypeOK
<1>1. ReadInv => TypeOK
  BY DEF ReadInv
<1> QED BY <1>1, ReadsInductive, PTL

\* Round robin is even after any number of calls, for every number of servers.
THEOREM RoundRobinEven == Spec => []EvenSpread
<1>1. ReadInv => EvenSpread
  BY DEF ReadInv
<1> QED BY <1>1, ReadsInductive, PTL

\* Under the hash and the fixed policy the reads of a key do not go back.
THEOREM ReadsMonotonic == Spec => MonotonicReads
<1>1. ReadInv /\ [Next]_vars
        => [Sticky => \A k \in Keys : seen'[k] >= seen[k] \/ mapping_' # mapping_]_vars
  BY ReadStep
<1> QED BY <1>1, ReadsInductive, PTL DEF Spec, MonotonicReads
-----------------------------------------------------------------------------
\* Products are monotone.
LEMMA MulLe ==
  ASSUME NEW p \in Nat, NEW q \in Nat, NEW b \in Nat, p <= q PROVE p * b <= q * b
OBVIOUS

\* Division with remainder.
LEMMA DivFacts ==
  ASSUME NEW a \in Nat, NEW b \in Nat \ {0}
  PROVE  a \div b \in Nat /\ a % b \in 0 .. b - 1 /\ a = (a \div b) * b + (a % b)
OBVIOUS

\* A smaller quotient makes a smaller number, whatever the remainders.
LEMMA QuotLess ==
  ASSUME NEW b \in Nat \ {0}, NEW p \in Nat, NEW q \in Nat, p < q,
         NEW u \in 0 .. b - 1, NEW v \in 0 .. b - 1
  PROVE  p * b + u < q * b + v
<1>1. (p + 1) * b <= q * b
  BY MulLe
<1>2. (p + 1) * b = p * b + b
  OBVIOUS
<1>3. p * b \in Nat /\ q * b \in Nat
  OBVIOUS
<1> QED BY <1>1, <1>2, <1>3

\* Quotient and remainder are unique.
LEMMA QuotUnique ==
  ASSUME NEW b \in Nat \ {0}, NEW p \in Nat, NEW q \in Nat,
         NEW u \in 0 .. b - 1, NEW v \in 0 .. b - 1, p * b + u = q * b + v
  PROVE  p = q /\ u = v
<1>1. p * b + u \in Nat /\ q * b + v \in Nat
  OBVIOUS
<1>2. ~(p < q) /\ ~(q < p)
  BY <1>1, QuotLess
<1> QED BY <1>2

\* The quotient and the remainder of a number given by them.
LEMMA DivOf ==
  ASSUME NEW b \in Nat \ {0}, NEW p \in Nat, NEW u \in 0 .. b - 1
  PROVE  p * b + u \in Nat /\ (p * b + u) \div b = p /\ (p * b + u) % b = u
<1> DEFINE a == p * b + u
<1>1. a \in Nat
  OBVIOUS
<1> HIDE DEF a
<1>2. a \div b \in Nat /\ a % b \in 0 .. b - 1 /\ a = (a \div b) * b + (a % b)
  BY <1>1, DivFacts
<1>3. a = p * b + u
  BY DEF a
<1>4. a \div b = p /\ a % b = u
  BY <1>2, <1>3, QuotUnique
<1> QED BY <1>1, <1>4 DEF a

\* A number below a product has a quotient below the factor.
LEMMA QuotBound ==
  ASSUME NEW b \in Nat \ {0}, NEW p \in Nat, NEW k \in Nat, NEW u \in 0 .. b - 1
  PROVE  p < k <=> p * b + u < k * b
<1>1. p < k => p * b + u < k * b
  BY QuotLess
<1>2. ~(p < k) => k * b <= p * b
  BY MulLe
<1>3. p * b \in Nat /\ k * b \in Nat
  OBVIOUS
<1> QED BY <1>1, <1>2, <1>3

\* How the client was constructed: within its bounds.
Sizes == num_servers \in 1 .. MaxServers /\ num_tokens \in 1 .. MaxTokens

\* The ranges: there is a token for each, they do not go beyond the greatest,
\* and they leave fewer tokens than there are ranges.
LEMMA RangeFacts ==
  ASSUME Sizes
  PROVE  /\ num_servers \in Nat \ {0} /\ num_tokens \in Nat \ {0} /\ MaxToken \in Nat
         /\ TotalTokens = num_tokens * num_servers
         /\ TotalTokens \in Nat \ {0} /\ Incr \in Nat \ {0}
         /\ TotalTokens * Incr \in Nat /\ TotalTokens * Incr <= MaxToken
         /\ MaxToken - TotalTokens * Incr < TotalTokens
<1>1. /\ num_servers \in Nat \ {0} /\ num_tokens \in Nat \ {0} /\ MaxToken \in Nat
      /\ MaxServers \in Nat /\ MaxTokens \in Nat
      /\ num_servers <= MaxServers /\ num_tokens <= MaxTokens
  BY ReadAssumption DEF Sizes
<1> DEFINE T == num_servers * num_tokens
<1>2. T \in Nat \ {0} /\ T = num_tokens * num_servers
  BY <1>1
<1>3. T <= MaxToken
  <2>1. T <= MaxServers * num_tokens
    BY <1>1, MulLe
  <2>2. num_tokens * MaxServers <= MaxTokens * MaxServers
    BY <1>1, MulLe
  <2>3. MaxServers * num_tokens = num_tokens * MaxServers
        /\ MaxServers * MaxTokens = MaxTokens * MaxServers
        /\ MaxServers * num_tokens \in Nat /\ MaxServers * MaxTokens \in Nat
    BY <1>1
  <2>4. MaxServers * MaxTokens <= MaxToken
    BY ReadAssumption
  <2> QED BY <1>1, <1>2, <2>1, <2>2, <2>3, <2>4
<1> HIDE DEF T
<1> DEFINE q == MaxToken \div T
<1>4. q \in Nat /\ MaxToken % T \in 0 .. T - 1 /\ MaxToken = q * T + (MaxToken % T)
  BY <1>1, <1>2, DivFacts
<1> HIDE DEF q
<1>5. q # 0
  <2> SUFFICES ASSUME q = 0 PROVE FALSE
    OBVIOUS
  <2>1. q * T = 0
    BY <1>2
  <2> QED BY <1>1, <1>2, <1>3, <1>4, <2>1
<1>6. T * q \in Nat /\ T * q = q * T
  BY <1>2, <1>4
<1>7. T * q <= MaxToken /\ MaxToken - T * q < T
  BY <1>1, <1>2, <1>4, <1>6
<1>8. TotalTokens = T /\ Incr = q
  BY DEF TotalTokens, Incr, T, q
<1> QED BY <1>1, <1>2, <1>4, <1>5, <1>6, <1>7, <1>8

\* The token at offset o of range i is that of server i modulo their number.
LEMMA TokenInRange ==
  ASSUME Sizes, NEW i \in 0 .. TotalTokens - 1, NEW o \in 0 .. Incr - 1,
         NEW t, t = i * Incr + o + 1
  PROVE  RangeNext(t) = i % num_servers /\ t \in 1 .. TotalTokens * Incr
<1>0. TotalTokens \in Nat \ {0} /\ Incr \in Nat \ {0} /\ i \in Nat
  BY RangeFacts
<1> DEFINE hit == {j \in 0 .. TotalTokens - 1 : t <= (j + 1) * Incr}
<1>1. i * Incr \in Nat /\ t \in Nat \ {0} /\ (i + 1) * Incr = i * Incr + Incr
  BY <1>0
<1>2. i \in hit
  BY <1>0, <1>1
<1>3. \A j \in hit : i <= j
  <2> SUFFICES ASSUME NEW j \in hit, j < i PROVE FALSE
    BY <1>0
  <2>1. j \in Nat /\ j + 1 \in Nat /\ j + 1 <= i
    BY <1>0
  <2>2. (j + 1) * Incr <= i * Incr
    BY <1>0, <2>1, MulLe
  <2>3. (j + 1) * Incr \in Nat /\ t <= (j + 1) * Incr
    BY <1>0, <2>1
  <2> QED BY <1>0, <1>1, <2>2, <2>3
<1>4. \A m \in hit : (\A j \in hit : m <= j) => m = i
  BY <1>0, <1>2, <1>3
<1>5. t <= TotalTokens * Incr
  <2>1. (i + 1) * Incr <= TotalTokens * Incr
    BY <1>0, MulLe
  <2>2. TotalTokens * Incr \in Nat
    BY <1>0
  <2> QED BY <1>0, <1>1, <2>1, <2>2
<1> HIDE DEF hit
<1>6. (CHOOSE m \in hit : \A j \in hit : m <= j) = i
  BY <1>2, <1>3, <1>4
<1>7. RangeNext(t) = IF hit = {} THEN -1
                     ELSE (CHOOSE m \in hit : \A j \in hit : m <= j) % num_servers
  BY DEF RangeNext, hit
<1>8. RangeNext(t) = i % num_servers
  BY <1>2, <1>6, <1>7
<1> QED BY <1>0, <1>1, <1>5, <1>8

\* Every token up to the end of the last range is in one of them, at one offset.
LEMMA TokenHasRange ==
  ASSUME Sizes, NEW t \in 1 .. TotalTokens * Incr
  PROVE  \E i \in 0 .. TotalTokens - 1, o \in 0 .. Incr - 1 : t = i * Incr + o + 1
<1>0. TotalTokens \in Nat \ {0} /\ Incr \in Nat \ {0} /\ TotalTokens * Incr \in Nat
  BY RangeFacts
<1>1. t - 1 \in Nat /\ t \in Nat
  BY <1>0
<1> DEFINE i == (t - 1) \div Incr
           o == (t - 1) % Incr
<1>2. i \in Nat /\ o \in 0 .. Incr - 1 /\ t - 1 = i * Incr + o
  BY <1>0, <1>1, DivFacts
<1> HIDE DEF i, o
<1>3. i * Incr + o < TotalTokens * Incr
  BY <1>0, <1>1, <1>2
<1>4. i < TotalTokens
  BY <1>0, <1>2, <1>3, QuotBound
<1>5. t = i * Incr + o + 1
  BY <1>0, <1>1, <1>2
<1> QED BY <1>0, <1>2, <1>4, <1>5

\* Token 0 goes to the first server.
LEMMA TokenZero == ASSUME Sizes PROVE RangeNext(0) = 0
<1>0. TotalTokens \in Nat \ {0} /\ Incr \in Nat \ {0} /\ num_servers \in Nat \ {0}
  BY RangeFacts
<1> DEFINE hit == {j \in 0 .. TotalTokens - 1 : 0 <= (j + 1) * Incr}
<1>1. 0 \in hit /\ \A j \in hit : 0 <= j
  BY <1>0
<1>2. \A m \in hit : (\A j \in hit : m <= j) => m = 0
  BY <1>0, <1>1
<1> HIDE DEF hit
<1>3. (CHOOSE m \in hit : \A j \in hit : m <= j) = 0
  BY <1>1, <1>2
<1>4. RangeNext(0) = IF hit = {} THEN -1
                     ELSE (CHOOSE m \in hit : \A j \in hit : m <= j) % num_servers
  BY DEF RangeNext, hit
<1>5. 0 % num_servers = 0
  BY <1>0
<1> QED BY <1>1, <1>3, <1>4, <1>5

\* The tokens after the last range have none.
LEMMA TokenBeyond ==
  ASSUME Sizes, NEW t \in Nat, t > TotalTokens * Incr PROVE RangeNext(t) = -1
<1>0. TotalTokens \in Nat \ {0} /\ Incr \in Nat \ {0} /\ TotalTokens * Incr \in Nat
  BY RangeFacts
<1>1. ASSUME NEW i \in 0 .. TotalTokens - 1 PROVE ~(t <= (i + 1) * Incr)
  <2>1. (i + 1) * Incr <= TotalTokens * Incr
    BY <1>0, MulLe
  <2>2. (i + 1) * Incr \in Nat
    BY <1>0
  <2> QED BY <1>0, <2>1, <2>2
<1>2. {i \in 0 .. TotalTokens - 1 : t <= (i + 1) * Incr} = {}
  BY <1>1
<1> QED BY <1>2 DEF RangeNext

\* The tokens of server s but token 0 are as many as those of its ranges: the
\* y-th of them, counted over its ranges, is at offset y % Incr of the range
\* that the y \div Incr-th round over the servers gives to s.
LEMMA OwnedCount ==
  ASSUME Sizes, NEW s \in Servers
  PROVE  /\ IsFiniteSet(Owned(s) \ {0})
         /\ Cardinality(Owned(s) \ {0}) = num_tokens * Incr
<1>0. /\ num_servers \in Nat \ {0} /\ num_tokens \in Nat \ {0} /\ MaxToken \in Nat
      /\ TotalTokens = num_tokens * num_servers
      /\ TotalTokens \in Nat \ {0} /\ Incr \in Nat \ {0}
      /\ TotalTokens * Incr \in Nat /\ TotalTokens * Incr <= MaxToken
      /\ s \in Nat /\ s \in 0 .. num_servers - 1 /\ num_tokens * Incr \in Nat
  BY RangeFacts DEF Servers
<1> DEFINE n == num_servers
           Y == 0 .. num_tokens * Incr - 1
           range(y) == (y \div Incr) * n + s
           f == [y \in Y |-> range(y) * Incr + (y % Incr) + 1]
<1>1. ASSUME NEW y \in Y
      PROVE  /\ y \in Nat /\ y \div Incr \in Nat /\ y % Incr \in 0 .. Incr - 1
             /\ y = (y \div Incr) * Incr + (y % Incr)
             /\ range(y) \in 0 .. TotalTokens - 1 /\ range(y) \in Nat /\ range(y) % n = s
  <2>1. y \in Nat /\ y < num_tokens * Incr
    BY <1>0
  <2>2. y \div Incr \in Nat /\ y % Incr \in 0 .. Incr - 1
        /\ y = (y \div Incr) * Incr + (y % Incr)
    BY <1>0, <2>1, DivFacts
  <2>3. y \div Incr < num_tokens
    BY <1>0, <2>1, <2>2, QuotBound
  <2>4. range(y) < num_tokens * n
    BY <1>0, <2>2, <2>3, QuotBound
  <2>5. range(y) \in Nat /\ range(y) % n = s
    BY <1>0, <2>2, DivOf
  <2> QED BY <1>0, <2>1, <2>2, <2>4, <2>5
<1>2. ASSUME NEW y \in Y PROVE f[y] \in Owned(s) \ {0}
  <2>1. f[y] = range(y) * Incr + (y % Incr) + 1
    OBVIOUS
  <2>2. range(y) \in 0 .. TotalTokens - 1 /\ range(y) % n = s /\ y % Incr \in 0 .. Incr - 1
    BY <1>1
  <2>3. RangeNext(f[y]) = range(y) % num_servers /\ f[y] \in 1 .. TotalTokens * Incr
    BY <2>1, <2>2, TokenInRange
  <2> QED BY <1>0, <2>2, <2>3 DEF Owned
<1>3. ASSUME NEW y \in Y, NEW z \in Y, f[y] = f[z] PROVE y = z
  <2>1. range(y) \in Nat /\ y % Incr \in 0 .. Incr - 1 /\ y \div Incr \in Nat
        /\ y = (y \div Incr) * Incr + (y % Incr)
    BY <1>1
  <2>2. range(z) \in Nat /\ z % Incr \in 0 .. Incr - 1 /\ z \div Incr \in Nat
        /\ z = (z \div Incr) * Incr + (z % Incr)
    BY <1>1
  <2>3. range(y) * Incr + (y % Incr) = range(z) * Incr + (z % Incr)
    <3> HIDE DEF range
    <3>1. range(y) * Incr + (y % Incr) \in Nat /\ range(z) * Incr + (z % Incr) \in Nat
      BY <1>0, <2>1, <2>2
    <3>2. range(y) * Incr + (y % Incr) + 1 = range(z) * Incr + (z % Incr) + 1
      BY <1>3
    <3> QED BY <3>1, <3>2
  <2>4. range(y) = range(z) /\ y % Incr = z % Incr
    <3> HIDE DEF range
    <3> QED BY <1>0, <2>1, <2>2, <2>3, QuotUnique, SMTT(30)
  <2>5. y \div Incr = z \div Incr
    BY <1>0, <2>1, <2>2, <2>4, QuotUnique
  <2> QED BY <2>1, <2>2, <2>4, <2>5
<1>4. ASSUME NEW t \in Owned(s) \ {0} PROVE \E y \in Y : f[y] = t
  <2>1. t \in 1 .. TotalTokens * Incr /\ RangeNext(t) = s
    <3>1. t \in Nat \ {0} /\ RangeNext(t) = s
      BY <1>0 DEF Owned
    <3>2. ~(t > TotalTokens * Incr)
      BY <1>0, <3>1, TokenBeyond
    <3> QED BY <1>0, <3>1, <3>2
  <2>2. PICK i \in 0 .. TotalTokens - 1, o \in 0 .. Incr - 1 : t = i * Incr + o + 1
    BY <2>1, TokenHasRange
  <2>3. i % n = s
    BY <2>1, <2>2, TokenInRange
  <2> DEFINE j == i \div n
  <2>4. i \in Nat /\ j \in Nat /\ i = j * n + s
    <3>1. i \in Nat
      BY <1>0, <2>2
    <3>2. i \div n \in Nat /\ i = (i \div n) * n + (i % n)
      BY <1>0, <3>1, DivFacts
    <3> QED BY <2>3, <3>1, <3>2
  <2> HIDE DEF j
  <2>5. j < num_tokens
    BY <1>0, <2>2, <2>4, QuotBound
  <2> DEFINE y == j * Incr + o
  <2>6. y \in Nat /\ y \div Incr = j /\ y % Incr = o
    BY <1>0, <2>2, <2>4, DivOf
  <2>7. y < num_tokens * Incr
    BY <1>0, <2>2, <2>4, <2>5, QuotBound
  <2> HIDE DEF y
  <2>8. y \in Y
    BY <1>0, <2>6, <2>7
  <2>9. f[y] = i * Incr + o + 1
    <3>1. range(y) = i
      BY <2>4, <2>6
    <3>2. f[y] = range(y) * Incr + (y % Incr) + 1
      BY <2>8
    <3> QED BY <2>6, <3>1, <3>2
  <2> QED BY <2>2, <2>8, <2>9
<1> HIDE DEF f, Y
<1>5. f \in [Y -> Owned(s) \ {0}]
  <2>1. f = [y \in Y |-> f[y]]
    BY DEF f
  <2> QED BY <1>2, <2>1
<1>6. ExistsBijection(Y, Owned(s) \ {0})
  <2>1. f \in Bijection(Y, Owned(s) \ {0})
    BY <1>3, <1>4, <1>5, Fun_IsBij
  <2> QED BY <2>1 DEF ExistsBijection
<1>7. IsFiniteSet(Y) /\ Cardinality(Y) = num_tokens * Incr
  <2> DEFINE c == num_tokens * Incr
  <2>1. c \in Nat
    BY <1>0
  <2> HIDE DEF c
  <2>2. IsFiniteSet(0 .. c - 1)
        /\ Cardinality(0 .. c - 1) = IF 0 > c - 1 THEN 0 ELSE c - 1 - 0 + 1
    BY <2>1, FS_Interval
  <2>3. Cardinality(0 .. c - 1) = c
    BY <2>1, <2>2
  <2> QED BY <2>2, <2>3 DEF Y, c
<1> QED BY <1>6, <1>7, FS_Bijection

\* Within its bounds, whatever the client was constructed with shares the
\* tokens.
LEMMA SharedBySize == Sizes => TokensShared
<1> SUFFICES ASSUME Sizes PROVE TokensShared
  OBVIOUS
<1>0. /\ num_servers \in Nat \ {0} /\ num_tokens \in Nat \ {0} /\ MaxToken \in Nat
      /\ TotalTokens \in Nat \ {0} /\ Incr \in Nat \ {0}
      /\ TotalTokens * Incr \in Nat /\ TotalTokens * Incr <= MaxToken
      /\ MaxToken - TotalTokens * Incr < TotalTokens /\ num_tokens * Incr \in Nat
  BY RangeFacts
<1>1. ASSUME NEW t \in 1 .. TotalTokens * Incr PROVE RangeNext(t) \in Nat
  <2>1. PICK i \in 0 .. TotalTokens - 1, o \in 0 .. Incr - 1 : t = i * Incr + o + 1
    BY TokenHasRange
  <2>2. RangeNext(t) = i % num_servers
    BY <2>1, TokenInRange
  <2> QED BY <1>0, <2>1, <2>2, DivFacts
<1>2. Cardinality(Owned(-1)) < TotalTokens
  <2>1. Owned(-1) = TotalTokens * Incr + 1 .. MaxToken
    <3>1. ASSUME NEW t \in 0 .. MaxToken
          PROVE  RangeNext(t) = -1 <=> t >= TotalTokens * Incr + 1
      <4>1. CASE t = 0
        BY <1>0, <4>1, TokenZero
      <4>2. CASE t \in 1 .. TotalTokens * Incr
        BY <1>0, <1>1, <4>2
      <4>3. CASE t > TotalTokens * Incr
        BY <1>0, <4>3, TokenBeyond
      <4> QED BY <1>0, <4>1, <4>2, <4>3
    <3>2. \A t : t \in TotalTokens * Incr + 1 .. MaxToken
                 <=> t \in 0 .. MaxToken /\ t >= TotalTokens * Incr + 1
      BY <1>0
    <3> QED BY <3>1, <3>2 DEF Owned
  <2> DEFINE a == TotalTokens * Incr
  <2>2. a \in Nat /\ a <= MaxToken /\ MaxToken - a < TotalTokens
    BY <1>0
  <2> HIDE DEF a
  <2>3. Cardinality(a + 1 .. MaxToken) = IF a + 1 > MaxToken THEN 0 ELSE MaxToken - (a + 1) + 1
    BY <1>0, <2>2, FS_Interval
  <2>4. Cardinality(a + 1 .. MaxToken) < TotalTokens
    BY <1>0, <2>2, <2>3
  <2> QED BY <2>1, <2>4 DEF a
<1>3. ASSUME NEW s \in Servers
      PROVE  Cardinality(Owned(s)) = num_tokens * Incr + IF s = 0 THEN 1 ELSE 0
  <2>1. /\ IsFiniteSet(Owned(s) \ {0})
        /\ Cardinality(Owned(s) \ {0}) = num_tokens * Incr
    BY OwnedCount
  <2>2. 0 \in Owned(s) <=> s = 0
    BY <1>0, TokenZero DEF Owned
  <2>3. CASE s = 0
    <3>1. Owned(s) = (Owned(s) \ {0}) \cup {0}
      BY <2>2, <2>3
    <3>2. Cardinality((Owned(s) \ {0}) \cup {0}) = Cardinality(Owned(s) \ {0}) + 1
      BY <2>1, FS_AddElement
    <3> QED BY <2>1, <2>3, <3>1, <3>2
  <2>4. CASE s # 0
    <3>1. Owned(s) = Owned(s) \ {0}
      BY <2>2, <2>4
    <3> QED BY <1>0, <2>1, <2>4, <3>1
  <2> QED BY <2>3, <2>4
<1> QED BY <1>2, <1>3 DEF TokensShared

\* The ranges of range_based_read_policy are fair for every number of servers
\* and tokens that fits the token type.
THEOREM TokensSharedEvenly == Spec => []TokensShared
<1>1. Init => Sizes
  BY DEF Init, Sizes
<1>2. Sizes /\ [Next]_vars => Sizes'
  <2> SUFFICES ASSUME Sizes, [Next]_vars PROVE UNCHANGED <<num_servers, num_tokens>>
    BY DEF Sizes
  <2> QED BY DEF Next, Write, Get, GetFrom, Commit, SetMapping, Ended, vars, policyVars
<1> QED BY <1>1, <1>2, SharedBySize, PTL DEF Spec
=============================================================================
