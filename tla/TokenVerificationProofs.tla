---------------------- MODULE TokenVerificationProofs ----------------------
(***************************************************************************)
(* Theorems about TokenVerification, for every number of tokens, instances *)
(* and concurrent requests, and every capacity, TTL and request timeout.   *)
(***************************************************************************)
EXTENDS TokenVerification, SequenceTheorems, TLAPS

(* Setting a key, evicting the oldest entry and deleting a key keep a        *)
(* sequence of entries, and every entry of the result is the one set or one  *)
(* that was there.                                                           *)
LEMMA PutEntries ==
  ASSUME NEW c \in Seq(Entry), NEW e \in Entry
  PROVE  /\ Put(c, e) \in Seq(Entry)
         /\ Len(Put(c, e)) <= Len(c) + 1
         /\ \A p \in DOMAIN Put(c, e) :
              Put(c, e)[p] = e \/ \E q \in DOMAIN c : Put(c, e)[p] = c[q]
<1>1. CASE Holds(c, e.key)
  <2>1. At(c, e.key) \in DOMAIN c
    BY <1>1 DEF Holds, At
  <2>2. Put(c, e) = [c EXCEPT ![At(c, e.key)] = e]
    BY <1>1 DEF Put
  <2> QED BY <2>1, <2>2
<1>2. CASE ~Holds(c, e.key)
  <2>1. Put(c, e) = Append(c, e)
    BY <1>2 DEF Put
  <2> QED BY <2>1
<1> QED BY <1>1, <1>2

LEMMA MakeRoomEntries ==
  ASSUME NEW c \in Seq(Entry), Len(c) <= Capacity
  PROVE  /\ MakeRoom(c) \in Seq(Entry)
         /\ Len(MakeRoom(c)) + 1 <= Capacity
         /\ \A p \in DOMAIN MakeRoom(c) : \E q \in DOMAIN c : MakeRoom(c)[p] = c[q]
<1>1. CASE Len(c) >= Capacity
  <2>1. MakeRoom(c) = Tail(c) /\ c # << >>
    BY <1>1, CapacityAssumption DEF MakeRoom
  <2>2. \A p \in DOMAIN Tail(c) : p + 1 \in DOMAIN c /\ Tail(c)[p] = c[p + 1]
    BY <2>1
  <2> QED BY <2>1, <2>2, CapacityAssumption
<1>2. CASE ~(Len(c) >= Capacity)
  BY <1>2, CapacityAssumption DEF MakeRoom
<1> QED BY <1>1, <1>2

(* Deleting a key closes the gap: what stood behind it moves up by one.      *)
LEMMA DropPositions ==
  ASSUME NEW c \in Seq(Entry), NEW t \in Tokens, Holds(c, t)
  PROVE  \E k \in 1..Len(c) :
           /\ c[k].key = t
           /\ Drop(c, t) \in Seq(Entry)
           /\ Len(Drop(c, t)) = Len(c) - 1
           /\ \A p \in 1..(Len(c) - 1) : Drop(c, t)[p] = c[IF p < k THEN p ELSE p + 1]
<1>1. PICK k \in 1..Len(c) : c[k].key = t /\ Drop(c, t) = SubSeq(c, 1, k - 1) \o SubSeq(c, k + 1, Len(c))
  <2>1. At(c, t) \in 1..Len(c) /\ c[At(c, t)].key = t
    BY DEF Holds, At
  <2>2. Drop(c, t) = RemoveAt(c, At(c, t))
    BY DEF Drop
  <2> QED BY <2>1, <2>2 DEF RemoveAt
<1> DEFINE a == SubSeq(c, 1, k - 1)
           b == SubSeq(c, k + 1, Len(c))
<1>2. a \in Seq(Entry) /\ Len(a) = k - 1 /\ \A p \in 1..(k - 1) : a[p] = c[p]
  BY <1>1, SubSeqProperties
<1>3. b \in Seq(Entry) /\ Len(b) = Len(c) - k /\ \A p \in 1..(Len(c) - k) : b[p] = c[p + k]
  BY <1>1, SubSeqProperties
<1>4. Drop(c, t) = a \o b
  BY <1>1
<1> HIDE DEF a, b
<1>5. /\ a \o b \in Seq(Entry)
      /\ Len(a \o b) = Len(c) - 1
      /\ \A p \in 1..(Len(c) - 1) : (a \o b)[p] = IF p <= k - 1 THEN a[p] ELSE b[p - (k - 1)]
  <2>1. Len(a) + Len(b) = Len(c) - 1
    BY <1>2, <1>3
  <2>2. /\ a \o b \in Seq(Entry)
        /\ Len(a \o b) = Len(a) + Len(b)
        /\ \A p \in 1..(Len(a) + Len(b)) : (a \o b)[p] = IF p <= Len(a) THEN a[p] ELSE b[p - Len(a)]
    BY <1>2, <1>3, ConcatProperties, Zenon
  <2> QED BY <1>2, <2>1, <2>2
<1>6. ASSUME NEW p \in 1..(Len(c) - 1)
      PROVE  (a \o b)[p] = c[IF p < k THEN p ELSE p + 1]
  <2>1. CASE p < k
    BY <2>1, <1>2, <1>5
  <2>2. CASE ~(p < k)
    <3>1. p - (k - 1) \in 1..(Len(c) - k) /\ ~(p <= k - 1)
      BY <2>2
    <3> QED BY <2>2, <3>1, <1>3, <1>5
  <2> QED BY <2>1, <2>2
<1> QED BY <1>1, <1>4, <1>5, <1>6

LEMMA DropEntries ==
  ASSUME NEW c \in Seq(Entry), NEW t \in Tokens
  PROVE  /\ Drop(c, t) \in Seq(Entry)
         /\ Len(Drop(c, t)) <= Len(c)
         /\ \A p \in DOMAIN Drop(c, t) : \E q \in DOMAIN c : Drop(c, t)[p] = c[q]
<1>1. CASE Holds(c, t)
  <2>1. PICK k \in 1..Len(c) :
          /\ Drop(c, t) \in Seq(Entry)
          /\ Len(Drop(c, t)) = Len(c) - 1
          /\ \A p \in 1..(Len(c) - 1) : Drop(c, t)[p] = c[IF p < k THEN p ELSE p + 1]
    BY <1>1, DropPositions
  <2>2. \A p \in 1..(Len(c) - 1) : (IF p < k THEN p ELSE p + 1) \in DOMAIN c
    OBVIOUS
  <2> HIDE DEF Drop
  <2> QED BY <2>1, <2>2
<1>2. CASE ~Holds(c, t)
  BY <1>2 DEF Drop
<1> QED BY <1>1, <1>2

(* A key stands at one position at most: setting a key keeps its position,   *)
(* and neither the eviction nor a deletion brings another one.               *)
Distinct(c) == \A p, q \in DOMAIN c : c[p].key = c[q].key => p = q

LEMMA CachedDistinct ==
  ASSUME NEW c \in Seq(Entry), Len(c) <= Capacity, Distinct(c), NEW e \in Entry
  PROVE  Distinct(Put(MakeRoom(c), e))
<1> DEFINE m == MakeRoom(c)
<1>1. m \in Seq(Entry) /\ Distinct(m)
  <2>1. m \in Seq(Entry)
    BY MakeRoomEntries
  <2>2. CASE Len(c) >= Capacity
    <3>1. m = Tail(c) /\ c # << >>
      BY <2>2, CapacityAssumption DEF MakeRoom
    <3>2. \A p \in DOMAIN Tail(c) : p \in Nat /\ p + 1 \in DOMAIN c /\ Tail(c)[p] = c[p + 1]
      BY <3>1
    <3>3. ASSUME NEW p \in DOMAIN Tail(c), NEW q \in DOMAIN Tail(c), Tail(c)[p].key = Tail(c)[q].key
          PROVE  p = q
      <4>1. p + 1 = q + 1
        BY <3>2, <3>3 DEF Distinct
      <4> QED BY <3>2, <4>1
    <3> QED BY <2>1, <3>1, <3>3 DEF Distinct
  <2>3. CASE ~(Len(c) >= Capacity)
    BY <2>1, <2>3 DEF MakeRoom
  <2> QED BY <2>2, <2>3
<1> HIDE DEF m
<1>2. CASE Holds(m, e.key)
  <2>1. At(m, e.key) \in DOMAIN m /\ m[At(m, e.key)].key = e.key
    BY <1>2 DEF Holds, At
  <2>2. DOMAIN Put(m, e) = DOMAIN m /\ \A p \in DOMAIN m : Put(m, e)[p].key = m[p].key
    BY <1>1, <1>2, <2>1 DEF Put
  <2> QED BY <1>1, <2>2 DEF Distinct, m
<1>3. CASE ~Holds(m, e.key)
  <2> DEFINE d == Put(m, e)
             n == Len(m) + 1
  <2>1. d = Append(m, e)
    BY <1>3 DEF Put
  <2>2. /\ n \in Nat /\ DOMAIN m = 1..(n - 1) /\ DOMAIN d = 1..n
        /\ d[n] = e /\ \A p \in 1..(n - 1) : d[p] = m[p]
    BY <1>1, <2>1
  <2>3. \A p \in DOMAIN m : m[p].key # e.key
    BY <1>3 DEF Holds
  <2> HIDE DEF d, n
  <2>4. \A p \in DOMAIN d : p = n \/ p \in DOMAIN m
    BY <2>2
  <2> QED BY <1>1, <2>2, <2>3, <2>4 DEF Distinct, d, m
<1> QED BY <1>2, <1>3 DEF m

(* After a deletion the key is gone, since it stood at one position only.    *)
LEMMA DropForgets ==
  ASSUME NEW c \in Seq(Entry), Distinct(c), NEW t \in Tokens
  PROVE  Distinct(Drop(c, t)) /\ ~Holds(Drop(c, t), t)
<1>1. CASE Holds(c, t)
  <2>1. PICK k \in 1..Len(c) :
          /\ c[k].key = t
          /\ Drop(c, t) \in Seq(Entry)
          /\ Len(Drop(c, t)) = Len(c) - 1
          /\ \A p \in 1..(Len(c) - 1) : Drop(c, t)[p] = c[IF p < k THEN p ELSE p + 1]
    BY <1>1, DropPositions
  <2> DEFINE d == Drop(c, t)
             old(p) == IF p < k THEN p ELSE p + 1
  <2>2. \A p \in DOMAIN d : old(p) \in DOMAIN c /\ d[p] = c[old(p)] /\ old(p) # k
    BY <2>1
  <2>3. \A p, q \in DOMAIN d : old(p) = old(q) => p = q
    BY <2>1
  <2>4. k \in DOMAIN c /\ c[k].key = t
    BY <2>1
  <2> HIDE DEF d, old
  <2>5. Distinct(d)
    BY <2>2, <2>3 DEF Distinct
  <2>6. ~Holds(d, t)
    BY <2>2, <2>4 DEF Distinct, Holds
  <2> QED BY <2>5, <2>6 DEF d
<1>2. CASE ~Holds(c, t)
  BY <1>2 DEF Drop
<1> QED BY <1>1, <1>2

LEMMA ExpiryNat == \A u \in Nat : ExpiresAt(u) \in Nat
<1> TAKE u \in Nat
<1> DEFINE n == u + Second - 1
<1>1. n \in Nat /\ Second \in Nat /\ Second > 0
  BY ClockAssumption
<1> HIDE DEF n
<1>2. n \div Second \in Int /\ n = Second * (n \div Second) + (n % Second) /\ n % Second \in 0..(Second - 1)
  BY <1>1
<1>3. n \div Second \in Nat
  BY <1>1, <1>2
<1> QED BY <1>3 DEF ExpiresAt, n

(* Caching a verification: the size test, the eviction and the set together. *)
LEMMA CachedEntries ==
  ASSUME NEW c \in Seq(Entry), Len(c) <= Capacity, NEW e \in Entry
  PROVE  LET d == Put(MakeRoom(c), e)
         IN  /\ d \in Seq(Entry)
             /\ Len(d) <= Capacity
             /\ \A p \in DOMAIN d : d[p] = e \/ \E q \in DOMAIN c : d[p] = c[q]
<1> DEFINE m == MakeRoom(c)
           d == Put(m, e)
<1>1. /\ m \in Seq(Entry)
      /\ Len(m) + 1 <= Capacity
      /\ \A p \in DOMAIN m : \E q \in DOMAIN c : m[p] = c[q]
  BY MakeRoomEntries
<1> HIDE DEF m
<1>2. /\ d \in Seq(Entry)
      /\ Len(d) <= Len(m) + 1
      /\ \A p \in DOMAIN d : d[p] = e \/ \E q \in DOMAIN m : d[p] = m[q]
  BY <1>1, PutEntries
<1> HIDE DEF d
<1>3. Len(d) <= Capacity
  BY <1>1, <1>2, CapacityAssumption
<1>4. \A p \in DOMAIN d : d[p] = e \/ \E q \in DOMAIN c : d[p] = c[q]
  BY <1>1, <1>2, Zenon
<1> QED BY <1>2, <1>3, <1>4 DEF d, m

-----------------------------------------------------------------------------
LEMMA TypeInit == Init => TypeOK
BY DEF Init, TypeOK, Idle

(* A call that failed waits for its retry, or its request is over.           *)
LEMMA FailedFacts ==
  ASSUME NEW h \in Handlers, req \in [Handlers -> Request \cup {Idle}], IdentityFailed(h)
  PROVE  req' \in [Handlers -> Request \cup {Idle}] /\ req'[h].pc \in {"backoff", "idle"}
<1> DEFINE waits == [req[h] EXCEPT !.pc = "backoff", !.since = 0, !.answer = "none"]
<1>1. req[h] \in Request
  BY DEF IdentityFailed, Idle
<1>2. waits \in Request /\ waits.pc = "backoff"
  BY <1>1 DEF Request
<1>3. Idle.pc = "idle"
  BY DEF Idle
<1>4. CASE req' = [req EXCEPT ![h] = waits]
  <2> HIDE DEF waits
  <2> QED BY <1>2, <1>4
<1>5. CASE req' = [req EXCEPT ![h] = Idle]
  BY <1>3, <1>5
<1> QED BY <1>4, <1>5 DEF IdentityFailed

(* Every step keeps the types and the bound on the cache: only VerifyDone    *)
(* adds an entry, and it makes room first.                                   *)
LEMMA TypeStep == TypeOK /\ CacheBounded /\ [Next]_vars => TypeOK' /\ CacheBounded'
<1> SUFFICES ASSUME TypeOK, CacheBounded, [Next]_vars PROVE TypeOK' /\ CacheBounded'
  OBVIOUS
<1> USE DEF TypeOK, CacheBounded
<1>1. ASSUME NEW h \in Handlers, IdentityAnswered(h) PROVE TypeOK' /\ CacheBounded'
  <2>1. req[h] \in Request
    BY <1>1 DEF IdentityAnswered, Idle
  <2>2. req' \in [Handlers -> Request \cup {Idle}]
    BY <1>1, <2>1 DEF IdentityAnswered, Request
  <2> QED BY <1>1, <2>2 DEF IdentityAnswered
<1>2. ASSUME NEW h \in Handlers, IdentityFailed(h) PROVE TypeOK' /\ CacheBounded'
  <2>1. req' \in [Handlers -> Request \cup {Idle}]
    BY <1>2, FailedFacts
  <2> QED BY <1>2, <2>1 DEF IdentityFailed
<1>3. ASSUME NEW h \in Handlers, IdentityRetried(h) PROVE TypeOK' /\ CacheBounded'
  <2>1. req[h].pc # "idle"
    BY <1>3 DEF IdentityRetried
  <2>2. req[h] \in Request
    BY <2>1 DEF Idle
  <2>3. [req[h] EXCEPT !.pc = "asking", !.attempt = 1, !.since = now] \in Request
    BY <2>2 DEF Request
  <2>4. req' = [req EXCEPT ![h] = [req[h] EXCEPT !.pc = "asking", !.attempt = 1, !.since = now]]
    BY <1>3 DEF IdentityRetried
  <2>9. req' \in [Handlers -> Request \cup {Idle}]
    BY <2>3, <2>4
  <2> QED BY <1>3, <2>9 DEF IdentityRetried
<1>4. ASSUME NEW h \in Handlers, VerifyDone(h) PROVE TypeOK' /\ CacheBounded'
  <2> DEFINE i == req[h].inst
             t == req[h].tok
             d == Put(MakeRoom(cache[i]), Verified(t))
  <2>1. i \in Instances /\ t \in Tokens
    BY <1>4 DEF VerifyDone, Request, Idle
  <2>2. req' \in [Handlers -> Request \cup {Idle}]
    BY <1>4 DEF VerifyDone
  <2>3. Verified(t) \in Entry
    <3>1. now + TTL \in Nat
      BY ClockAssumption
    <3>2. ExpiresAt(now + TTL) \in Nat
      BY <3>1, ExpiryNat
    <3> QED BY <2>1, <3>1, <3>2 DEF Verified, Entry
  <2>4. d \in Seq(Entry) /\ Len(d) <= Capacity
    BY <2>1, <2>3, CachedEntries
  <2>5. cache' = [cache EXCEPT ![i] = d] \/ cache' = cache
    BY <1>4 DEF VerifyDone
  <2> HIDE DEF i, t, d
  <2>6. cache' \in [Instances -> Seq(Entry)] /\ \A j \in Instances : Len(cache'[j]) <= Capacity
    BY <2>1, <2>4, <2>5
  <2> QED BY <2>2, <2>6, <1>4 DEF VerifyDone
<1>5. ASSUME NEW h \in Handlers, RevokeListed(h) PROVE TypeOK' /\ CacheBounded'
  <2>1. req[h].pc # "idle"
    BY <1>5 DEF RevokeListed
  <2>2. req[h] \in Request
    BY <2>1 DEF Idle
  <2>3. \A u \in Tokens : [req[h] EXCEPT !.pc = "deleting", !.row = u] \in Request
    BY <2>2 DEF Request
  <2>4. \/ \E u \in Tokens : req' = [req EXCEPT ![h] = [req[h] EXCEPT !.pc = "deleting", !.row = u]]
        \/ req' = [req EXCEPT ![h] = Idle]
    BY <1>5 DEF RevokeListed, Matches
  <2>9. req' \in [Handlers -> Request \cup {Idle}]
    BY <2>3, <2>4
  <2> QED BY <1>5, <2>9 DEF RevokeListed
<1>6. ASSUME NEW h \in Handlers, RevokeDeleted(h) PROVE TypeOK' /\ CacheBounded'
  <2>1. req[h].pc # "idle"
    BY <1>6 DEF RevokeDeleted
  <2>2. req[h] \in Request
    BY <2>1 DEF Idle
  <2>3. [req[h] EXCEPT !.pc = "deleted"] \in Request
    BY <2>2 DEF Request
  <2>4. req' = [req EXCEPT ![h] = [req[h] EXCEPT !.pc = "deleted"]]
    BY <1>6 DEF RevokeDeleted
  <2>9. req' \in [Handlers -> Request \cup {Idle}]
    BY <2>3, <2>4
  <2> QED BY <1>6, <2>9 DEF RevokeDeleted, Die
<1>7. ASSUME NEW h \in Handlers, RevokeRetried(h) PROVE TypeOK' /\ CacheBounded'
  <2>1. req[h].pc # "idle"
    BY <1>7 DEF RevokeRetried
  <2>2. req[h] \in Request
    BY <2>1 DEF Idle
  <2>3. [req[h] EXCEPT !.pc = "deleting", !.attempt = 1] \in Request
    BY <2>2 DEF Request
  <2>4. req' = [req EXCEPT ![h] = [req[h] EXCEPT !.pc = "deleting", !.attempt = 1]]
    BY <1>7 DEF RevokeRetried
  <2>9. req' \in [Handlers -> Request \cup {Idle}]
    BY <2>3, <2>4
  <2> QED BY <1>7, <2>9 DEF RevokeRetried
<1>8. ASSUME NEW h \in Handlers, RevokeFailed(h) PROVE TypeOK' /\ CacheBounded'
  BY <1>8 DEF RevokeFailed
<1>9. ASSUME NEW h \in Handlers, RevokeDone(h) PROVE TypeOK' /\ CacheBounded'
  <2> DEFINE i == req[h].inst
             t == req[h].tok
             d == Drop(cache[i], t)
  <2>1. i \in Instances /\ t \in Tokens
    BY <1>9 DEF RevokeDone, Request, Idle
  <2>2. d \in Seq(Entry) /\ Len(d) <= Len(cache[i])
    BY <2>1, DropEntries
  <2>3. cache' = [cache EXCEPT ![i] = d]
    BY <1>9 DEF RevokeDone
  <2>4. revoked' \in [Instances -> [Tokens -> {"no", "clean", "raced"}]]
    BY <1>9 DEF RevokeDone
  <2>5. req' \in [Handlers -> Request \cup {Idle}]
    BY <1>9 DEF RevokeDone
  <2> HIDE DEF i, t, d
  <2>6. Len(cache[i]) <= Capacity /\ Len(cache[i]) \in Nat /\ Len(d) \in Nat
    BY <2>1, <2>2
  <2>7. cache' \in [Instances -> Seq(Entry)] /\ \A j \in Instances : Len(cache'[j]) <= Capacity
    BY <2>1, <2>2, <2>3, <2>6, CapacityAssumption
  <2> QED BY <2>4, <2>5, <2>7, <1>9 DEF RevokeDone
<1>10. ASSUME NEW h \in Handlers, NEW i \in Instances, NEW t \in Tokens,
              VerifyHit(h, i, t) \/ VerifyMiss(h, i, t) \/ RevokeStart(h, i, t)
       PROVE  TypeOK' /\ CacheBounded'
  <2>1. [pc |-> "asking", inst |-> i, tok |-> t, row |-> t,
         since |-> now, attempt |-> 0, answer |-> "none"] \in Request
    BY DEF Request
  <2>2. [pc |-> "listing", inst |-> i, tok |-> t, row |-> t,
         since |-> 0, attempt |-> 0, answer |-> "none"] \in Request
    BY DEF Request
  <2>3. CASE VerifyHit(h, i, t)
    BY <2>3 DEF VerifyHit, vars
  <2>4. CASE VerifyMiss(h, i, t)
    BY <2>4, <2>1 DEF VerifyMiss
  <2>5. CASE RevokeStart(h, i, t)
    BY <2>5, <2>2 DEF RevokeStart
  <2> QED BY <1>10, <2>3, <2>4, <2>5
<1>11. ASSUME NEW t \in Tokens, TokenDies(t) PROVE TypeOK' /\ CacheBounded'
  BY <1>11 DEF TokenDies, Die
<1>12. CASE Tick
  BY <1>12 DEF Tick
<1>13. CASE UNCHANGED vars
  BY <1>13 DEF vars
<1> QED BY <1>1, <1>2, <1>3, <1>4, <1>5, <1>6, <1>7, <1>8, <1>9, <1>10, <1>11, <1>12, <1>13
        DEF Next, Answer

(* The state of the hosted verifier is well typed, and the map of verified   *)
(* tokens stays within VERIFICATION_CACHE_MAX on every instance, however     *)
(* verifications and revocations interleave.                                 *)
THEOREM CacheStaysBounded == Spec => [](TypeOK /\ CacheBounded)
<1>1. Init => CacheBounded
  BY CapacityAssumption DEF Init, CacheBounded
<1> QED BY <1>1, TypeInit, TypeStep, PTL DEF Spec

-----------------------------------------------------------------------------
(* Freshness speaks of entries and requests one by one: when the clock and   *)
(* agents-service do not move, it is enough that every entry of the new      *)
(* cache is fresh or was there before, and that the one request that changed *)
(* is fresh.                                                                 *)
LEMMA FreshFrame ==
  ASSUME Freshness, UNCHANGED <<now, live, diedAt>>,
         \A i \in Instances : \A p \in DOMAIN cache'[i] :
           \/ EntryFresh(cache'[i][p])
           \/ \E q \in DOMAIN cache[i] : cache'[i][p] = cache[i][q],
         \A h \in Handlers : req'[h] = req[h] \/ RequestFresh(req'[h])
  PROVE  Freshness'
BY DEF Freshness, EntryFresh, RequestFresh

LEMMA FreshInit == Init => Freshness
BY DEF Init, Freshness, EntryFresh, RequestFresh, Idle

(* A token dies: now is the largest until and since can have been computed   *)
(* from, so the bounds hold at its death.                                    *)
LEMMA FreshDeath ==
  ASSUME TypeOK, Freshness, NEW t \in Tokens, Die(t), UNCHANGED <<now, cache>>,
         \A h \in Handlers :
           req'[h] = req[h] \/ req'[h].pc \notin {"asking", "answered"}
  PROVE  Freshness'
<1>1. ASSUME NEW i \in Instances, NEW p \in DOMAIN cache[i]
      PROVE  EntryFresh(cache[i][p])'
  <2> DEFINE e == cache[i][p]
  <2>1. e \in Entry /\ EntryFresh(e)
    BY <1>1 DEF TypeOK, Freshness
  <2>2. e' = e /\ e.until \in Nat /\ e.key \in Tokens
    BY <2>1 DEF Entry
  <2> HIDE DEF e
  <2>3. now \in Nat /\ now' = now /\ e.until <= now + TTL
    BY <2>1 DEF TypeOK, EntryFresh
  <2>4. CASE e.key = t
    <3>1. diedAt'[t] = now
      BY DEF Die, TypeOK
    <3>2. e.until <= diedAt'[t] + Flight + TTL
      BY <2>2, <2>3, <3>1, ClockAssumption
    <3> QED BY <2>2, <2>3, <2>4, <3>2 DEF EntryFresh, e
  <2>5. CASE e.key # t
    BY <2>1, <2>2, <2>3, <2>5 DEF Die, TypeOK, EntryFresh, e
  <2> QED BY <2>4, <2>5
<1>2. ASSUME NEW h \in Handlers
      PROVE  RequestFresh(req[h])'
  <2>1. CASE req'[h].pc \notin {"asking", "answered"}
    BY <2>1 DEF RequestFresh
  <2>2. CASE req'[h] = req[h] /\ req[h].pc \in {"asking", "answered"}
    <3>1. req[h] \in Request /\ RequestFresh(req[h])
      BY <2>2 DEF TypeOK, Idle, Freshness
    <3>2. req[h].since \in Nat /\ req[h].tok \in Tokens /\ req[h].since <= now
      BY <2>2, <3>1 DEF Request, RequestFresh
    <3>3. CASE req[h].tok = t
      <4>1. diedAt'[t] = now
        BY DEF Die, TypeOK
      <4> QED BY <2>2, <3>1, <3>2, <3>3, <4>1 DEF RequestFresh
    <3>4. CASE req[h].tok # t
      BY <2>2, <3>1, <3>2, <3>4 DEF RequestFresh, Die, TypeOK
    <3> QED BY <3>3, <3>4
  <2> QED BY <2>1, <2>2
<1> QED BY <1>1, <1>2 DEF Freshness

LEMMA FreshStep == TypeOK /\ CacheBounded /\ Freshness /\ [Next]_vars => Freshness'
<1> SUFFICES ASSUME TypeOK, CacheBounded, Freshness, [Next]_vars PROVE Freshness'
  OBVIOUS
<1>1. ASSUME NEW h \in Handlers, IdentityAnswered(h) PROVE Freshness'
  <2>1. req[h] \in Request /\ RequestFresh(req[h])
    BY <1>1 DEF IdentityAnswered, TypeOK, Idle, Freshness
  <2>2. RequestFresh(req'[h])
    BY <1>1, <2>1 DEF IdentityAnswered, RequestFresh, TypeOK, Request
  <2> QED BY <1>1, <2>2, FreshFrame DEF IdentityAnswered, TypeOK
<1>2. ASSUME NEW h \in Handlers, IdentityFailed(h) PROVE Freshness'
  <2>2. req'[h].pc \in {"backoff", "idle"}
    BY <1>2, FailedFacts DEF TypeOK
  <2>3. RequestFresh(req'[h])
    BY <2>2 DEF RequestFresh
  <2> QED BY <1>2, <2>3, FreshFrame DEF IdentityFailed, TypeOK
<1>3. ASSUME NEW h \in Handlers, IdentityRetried(h) PROVE Freshness'
  <2>1. req[h] \in Request
    BY <1>3 DEF IdentityRetried, TypeOK, Idle
  <2>2. req'[h].pc = "asking" /\ req'[h].since = now
    BY <1>3, <2>1 DEF IdentityRetried, TypeOK, Request
  <2>3. RequestFresh(req'[h])
    BY <2>2, ClockAssumption DEF RequestFresh, TypeOK
  <2> QED BY <1>3, <2>3, FreshFrame DEF IdentityRetried, TypeOK
<1>4. ASSUME NEW h \in Handlers, VerifyDone(h) PROVE Freshness'
  <2> DEFINE i == req[h].inst
             t == req[h].tok
             d == Put(MakeRoom(cache[i]), Verified(t))
  <2>1. req[h] \in Request /\ RequestFresh(req[h]) /\ req[h].pc = "answered"
    BY <1>4 DEF VerifyDone, TypeOK, Idle, Freshness
  <2>2. i \in Instances /\ t \in Tokens /\ req[h].since \in Nat
    BY <2>1 DEF Request
  <2>3. req'[h] = Idle /\ \A g \in Handlers \ {h} : req'[g] = req[g]
    BY <1>4 DEF VerifyDone, TypeOK
  <2>4. RequestFresh(req'[h])
    BY <2>3 DEF RequestFresh, Idle
  <2>5. CASE req[h].answer = "dead"
    <3>1. cache' = cache
      BY <1>4, <2>5 DEF VerifyDone
    <3> QED BY <1>4, <2>3, <2>4, <3>1, FreshFrame DEF VerifyDone
  <2>6. CASE req[h].answer = "live"
    <3>1. cache' = [cache EXCEPT ![i] = d]
      BY <1>4, <2>6 DEF VerifyDone
    <3>2. Verified(t) \in Entry
      <4>1. now + TTL \in Nat
        BY ClockAssumption DEF TypeOK
      <4> QED BY <2>2, <4>1, ExpiryNat DEF Verified, Entry
    <3>3. EntryFresh(Verified(t))
      <4>1. now \in Nat /\ now <= req[h].since + Flight
        BY <2>1 DEF RequestFresh, TypeOK
      <4>2. t \in live \/ req[h].since <= diedAt[t]
        BY <2>1, <2>6 DEF RequestFresh
      <4>3. diedAt[t] \in Nat
        BY <2>2 DEF TypeOK
      <4>4. t \in live \/ now + TTL <= diedAt[t] + Flight + TTL
        BY <2>2, <4>1, <4>2, <4>3, ClockAssumption
      <4> QED BY <4>1, <4>4, ClockAssumption DEF EntryFresh, Verified
    <3>4. cache[i] \in Seq(Entry) /\ Len(cache[i]) <= Capacity
      BY <2>2 DEF TypeOK, CacheBounded
    <3>5. \A p \in DOMAIN d : d[p] = Verified(t) \/ \E q \in DOMAIN cache[i] : d[p] = cache[i][q]
      BY <3>2, <3>4, CachedEntries
    <3> HIDE DEF d, i, t
    <3>6. \A j \in Instances : cache'[j] = IF j = i THEN d ELSE cache[j]
      BY <3>1 DEF TypeOK
    <3>7. \A j \in Instances : \A p \in DOMAIN cache'[j] :
             EntryFresh(cache'[j][p]) \/ \E q \in DOMAIN cache[j] : cache'[j][p] = cache[j][q]
      BY <3>3, <3>5, <3>6, Zenon
    <3> QED BY <1>4, <2>3, <2>4, <3>7, FreshFrame DEF VerifyDone
  <2> QED BY <1>4, <2>5, <2>6 DEF VerifyDone
<1>5. ASSUME NEW h \in Handlers, RevokeListed(h) PROVE Freshness'
  <2>1. req[h].pc # "idle"
    BY <1>5 DEF RevokeListed
  <2>2. req[h] \in Request
    BY <2>1 DEF TypeOK, Idle
  <2>3. \/ \E u \in Tokens : req' = [req EXCEPT ![h] = [req[h] EXCEPT !.pc = "deleting", !.row = u]]
        \/ req' = [req EXCEPT ![h] = Idle]
    BY <1>5 DEF RevokeListed, Matches, TypeOK
  <2>4. req'[h].pc \in {"deleting", "idle"} /\ \A g \in Handlers \ {h} : req'[g] = req[g]
    <3>1. CASE \E u \in Tokens : req' = [req EXCEPT ![h] = [req[h] EXCEPT !.pc = "deleting", !.row = u]]
      <4>1. PICK u \in Tokens : req' = [req EXCEPT ![h] = [req[h] EXCEPT !.pc = "deleting", !.row = u]]
        BY <3>1
      <4>2. req'[h] = [req[h] EXCEPT !.pc = "deleting", !.row = u]
        BY <4>1 DEF TypeOK
      <4>3. req'[h].pc = "deleting"
        BY <2>2, <4>2 DEF Request
      <4>4. \A g \in Handlers \ {h} : req'[g] = req[g]
        BY <4>1 DEF TypeOK
      <4> QED BY <4>3, <4>4
    <3>2. CASE req' = [req EXCEPT ![h] = Idle]
      BY <3>2 DEF TypeOK, Idle
    <3> QED BY <2>3, <3>1, <3>2
  <2>5. RequestFresh(req'[h])
    BY <2>4 DEF RequestFresh
  <2> QED BY <1>5, <2>4, <2>5, FreshFrame DEF RevokeListed
<1>6. ASSUME NEW h \in Handlers, RevokeDeleted(h) PROVE Freshness'
  <2>1. req[h] \in Request
    BY <1>6 DEF RevokeDeleted, TypeOK, Idle
  <2>2. req[h].row \in Tokens
    BY <2>1 DEF Request
  <2>3. req'[h].pc = "deleted" /\ \A g \in Handlers \ {h} : req'[g] = req[g]
    BY <1>6, <2>1 DEF RevokeDeleted, TypeOK, Request
  <2> QED BY <1>6, <2>2, <2>3, FreshDeath DEF RevokeDeleted
<1>7. ASSUME NEW h \in Handlers, RevokeRetried(h) PROVE Freshness'
  <2>1. req[h] \in Request
    BY <1>7 DEF RevokeRetried, TypeOK, Idle
  <2>2. req'[h].pc = "deleting"
    BY <1>7, <2>1 DEF RevokeRetried, TypeOK, Request
  <2>3. RequestFresh(req'[h])
    BY <2>2 DEF RequestFresh
  <2> QED BY <1>7, <2>3, FreshFrame DEF RevokeRetried, TypeOK
<1>8. ASSUME NEW h \in Handlers, RevokeFailed(h) PROVE Freshness'
  <2>1. req'[h] = Idle
    BY <1>8 DEF RevokeFailed, TypeOK
  <2>2. RequestFresh(req'[h])
    BY <2>1 DEF RequestFresh, Idle
  <2> QED BY <1>8, <2>2, FreshFrame DEF RevokeFailed, TypeOK
<1>9. ASSUME NEW h \in Handlers, RevokeDone(h) PROVE Freshness'
  <2> DEFINE i == req[h].inst
             t == req[h].tok
             d == Drop(cache[i], t)
  <2>1. req[h] \in Request
    BY <1>9 DEF RevokeDone, TypeOK, Idle
  <2>2. i \in Instances /\ t \in Tokens
    BY <2>1 DEF Request
  <2>3. \A p \in DOMAIN d : \E q \in DOMAIN cache[i] : d[p] = cache[i][q]
    BY <2>2, DropEntries DEF TypeOK
  <2>4. cache' = [cache EXCEPT ![i] = d]
    BY <1>9 DEF RevokeDone
  <2>5. req'[h] = Idle /\ \A g \in Handlers \ {h} : req'[g] = req[g]
    BY <1>9 DEF RevokeDone, TypeOK
  <2>6. RequestFresh(req'[h])
    BY <2>5 DEF RequestFresh, Idle
  <2> HIDE DEF i, t, d
  <2>7. \A j \in Instances : cache'[j] = IF j = i THEN d ELSE cache[j]
    BY <2>4 DEF TypeOK
  <2>8. \A j \in Instances : \A p \in DOMAIN cache'[j] :
          \E q \in DOMAIN cache[j] : cache'[j][p] = cache[j][q]
    BY <2>3, <2>7, Zenon
  <2> QED BY <1>9, <2>5, <2>6, <2>8, FreshFrame DEF RevokeDone
<1>10. ASSUME NEW h \in Handlers, NEW i \in Instances, NEW t \in Tokens, VerifyMiss(h, i, t)
       PROVE  Freshness'
  <2> DEFINE r == [pc |-> "asking", inst |-> i, tok |-> t, row |-> t,
                   since |-> now, attempt |-> 0, answer |-> "none"]
  <2>0. req'[h] = r /\ \A g \in Handlers \ {h} : req'[g] = req[g]
    BY <1>10 DEF VerifyMiss, TypeOK
  <2>1. req'[h].pc = "asking" /\ req'[h].since = now /\ now' = now
    BY <1>10, <2>0 DEF VerifyMiss
  <2>2. RequestFresh(req'[h])
    BY <2>1, ClockAssumption DEF RequestFresh, TypeOK
  <2> HIDE DEF r
  <2> QED BY <1>10, <2>0, <2>2, FreshFrame DEF VerifyMiss
<1>11. ASSUME NEW h \in Handlers, NEW i \in Instances, NEW t \in Tokens, RevokeStart(h, i, t)
       PROVE  Freshness'
  <2>1. req'[h].pc = "listing"
    BY <1>11 DEF RevokeStart, TypeOK
  <2>2. RequestFresh(req'[h])
    BY <2>1 DEF RequestFresh
  <2> QED BY <1>11, <2>2, FreshFrame DEF RevokeStart, TypeOK
<1>12. ASSUME NEW t \in Tokens, TokenDies(t) PROVE Freshness'
  BY <1>12, FreshDeath DEF TokenDies
<1>13. CASE Tick
  <2>1. now' = now + 1 /\ now \in Nat
    BY <1>13 DEF Tick, TypeOK
  <2>2. ASSUME NEW i \in Instances, NEW p \in DOMAIN cache[i]
        PROVE  EntryFresh(cache[i][p])'
    <3>1. cache[i][p] \in Entry /\ EntryFresh(cache[i][p])
      BY DEF TypeOK, Freshness
    <3>2. cache[i][p].until \in Nat
      BY <3>1 DEF Entry
    <3> QED BY <1>13, <2>1, <3>1, <3>2, ClockAssumption DEF EntryFresh, Tick
  <2>3. ASSUME NEW h \in Handlers
        PROVE  RequestFresh(req[h])'
    <3>1. CASE req[h].pc \notin {"asking", "answered"}
      BY <1>13, <3>1 DEF RequestFresh, Tick
    <3>2. CASE req[h].pc \in {"asking", "answered"}
      <4>1. req[h] \in Request /\ RequestFresh(req[h])
        BY <3>2 DEF TypeOK, Idle, Freshness
      <4>2. req[h].since \in Nat /\ now < req[h].since + Flight
        BY <1>13, <3>2, <4>1 DEF Request, Tick
      <4> QED BY <1>13, <2>1, <4>1, <4>2, ClockAssumption DEF RequestFresh, Tick
    <3> QED BY <3>1, <3>2
  <2> QED BY <1>13, <2>2, <2>3 DEF Freshness, Tick
<1>14. ASSUME NEW h \in Handlers, NEW i \in Instances, NEW t \in Tokens, VerifyHit(h, i, t)
       PROVE  Freshness'
  BY <1>14 DEF VerifyHit, vars, Freshness, EntryFresh, RequestFresh
<1>15. CASE UNCHANGED vars
  BY <1>15 DEF vars, Freshness, EntryFresh, RequestFresh
<1> QED BY <1>1, <1>2, <1>3, <1>4, <1>5, <1>6, <1>7, <1>8, <1>9, <1>10, <1>11, <1>12, <1>13, <1>14, <1>15
        DEF Next, Answer

(* A token that agents-service has stopped honouring is accepted for at most *)
(* TTL plus the flight time of one answer.                                   *)
THEOREM StalenessIsBounded == Spec => []StalenessBounded
<1>1. TypeOK /\ Freshness => StalenessBounded
  <2> SUFFICES ASSUME TypeOK, Freshness, NEW i \in Instances, NEW t \in Tokens, WouldServe(i, t)
               PROVE  t \in live \/ now <= diedAt[t] + Flight + TTL
    BY DEF StalenessBounded
  <2>1. now \in Nat /\ diedAt[t] \in Nat
    BY DEF TypeOK
  <2>2. CASE Hit(i, t)
    <3>1. PICK p \in DOMAIN cache[i] : cache[i][p].key = t /\ cache[i][p].until > now
      BY <2>2 DEF Hit, Holds, At
    <3>2. cache[i][p] \in Entry /\ EntryFresh(cache[i][p])
      BY DEF TypeOK, Freshness
    <3>3. cache[i][p].until \in Nat
      BY <3>2 DEF Entry
    <3> QED BY <2>1, <3>1, <3>2, <3>3, ClockAssumption DEF EntryFresh
  <2>3. CASE AnswerInFlight(i, t)
    <3>1. PICK h \in Handlers : /\ req[h].pc = "answered" /\ req[h].answer = "live"
                                /\ req[h].inst = i /\ req[h].tok = t
      BY <2>3 DEF AnswerInFlight
    <3>2. req[h] \in Request /\ RequestFresh(req[h])
      BY <3>1 DEF TypeOK, Idle, Freshness
    <3>3. req[h].since \in Nat
      BY <3>2 DEF Request
    <3> QED BY <2>1, <3>1, <3>2, <3>3, ClockAssumption DEF RequestFresh
  <2> QED BY <2>2, <2>3 DEF WouldServe
<1>2. Init => Freshness /\ CacheBounded
  BY FreshInit, CapacityAssumption DEF Init, CacheBounded
<1> QED BY <1>1, <1>2, TypeInit, TypeStep, FreshStep, PTL DEF Spec

-----------------------------------------------------------------------------
(* Whatever the clock and the TTL: the second an entry is rounded up to ends *)
(* no earlier than the entry itself.                                         *)
Lasts(e) == e.until <= e.expiresAt * Second

LEMMA RoundedUp == \A u \in Nat : u <= ExpiresAt(u) * Second
<1> TAKE u \in Nat
<1> DEFINE n == u + Second - 1
           q == n \div Second
<1>1. n \in Nat /\ Second \in Nat /\ Second > 0
  BY ClockAssumption
<1>2. u + Second - 1 = n
  OBVIOUS
<1> HIDE DEF n
<1>3. q \in Int /\ n = Second * q + (n % Second) /\ n % Second \in 0..(Second - 1)
  BY <1>1
<1>4. ExpiresAt(u) = q
  BY DEF ExpiresAt, n
<1> HIDE DEF q
<1>5. Second * q = q * Second
  BY <1>1, <1>3
<1>6. Second * q \in Int
  BY <1>1, <1>3
<1>7. u <= Second * q
  BY <1>1, <1>2, <1>3, <1>6
<1> QED BY <1>4, <1>5, <1>7

(* How a step changes the caches: an entry of the new cache was there, or is *)
(* the verification that VerifyDone has just made; what is left of a cache   *)
(* has every key once.                                                       *)
LEMMA CacheStep ==
  ASSUME TypeOK, CacheBounded, [Next]_vars, NEW i \in Instances
  PROVE  /\ \A p \in DOMAIN cache'[i] :
              \/ \E q \in DOMAIN cache[i] : cache'[i][p] = cache[i][q]
              \/ \E h \in Handlers :
                   /\ req[h].pc = "answered" /\ req[h].answer = "live" /\ req[h].inst = i
                   /\ cache'[i][p] = Verified(req[h].tok)
                   /\ UNCHANGED <<live, revoked>>
         /\ Distinct(cache[i]) => Distinct(cache'[i])
<1> USE DEF TypeOK, CacheBounded
<1>1. ASSUME NEW h \in Handlers, VerifyDone(h), req[h].answer = "live", req[h].inst = i
      PROVE  /\ Distinct(cache[i]) => Distinct(cache'[i])
             /\ \A p \in DOMAIN cache'[i] :
                  cache'[i][p] = Verified(req[h].tok) \/ \E q \in DOMAIN cache[i] : cache'[i][p] = cache[i][q]
  <2> DEFINE e == Verified(req[h].tok)
  <2>1. req[h].tok \in Tokens /\ now + TTL \in Nat
    BY <1>1, ClockAssumption DEF VerifyDone, Request, Idle
  <2>2. e \in Entry
    BY <2>1, ExpiryNat DEF Verified, Entry
  <2>3. cache'[i] = Put(MakeRoom(cache[i]), e)
    BY <1>1 DEF VerifyDone
  <2> HIDE DEF e
  <2> QED BY <2>2, <2>3, CachedEntries, CachedDistinct DEF e
<1>2. ASSUME NEW h \in Handlers, VerifyDone(h), req[h].answer # "live" \/ req[h].inst # i
      PROVE  cache'[i] = cache[i]
  BY <1>2 DEF VerifyDone
<1>3. ASSUME NEW h \in Handlers, RevokeDone(h)
      PROVE  cache'[i] = cache[i] \/ \E t \in Tokens : cache'[i] = Drop(cache[i], t)
  <2>1. req[h].tok \in Tokens
    BY <1>3 DEF RevokeDone, Request, Idle
  <2> QED BY <1>3, <2>1 DEF RevokeDone
<1>4. CASE cache'[i] = cache[i]
  BY <1>4
<1>5. ASSUME NEW t \in Tokens, cache'[i] = Drop(cache[i], t)
      PROVE  /\ Distinct(cache[i]) => Distinct(cache'[i])
             /\ \A p \in DOMAIN cache'[i] : \E q \in DOMAIN cache[i] : cache'[i][p] = cache[i][q]
  BY <1>5, DropEntries, DropForgets
<1>6. CASE \E h \in Handlers : VerifyDone(h)
  <2>1. PICK h \in Handlers : VerifyDone(h)
    BY <1>6
  <2>2. CASE req[h].answer = "live" /\ req[h].inst = i
    BY <2>1, <2>2, <1>1 DEF VerifyDone
  <2> QED BY <2>1, <2>2, <1>2, <1>4
<1>7. CASE \E h \in Handlers : RevokeDone(h)
  BY <1>3, <1>4, <1>5, <1>7
<1>8. CASE UNCHANGED cache
  BY <1>4, <1>8
<1> QED
  <2>1. \/ \E h \in Handlers : VerifyDone(h)
        \/ \E h \in Handlers : RevokeDone(h)
        \/ UNCHANGED cache
    BY DEF Next, Answer, vars, IdentityAnswered, IdentityFailed, IdentityRetried, RevokeListed,
           RevokeDeleted, RevokeRetried, RevokeFailed, VerifyHit, VerifyMiss, RevokeStart, TokenDies, Tick
  <2> QED BY <2>1, <1>6, <1>7, <1>8

(* A token that is served from the cache is never refused by the middleware  *)
(* as expired, at whatever moment it was cached and whatever TTL and the     *)
(* length of a second are.                                                   *)
THEOREM ServedStaysAccepted == Spec => []ServedIsAccepted
<1> DEFINE AllLast == \A i \in Instances : \A p \in DOMAIN cache[i] : Lasts(cache[i][p])
<1>1. Init => AllLast /\ CacheBounded
  BY CapacityAssumption DEF Init, CacheBounded
<1>2. TypeOK /\ CacheBounded /\ AllLast /\ [Next]_vars => AllLast'
  <2> SUFFICES ASSUME TypeOK, CacheBounded, AllLast, [Next]_vars, NEW i \in Instances, NEW p \in DOMAIN cache'[i]
               PROVE  Lasts(cache'[i][p])
    BY DEF Lasts
  <2>1. CASE \E q \in DOMAIN cache[i] : cache'[i][p] = cache[i][q]
    BY <2>1
  <2>2. CASE \E t : cache'[i][p] = Verified(t)
    <3>1. now + TTL \in Nat
      BY ClockAssumption DEF TypeOK
    <3> QED BY <2>2, <3>1, RoundedUp DEF Verified, Lasts
  <2> QED BY <2>1, <2>2, CacheStep
<1>3. TypeOK /\ AllLast => ServedIsAccepted
  <2> SUFFICES ASSUME TypeOK, AllLast, NEW i \in Instances, NEW t \in Tokens, Hit(i, t)
               PROVE  BearerAccepts(cache[i][At(cache[i], t)])
    BY DEF ServedIsAccepted
  <2> DEFINE e == cache[i][At(cache[i], t)]
  <2>1. At(cache[i], t) \in DOMAIN cache[i] /\ e.until > now
    BY DEF Hit, Holds, At
  <2>2. e \in Entry /\ Lasts(e)
    BY <2>1 DEF TypeOK
  <2> HIDE DEF e
  <2>3. e.until \in Nat /\ e.expiresAt \in Nat /\ now \in Nat /\ e.expiresAt * Second \in Nat
    BY <2>2, ClockAssumption DEF TypeOK, Entry
  <2>4. now <= e.expiresAt * Second
    BY <2>1, <2>2, <2>3 DEF Lasts
  <2> QED BY <2>3, <2>4 DEF BearerAccepts, e
<1> QED BY <1>1, <1>2, <1>3, TypeInit, TypeStep, PTL DEF Spec

-----------------------------------------------------------------------------
(* What makes RevocationHolds inductive: the row that is deleted is the      *)
(* presented token's own, it is dead once the DELETE has been served, and a  *)
(* key is cached once, so that one delete is enough.                         *)
RowIsOwn(r) == r.pc \in {"deleting", "deleted"} => r.row = r.tok

RowIsDead(r) == r.pc = "deleted" => r.row \notin live

RevocationInv ==
  /\ \A h \in Handlers : RowIsOwn(req[h]) /\ RowIsDead(req[h])
  /\ \A i \in Instances : Distinct(cache[i])
  /\ RevocationHolds

(* RevokeListed goes on with the one row that shows the prefix of a token    *)
(* which is itself in the list; no other step chooses a row.                 *)
LEMMA RowStep ==
  ASSUME TypeOK, RevocationInv, [Next]_vars, NEW h \in Handlers
  PROVE  RowIsOwn(req'[h]) /\ RowIsDead(req[h])'
<1> USE DEF TypeOK, RevocationInv, RowIsOwn, RowIsDead
<1>1. live' \subseteq live
  BY DEF Next, Answer, vars, IdentityAnswered, IdentityFailed, IdentityRetried, VerifyDone, RevokeListed,
         RevokeDeleted, RevokeRetried, RevokeFailed, RevokeDone, VerifyHit, VerifyMiss, RevokeStart,
         TokenDies, Die, Tick
<1>2. CASE req'[h] = req[h]
  BY <1>1, <1>2
<1>3. CASE req'[h].pc \notin {"deleting", "deleted"}
  BY <1>3
<1>4. CASE RevokeListed(h)
  <2>0. req[h].pc # "idle"
    BY <1>4 DEF RevokeListed
  <2>1. req[h] \in Request
    BY <2>0 DEF Idle
  <2>2. CASE req'[h] = Idle
    BY <2>2, <1>3 DEF Idle
  <2>3. ASSUME NEW u \in Matches(req[h].tok), Matches(req[h].tok) = {u},
               req' = [req EXCEPT ![h] = [@ EXCEPT !.pc = "deleting", !.row = u]]
        PROVE  RowIsOwn(req'[h]) /\ RowIsDead(req[h])'
    <3>1. req[h].tok = u
      BY <1>4, <2>3 DEF RevokeListed, Matches
    <3>2. req'[h].pc = "deleting" /\ req'[h].row = u /\ req'[h].tok = req[h].tok
      BY <2>1, <2>3 DEF Request
    <3> QED BY <3>1, <3>2
  <2>4. \/ req'[h] = Idle
        \/ \E u \in Matches(req[h].tok) :
             /\ Matches(req[h].tok) = {u}
             /\ req' = [req EXCEPT ![h] = [@ EXCEPT !.pc = "deleting", !.row = u]]
    BY <1>4 DEF RevokeListed
  <2> QED BY <2>2, <2>3, <2>4
<1>5. CASE RevokeDeleted(h)
  <2>1. req[h] \in Request
    BY <1>5 DEF RevokeDeleted, Idle
  <2>2. req'[h].pc = "deleted" /\ req'[h].row = req[h].row /\ req'[h].tok = req[h].tok
    BY <1>5, <2>1 DEF RevokeDeleted, Request
  <2>3. req[h].row = req[h].tok /\ req[h].row \notin live'
    BY <1>5 DEF RevokeDeleted, Die
  <2> QED BY <2>2, <2>3
<1>6. CASE RevokeRetried(h)
  <2>1. req[h] \in Request
    BY <1>6 DEF RevokeRetried, Idle
  <2>2. req'[h].pc = "deleting" /\ req'[h].row = req[h].row /\ req'[h].tok = req[h].tok
    BY <1>6, <2>1 DEF RevokeRetried, Request
  <2> QED BY <1>6, <2>2 DEF RevokeRetried
<1>7. CASE \E g \in Handlers : IdentityAnswered(g) \/ IdentityFailed(g) \/ IdentityRetried(g)
  <2>1. PICK g \in Handlers : IdentityAnswered(g) \/ IdentityFailed(g) \/ IdentityRetried(g)
    BY <1>7
  <2>2. req[g] \in Request
    BY <2>1 DEF IdentityAnswered, IdentityFailed, IdentityRetried, Idle
  <2>3. CASE g = h
    <3>1. IdentityAnswered(h) => req'[h].pc = "answered"
      BY <2>2, <2>3 DEF IdentityAnswered, Request
    <3>2. IdentityFailed(h) => req'[h].pc \in {"backoff", "idle"}
      BY <2>2, <2>3, FailedFacts
    <3>3. IdentityRetried(h) => req'[h].pc = "asking"
      BY <2>2, <2>3 DEF IdentityRetried, Request
    <3> QED BY <2>1, <2>3, <3>1, <3>2, <3>3, <1>3
  <2>4. CASE g # h
    BY <2>1, <2>4, <1>2 DEF IdentityAnswered, IdentityFailed, IdentityRetried
  <2> QED BY <2>3, <2>4
<1>8. CASE \E g \in Handlers : VerifyDone(g) \/ RevokeFailed(g) \/ RevokeDone(g)
  BY <1>8, <1>2, <1>3 DEF VerifyDone, RevokeFailed, RevokeDone, Idle
<1>9. CASE \E g \in Handlers, i \in Instances, t \in Tokens : VerifyMiss(g, i, t) \/ RevokeStart(g, i, t)
  BY <1>9, <1>2, <1>3 DEF VerifyMiss, RevokeStart
<1>10. CASE UNCHANGED req
  BY <1>2, <1>10
<1>11. ASSUME NEW g \in Handlers, RevokeListed(g) \/ RevokeDeleted(g) \/ RevokeRetried(g), g # h
       PROVE  RowIsOwn(req'[h]) /\ RowIsDead(req[h])'
  BY <1>11, <1>2 DEF RevokeListed, RevokeDeleted, RevokeRetried
<1> QED
  <2>1. UNCHANGED req \/ (\E g \in Handlers : Answer(g))
          \/ \E g \in Handlers, i \in Instances, t \in Tokens : VerifyMiss(g, i, t) \/ RevokeStart(g, i, t)
    BY DEF Next, vars, VerifyHit, TokenDies, Tick
  <2>2. ASSUME NEW g \in Handlers, Answer(g)
        PROVE  RowIsOwn(req'[h]) /\ RowIsDead(req[h])'
    BY <2>2, <1>4, <1>5, <1>6, <1>7, <1>8, <1>11 DEF Answer
  <2> QED BY <2>1, <2>2, <1>9, <1>10

(* Nobody is answered that a dead token lives, and an answer that is in      *)
(* flight was there before or is about a token that lives.                   *)
LEMMA InFlightStep ==
  ASSUME TypeOK, [Next]_vars, NEW i \in Instances, NEW t \in Tokens,
         AnswerInFlight(i, t)', ~AnswerInFlight(i, t)
  PROVE  t \in live /\ UNCHANGED <<cache, revoked>>
<1>1. PICK g \in Handlers : /\ req'[g].pc = "answered" /\ req'[g].answer = "live"
                            /\ req'[g].inst = i /\ req'[g].tok = t
  BY DEF AnswerInFlight
<1>2. req'[g] # req[g]
  BY <1>1 DEF AnswerInFlight
<1>3. CASE IdentityAnswered(g)
  <2>1. req[g] \in Request
    BY <1>3 DEF IdentityAnswered, TypeOK, Idle
  <2>2. req'[g].tok = req[g].tok /\ (req'[g].answer = "live" => req[g].tok \in live)
    BY <1>3, <2>1 DEF IdentityAnswered, TypeOK, Request
  <2> QED BY <1>1, <1>3, <2>2 DEF IdentityAnswered
<1>4. ~IdentityAnswered(g) => req'[g].pc # "answered"
  <2> SUFFICES ASSUME ~IdentityAnswered(g) PROVE req'[g].pc # "answered"
    OBVIOUS
  <2>1. ASSUME NEW h \in Handlers, IdentityAnswered(h) PROVE FALSE
    BY <1>2, <2>1 DEF IdentityAnswered, TypeOK
  <2>2. ASSUME NEW h \in Handlers, req'[h] = Idle, \A k \in Handlers \ {h} : req'[k] = req[k]
        PROVE  req'[g].pc # "answered"
    BY <1>2, <2>2 DEF Idle
  <2>3. ASSUME NEW h \in Handlers, VerifyDone(h) \/ RevokeFailed(h) \/ RevokeDone(h)
        PROVE  req'[g].pc # "answered"
    BY <2>2, <2>3 DEF VerifyDone, RevokeFailed, RevokeDone, TypeOK
  <2>4. ASSUME NEW h \in Handlers, NEW j \in Instances, NEW u \in Tokens, VerifyMiss(h, j, u) \/ RevokeStart(h, j, u)
        PROVE  req'[g].pc # "answered"
    BY <1>2, <2>4 DEF VerifyMiss, RevokeStart, TypeOK
  <2>5. ASSUME NEW h \in Handlers,
               IdentityFailed(h) \/ IdentityRetried(h) \/ RevokeListed(h) \/ RevokeDeleted(h) \/ RevokeRetried(h)
        PROVE  req'[g].pc # "answered"
    <3>0. req[h].pc # "idle"
      BY <2>5 DEF IdentityFailed, IdentityRetried, RevokeListed, RevokeDeleted, RevokeRetried
    <3>1. req[h] \in Request
      BY <3>0 DEF TypeOK, Idle
    <3>2. \A k \in Handlers \ {h} : req'[k] = req[k]
      BY <2>5 DEF IdentityFailed, IdentityRetried, RevokeListed, RevokeDeleted, RevokeRetried, TypeOK
    <3>3. IdentityFailed(h) => req'[h].pc \in {"backoff", "idle"}
      BY FailedFacts DEF TypeOK
    <3>4. IdentityRetried(h) => req'[h].pc = "asking"
      BY <3>1 DEF IdentityRetried, TypeOK, Request
    <3>5. RevokeListed(h) => req'[h].pc \in {"deleting", "idle"}
      <4>1. RevokeListed(h) =>
              \/ req'[h] = Idle
              \/ \E u : req'[h] = [req[h] EXCEPT !.pc = "deleting", !.row = u]
        BY DEF RevokeListed, TypeOK
      <4>2. \A u : [req[h] EXCEPT !.pc = "deleting", !.row = u].pc = "deleting"
        BY <3>1 DEF Request
      <4>3. Idle.pc = "idle"
        BY DEF Idle
      <4> QED BY <4>1, <4>2, <4>3
    <3>6. RevokeDeleted(h) => req'[h].pc = "deleted"
      BY <3>1 DEF RevokeDeleted, TypeOK, Request
    <3>7. RevokeRetried(h) => req'[h].pc = "deleting"
      BY <3>1 DEF RevokeRetried, TypeOK, Request
    <3>8. req'[h].pc # "answered"
      BY <2>5, <3>3, <3>4, <3>5, <3>6, <3>7
    <3> QED BY <1>2, <3>2, <3>8
  <2> QED BY <1>2, <2>1, <2>3, <2>4, <2>5 DEF Next, Answer, vars, VerifyHit, TokenDies, Tick
<1> QED BY <1>1, <1>3, <1>4

LEMMA RevocationStep ==
  TypeOK /\ CacheBounded /\ RevocationInv /\ [Next]_vars => RevocationInv'
<1> SUFFICES ASSUME TypeOK, CacheBounded, RevocationInv, [Next]_vars PROVE RevocationInv'
  OBVIOUS
<1>1. ASSUME NEW i \in Instances, NEW t \in Tokens
      PROVE  /\ revoked'[i][t] # "no" => t \notin live'
             /\ revoked'[i][t] = "clean" => ~Holds(cache'[i], t) /\ ~AnswerInFlight(i, t)'
  <2>1. live' \subseteq live
    BY DEF Next, Answer, vars, IdentityAnswered, IdentityFailed, IdentityRetried, VerifyDone, RevokeListed,
           RevokeDeleted, RevokeRetried, RevokeFailed, RevokeDone, VerifyHit, VerifyMiss, RevokeStart,
           TokenDies, Die, Tick
  <2>2. ASSUME NEW h \in Handlers, RevokeDone(h), req[h].inst = i, req[h].tok = t
        PROVE  /\ revoked'[i][t] # "no" => t \notin live'
               /\ revoked'[i][t] = "clean" => ~Holds(cache'[i], t) /\ ~AnswerInFlight(i, t)'
    <3>1. t \notin live'
      BY <2>2 DEF RevokeDone, RevocationInv, RowIsOwn, RowIsDead
    <3>2. revoked'[i][t] = "clean" => ~AnswerInFlight(i, t)
      BY <2>2 DEF RevokeDone, TypeOK
    <3>3. ~AnswerInFlight(i, t) => ~AnswerInFlight(i, t)'
      <4>1. t \notin live
        BY <2>2, <3>1 DEF RevokeDone
      <4> QED BY <4>1, InFlightStep
    <3>4. cache'[i] = Drop(cache[i], t)
      BY <2>2 DEF RevokeDone, TypeOK
    <3>5. ~Holds(cache'[i], t)
      BY <3>4, DropForgets DEF TypeOK, RevocationInv
    <3> QED BY <3>1, <3>2, <3>3, <3>5
  <2>3. CASE revoked'[i][t] = revoked[i][t]
    <3>1. revoked[i][t] # "no" => t \notin live
      BY DEF RevocationInv, RevocationHolds
    <3>2. CASE revoked[i][t] = "clean"
      <4>1. ~Holds(cache[i], t) /\ ~AnswerInFlight(i, t) /\ t \notin live
        BY <3>2, <3>1 DEF RevocationInv, RevocationHolds
      <4>2. ~AnswerInFlight(i, t)'
        BY <4>1, InFlightStep
      <4>3. ASSUME NEW p \in DOMAIN cache'[i], cache'[i][p].key = t PROVE FALSE
        <5>1. ~\E q \in DOMAIN cache[i] : cache'[i][p] = cache[i][q]
          BY <4>1, <4>3 DEF Holds
        <5>2. PICK h \in Handlers : /\ req[h].pc = "answered" /\ req[h].answer = "live" /\ req[h].inst = i
                                    /\ cache'[i][p] = Verified(req[h].tok)
          BY <5>1, CacheStep
        <5>3. req[h].tok = t
          BY <4>3, <5>2 DEF Verified
        <5> QED BY <4>1, <5>2, <5>3 DEF AnswerInFlight
      <4> QED BY <2>1, <2>3, <3>1, <4>2, <4>3 DEF Holds
    <3> QED BY <2>1, <2>3, <3>1, <3>2
  <2>4. \/ revoked'[i][t] = revoked[i][t]
        \/ \E h \in Handlers : RevokeDone(h) /\ req[h].inst = i /\ req[h].tok = t
    <3>1. ASSUME NEW h \in Handlers, RevokeDone(h), ~(req[h].inst = i /\ req[h].tok = t)
          PROVE  revoked'[i][t] = revoked[i][t]
      BY <3>1 DEF RevokeDone, TypeOK
    <3>2. UNCHANGED revoked \/ \E h \in Handlers : RevokeDone(h)
      BY DEF Next, Answer, vars, IdentityAnswered, IdentityFailed, IdentityRetried, VerifyDone, RevokeListed,
             RevokeDeleted, RevokeRetried, RevokeFailed, VerifyHit, VerifyMiss, RevokeStart, TokenDies, Tick
    <3> QED BY <3>1, <3>2
  <2> QED BY <2>2, <2>3, <2>4
<1>2. \A h \in Handlers : RowIsOwn(req[h])' /\ RowIsDead(req[h])'
  BY RowStep DEF RowIsOwn
<1>3. \A i \in Instances : Distinct(cache[i])'
  BY CacheStep DEF RevocationInv, Distinct
<1> QED BY <1>1, <1>2, <1>3 DEF RevocationInv, RevocationHolds, Holds

LEMMA RevocationAlways == Spec => [](TypeOK /\ RevocationInv)
<1>1. Init => RevocationInv /\ CacheBounded
  BY CapacityAssumption
     DEF Init, RevocationInv, RowIsOwn, RowIsDead, Distinct, RevocationHolds, Idle, CacheBounded
<1> QED BY <1>1, TypeInit, TypeStep, RevocationStep, PTL DEF Spec

(* After a successful revocation the token is dead at agents-service, and    *)
(* unless a positive answer about it was on its way, the instance holds no   *)
(* verification of it, however many tokens share its prefix and whatever     *)
(* other requests do at the same time.                                       *)
THEOREM RevocationAlwaysHolds == Spec => []RevocationHolds
<1>1. RevocationInv => RevocationHolds
  BY DEF RevocationInv
<1> QED BY <1>1, RevocationAlways, PTL

(* A revocation kills the presented token or none, although the row to       *)
(* delete is chosen by a prefix.                                             *)
THEOREM NobodyElseDies == Spec => OnlyPresentedDies
<1>1. TypeOK /\ RevocationInv /\ [Next]_vars
        => [\A h \in Handlers : RevokeDeleted(h) => live \ live' \subseteq {req[h].tok}]_vars
  BY DEF RevocationInv, RowIsOwn, RevokeDeleted, Die
<1> QED BY <1>1, RevocationAlways, PTL DEF Spec, OnlyPresentedDies

(* The state of the hosted verifier is well typed.                           *)
THEOREM VerifierIsTyped == Spec => []TypeOK
BY RevocationAlways, PTL

=============================================================================
