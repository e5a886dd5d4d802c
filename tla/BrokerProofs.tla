---------------------------- MODULE BrokerProofs ----------------------------
(***************************************************************************)
(* Proofs about Broker, for any number of nodes, hosts and requests.       *)
(***************************************************************************)
EXTENDS Broker, FiniteSetTheorems, SequenceTheorems, TLAPS

-----------------------------------------------------------------------------
(* Sequences: what a queue holds after a push or a partial removal *)

\* Removing some indices of a queue (q.remove in take_jobs) leaves a queue whose
\* elements are those at the other indices.
LEMMA KeepElements ==
  ASSUME NEW S, NEW s \in Seq(S), NEW K \in SUBSET DOMAIN s
  PROVE  /\ Keep(s, K) \in Seq(S)
         /\ \A e : Has(Keep(s, K), e) <=> \E i \in K : s[i] = e
<1> DEFINE n == Cardinality(K)
           Rank(i) == Cardinality({j \in K : j <= i})
           f == [i \in K |-> Rank(i)]
<1>1. K \subseteq 1 .. Len(s) /\ Len(s) \in Nat /\ s \in [1 .. Len(s) -> S]
  BY LenProperties
<1>2. IsFiniteSet(K) /\ n \in Nat
  BY <1>1, FS_Interval, FS_Subset, FS_CardinalityType, 1 \in Int, Len(s) \in Int
<1>3. ASSUME NEW i \in K
      PROVE  /\ IsFiniteSet({j \in K : j <= i})
             /\ Rank(i) \in Nat
             /\ Rank(i) \in 1 .. n
  <2>1. {j \in K : j <= i} \in SUBSET K
    OBVIOUS
  <2>2. /\ IsFiniteSet({j \in K : j <= i})
        /\ Rank(i) \in Nat
        /\ Rank(i) <= n
    BY <1>2, <2>1, FS_Subset, FS_CardinalityType
  <2>3. i \in {j \in K : j <= i}
    BY <1>1
  <2>4. Rank(i) # 0
    BY <2>2, <2>3, FS_EmptySet
  <2> QED
    BY <1>2, <2>2, <2>4
<1>4. ASSUME NEW i \in K, NEW l \in K, i < l
      PROVE  Rank(i) < Rank(l)
  <2> DEFINE A == {j \in K : j <= i}
             B == {j \in K : j <= l}
  <2>1. A \in SUBSET B /\ l \in B /\ l \notin A
    BY <1>1, <1>4
  <2>2. Cardinality(A) <= Cardinality(B) /\ (Cardinality(B) = Cardinality(A) => B = A)
    BY <1>3, <2>1, FS_Subset
  <2> QED
    <3>1. Cardinality(A) \in Nat /\ Cardinality(B) \in Nat
      BY <1>3
    <3>2. Cardinality(A) # Cardinality(B)
      BY <2>1, <2>2
    <3> QED
      BY <2>2, <3>1, <3>2
<1>5. f \in Injection(K, 1 .. n)
  <2>1. f \in [K -> 1 .. n]
    BY <1>3
  <2>2. ASSUME NEW i \in K, NEW l \in K, f[i] = f[l]
        PROVE  i = l
    <3>1. Rank(i) = Rank(l)
      BY <2>2
    <3> HIDE DEF Rank, f
    <3>2. i \in Int /\ l \in Int
      BY <1>1
    <3>4. Rank(i) \in Nat /\ Rank(l) \in Nat
      BY <1>3
    <3>3. ~(i < l) /\ ~(l < i)
      BY <1>4, <3>1, <3>2, <3>4
    <3> QED
      BY <3>2, <3>3
  <2> QED
    BY <2>1, <2>2 DEF Injection, IsInjective
<1>6. f \in Surjection(K, 1 .. n)
  <2>1. IsFiniteSet(1 .. n) /\ Cardinality(1 .. n) = n
    BY <1>2, FS_Interval
  <2> QED
    BY <1>5, <2>1, FS_Injection
<1>7. \A k \in 1 .. n : \E i \in K : Rank(i) = k
  BY <1>6 DEF Surjection
<1> DEFINE At(k) == CHOOSE i \in K : Rank(i) = k
<1>8. \A k \in 1 .. n : At(k) \in K /\ Rank(At(k)) = k
  BY <1>7
<1>9. \A i \in K : At(Rank(i)) = i
  <2> SUFFICES ASSUME NEW i \in K PROVE At(Rank(i)) = i
    OBVIOUS
  <2>1. At(Rank(i)) \in K /\ Rank(At(Rank(i))) = Rank(i)
    BY <1>3, <1>8
  <2>2. f[At(Rank(i))] = f[i]
    BY <2>1
  <2> HIDE DEF At, Rank, f
  <2> QED
    BY <2>1, <2>2, <1>5 DEF Injection, IsInjective
<1>10. Keep(s, K) = [k \in 1 .. n |-> s[At(k)]]
  BY DEF Keep
<1> HIDE DEF At, Rank, f, n
<1>11. \A k \in 1 .. n : s[At(k)] \in S
  BY <1>1, <1>8
<1>12. Keep(s, K) \in [1 .. n -> S]
  BY <1>10, <1>11
<1>13. Keep(s, K) \in Seq(S)
  BY <1>2, <1>12, SeqDef
<1>14. ASSUME NEW e, Has(Keep(s, K), e)
       PROVE  \E i \in K : s[i] = e
  BY <1>8, <1>10, <1>14 DEF Has
<1>15. ASSUME NEW i \in K
       PROVE  Has(Keep(s, K), s[i])
  <2>1. Rank(i) \in 1 .. n
    BY <1>3
  <2>2. Keep(s, K)[Rank(i)] = s[i] /\ Rank(i) \in DOMAIN Keep(s, K)
    BY <1>9, <1>10, <2>1
  <2> QED
    BY <2>2 DEF Has
<1> QED
  BY <1>13, <1>14, <1>15

\* push_back on a queue.
LEMMA PushElements ==
  ASSUME NEW S, NEW s \in Seq(S), NEW x \in S
  PROVE  /\ Append(s, x) \in Seq(S)
         /\ \A e : Has(Append(s, x), e) <=> Has(s, e) \/ e = x
<1>1. Append(s, x) \in Seq(S)
  OBVIOUS
<1>2. ASSUME NEW e, Has(s, e)
      PROVE  Has(Append(s, x), e)
  BY <1>2 DEF Has
<1>3. Has(Append(s, x), x)
  <2>1. Append(s, x)[Len(s) + 1] = x /\ Len(s) + 1 \in DOMAIN Append(s, x)
    OBVIOUS
  <2> QED
    BY <2>1 DEF Has
<1>4. ASSUME NEW e, Has(Append(s, x), e)
      PROVE  Has(s, e) \/ e = x
  BY <1>4 DEF Has
<1> QED
  BY <1>1, <1>2, <1>3, <1>4

\* Several push_backs on a queue.
LEMMA ConcatElements ==
  ASSUME NEW S, NEW s \in Seq(S), NEW t \in Seq(S)
  PROVE  /\ s \o t \in Seq(S)
         /\ \A e : Has(s \o t, e) <=> Has(s, e) \/ Has(t, e)
<1>1. s \o t \in Seq(S)
  OBVIOUS
<1>2. ASSUME NEW e, Has(s, e)
      PROVE  Has(s \o t, e)
  BY <1>2 DEF Has
<1>3. ASSUME NEW e, Has(t, e)
      PROVE  Has(s \o t, e)
  <2>1. PICK k \in DOMAIN t : t[k] = e
    BY <1>3 DEF Has
  <2>2. (s \o t)[Len(s) + k] = e /\ Len(s) + k \in DOMAIN (s \o t)
    BY <2>1
  <2> QED
    BY <2>2 DEF Has
<1>4. ASSUME NEW e, Has(s \o t, e)
      PROVE  Has(s, e) \/ Has(t, e)
  <2>1. PICK k \in DOMAIN (s \o t) : (s \o t)[k] = e
    BY <1>4 DEF Has
  <2>2. CASE k <= Len(s)
    BY <2>1, <2>2 DEF Has
  <2>3. CASE k > Len(s)
    <3>1. k - Len(s) \in DOMAIN t /\ t[k - Len(s)] = e
      BY <2>1, <2>3
    <3> QED
      BY <3>1 DEF Has
  <2> QED
    BY <2>2, <2>3
<1> QED
  BY <1>1, <1>2, <1>3, <1>4

\* A non-empty set of indices has a last one.
LEMMA FiniteSetHasLast ==
  ASSUME NEW m \in Nat, NEW S \in SUBSET (1 .. m), S # {}
  PROVE  \E k \in S : \A l \in S : l <= k
<1> DEFINE T == {m - k : k \in S}
<1>1. T \subseteq Nat /\ T # {}
  <2>1. \A k \in S : m - k \in Nat
    OBVIOUS
  <2>2. PICK k \in S : TRUE
    OBVIOUS
  <2> QED
    BY <2>1, <2>2
<1>2. PICK x \in T : \A y \in T : ~(<<y, x>> \in OpToRel(<, Nat))
  BY <1>1, NatLessThanWellFounded, WFMin
<1>3. PICK k \in S : x = m - k
  BY <1>2
<1>4. \A l \in S : ~(m - l < m - k)
  BY <1>1, <1>2, <1>3 DEF OpToRel
<1> QED
  BY <1>3, <1>4

-----------------------------------------------------------------------------
(* The queues after take_jobs and after a sweep *)

LEMMA RollsAreSequences ==
  ASSUME NEW n \in Node, NEW held \in Held, NEW roll \in Rolls(n, held)
  PROVE  roll \in Seq(Auditable(n, held))
<1> DEFINE C == Auditable(n, held)
<1>1. CASE roll = <<>>
  BY <1>1
<1>2. CASE roll # <<>>
  <2>1. PICK m \in 1 .. Cardinality(C) : roll \in [1 .. m -> C]
    BY <1>2 DEF Rolls
  <2>2. m \in Nat
    BY <2>1
  <2> HIDE DEF C
  <2>3. roll \in Seq(C)
    BY <2>1, <2>2, SeqDef
  <2> QED
    BY <2>3 DEF C
<1> QED
  BY <1>1, <1>2

\* What a roll names: a queued entry of a live primary without twin.
LEMMA RolledPick ==
  ASSUME TypeOK, NEW n \in Node, NEW held \in Held, NEW roll \in Rolls(n, held),
         NEW k \in DOMAIN roll
  PROVE  /\ roll[k] \in Picks(n, held)
         /\ roll[k][1] \in Host
         /\ PickedId(roll[k]) \in Live
         /\ ~jobs[PickedId(roll[k])].is_twin
         /\ jobs[PickedId(roll[k])].twin_id = NoId
<1>1. roll[k] \in Auditable(n, held)
  BY RollsAreSequences, LenProperties, ElementOfSeq
<1>2. roll[k] \in Picks(n, held)
  BY <1>1 DEF Auditable
<1> QED
  BY <1>1, <1>2 DEF Auditable, Picks, PickedId

LEMMA TakeQueues ==
  ASSUME TypeOK, NEW n \in Node, NEW held \in Held, NEW roll \in Rolls(n, held),
         TakeJobs(n, held, roll), NEW h \in Host
  PROVE  /\ queues'[h] \in Seq(Entry)
         /\ \A e : Has(queues'[h], e) <=>
              \/ \E i \in DOMAIN queues[h] \ Picked(n, held, h) : queues[h][i] = e
              \/ \E k \in DOMAIN roll : roll[k][1] = h /\ e = [id |-> next_id + k - 1, exclude |-> n]
<1> DEFINE entries == [k \in DOMAIN roll |-> [id |-> next_id + k - 1, exclude |-> n]]
           K == {k \in DOMAIN roll : roll[k][1] = h}
           R == DOMAIN queues[h] \ Picked(n, held, h)
<1>1. queues[h] \in Seq(Entry) /\ next_id \in Nat \ {0}
  BY DEF TypeOK
<1>2. roll \in Seq(Auditable(n, held)) /\ DOMAIN roll = 1 .. Len(roll) /\ Len(roll) \in Nat
  BY RollsAreSequences, LenProperties
<1>3. entries \in [1 .. Len(roll) -> Entry]
  BY <1>1, <1>2 DEF Entry
<1>4. entries \in Seq(Entry) /\ DOMAIN entries = DOMAIN roll
  BY <1>2, <1>3, SeqDef
<1>5. K \in SUBSET DOMAIN entries /\ R \in SUBSET DOMAIN queues[h]
  BY <1>4
<1>6. queues'[h] = Keep(queues[h], R) \o Keep(entries, K)
  BY DEF TakeJobs
<1>7. /\ Keep(queues[h], R) \in Seq(Entry)
      /\ \A e : Has(Keep(queues[h], R), e) <=> \E i \in R : queues[h][i] = e
  <2> HIDE DEF R
  <2> QED
    BY <1>1, <1>5, KeepElements
<1>8. /\ Keep(entries, K) \in Seq(Entry)
      /\ \A e : Has(Keep(entries, K), e) <=> \E k \in K : entries[k] = e
  <2> HIDE DEF K, entries
  <2> QED
    BY <1>4, <1>5, KeepElements
<1>9. \A e : (\E k \in K : entries[k] = e) <=>
        \E k \in DOMAIN roll : roll[k][1] = h /\ e = [id |-> next_id + k - 1, exclude |-> n]
  OBVIOUS
<1>10. /\ queues'[h] \in Seq(Entry)
       /\ \A e : Has(queues'[h], e) <=>
            Has(Keep(queues[h], R), e) \/ Has(Keep(entries, K), e)
  <2> HIDE DEF R, K, entries
  <2> QED
    BY <1>6, <1>7, <1>8, ConcatElements
<1> QED
  BY <1>7, <1>8, <1>9, <1>10

\* The ids a sweep pushes: every expired job it does not abandon, if its primary
\* was not abandoned first.
LEMMA SweepQueues ==
  ASSUME TypeOK, NEW order \in Orders(Expired), Sweep(order), NEW h \in Host
  PROVE  /\ queues'[h] \in Seq(Entry)
         /\ \A e : Has(queues[h], e) => Has(queues'[h], e)
         /\ \A e : Has(queues'[h], e) =>
              Has(queues[h], e) \/ \E i \in Expired : HostOfJob(i) = h /\ e = EntryOf(i)
         /\ \A i \in Expired \cap DOMAIN jobs' :
              HostOfJob(i) = h => Has(queues'[h], EntryOf(i))
<1> DEFINE lost == {i \in Expired : jobs[i].attempts + 1 >= MAX_ATTEMPTS}
           KilledBefore(k) ==
             \E l \in 1 .. (k - 1) : /\ order[l] \in lost
                                     /\ order[k] \in Torn({order[l]}) \ {order[l]}
           back == {k \in DOMAIN order : order[k] \notin lost /\ ~KilledBefore(k)}
           entries == [k \in DOMAIN order |-> EntryOf(order[k])]
           K == {k \in back : HostOfJob(order[k]) = h}
<1>1. Expired \subseteq Live /\ \A i \in Expired : EntryOf(i) \in Entry
  BY DEF TypeOK, Expired, EntryOf, Entry, JobState, Live
<1>2. /\ order \in [1 .. Cardinality(Expired) -> Expired]
      /\ \A i \in Expired : \E k \in DOMAIN order : order[k] = i
  BY DEF Orders
<1>3. Cardinality(Expired) \in Nat
  <2>1. Live \subseteq 1 .. (next_id - 1) /\ next_id - 1 \in Int /\ 1 \in Int
    BY DEF TypeOK
  <2>2. IsFiniteSet(1 .. (next_id - 1))
    BY <2>1, FS_Interval
  <2>3. Expired \in SUBSET (1 .. (next_id - 1))
    BY <1>1, <2>1
  <2> QED
    BY <2>2, <2>3, FS_Subset, FS_CardinalityType
<1>4. entries \in [1 .. Cardinality(Expired) -> Entry] /\ DOMAIN entries = DOMAIN order
  BY <1>1, <1>2
<1>5. entries \in Seq(Entry)
  BY <1>3, <1>4, SeqDef
<1>6. queues[h] \in Seq(Entry)
  BY DEF TypeOK
<1>7. K \in SUBSET DOMAIN entries
  BY <1>4
<1>8. queues'[h] = queues[h] \o Keep(entries, K)
  BY DEF Sweep
<1>9. /\ Keep(entries, K) \in Seq(Entry)
      /\ \A e : Has(Keep(entries, K), e) <=> \E k \in K : entries[k] = e
  <2> HIDE DEF K, entries
  <2> QED
    BY <1>5, <1>7, KeepElements
<1>10. /\ queues'[h] \in Seq(Entry)
       /\ \A e : Has(queues'[h], e) <=> Has(queues[h], e) \/ \E k \in K : entries[k] = e
  <2> HIDE DEF K, entries
  <2> QED
    BY <1>6, <1>8, <1>9, ConcatElements
<1>11. \A k \in K : /\ order[k] \in Expired
                    /\ HostOfJob(order[k]) = h
                    /\ entries[k] = EntryOf(order[k])
  BY <1>2
<1>12. ASSUME NEW i \in Expired \cap DOMAIN jobs', HostOfJob(i) = h
       PROVE  \E k \in K : entries[k] = EntryOf(i)
  <2>1. PICK k \in DOMAIN order : order[k] = i
    BY <1>2
  <2>2. i \notin Torn(lost)
    BY DEF Sweep
  <2>3. i \notin lost
    BY <2>2 DEF Torn
  <2>4. ~KilledBefore(k)
    BY <2>1, <2>2 DEF Torn
  <2> QED
    BY <1>12, <2>1, <2>3, <2>4
<1> HIDE DEF K, entries
<1> QED
  BY <1>10, <1>11, <1>12

-----------------------------------------------------------------------------
(* Type correctness *)

\* Resolving fetches keeps the types of the call side.
LEMMA ResolveType ==
  ASSUME TypeOK, NEW R, NEW a \in Answer \cup {Err}, Resolve(R, a)
  PROVE  /\ call' \in [Request -> {"idle", "entered", "waiting", "done"}]
         /\ answer' \in [Request -> Answer \cup {Err, None}]
BY DEF TypeOK, Resolve

LEMMA InitType == Init => TypeOK
<1> SUFFICES ASSUME Init PROVE TypeOK
  OBVIOUS
<1>1. NewNode \in NodeRt
  BY DEF NewNode, NodeRt
<1>2. reg \in [Node -> NodeRt]
  BY <1>1 DEF Init
<1>3. Live = {} /\ DOMAIN audits = {}
  BY DEF Init, Live
<1>4. queues \in [Host -> Seq(Entry)]
  BY DEF Init
<1>5. next_id \in Nat \ {0}
  BY DEF Init
<1>6. shutdown \in BOOLEAN /\ drained \in BOOLEAN
  BY DEF Init
<1>7. /\ call \in [Request -> {"idle", "entered", "waiting", "done"}]
      /\ answer \in [Request -> Answer \cup {Err, None}]
  BY DEF Init
<1> QED
  BY <1>2, <1>3, <1>4, <1>5, <1>6, <1>7 DEF TypeOK

LEMMA TakeType ==
  ASSUME TypeOK, NEW n \in Node, NEW held \in Held, NEW roll \in Rolls(n, held),
         TakeJobs(n, held, roll)
  PROVE  TypeOK'
<1> DEFINE twins == next_id .. (next_id + Len(roll) - 1)
           Id(k) == PickedId(roll[k])
<1>1. DOMAIN roll = 1 .. Len(roll) /\ Len(roll) \in Nat
  BY RollsAreSequences, LenProperties
<1>2. \A i \in twins : i - next_id + 1 \in DOMAIN roll
  BY <1>1 DEF TypeOK
<1>3. \A i \in twins : Id(i - next_id + 1) \in Live
  BY <1>2, RolledPick
<1>4. \A i \in twins : NewTwin(n, Id(i - next_id + 1)) \in JobState
  <2>1. \A i \in Live : NewTwin(n, i) \in JobState
    BY BrokerAssumption DEF NewTwin, JobState, TypeOK
  <2> QED
    BY <1>3, <2>1
<1>5. \A i \in twins : NewPair(n, Id(i - next_id + 1), RolledAgain(roll, i - next_id + 1)) \in AuditPair
  <2>1. \A i \in Live, f \in BOOLEAN : NewPair(n, i, f) \in AuditPair
    BY BrokerAssumption DEF NewPair, AuditPair, TypeOK, JobState
  <2>2. \A k : RolledAgain(roll, k) \in BOOLEAN
    BY DEF RolledAgain
  <2> QED
    BY <1>3, <2>1, <2>2
<1>6. ASSUME NEW i \in Live PROVE Leased(n, i, roll) \in JobState
  <2> DEFINE mine == {k \in DOMAIN roll : PickedId(roll[k]) = i}
             last == CHOOSE k \in mine : \A l \in mine : l <= k
             tw == IF mine = {} THEN jobs[i].twin_id ELSE next_id - 1 + last
  <2>1. tw \in Nat
    <3>1. CASE mine = {}
      BY <3>1 DEF TypeOK, JobState
    <3>2. CASE mine # {}
      <4>1. \E k \in mine : \A l \in mine : l <= k
        <5>1. mine \subseteq 1 .. Len(roll)
          BY <1>1
        <5> HIDE DEF mine
        <5>2. IsFiniteSet(mine)
          BY <5>1, <1>1, FS_Interval, FS_Subset, 1 \in Int, Len(roll) \in Int
        <5> QED
          BY <5>1, <5>2, <3>2, <1>1, FiniteSetHasLast
      <4>2. last \in mine
        BY <4>1
      <4> QED
        BY <4>2, <3>2, <1>1 DEF TypeOK
    <3> QED
      BY <3>1, <3>2
  <2>2. Leased(n, i, roll) = [jobs[i] EXCEPT !.lease = n, !.due = FALSE, !.twin_id = tw]
    BY DEF Leased
  <2>3. jobs[i] \in JobState
    BY DEF TypeOK
  <2> HIDE DEF tw
  <2>4. [jobs[i] EXCEPT !.lease = n, !.due = FALSE, !.twin_id = tw] \in JobState
    BY ONLY <2>1, <2>3, n \in Node DEF JobState
  <2> QED
    BY <2>2, <2>4
<1>7. next_id' = next_id + Len(roll) /\ next_id' \in Nat \ {0}
  BY <1>1 DEF TakeJobs, TypeOK
<1>8. DOMAIN jobs' = Live \cup twins /\ DOMAIN audits' = DOMAIN audits \cup twins
  BY DEF TakeJobs
<1>9. Live' \subseteq 1 .. (next_id' - 1) /\ DOMAIN audits' \subseteq 1 .. (next_id' - 1)
  BY <1>1, <1>7, <1>8 DEF TypeOK, Live
<1>10. \A i \in Live' : jobs'[i] \in JobState
  <2> SUFFICES ASSUME NEW i \in Live' PROVE jobs'[i] \in JobState
    OBVIOUS
  <2> DEFINE taken == {PickedId(p) : p \in Picks(n, held)}
  <2>1. jobs'[i] = CASE i \in twins -> NewTwin(n, Id(i - next_id + 1))
                     [] i \in taken -> Leased(n, i, roll)
                     [] OTHER -> jobs[i]
    BY <1>8 DEF TakeJobs, Live
  <2>2. taken \subseteq Live
    BY DEF Picks, PickedId
  <2>3. i \in Live \cup twins
    BY <1>8 DEF Live
  <2> HIDE DEF taken, twins
  <2> QED
    BY <1>4, <1>6, <2>1, <2>2, <2>3 DEF TypeOK
<1>11. \A t \in DOMAIN audits' : audits'[t] \in AuditPair
  <2>1. \A t \in DOMAIN audits' :
          audits'[t] = IF t \in twins
                       THEN NewPair(n, Id(t - next_id + 1), RolledAgain(roll, t - next_id + 1))
                       ELSE audits[t]
    BY <1>8 DEF TakeJobs
  <2> QED
    BY <1>5, <1>8, <2>1 DEF TypeOK
<1>12. queues' \in [Host -> Seq(Entry)]
  <2>1. DOMAIN queues' = Host /\ queues' = [h \in Host |-> queues'[h]]
    BY DEF TakeJobs
  <2> QED
    BY <2>1, TakeQueues
<1>13. /\ shutdown' \in BOOLEAN /\ drained' \in BOOLEAN
       /\ call' \in [Request -> {"idle", "entered", "waiting", "done"}]
       /\ answer' \in [Request -> Answer \cup {Err, None}]
       /\ reg' \in [Node -> NodeRt]
  BY DEF TakeJobs, TypeOK
<1> QED
  BY <1>7, <1>9, <1>10, <1>11, <1>12, <1>13 DEF TypeOK

LEMMA SweepType ==
  ASSUME TypeOK, NEW order \in Orders(Expired), Sweep(order)
  PROVE  TypeOK'
<1>1. queues' \in [Host -> Seq(Entry)]
  <2>1. queues' = [h \in Host |-> queues'[h]]
    BY DEF Sweep
  <2> QED
    BY <2>1, SweepQueues
<1>2. DOMAIN jobs' \subseteq Live /\ DOMAIN audits' \subseteq DOMAIN audits
  BY DEF Sweep, Without
<1>3. ASSUME NEW i \in DOMAIN jobs' PROVE jobs'[i] \in JobState
  <2>1. CASE i \in Expired
    <3>1. jobs'[i] = [jobs[i] EXCEPT !.lease = None, !.due = FALSE, !.attempts = @ + 1]
      BY <2>1 DEF Sweep
    <3>2. jobs[i] \in JobState
      BY <1>2 DEF TypeOK
    <3>3. ~(jobs[i].attempts + 1 >= MAX_ATTEMPTS)
      BY <2>1 DEF Sweep, Torn
    <3>4. jobs[i].attempts + 1 \in 0 .. (MAX_ATTEMPTS - 1)
      BY <3>2, <3>3, BrokerAssumption DEF JobState
    <3> QED
      BY <3>1, <3>2, <3>4 DEF JobState
  <2>2. CASE i \notin Expired
    BY <1>2, <2>2 DEF Sweep, TypeOK
  <2> QED
    BY <2>1, <2>2
<1>4. \A t \in DOMAIN audits' : audits'[t] \in AuditPair
  BY <1>2 DEF Sweep, Without, TypeOK
<1>5. /\ call' \in [Request -> {"idle", "entered", "waiting", "done"}]
      /\ answer' \in [Request -> Answer \cup {Err, None}]
  <2>1. \E R : Resolve(R, Err)
    BY DEF Sweep
  <2> QED
    BY <2>1, ResolveType
<1>6. UNCHANGED <<next_id, shutdown, drained, reg>>
  BY DEF Sweep
<1> QED
  BY <1>1, <1>2, <1>3, <1>4, <1>5, <1>6 DEF TypeOK, Live

LEMMA CreditType ==
  ASSUME TypeOK, NEW n \in Node
  PROVE  Credit(n) \in [Node -> NodeRt]
<1>1. reg[n] \in NodeRt
  BY DEF TypeOK
<1>2. reg[n].completed + 1 \in Nat
  BY <1>1 DEF NodeRt
<1>3. \A c \in Nat : [reg[n] EXCEPT !.completed = c, !.key_bad = FALSE] \in NodeRt
  BY <1>1 DEF NodeRt
<1> QED
  BY <1>2, <1>3 DEF Credit, TypeOK

\* Settling an audit keeps the registry and the pairs typed.
LEMMA SettleType ==
  ASSUME TypeOK, NEW n \in Node, NEW t \in DOMAIN audits, NEW pair \in AuditPair,
         Settle(n, t, pair)
  PROVE  /\ reg' \in [Node -> NodeRt]
         /\ DOMAIN audits' \subseteq DOMAIN audits
         /\ \A u \in DOMAIN audits' : audits'[u] \in AuditPair
<1>1. Credit(n) \in [Node -> NodeRt]
  BY CreditType
<1>2. ASSUME NEW rg \in [Node -> NodeRt], NEW a, NEW b, NEW v \in {"pass", "hard", "soft"}
      PROVE  Charge(rg, a, b, v) \in [Node -> NodeRt]
  <2> DEFINE Times(m) == (IF m = a THEN 1 ELSE 0) + (IF m = b THEN 1 ELSE 0)
  <2>1. \A m : Times(m) \in Nat
    OBVIOUS
  <2> HIDE DEF Times
  <2>2. Charge(rg, a, b, v) = [m \in Node |->
          CASE v = "pass" -> [rg[m] EXCEPT !.audits_pass = @ + Times(m)]
            [] v = "hard" -> [rg[m] EXCEPT !.audits_hard_fail = @ + Times(m)]
            [] v = "soft" -> [rg[m] EXCEPT !.audits_soft_fail = @ + Times(m)]]
    BY DEF Charge, Times
  <2>3. ASSUME NEW m \in Node
        PROVE  /\ [rg[m] EXCEPT !.audits_pass = @ + Times(m)] \in NodeRt
               /\ [rg[m] EXCEPT !.audits_hard_fail = @ + Times(m)] \in NodeRt
               /\ [rg[m] EXCEPT !.audits_soft_fail = @ + Times(m)] \in NodeRt
    BY <2>1 DEF NodeRt
  <2> QED
    BY <2>2, <2>3
<1>3. Verdict(pair) \in {"pass", "hard", "soft"}
  BY DEF Verdict
<1>4. reg' \in [Node -> NodeRt]
  BY <1>1, <1>2, <1>3 DEF Settle
<1>5. /\ DOMAIN audits' \subseteq DOMAIN audits
      /\ \A u \in DOMAIN audits' : audits'[u] \in AuditPair
  BY DEF Settle, Without, TypeOK
<1> QED
  BY <1>4, <1>5

LEMMA AnswerType ==
  ASSUME TypeOK, NEW n \in Node, NEW i \in Live, NEW a \in Answer, CompleteAnswer(n, i, a)
  PROVE  TypeOK'
<1> DEFINE t == IF jobs[i].is_twin THEN i ELSE jobs[i].twin_id
           pair == IF jobs[i].is_twin
                   THEN [audits[t] EXCEPT !.twin_node = n, !.twin = a]
                   ELSE [audits[t] EXCEPT !.primary = a]
<1>1. DOMAIN jobs' \subseteq Live /\ \A k \in DOMAIN jobs' : jobs'[k] \in JobState
  <2>1. jobs' = Without(jobs, {i})
    BY DEF CompleteAnswer
  <2> QED
    BY <2>1 DEF Without, TypeOK, Live
<1>2. /\ call' \in [Request -> {"idle", "entered", "waiting", "done"}]
      /\ answer' \in [Request -> Answer \cup {Err, None}]
  <2>1. \E R : Resolve(R, a)
    BY DEF CompleteAnswer
  <2> QED
    BY <2>1, ResolveType
<1>3. /\ reg' \in [Node -> NodeRt]
      /\ DOMAIN audits' \subseteq DOMAIN audits
      /\ \A u \in DOMAIN audits' : audits'[u] \in AuditPair
  <2>1. CASE t \notin DOMAIN audits
    <3>1. reg' = Credit(n) /\ audits' = audits
      BY <2>1 DEF CompleteAnswer
    <3> QED
      BY <3>1, CreditType DEF TypeOK
  <2>2. CASE t \in DOMAIN audits
    <3>1. Settle(n, t, pair)
      BY <2>2 DEF CompleteAnswer
    <3>2. audits[t] \in AuditPair
      BY <2>2 DEF TypeOK
    <3>3. pair \in AuditPair
      BY <3>2 DEF AuditPair
    <3> HIDE DEF t, pair
    <3> QED
      BY <2>2, <3>1, <3>3, SettleType
  <2> QED
    BY <2>1, <2>2
<1>4. UNCHANGED <<next_id, queues, shutdown, drained>>
  BY DEF CompleteAnswer
<1> QED
  BY <1>1, <1>2, <1>3, <1>4 DEF TypeOK, Live

LEMMA RequeueType ==
  ASSUME TypeOK, NEW i \in Live, NEW m \in 0 .. (MAX_ATTEMPTS - 1), Requeue(i, m)
  PROVE  /\ DOMAIN jobs' = Live
         /\ \A k \in Live : jobs'[k] \in JobState
         /\ queues' \in [Host -> Seq(Entry)]
         /\ UNCHANGED <<audits, call, answer>>
<1>1. jobs[i] \in JobState /\ i \in Nat \ {0}
  BY DEF TypeOK
<1>2. HostOfJob(i) \in Host /\ EntryOf(i) \in Entry
  BY <1>1, BrokerAssumption DEF HostOfJob, EntryOf, Entry, JobState
<1>3. queues' \in [Host -> Seq(Entry)]
  <2>1. queues' = [queues EXCEPT ![HostOfJob(i)] = Append(@, EntryOf(i))]
    BY DEF Requeue
  <2> QED
    BY <1>2, <2>1 DEF TypeOK
<1>4. /\ DOMAIN jobs' = Live
      /\ \A k \in Live : jobs'[k] \in JobState
  BY <1>1 DEF Requeue, TypeOK, Live, JobState
<1> QED
  BY <1>3, <1>4 DEF Requeue

LEMMA AbandonType ==
  ASSUME TypeOK, NEW S, Abandon(S)
  PROVE  /\ DOMAIN jobs' \subseteq Live
         /\ \A k \in DOMAIN jobs' : jobs'[k] \in JobState
         /\ DOMAIN audits' \subseteq DOMAIN audits
         /\ \A u \in DOMAIN audits' : audits'[u] \in AuditPair
         /\ call' \in [Request -> {"idle", "entered", "waiting", "done"}]
         /\ answer' \in [Request -> Answer \cup {Err, None}]
<1>1. /\ DOMAIN jobs' \subseteq Live
      /\ \A k \in DOMAIN jobs' : jobs'[k] \in JobState
      /\ DOMAIN audits' \subseteq DOMAIN audits
      /\ \A u \in DOMAIN audits' : audits'[u] \in AuditPair
  BY DEF Abandon, Without, TypeOK, Live
<1>2. \E R : Resolve(R, Err)
  BY DEF Abandon
<1> QED
  BY <1>1, <1>2, ResolveType

\* Every step of the broker keeps every variable in its type.
LEMMA NextType ==
  ASSUME TypeOK, [Next]_vars
  PROVE  TypeOK'
<1>1. ASSUME NEW r \in Request, FetchEnter(r)
      PROVE  TypeOK'
  <2>1. UNCHANGED <<next_id, jobs, queues, audits, shutdown, drained, reg>>
    BY <1>1 DEF FetchEnter
  <2>2. /\ call' \in [Request -> {"idle", "entered", "waiting", "done"}]
        /\ answer' \in [Request -> Answer \cup {Err, None}]
    BY <1>1, ResolveType DEF FetchEnter, TypeOK
  <2> QED
    BY <2>1, <2>2 DEF TypeOK, Live
<1>2. ASSUME NEW r \in Request, FetchEnqueue(r)
      PROVE  TypeOK'
  <2>1. NewJob(r) \in JobState
    BY BrokerAssumption DEF NewJob, JobState, NoId
  <2>2. /\ DOMAIN jobs' = Live \cup {next_id}
        /\ \A i \in DOMAIN jobs' : jobs'[i] \in JobState
    <3>1. jobs' = [i \in Live \cup {next_id} |-> IF i = next_id THEN NewJob(r) ELSE jobs[i]]
      BY <1>2 DEF FetchEnqueue
    <3> QED
      BY <2>1, <3>1 DEF TypeOK
  <2>3. queues' \in [Host -> Seq(Entry)]
    <3>1. [id |-> next_id, exclude |-> None] \in Entry /\ HostOf[r] \in Host
      BY BrokerAssumption DEF Entry, TypeOK
    <3> QED
      BY <1>2, <3>1 DEF FetchEnqueue, TypeOK
  <2>4. next_id' = next_id + 1 /\ call' \in [Request -> {"idle", "entered", "waiting", "done"}]
    BY <1>2 DEF FetchEnqueue, TypeOK
  <2>5. UNCHANGED <<audits, shutdown, drained, answer, reg>>
    BY <1>2 DEF FetchEnqueue
  <2>6. DOMAIN jobs' \subseteq 1 .. (next_id' - 1) /\ DOMAIN audits' \subseteq 1 .. (next_id' - 1)
    <3>1. /\ next_id \in Nat \ {0} /\ next_id' = next_id + 1
          /\ Live \subseteq 1 .. (next_id - 1) /\ DOMAIN audits \subseteq 1 .. (next_id - 1)
      BY <2>4 DEF TypeOK
    <3>2. DOMAIN jobs' = Live \cup {next_id} /\ audits' = audits
      BY <2>2, <2>5
    <3> QED
      BY <3>1, <3>2
  <2> QED
    BY <2>2, <2>3, <2>4, <2>5, <2>6 DEF TypeOK, Live
<1>3. ASSUME NEW n \in Node, NEW i \in Live, CompleteKeyRejected(n, i)
      PROVE  TypeOK'
  <2>1. /\ DOMAIN jobs' = Live
        /\ \A k \in Live : jobs'[k] \in JobState
        /\ queues' \in [Host -> Seq(Entry)]
        /\ UNCHANGED <<audits, call, answer>>
    BY <1>3, RequeueType DEF CompleteKeyRejected, TypeOK, JobState
  <2>2. reg' \in [Node -> NodeRt]
    <3>1. reg[n] \in NodeRt /\ reg' = [reg EXCEPT ![n].key_bad = TRUE]
      BY <1>3 DEF TypeOK, CompleteKeyRejected
    <3> QED
      BY <3>1 DEF TypeOK, NodeRt
  <2>3. UNCHANGED <<next_id, shutdown, drained>>
    BY <1>3 DEF CompleteKeyRejected
  <2> QED
    BY <2>1, <2>2, <2>3 DEF TypeOK, Live
<1>4. ASSUME NEW n \in Node, NEW i \in Live, CompleteFailed(n, i)
      PROVE  TypeOK'
  <2>1. UNCHANGED <<next_id, shutdown, drained, reg>>
    BY <1>4 DEF CompleteFailed
  <2>2. CASE jobs[i].attempts + 1 >= MAX_ATTEMPTS
    <3>1. Abandon({i}) /\ UNCHANGED queues
      BY <1>4, <2>2 DEF CompleteFailed
    <3> QED
      BY <2>1, <3>1, AbandonType DEF TypeOK, Live
  <2>3. CASE ~(jobs[i].attempts + 1 >= MAX_ATTEMPTS)
    <3>1. Requeue(i, jobs[i].attempts + 1)
      BY <1>4, <2>3 DEF CompleteFailed
    <3>2. jobs[i].attempts + 1 \in 0 .. (MAX_ATTEMPTS - 1)
      BY <2>3, BrokerAssumption DEF TypeOK, JobState
    <3>3. /\ DOMAIN jobs' = Live
          /\ \A k \in Live : jobs'[k] \in JobState
          /\ queues' \in [Host -> Seq(Entry)]
          /\ UNCHANGED <<audits, call, answer>>
      BY <3>1, <3>2, RequeueType
    <3> QED
      BY <2>1, <3>3 DEF TypeOK, Live
  <2> QED
    BY <2>2, <2>3
<1>5. ASSUME ShutdownFlag
      PROVE  TypeOK'
  BY <1>5 DEF ShutdownFlag, TypeOK, Live
<1>6. ASSUME ShutdownDrain
      PROVE  TypeOK'
  <2>1. DOMAIN jobs' = {} /\ DOMAIN audits' = {} /\ next_id' = next_id /\ reg' = reg
    BY <1>6 DEF ShutdownDrain, Without, Live
  <2>2. /\ call' \in [Request -> {"idle", "entered", "waiting", "done"}]
        /\ answer' \in [Request -> Answer \cup {Err, None}]
    BY <1>6, ResolveType DEF ShutdownDrain
  <2>3. queues' \in [Host -> Seq(Entry)]
    BY <1>6 DEF ShutdownDrain
  <2>4. shutdown' \in BOOLEAN /\ drained' \in BOOLEAN
    BY <1>6 DEF ShutdownDrain, TypeOK
  <2> QED
    BY <2>1, <2>2, <2>3, <2>4 DEF TypeOK, Live
<1>7. ASSUME NEW i \in Live, LeaseDue(i) \/ TwinAges(i)
      PROVE  TypeOK'
  <2>1. UNCHANGED <<next_id, queues, audits, shutdown, drained, call, answer, reg>>
    BY <1>7 DEF LeaseDue, TwinAges
  <2>2. jobs[i] \in JobState
    BY DEF TypeOK
  <2>3. DOMAIN jobs' = Live /\ \A k \in Live : jobs'[k] \in JobState
    <3>1. /\ [jobs[i] EXCEPT !.due = TRUE] \in JobState
          /\ [jobs[i] EXCEPT !.aged = TRUE] \in JobState
      BY <2>2 DEF JobState
    <3>2. \/ jobs' = [jobs EXCEPT ![i] = [jobs[i] EXCEPT !.due = TRUE]]
          \/ jobs' = [jobs EXCEPT ![i] = [jobs[i] EXCEPT !.aged = TRUE]]
      BY <1>7 DEF LeaseDue, TwinAges
    <3> QED
      BY <3>1, <3>2 DEF TypeOK, Live
  <2> QED
    BY <2>1, <2>3 DEF TypeOK, Live
<1>8. ASSUME UNCHANGED vars
      PROVE  TypeOK'
  BY <1>8 DEF vars, TypeOK, Live
<1> QED
  BY <1>1, <1>2, <1>3, <1>4, <1>5, <1>6, <1>7, <1>8, TakeType, AnswerType, SweepType
  DEF Next

\* The type invariant of the broker, for every instance.
THEOREM TypeCorrect == Spec => []TypeOK
<1>1. TypeOK /\ [Next]_vars => TypeOK'
  BY NextType
<1> QED
  BY <1>1, InitType, PTL DEF Spec

=============================================================================
