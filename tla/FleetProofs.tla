----------------------------- MODULE FleetProofs -----------------------------
(***************************************************************************)
(* Proofs about Fleet, for any number of nodes, hosts, requests, faults    *)
(* and restarts.                                                           *)
(*                                                                         *)
(* Every step of the fleet but a restart is a step of the broker or leaves *)
(* it alone, so BrokerInv carries over.  InflightWithinTarget needs that a *)
(* poll never understates what its node runs when it is served: jobs only  *)
(* end while it is outstanding.  That answers are right needs to follow an *)
(* answer from the job a node was handed, over the result it uploads, to   *)
(* the pair that audits it: Honest, which holds until the server restarts  *)
(* and numbers jobs anew.                                                  *)
(***************************************************************************)
EXTENDS Fleet, BrokerInvariant

Poll == [pending : Held, checked : BOOLEAN]
Report == [id : Nat \ {0}, outcome : Outcome]

NodesTyped ==
  /\ polling \in [Node -> Poll \cup {None}]
  /\ IsABag(running)
  /\ BagToSet(running) \subseteq Task
  /\ uploads \in [Node -> Seq(Report)]
  /\ paused \subseteq Node
  /\ stop \in BOOLEAN /\ sweeping \in BOOLEAN
  /\ restarts \in Nat

\* What a node runs is within the target, and within what its poll says.
Room ==
  \A n \in Node, h \in Host :
    /\ IsFiniteSet(Copies(running, n, h))
    /\ Inflight(n, h) <= TARGET_INFLIGHT_PER_HOST
    /\ polling[n] # None => Inflight(n, h) <= polling[n].pending[h]

\* A primary and the pair that audits it are about one request.
LinkedPairs ==
  \A i \in Live :
    ~jobs[i].is_twin /\ jobs[i].twin_id \in DOMAIN audits =>
      audits[jobs[i].twin_id].req = jobs[i].req

\* Nodes run the requests of the jobs they were handed, ...
TasksKnown ==
  \A t \in BagToSet(running) :
    t.id < next_id /\ (t.id \in Live => jobs[t.id].req = t.req)

\* (a is no wrong answer to r)
Right(a, r) == r \in Immutable /\ a \in Answer => a = Truth[r]

\* ... upload no wrong answers to them ...
ReportsRight ==
  \A n \in Node : \A k \in DOMAIN uploads[n] :
    /\ uploads[n][k].id < next_id
    /\ uploads[n][k].id \in Live => Right(uploads[n][k].outcome, jobs[uploads[n][k].id].req)

\* ... and none gets into a pair.
PairsRight ==
  \A t \in DOMAIN audits :
    Right(audits[t].primary, audits[t].req) /\ Right(audits[t].twin, audits[t].req)

NoneCharged == \A n \in Node : reg[n].audits_hard_fail = 0

Honest ==
  /\ TasksKnown
  /\ ReportsRight
  /\ PairsRight
  /\ AnswersOwnRequest
  /\ NoneCharged

FleetInv ==
  /\ BrokerInv
  /\ LinkedPairs
  /\ NodesTyped
  /\ Room
  /\ Liars = {} /\ restarts = 0 => Honest

-----------------------------------------------------------------------------
(* Counting the copies of a bag *)

LEMMA CopyOf ==
  ASSUME NEW B, NEW n, NEW h, NEW c
  PROVE  c \in Copies(B, n, h) <=>
           \E t \in DOMAIN B : /\ t.node = n /\ HostOf[t.req] = h
                               /\ \E k \in 1 .. B[t] : c = <<t, k>>
BY DEF Copies, BagToSet

\* Fewer copies of everything are fewer copies.
LEMMA FewerCopies ==
  ASSUME NEW B, NEW C, NEW n, NEW h, IsFiniteSet(Copies(B, n, h)), IsABag(B), IsABag(C),
         \A t \in DOMAIN C : t.node = n => t \in DOMAIN B /\ C[t] <= B[t]
  PROVE  /\ IsFiniteSet(Copies(C, n, h))
         /\ Cardinality(Copies(C, n, h)) <= Cardinality(Copies(B, n, h))
<1>1. Copies(C, n, h) \subseteq Copies(B, n, h)
  <2> SUFFICES ASSUME NEW c \in Copies(C, n, h)
               PROVE  c \in Copies(B, n, h)
    OBVIOUS
  <2>1. PICK t \in DOMAIN C : /\ t.node = n /\ HostOf[t.req] = h
                              /\ \E k \in 1 .. C[t] : c = <<t, k>>
    BY CopyOf
  <2>2. PICK k \in 1 .. C[t] : c = <<t, k>>
    BY <2>1
  <2>3. t \in DOMAIN B /\ C[t] <= B[t] /\ C[t] \in Nat /\ B[t] \in Nat
    BY <2>1 DEF IsABag
  <2>4. k \in 1 .. B[t]
    BY <2>2, <2>3
  <2> QED
    BY <2>1, <2>2, <2>3, <2>4, CopyOf
<1> HIDE DEF Copies
<1> QED
  BY <1>1, FS_Subset

\* The copies in a union of bags are at most those of both.
LEMMA CopiesAddUp ==
  ASSUME NEW B, NEW C, NEW n, NEW h, IsABag(B), IsABag(C),
         IsFiniteSet(Copies(B, n, h)), IsFiniteSet(Copies(C, n, h))
  PROVE  /\ IsFiniteSet(Copies(B (+) C, n, h))
         /\ Cardinality(Copies(B (+) C, n, h)) <=
              Cardinality(Copies(B, n, h)) + Cardinality(Copies(C, n, h))
<1> DEFINE old == Copies(B, n, h)
           new == Copies(C, n, h)
           In(t) == IF t \in DOMAIN B THEN B[t] ELSE 0
           Shifted(c) == <<c[1], c[2] + In(c[1])>>
           shift == [c \in new |-> Shifted(c)]
           moved == {Shifted(c) : c \in new}
<1>1. Copies(B (+) C, n, h) \subseteq old \cup moved
  <2> SUFFICES ASSUME NEW c \in Copies(B (+) C, n, h), c \notin old
               PROVE  c \in moved
    OBVIOUS
  <2>1. PICK t \in DOMAIN (B (+) C) : /\ t.node = n /\ HostOf[t.req] = h
                                      /\ \E k \in 1 .. (B (+) C)[t] : c = <<t, k>>
    BY CopyOf
  <2>2. PICK k \in 1 .. (B (+) C)[t] : c = <<t, k>>
    BY <2>1
  <2>3. /\ t \in DOMAIN B \cup DOMAIN C
        /\ (B (+) C)[t] = In(t) + (IF t \in DOMAIN C THEN C[t] ELSE 0)
    BY <2>1 DEF (+)
  <2>4. In(t) \in Nat /\ (t \in DOMAIN C => C[t] \in Nat)
    BY DEF IsABag
  <2>5. ~(k \in 1 .. In(t))
    <3> SUFFICES ASSUME k \in 1 .. In(t)
                 PROVE  c \in old
      OBVIOUS
    <3>1. t \in DOMAIN B
      OBVIOUS
    <3>2. k \in 1 .. B[t]
      BY <3>1
    <3> QED
      BY <2>1, <2>2, <3>1, <3>2, CopyOf
  <2> DEFINE j == k - In(t)
  <2>6. t \in DOMAIN C /\ j \in 1 .. C[t] /\ j + In(t) = k
    <3> HIDE DEF In
    <3> QED
      BY <2>2, <2>3, <2>4, <2>5
  <2>7. <<t, j>> \in new
    BY <2>1, <2>6, CopyOf
  <2>8. Shifted(<<t, j>>) = c
    BY <2>2, <2>6
  <2> HIDE DEF new, Shifted
  <2> QED
    BY <2>7, <2>8
<1> HIDE DEF old, new, Shifted
<1>2. shift \in Surjection(new, moved)
  BY DEF Surjection
<1> HIDE DEF shift, moved
<1>3. IsFiniteSet(moved) /\ Cardinality(moved) <= Cardinality(new) /\ IsFiniteSet(old) /\ IsFiniteSet(new)
  BY <1>2, FS_Surjection DEF old, new
<1>4. /\ IsFiniteSet(old \cup moved)
      /\ Cardinality(old \cup moved) = Cardinality(old) + Cardinality(moved) - Cardinality(old \cap moved)
  BY <1>3, FS_Union
<1>5. IsFiniteSet(old \cap moved)
  BY <1>3, FS_Intersection
<1>6. Cardinality(old \cup moved) <= Cardinality(old) + Cardinality(new)
  <2>1. /\ Cardinality(old) \in Nat /\ Cardinality(moved) \in Nat /\ Cardinality(new) \in Nat
        /\ Cardinality(old \cap moved) \in Nat
    BY <1>3, <1>5, FS_CardinalityType
  <2> QED
    BY <1>3, <1>4, <2>1
<1> DEFINE both == Copies(B (+) C, n, h)
<1> HIDE DEF both
<1>7. both \subseteq old \cup moved
  BY <1>1 DEF both
<1>8. IsFiniteSet(both) /\ Cardinality(both) <= Cardinality(old \cup moved)
  BY <1>4, <1>7, FS_Subset
<1>9. /\ Cardinality(both) \in Nat /\ Cardinality(old \cup moved) \in Nat
      /\ Cardinality(old) \in Nat /\ Cardinality(new) \in Nat
  BY <1>3, <1>4, <1>8, FS_CardinalityType
<1>10. Cardinality(both) <= Cardinality(old) + Cardinality(new)
  BY <1>6, <1>8, <1>9
<1> QED
  BY <1>8, <1>10 DEF both, old, new

-----------------------------------------------------------------------------
(* What a poll is handed *)

\* take_jobs removes at most Cap entries from the queue of a host.
LEMMA PickedWithinCap ==
  ASSUME TypeOK, NEW n \in Node, NEW held \in Held, NEW h \in Host
  PROVE  /\ IsFiniteSet(Picked(n, held, h))
         /\ Cardinality(Picked(n, held, h)) <= Cap(held, h)
         /\ Cap(held, h) \in Nat /\ held[h] \in Nat
         /\ held[h] + Cap(held, h) = TARGET_INFLIGHT_PER_HOST
<1> DEFINE ours == Picked(n, held, h)
           cap == Cap(held, h)
           Upto(i) == {k \in 1 .. i : queues[h][k].exclude # n}
           rank == [i \in ours |-> Cardinality(Upto(i))]
<1>1. cap \in Nat /\ held[h] \in Nat /\ held[h] + cap = TARGET_INFLIGHT_PER_HOST
  BY BrokerAssumption DEF Held, Cap
<1>2. \A i \in ours : i \in Nat \ {0} /\ i \in Upto(i) /\ Cardinality(Upto(i)) <= cap
  <2>1. queues[h] \in Seq(Entry)
    BY DEF TypeOK
  <2>2. DOMAIN queues[h] = 1 .. Len(queues[h]) /\ Len(queues[h]) \in Nat
    BY <2>1, LenProperties
  <2> QED
    BY <2>2 DEF Picked
<1> HIDE DEF ours, cap
<1>3. \A i \in ours : IsFiniteSet(Upto(i))
  <2> SUFFICES ASSUME NEW i \in ours
               PROVE  IsFiniteSet(Upto(i))
    OBVIOUS
  <2> DEFINE all == 1 .. i
             some == Upto(i)
  <2>1. IsFiniteSet(all)
    <3>1. i \in Nat
      BY <1>2
    <3>2. 1 \in Int /\ i \in Int
      BY ONLY <3>1
    <3> QED
      BY ONLY <3>2, FS_Interval DEF all
  <2>2. some \subseteq all
    OBVIOUS
  <2> HIDE DEF all, some
  <2>3. IsFiniteSet(some)
    BY <2>1, <2>2, FS_Subset
  <2> QED
    BY <2>3 DEF some
<1>4. \A i, j \in ours : i < j => Upto(i) \subseteq Upto(j) /\ j \notin Upto(i)
  <2> SUFFICES ASSUME NEW i \in ours, NEW j \in ours, i < j
               PROVE  Upto(i) \subseteq Upto(j) /\ j \notin Upto(i)
    OBVIOUS
  <2>1. i \in Nat /\ j \in Nat
    BY <1>2
  <2>2. 1 .. i \subseteq 1 .. j /\ j \notin 1 .. i
    BY <2>1
  <2> QED
    BY <2>2
<1> HIDE DEF Upto
<1>5. \A i \in ours : Cardinality(Upto(i)) \in 1 .. cap
  <2> SUFFICES ASSUME NEW i \in ours
               PROVE  Cardinality(Upto(i)) \in 1 .. cap
    OBVIOUS
  <2>1. Cardinality(Upto(i)) \in Nat /\ Cardinality(Upto(i)) # 0
    BY <1>2, <1>3, FS_CardinalityType, FS_EmptySet
  <2> QED
    BY <1>1, <1>2, <2>1
<1>6. \A i, j \in ours : i < j => Cardinality(Upto(i)) # Cardinality(Upto(j))
  <2> SUFFICES ASSUME NEW i \in ours, NEW j \in ours, i < j
               PROVE  Cardinality(Upto(i)) # Cardinality(Upto(j))
    OBVIOUS
  <2>1. Upto(i) \subseteq Upto(j) /\ Upto(i) # Upto(j) /\ IsFiniteSet(Upto(j))
    BY <1>2, <1>3, <1>4
  <2> QED
    BY <2>1, FS_Subset
<1>7. \A i, j \in ours : rank[i] = rank[j] => i = j
  <2> SUFFICES ASSUME NEW i \in ours, NEW j \in ours, i # j
               PROVE  rank[i] # rank[j]
    OBVIOUS
  <2>1. i < j \/ j < i
    BY <1>2
  <2> QED
    BY <1>6, <2>1
<1>8. rank \in [ours -> 1 .. cap]
  BY <1>5
<1> HIDE DEF rank
<1>9. rank \in Injection(ours, 1 .. cap)
  BY <1>7, <1>8 DEF Injection, IsInjective
<1>10. IsFiniteSet(1 .. cap) /\ Cardinality(1 .. cap) = cap
  <2>1. 1 \in Int /\ cap \in Int
    BY <1>1
  <2>2. /\ IsFiniteSet(1 .. cap)
        /\ Cardinality(1 .. cap) = IF 1 > cap THEN 0 ELSE cap - 1 + 1
    BY ONLY <2>1, FS_Interval
  <2> QED
    BY <1>1, <2>2
<1>11. IsFiniteSet(ours) /\ Cardinality(ours) <= cap
  BY <1>9, <1>10, FS_Injection
<1> QED
  BY <1>1, <1>11 DEF ours, cap

\* The picks of one job, all of them from the queue of its host.
PicksOf(n, held, i) == {p \in Picks(n, held) : PickedId(p) = i}

LEMMA PicksOfJob ==
  ASSUME BrokerInv, NEW n \in Node, NEW held \in Held, NEW i
  PROVE  /\ IsFiniteSet(PicksOf(n, held, i))
         /\ Cardinality(PicksOf(n, held, i)) \in Nat
         /\ \A p \in PicksOf(n, held, i) :
              /\ i \in Live
              /\ p = <<HostOfJob(i), p[2]>>
              /\ p[2] \in Picked(n, held, HostOfJob(i))
<1>1. ASSUME NEW p \in PicksOf(n, held, i)
      PROVE  /\ i \in Live /\ HostOfJob(i) \in Host
             /\ p = <<HostOfJob(i), p[2]>>
             /\ p[2] \in Picked(n, held, HostOfJob(i))
  <2>1. PICK h \in Host : p \in {h} \X Picked(n, held, h)
    BY DEF PicksOf, Picks
  <2>2. p = <<p[1], p[2]>> /\ p[1] = h /\ p[2] \in Picked(n, held, h)
    BY <2>1
  <2>3. p \in Picks(n, held) /\ PickedId(p) = i
    BY DEF PicksOf
  <2>4. i \in Live /\ HostOfJob(i) = p[1] /\ p[1] \in Host
    BY <2>3, PickPlace
  <2> QED
    BY <2>2, <2>4
<1>2. CASE PicksOf(n, held, i) = {}
  BY <1>2, FS_EmptySet
<1>3. CASE PicksOf(n, held, i) # {}
  <2> DEFINE h == HostOfJob(i)
             P == PicksOf(n, held, i)
  <2>1. h \in Host
    BY <1>1, <1>3
  <2>2. P \subseteq {h} \X Picked(n, held, h)
    BY <1>1
  <2>3. IsFiniteSet(Picked(n, held, h)) /\ IsFiniteSet({h})
    BY <2>1, PickedWithinCap, FS_Singleton DEF BrokerInv
  <2>4. IsFiniteSet({h} \X Picked(n, held, h))
    BY <2>3, FS_Product
  <2> HIDE DEF P, h
  <2>5. IsFiniteSet(P)
    BY <2>2, <2>4, FS_Subset
  <2>6. Cardinality(P) \in Nat
    BY <2>5, FS_CardinalityType
  <2> QED
    BY <1>1, <2>5, <2>6 DEF P
<1> QED
  BY <1>2, <1>3

\* The jobs handed out: what they are, and how many copies of each.
LEMMA HandedJobs ==
  ASSUME BrokerInv, NEW n \in Node, NEW held \in Held
  PROVE  /\ IsABag(Handed(n, held))
         /\ \A t \in DOMAIN Handed(n, held) :
              /\ t.id \in Live
              /\ t = [node |-> n, id |-> t.id, req |-> jobs[t.id].req]
              /\ t \in Task
              /\ Handed(n, held)[t] = Cardinality(PicksOf(n, held, t.id))
<1> DEFINE H == Handed(n, held)
           P == Picks(n, held)
           Job(p) == [node |-> n, id |-> PickedId(p), req |-> jobs[PickedId(p)].req]
<1>1. H = [t \in {Job(p) : p \in P} |-> Cardinality({p \in P : PickedId(p) = t.id})]
  BY DEF Handed
<1>2. ASSUME NEW t \in DOMAIN H
      PROVE  /\ t.id \in Live
             /\ t = [node |-> n, id |-> t.id, req |-> jobs[t.id].req]
             /\ t \in Task
             /\ H[t] = Cardinality(PicksOf(n, held, t.id))
             /\ H[t] \in Nat /\ H[t] > 0
  <2>1. PICK p \in P : t = Job(p)
    BY <1>1
  <2>2. PickedId(p) \in Live /\ t.id = PickedId(p) /\ t = [node |-> n, id |-> t.id, req |-> jobs[t.id].req]
    BY <2>1, PickPlace
  <2>3. t.id \in Nat \ {0} /\ jobs[t.id].req \in Request
    <3>1. TypeOK /\ t.id \in Live
      BY <2>2 DEF BrokerInv
    <3>2. t.id \in 1 .. (next_id - 1) /\ next_id \in Nat /\ jobs[t.id] \in JobState
      BY ONLY <3>1 DEF TypeOK
    <3> QED
      BY ONLY <3>2 DEF JobState
  <2>4. t \in Task
    BY <2>2, <2>3 DEF Task
  <2>5. H[t] = Cardinality(PicksOf(n, held, t.id))
    <3>1. \A x \in DOMAIN H : H[x] = Cardinality({q \in P : PickedId(q) = x.id})
      BY ONLY <1>1
    <3>2. PicksOf(n, held, t.id) = {q \in P : PickedId(q) = t.id}
      BY DEF PicksOf
    <3> QED
      BY <3>1, <3>2
  <2>6. p \in PicksOf(n, held, t.id)
    BY <2>2 DEF PicksOf
  <2>7. H[t] \in Nat /\ H[t] # 0
    BY <2>5, <2>6, PicksOfJob, FS_EmptySet
  <2> QED
    BY <2>2, <2>4, <2>5, <2>7
<1> HIDE DEF H
<1>3. IsABag(H)
  <2>1. H = [t \in DOMAIN H |-> H[t]]
    BY <1>1
  <2> QED
    BY <1>2, <2>1 DEF IsABag
<1> QED
  BY <1>2, <1>3 DEF H

\* A node is handed at most Cap jobs of a host, counting a job as often as it is
\* handed out: distinct copies come from distinct queue entries.
LEMMA HandedWithinCap ==
  ASSUME BrokerInv, NEW n \in Node, NEW held \in Held, NEW h \in Host
  PROVE  /\ IsFiniteSet(Copies(Handed(n, held), n, h))
         /\ Cardinality(Copies(Handed(n, held), n, h)) <= Cap(held, h)
<1> DEFINE H == Handed(n, held)
           copies == Copies(H, n, h)
           ours == Picked(n, held, h)
           Of(i) == PicksOf(n, held, i)
           Numbered(i) == CHOOSE f : f \in Bijection(1 .. Cardinality(Of(i)), Of(i))
           Source(c) == Numbered(c[1].id)[c[2]]
           place == [c \in copies |-> Source(c)[2]]
<1>1. ASSUME NEW i
      PROVE  Numbered(i) \in Bijection(1 .. Cardinality(Of(i)), Of(i))
  <2>1. IsFiniteSet(Of(i))
    BY PicksOfJob
  <2> HIDE DEF Of
  <2>2. ExistsBijection(1 .. Cardinality(Of(i)), Of(i))
    BY <2>1, FS_CardinalityType
  <2> QED
    BY <2>2 DEF ExistsBijection
<1>2. ASSUME NEW c \in copies
      PROVE  /\ c = <<c[1], c[2]>>
             /\ c[1] = [node |-> n, id |-> c[1].id, req |-> jobs[c[1].id].req]
             /\ HostOfJob(c[1].id) = h
             /\ c[2] \in 1 .. Cardinality(Of(c[1].id))
  <2>1. PICK t \in DOMAIN H : /\ t.node = n /\ HostOf[t.req] = h
                              /\ \E k \in 1 .. H[t] : c = <<t, k>>
    BY CopyOf
  <2>2. PICK k \in 1 .. H[t] : c = <<t, k>>
    BY <2>1
  <2>3. /\ t = [node |-> n, id |-> t.id, req |-> jobs[t.id].req]
        /\ H[t] = Cardinality(Of(t.id))
    BY HandedJobs
  <2>4. c[1] = t /\ c[2] = k /\ t.req = jobs[t.id].req
    BY <2>2, <2>3
  <2> HIDE DEF H, Of
  <2> QED
    BY <2>1, <2>2, <2>3, <2>4 DEF HostOfJob
<1> HIDE DEF Numbered, copies
<1>3. ASSUME NEW c \in copies
      PROVE  /\ Source(c) \in Of(c[1].id)
             /\ Source(c) = <<h, Source(c)[2]>>
             /\ Source(c)[2] \in ours
             /\ PickedId(Source(c)) = c[1].id
  <2>1. Source(c) \in Of(c[1].id)
    BY <1>1, <1>2 DEF Bijection, Injection
  <2> HIDE DEF Source
  <2>2. PickedId(Source(c)) = c[1].id
    BY <2>1 DEF PicksOf
  <2>3. /\ Source(c) = <<HostOfJob(c[1].id), Source(c)[2]>>
        /\ Source(c)[2] \in Picked(n, held, HostOfJob(c[1].id))
    BY <2>1, PicksOfJob
  <2> QED
    BY <1>2, <2>1, <2>2, <2>3
<1>4. ASSUME NEW c \in copies, NEW d \in copies, place[c] = place[d]
      PROVE  c = d
  <2>1. Source(c) = Source(d)
    <3>1. Source(c)[2] = Source(d)[2]
      BY <1>4
    <3> HIDE DEF Source
    <3> QED
      BY <1>3, <3>1
  <2>2. c[1].id = d[1].id
    <3> HIDE DEF Source
    <3> QED
      BY <1>3, <2>1
  <2>3. c[1] = d[1]
    <3> DEFINE ci == c[1].id
               di == d[1].id
    <3>1. /\ c[1] = [node |-> n, id |-> ci, req |-> jobs[ci].req]
          /\ d[1] = [node |-> n, id |-> di, req |-> jobs[di].req]
      BY <1>2
    <3>2. ci = di
      BY <2>2
    <3> HIDE DEF ci, di
    <3> QED
      BY <3>1, <3>2
  <2> DEFINE i == c[1].id
             f == Numbered(i)
  <2>4. f \in Bijection(1 .. Cardinality(Of(i)), Of(i))
    BY <1>1
  <2>5. f[c[2]] = f[d[2]]
    BY <2>1, <2>2
  <2>6. c[2] \in 1 .. Cardinality(Of(i)) /\ d[2] \in 1 .. Cardinality(Of(i))
    BY <1>2, <2>2
  <2> HIDE DEF f, Of, i
  <2>7. c[2] = d[2]
    BY <2>4, <2>5, <2>6 DEF Bijection, Injection, IsInjective
  <2> QED
    BY <1>2, <2>3, <2>7
<1>5. place \in [copies -> ours]
  <2> HIDE DEF Source, ours
  <2> QED
    BY <1>3
<1> HIDE DEF place, ours
<1>6. place \in Injection(copies, ours)
  BY <1>4, <1>5 DEF Injection, IsInjective
<1>7. IsFiniteSet(ours) /\ Cardinality(ours) <= Cap(held, h) /\ Cap(held, h) \in Nat
  BY PickedWithinCap DEF BrokerInv, ours
<1>8. IsFiniteSet(copies) /\ Cardinality(copies) <= Cardinality(ours)
  BY <1>6, <1>7, FS_Injection
<1>9. Cardinality(copies) \in Nat /\ Cardinality(ours) \in Nat
  BY <1>7, <1>8, FS_CardinalityType
<1>10. Cardinality(copies) <= Cap(held, h)
  BY <1>7, <1>8, <1>9
<1> QED
  BY <1>8, <1>10 DEF copies

-----------------------------------------------------------------------------
(* What a step of the broker does to jobs, pairs and verdicts *)

\* No id changes its request, and new ids are new.
JobsKept ==
  /\ next_id <= next_id'
  /\ \A i \in Live' : (i \in Live /\ jobs'[i].req = jobs[i].req) \/ i >= next_id

\* No answer is recorded or returned, no node charged with wrong data.
NoAnswer ==
  /\ \A t \in DOMAIN audits' :
       \/ t \in DOMAIN audits /\ audits'[t] = audits[t]
       \/ audits'[t].primary = None /\ audits'[t].twin = None
  /\ \A r \in Request : answer'[r] \in {answer[r], Err}
  /\ \A n \in Node : reg'[n].audits_hard_fail = reg[n].audits_hard_fail

\* Jobs and pairs stay as they are or go.
OnlyRemoves ==
  /\ next_id' = next_id
  /\ \A i \in Live' : i \in Live /\ SameJob(i) /\ jobs'[i].twin_id = jobs[i].twin_id
  /\ \A t \in DOMAIN audits' : t \in DOMAIN audits /\ audits'[t].req = audits[t].req

LEMMA RemovalIsHarmless ==
  ASSUME BrokerInv, LinkedPairs, OnlyRemoves
  PROVE  JobsKept /\ LinkedPairs'
<1>1. next_id \in Nat
  BY DEF BrokerInv, TypeOK
<1> QED
  BY <1>1 DEF OnlyRemoves, JobsKept, LinkedPairs, SameJob

LEMMA RequeueIsCalm ==
  ASSUME BrokerInv, NEW i \in Live, NEW k, Requeue(i, k), next_id' = next_id
  PROVE  /\ OnlyRemoves
         /\ \A t \in DOMAIN audits' : t \in DOMAIN audits /\ audits'[t] = audits[t]
         /\ answer' = answer
<1>1. jobs' = [jobs EXCEPT ![i] = [jobs[i] EXCEPT !.lease = None, !.due = FALSE, !.attempts = k]]
      /\ UNCHANGED <<audits, answer>>
  BY DEF Requeue
<1>2. jobs[i] \in JobState
  BY DEF BrokerInv, TypeOK
<1>3. Live' = Live /\ \A j \in Live : j # i => jobs'[j] = jobs[j]
  BY <1>1 DEF Live
<1>4. jobs'[i] = [jobs[i] EXCEPT !.lease = None, !.due = FALSE, !.attempts = k]
  BY <1>1 DEF Live
<1>5. SameJob(i) /\ jobs'[i].twin_id = jobs[i].twin_id
  BY <1>2, <1>4 DEF SameJob, JobState
<1>6. \A j \in Live : SameJob(j) /\ jobs'[j].twin_id = jobs[j].twin_id
  BY <1>3, <1>5 DEF SameJob
<1> QED
  BY <1>1, <1>3, <1>6 DEF OnlyRemoves

LEMMA AbandonIsCalm ==
  ASSUME BrokerInv, NEW S, Abandon(S), next_id' = next_id
  PROVE  /\ OnlyRemoves
         /\ \A t \in DOMAIN audits' : t \in DOMAIN audits /\ audits'[t] = audits[t]
         /\ \A r \in Request : answer'[r] \in {answer[r], Err}
<1>1. Live' \subseteq Live /\ \A i \in Live' : jobs'[i] = jobs[i]
  BY DEF Abandon, Without, Live
<1>2. \A t \in DOMAIN audits' : t \in DOMAIN audits /\ audits'[t] = audits[t]
  BY DEF Abandon, Without
<1>3. \A r \in Request : answer'[r] \in {answer[r], Err}
  BY DEF Abandon, Resolve
<1> QED
  BY <1>1, <1>2, <1>3 DEF OnlyRemoves, SameJob

LEMMA SweepIsCalm ==
  ASSUME BrokerInv, NEW order, Sweep(order)
  PROVE  OnlyRemoves /\ NoAnswer
<1> DEFINE lost == {i \in Expired : jobs[i].attempts + 1 >= MAX_ATTEMPTS}
           gone == Torn(lost)
           stale == {i \in Live : /\ jobs[i].is_twin
                                  /\ jobs[i].lease = None \/ i \in Expired
                                  /\ jobs[i].aged}
<1>1. /\ jobs' = [i \in Live \ (gone \cup stale) |->
                    IF i \in Expired
                    THEN [jobs[i] EXCEPT !.lease = None, !.due = FALSE,
                                         !.attempts = jobs[i].attempts + 1]
                    ELSE jobs[i]]
      /\ audits' = Without(audits, gone \cup stale)
      /\ Resolve(WaitingOn(lost), Err)
      /\ next_id' = next_id /\ reg' = reg
  BY DEF Sweep
<1> HIDE DEF lost, gone, stale
<1>2. \A i \in Live' : i \in Live /\ SameJob(i) /\ jobs'[i].twin_id = jobs[i].twin_id
  <2> SUFFICES ASSUME NEW i \in Live'
               PROVE  i \in Live /\ SameJob(i) /\ jobs'[i].twin_id = jobs[i].twin_id
    OBVIOUS
  <2>1. i \in Live /\ i \in Live \ (gone \cup stale)
    BY <1>1 DEF Live
  <2>2. jobs[i] \in JobState
    BY <2>1 DEF BrokerInv, TypeOK
  <2>3. \/ jobs'[i] = [jobs[i] EXCEPT !.lease = None, !.due = FALSE, !.attempts = jobs[i].attempts + 1]
        \/ jobs'[i] = jobs[i]
    BY <1>1, <2>1
  <2> QED
    BY <2>1, <2>2, <2>3 DEF SameJob, JobState
<1>3. \A t \in DOMAIN audits' : t \in DOMAIN audits /\ audits'[t] = audits[t]
  BY <1>1 DEF Without
<1>4. \A r \in Request : answer'[r] \in {answer[r], Err}
  BY <1>1 DEF Resolve
<1> QED
  BY <1>1, <1>2, <1>3, <1>4 DEF OnlyRemoves, NoAnswer

\* Every step but an answer, a new job and take_jobs.
LEMMA CalmSteps ==
  ASSUME BrokerInv,
         \/ \E r \in Request : FetchEnter(r)
         \/ \E n \in Node, i \in Live : CompleteKeyRejected(n, i)
         \/ \E n \in Node, i \in Live : CompleteFailed(n, i)
         \/ \E order \in Orders(Expired) : Sweep(order)
         \/ ShutdownFlag
         \/ ShutdownDrain
         \/ \E i \in Live : LeaseDue(i) \/ TwinAges(i)
         \/ UNCHANGED vars
  PROVE  OnlyRemoves /\ NoAnswer
<1>1. ASSUME UNCHANGED <<next_id, jobs, audits, reg>>, \A r \in Request : answer'[r] \in {answer[r], Err}
      PROVE  OnlyRemoves /\ NoAnswer
  BY <1>1 DEF OnlyRemoves, NoAnswer, SameJob, Live
<1>2. ASSUME NEW r \in Request, FetchEnter(r)
      PROVE  OnlyRemoves /\ NoAnswer
  <2>1. \A q \in Request : answer'[q] \in {answer[q], Err}
    BY <1>2 DEF FetchEnter, Resolve
  <2> QED
    BY <1>1, <1>2, <2>1 DEF FetchEnter
<1>3. ASSUME NEW n \in Node, NEW i \in Live, CompleteKeyRejected(n, i)
      PROVE  OnlyRemoves /\ NoAnswer
  <2>1. Requeue(i, jobs[i].attempts) /\ next_id' = next_id
    BY <1>3 DEF CompleteKeyRejected
  <2>2. \A m \in Node : reg'[m].audits_hard_fail = reg[m].audits_hard_fail
    <3>1. reg' = [reg EXCEPT ![n] = [reg[n] EXCEPT !.key_bad = TRUE]]
      BY <1>3 DEF CompleteKeyRejected
    <3>2. reg \in [Node -> NodeRt] /\ reg[n] \in NodeRt
      BY DEF BrokerInv, TypeOK
    <3>3. [reg[n] EXCEPT !.key_bad = TRUE].audits_hard_fail = reg[n].audits_hard_fail
      BY <3>2 DEF NodeRt
    <3> QED
      BY <3>1, <3>2, <3>3
  <2> QED
    BY <2>1, <2>2, RequeueIsCalm DEF NoAnswer
<1>4. ASSUME NEW n \in Node, NEW i \in Live, CompleteFailed(n, i)
      PROVE  OnlyRemoves /\ NoAnswer
  <2>1. /\ Abandon({i}) \/ Requeue(i, jobs[i].attempts + 1)
        /\ next_id' = next_id /\ reg' = reg
    BY <1>4 DEF CompleteFailed
  <2>2. CASE Abandon({i})
    BY <2>1, <2>2, AbandonIsCalm DEF NoAnswer
  <2>3. CASE Requeue(i, jobs[i].attempts + 1)
    BY <2>1, <2>3, RequeueIsCalm DEF NoAnswer
  <2> QED
    BY <2>1, <2>2, <2>3
<1>5. ASSUME ShutdownFlag
      PROVE  OnlyRemoves /\ NoAnswer
  BY <1>1, <1>5 DEF ShutdownFlag
<1>6. ASSUME ShutdownDrain
      PROVE  OnlyRemoves /\ NoAnswer
  <2>1. Live' = {} /\ DOMAIN audits' = {} /\ UNCHANGED <<next_id, reg>>
    BY <1>6 DEF ShutdownDrain, Without, Live
  <2>2. \A r \in Request : answer'[r] \in {answer[r], Err}
    BY <1>6 DEF ShutdownDrain, Resolve
  <2> QED
    BY <2>1, <2>2 DEF OnlyRemoves, NoAnswer
<1>7. ASSUME NEW i \in Live, LeaseDue(i) \/ TwinAges(i)
      PROVE  OnlyRemoves /\ NoAnswer
  <2>1. UNCHANGED <<next_id, audits, answer, reg>>
    BY <1>7 DEF LeaseDue, TwinAges
  <2>2. \/ jobs' = [jobs EXCEPT ![i] = [jobs[i] EXCEPT !.due = TRUE]]
        \/ jobs' = [jobs EXCEPT ![i] = [jobs[i] EXCEPT !.aged = TRUE]]
    BY <1>7 DEF LeaseDue, TwinAges
  <2>3. jobs[i] \in JobState
    BY DEF BrokerInv, TypeOK
  <2>4. Live' = Live /\ \A k \in Live : k # i => jobs'[k] = jobs[k]
    BY <2>2 DEF Live
  <2>5. jobs'[i] = [jobs[i] EXCEPT !.due = TRUE] \/ jobs'[i] = [jobs[i] EXCEPT !.aged = TRUE]
    BY <2>2 DEF Live
  <2>6. SameJob(i) /\ jobs'[i].twin_id = jobs[i].twin_id
    BY <2>3, <2>5 DEF SameJob, JobState
  <2>7. \A k \in Live : SameJob(k) /\ jobs'[k].twin_id = jobs[k].twin_id
    BY <2>4, <2>6 DEF SameJob
  <2> QED
    BY <2>1, <2>4, <2>7 DEF OnlyRemoves, NoAnswer
<1>8. ASSUME UNCHANGED vars
      PROVE  OnlyRemoves /\ NoAnswer
  BY <1>1, <1>8 DEF vars
<1> QED
  BY <1>2, <1>3, <1>4, <1>5, <1>6, <1>7, <1>8, SweepIsCalm

LEMMA EnqueueAddsJob ==
  ASSUME BrokerInv, LinkedPairs, NEW r \in Request, FetchEnqueue(r)
  PROVE  JobsKept /\ NoAnswer /\ LinkedPairs'
<1>1. /\ next_id' = next_id + 1 /\ next_id \in Nat \ {0} /\ Live' = Live \cup {next_id}
      /\ Live \subseteq 1 .. (next_id - 1) /\ DOMAIN audits \subseteq 1 .. (next_id - 1)
      /\ UNCHANGED <<audits, answer, reg>>
  BY DEF FetchEnqueue, BrokerInv, TypeOK, Live
<1>2. /\ \A i \in Live : i # next_id /\ jobs'[i] = jobs[i]
      /\ jobs'[next_id].twin_id = 0
  <2>1. next_id \notin Live
    BY <1>1
  <2> QED
    BY <2>1 DEF FetchEnqueue, NewJob, NoId
<1>3. JobsKept
  <2>1. next_id <= next_id' /\ next_id >= next_id
    BY ONLY <1>1
  <2>2. \A i \in Live' : i \in Live \/ i = next_id
    BY ONLY <1>1
  <2> QED
    BY ONLY <1>2, <2>1, <2>2 DEF JobsKept
<1>4. NoAnswer
  BY <1>1 DEF NoAnswer
<1>5. LinkedPairs'
  <2> SUFFICES ASSUME NEW i \in Live', ~jobs'[i].is_twin, jobs'[i].twin_id \in DOMAIN audits'
               PROVE  audits'[jobs'[i].twin_id].req = jobs'[i].req
    BY DEF LinkedPairs
  <2>1. 0 \notin DOMAIN audits
    BY <1>1
  <2>2. i \in Live
    BY <1>1, <1>2, <2>1
  <2> QED
    BY <1>1, <1>2, <2>2 DEF LinkedPairs
<1> QED
  BY <1>3, <1>4, <1>5

\* The pair a primary is linked to by take_jobs is the one of its own twin.
LEMMA TakeLinks ==
  ASSUME BrokerInv, NEW n \in Node, NEW held \in Held, NEW roll \in Rolls(n, held),
         TakeJobs(n, held, roll), NEW i \in Live, jobs'[i].twin_id >= next_id
  PROVE  audits'[jobs'[i].twin_id].req = jobs[i].req
<1> DEFINE taken == {PickedId(p) : p \in Picks(n, held)}
           twins == next_id .. (next_id + Len(roll) - 1)
           mine == {k \in DOMAIN roll : PickedId(roll[k]) = i}
           last == CHOOSE k \in mine : \A l \in mine : l <= k
           tw == IF mine = {} THEN jobs[i].twin_id ELSE next_id - 1 + last
<1>1. DOMAIN roll = 1 .. Len(roll) /\ Len(roll) \in Nat /\ next_id \in Nat
  BY RollsAreSequences, LenProperties DEF BrokerInv, TypeOK
<1>2. i \notin twins /\ jobs[i] \in JobState /\ jobs[i].twin_id < next_id /\ jobs[i].twin_id \in Nat
  BY <1>1 DEF BrokerInv, TypeOK, LinksAgree, JobState
<1>3. jobs'[i] = IF i \in taken THEN Leased(n, i, roll) ELSE jobs[i]
  BY <1>2 DEF TakeJobs
<1>4. jobs'[i] # jobs[i]
  BY <1>1, <1>2
<1>5. jobs'[i] = [jobs[i] EXCEPT !.lease = n, !.due = FALSE, !.twin_id = tw]
  BY <1>3, <1>4 DEF Leased
<1>6. jobs'[i].twin_id = tw
  <2> HIDE DEF tw
  <2> QED
    BY <1>2, <1>5 DEF JobState
<1>7. mine # {}
  BY <1>1, <1>2, <1>6
<1>8. last \in mine
  <2>1. mine \in SUBSET (1 .. Len(roll))
    BY <1>1
  <2>2. \E k \in mine : \A l \in mine : l <= k
    <3> HIDE DEF mine
    <3> QED
      BY <1>1, <1>7, <2>1, FiniteSetHasLast
  <2> QED
    BY <2>2
<1>9. last \in 1 .. Len(roll) /\ PickedId(roll[last]) = i
  BY <1>1, <1>8
<1> HIDE DEF last, mine
<1>10. tw \in twins /\ tw - next_id + 1 = last
  BY <1>1, <1>7, <1>9
<1> HIDE DEF tw
<1>11. audits'[tw] = NewPair(n, PickedId(roll[tw - next_id + 1]), RolledAgain(roll, tw - next_id + 1))
  BY <1>10 DEF TakeJobs
<1>12. audits'[tw].req = jobs[i].req
  BY <1>9, <1>10, <1>11 DEF NewPair
<1> QED
  BY <1>6, <1>12

LEMMA TakeAddsTwins ==
  ASSUME BrokerInv, LinkedPairs, NEW n \in Node, NEW held \in Held, NEW roll \in Rolls(n, held),
         TakeJobs(n, held, roll)
  PROVE  JobsKept /\ NoAnswer /\ LinkedPairs'
<1> DEFINE twins == next_id .. (next_id + Len(roll) - 1)
<1>1. Len(roll) \in Nat /\ next_id \in Nat
  BY RollsAreSequences, LenProperties DEF BrokerInv, TypeOK
<1>2. /\ next_id' = next_id + Len(roll) /\ Live' = Live \cup twins
      /\ DOMAIN audits' = DOMAIN audits \cup twins
      /\ UNCHANGED <<answer, reg>>
  BY DEF TakeJobs, Live
<1>3. \A t \in DOMAIN audits : t < next_id /\ t \notin twins
  BY <1>1 DEF BrokerInv, TypeOK
<1>4. \A t \in DOMAIN audits : audits'[t] = audits[t]
  BY <1>3 DEF TakeJobs
<1>5. \A t \in twins : /\ audits'[t].primary = None /\ audits'[t].twin = None
                       /\ jobs'[t].is_twin
  <2> SUFFICES ASSUME NEW t \in twins
               PROVE  /\ audits'[t].primary = None /\ audits'[t].twin = None
                      /\ jobs'[t].is_twin
    OBVIOUS
  <2>1. PICK i \in Live : /\ jobs'[t] = NewTwin(n, i)
                          /\ audits'[t] = NewPair(n, i, RolledAgain(roll, t - next_id + 1))
    BY TakeNewTwins
  <2> QED
    BY <2>1 DEF NewTwin, NewPair
<1>6. \A i \in Live : /\ i < next_id /\ SameJob(i)
                      /\ jobs'[i].twin_id = jobs[i].twin_id \/ jobs'[i].twin_id >= next_id
  <2> SUFFICES ASSUME NEW i \in Live
               PROVE  /\ i < next_id /\ SameJob(i)
                      /\ jobs'[i].twin_id = jobs[i].twin_id \/ jobs'[i].twin_id >= next_id
    OBVIOUS
  <2>1. i < next_id
    BY <1>1 DEF BrokerInv, TypeOK
  <2>2. SameJob(i) /\ (jobs'[i].twin_id = jobs[i].twin_id \/ jobs'[i].twin_id \in twins)
    BY TakeOldJobs
  <2> QED
    BY <1>1, <2>1, <2>2
<1>7. JobsKept
  <2>1. \A t \in twins : t >= next_id
    BY <1>1
  <2> QED
    BY <1>1, <1>2, <1>6, <2>1 DEF JobsKept, SameJob
<1>8. NoAnswer
  BY <1>2, <1>4, <1>5 DEF NoAnswer
<1>9. LinkedPairs'
  <2> SUFFICES ASSUME NEW i \in Live', ~jobs'[i].is_twin, jobs'[i].twin_id \in DOMAIN audits'
               PROVE  audits'[jobs'[i].twin_id].req = jobs'[i].req
    BY DEF LinkedPairs
  <2>1. i \in Live
    BY <1>2, <1>5
  <2>2. jobs'[i].req = jobs[i].req /\ ~jobs[i].is_twin
    BY <1>6, <2>1 DEF SameJob
  <2>3. CASE jobs'[i].twin_id >= next_id
    BY <2>1, <2>2, <2>3, TakeLinks
  <2>4. CASE jobs'[i].twin_id = jobs[i].twin_id
    <3>1. jobs[i].twin_id < next_id
      BY <2>1 DEF BrokerInv, LinksAgree
    <3>2. \A t \in twins : t >= next_id
      BY <1>1
    <3>3. jobs[i].twin_id \in Nat
      BY <2>1 DEF BrokerInv, TypeOK, JobState
    <3>4. jobs[i].twin_id \in DOMAIN audits
      <4> HIDE DEF twins
      <4> QED
        BY <1>1, <1>2, <2>4, <3>1, <3>2, <3>3
    <3> QED
      BY <1>4, <2>1, <2>2, <2>4, <3>4 DEF LinkedPairs
  <2> QED
    BY <1>6, <2>1, <2>3, <2>4
<1> QED
  BY <1>7, <1>8, <1>9

\* A verdict that is not "hard" charges nobody with wrong data.
LEMMA NotCharged ==
  ASSUME TypeOK, NEW n \in Node, NEW a, NEW b, NEW v, v \in {"pass", "soft"}
  PROVE  /\ \A m \in Node : Credit(n)[m].audits_hard_fail = reg[m].audits_hard_fail
         /\ \A m \in Node : Charge(Credit(n), a, b, v)[m].audits_hard_fail = reg[m].audits_hard_fail
<1> DEFINE rg == Credit(n)
<1>1. rg \in [Node -> NodeRt]
  BY CreditType
<1>2. \A m \in Node : rg[m].audits_hard_fail = reg[m].audits_hard_fail
  <2>1. reg \in [Node -> NodeRt]
    BY DEF TypeOK
  <2>2. /\ rg[n] = [reg[n] EXCEPT !.completed = reg[n].completed + 1, !.key_bad = FALSE]
        /\ \A m \in Node : m # n => rg[m] = reg[m]
    BY <2>1 DEF Credit
  <2>3. reg[n] \in NodeRt
    BY <2>1
  <2> HIDE DEF rg
  <2>4. rg[n].audits_hard_fail = reg[n].audits_hard_fail
    BY <2>2, <2>3 DEF NodeRt
  <2> QED
    BY <2>2, <2>4
<1> HIDE DEF rg
<1>3. \A m \in Node : Charge(rg, a, b, v)[m].audits_hard_fail = rg[m].audits_hard_fail
  <2> SUFFICES ASSUME NEW m \in Node
               PROVE  Charge(rg, a, b, v)[m].audits_hard_fail = rg[m].audits_hard_fail
    OBVIOUS
  <2> DEFINE times == (IF m = a THEN 1 ELSE 0) + (IF m = b THEN 1 ELSE 0)
  <2>1. \/ Charge(rg, a, b, v)[m] = [rg[m] EXCEPT !.audits_pass = rg[m].audits_pass + times]
        \/ Charge(rg, a, b, v)[m] = [rg[m] EXCEPT !.audits_soft_fail = rg[m].audits_soft_fail + times]
    BY DEF Charge
  <2>2. rg[m] \in NodeRt
    BY <1>1
  <2> HIDE DEF times
  <2> QED
    BY <2>1, <2>2 DEF NodeRt
<1> QED
  BY <1>2, <1>3 DEF rg

\* An answer takes its job away and touches one pair, of the same request.
LEMMA AnswerTouches ==
  ASSUME BrokerInv, LinkedPairs, NEW n \in Node, NEW i \in Live, NEW a \in Answer,
         CompleteAnswer(n, i, a)
  PROVE  /\ OnlyRemoves
         /\ \/ UNCHANGED audits /\ reg' = Credit(n)
            \/ \E t \in DOMAIN audits, pair \in AuditPair :
                 /\ Settle(n, t, pair)
                 /\ audits[t].req = jobs[i].req
                 /\ pair.req = audits[t].req
                 /\ pair.primary \in {audits[t].primary, a}
                 /\ pair.twin \in {audits[t].twin, a}
<1> DEFINE t == IF jobs[i].is_twin THEN i ELSE jobs[i].twin_id
           p == audits[t]
           pair == IF jobs[i].is_twin THEN [p EXCEPT !.twin_node = n, !.twin = a]
                                      ELSE [p EXCEPT !.primary = a]
<1>1. /\ jobs' = Without(jobs, {i}) /\ next_id' = next_id
      /\ \/ t \notin DOMAIN audits /\ reg' = Credit(n) /\ UNCHANGED audits
         \/ t \in DOMAIN audits /\ Settle(n, t, pair)
  BY DEF CompleteAnswer
<1>2. \A k \in Live' : k \in Live /\ jobs'[k] = jobs[k]
  BY <1>1 DEF Without, Live
<1>3. CASE t \notin DOMAIN audits /\ reg' = Credit(n) /\ UNCHANGED audits
  BY <1>1, <1>2, <1>3 DEF OnlyRemoves, SameJob
<1>4. CASE t \in DOMAIN audits /\ Settle(n, t, pair)
  <2>1. p \in AuditPair
    BY <1>4 DEF BrokerInv, TypeOK
  <2>2. p.req = jobs[i].req
    <3>1. CASE jobs[i].is_twin
      BY <1>4, <3>1 DEF BrokerInv, OpenAuditHasItsTwin
    <3>2. CASE ~jobs[i].is_twin
      BY <1>4, <3>2 DEF LinkedPairs
    <3> QED
      BY <3>1, <3>2
  <2> HIDE DEF t
  <2>3. /\ pair \in AuditPair
        /\ pair.req = p.req
        /\ pair.primary \in {p.primary, a}
        /\ pair.twin \in {p.twin, a}
    <3> HIDE DEF p
    <3>1. CASE jobs[i].is_twin
      BY <2>1, <3>1 DEF AuditPair
    <3>2. CASE ~jobs[i].is_twin
      BY <2>1, <3>2 DEF AuditPair
    <3> QED
      BY <3>1, <3>2
  <2> HIDE DEF pair
  <2>4. \A k \in DOMAIN audits' : k \in DOMAIN audits /\ audits'[k].req = audits[k].req
    BY <1>4, <2>3 DEF Settle, Without
  <2>5. OnlyRemoves
    BY <1>1, <1>2, <2>4 DEF OnlyRemoves, SameJob
  <2> QED
    BY <1>4, <2>2, <2>3, <2>5
<1> QED
  BY <1>1, <1>3, <1>4

\* Right answers keep pairs, callers and counters right.
LEMMA AnswerIsRight ==
  ASSUME BrokerInv, LinkedPairs, NEW n \in Node, NEW i \in Live, NEW a \in Answer,
         CompleteAnswer(n, i, a), Right(a, jobs[i].req),
         PairsRight, AnswersOwnRequest, NoneCharged
  PROVE  PairsRight' /\ AnswersOwnRequest' /\ NoneCharged'
<1>1. TypeOK
  BY DEF BrokerInv
<1>2. AnswersOwnRequest'
  <2>1. \A r \in Request : answer'[r] = answer[r] \/ (answer'[r] = a /\ r = jobs[i].req)
    BY DEF CompleteAnswer, Resolve, WaitingOn
  <2> QED
    BY <2>1, BrokerAssumption DEF AnswersOwnRequest, Right
<1>3. CASE UNCHANGED audits /\ reg' = Credit(n)
  <2>1. PairsRight'
    BY <1>3 DEF PairsRight
  <2>2. NoneCharged'
    BY <1>1, <1>3, NotCharged DEF NoneCharged
  <2> QED
    BY <1>2, <2>1, <2>2
<1>4. ASSUME NEW t \in DOMAIN audits, NEW pair \in AuditPair,
             Settle(n, t, pair),
             audits[t].req = jobs[i].req,
             pair.req = audits[t].req,
             pair.primary \in {audits[t].primary, a},
             pair.twin \in {audits[t].twin, a}
      PROVE  PairsRight' /\ NoneCharged'
  <2>1. Right(pair.primary, pair.req) /\ Right(pair.twin, pair.req)
    BY <1>4 DEF PairsRight
  <2>2. CASE pair.primary # None /\ pair.twin # None
    <3>1. audits' = Without(audits, {t})
      BY <1>4, <2>2 DEF Settle
    <3>2. PairsRight'
      BY <3>1 DEF PairsRight, Without
    <3>3. pair.primary \in Answer /\ pair.twin \in Answer
      BY <2>2 DEF AuditPair
    <3>4. Verdict(pair) \in {"pass", "soft"}
      BY <2>1, <3>3 DEF Verdict, Right
    <3>5. reg' = Charge(Credit(n), pair.primary_node, pair.twin_node, Verdict(pair))
      BY <1>4, <2>2 DEF Settle
    <3> DEFINE v == Verdict(pair)
    <3> HIDE DEF v
    <3>6. \A m \in Node : reg'[m].audits_hard_fail = reg[m].audits_hard_fail
      BY <1>1, <3>4, <3>5, NotCharged DEF v
    <3> QED
      BY <3>2, <3>6 DEF NoneCharged
  <2>3. CASE ~(pair.primary # None /\ pair.twin # None)
    <3>1. audits' = [audits EXCEPT ![t] = pair] /\ reg' = Credit(n)
      BY <1>4, <2>3 DEF Settle
    <3>2. PairsRight'
      BY <2>1, <3>1 DEF PairsRight
    <3>3. NoneCharged'
      BY <1>1, <3>1, NotCharged DEF NoneCharged
    <3> QED
      BY <3>2, <3>3
  <2> QED
    BY <2>2, <2>3
<1> QED
  BY <1>2, <1>3, <1>4, AnswerTouches

\* Steps that record no answer keep them right anyway.
LEMMA NoAnswerIsRight ==
  ASSUME NoAnswer, PairsRight, AnswersOwnRequest, NoneCharged
  PROVE  PairsRight' /\ AnswersOwnRequest' /\ NoneCharged'
<1>1. None \notin Answer /\ Err \notin Answer
  BY BrokerAssumption
<1>2. PairsRight'
  <2> SUFFICES ASSUME NEW t \in DOMAIN audits'
               PROVE  Right(audits'[t].primary, audits'[t].req) /\ Right(audits'[t].twin, audits'[t].req)
    BY DEF PairsRight, Right
  <2>1. CASE t \in DOMAIN audits /\ audits'[t] = audits[t]
    BY <2>1 DEF PairsRight
  <2>2. CASE audits'[t].primary = None /\ audits'[t].twin = None
    BY <1>1, <2>2 DEF Right
  <2> QED
    BY <2>1, <2>2 DEF NoAnswer
<1>3. AnswersOwnRequest'
  BY <1>1, BrokerAssumption DEF NoAnswer, AnswersOwnRequest
<1>4. NoneCharged'
  BY DEF NoAnswer, NoneCharged
<1> QED
  BY <1>2, <1>3, <1>4

-----------------------------------------------------------------------------
(* The broker inside the fleet *)

\* Whatever step the broker takes, jobs keep their requests and links.
LEMMA BrokerStep ==
  ASSUME BrokerInv, LinkedPairs, [Next]_vars
  PROVE  BrokerInv' /\ LinkedPairs' /\ JobsKept
<1>1. BrokerInv'
  BY NextInv
<1>2. CASE /\ ~ \E r \in Request : FetchEnqueue(r)
           /\ ~ \E n \in Node, held \in Held : \E roll \in Rolls(n, held) : TakeJobs(n, held, roll)
           /\ ~ \E n \in Node, i \in Live, a \in Answer : CompleteAnswer(n, i, a)
  <2>1. OnlyRemoves
    BY <1>2, CalmSteps DEF Next
  <2> QED
    BY <1>1, <2>1, RemovalIsHarmless
<1>3. ASSUME NEW n \in Node, NEW i \in Live, NEW a \in Answer, CompleteAnswer(n, i, a)
      PROVE  LinkedPairs' /\ JobsKept
  BY <1>3, AnswerTouches, RemovalIsHarmless
<1> QED
  BY <1>1, <1>2, <1>3, EnqueueAddsJob, TakeAddsTwins

\* POST /v1/result is a step of the broker.
LEMMA ReceiveIsStep ==
  ASSUME NEW n \in Node, NEW res, Receive(n, res)
  PROVE  [Next]_vars
BY DEF Receive, Accepts, Next, CompleteAnswer, CompleteKeyRejected, CompleteFailed

\* Every step but a restart is one of the broker or leaves it alone.
LEMMA FleetSteps ==
  ASSUME NodesTyped, FleetNext, ~Restart
  PROVE  [Next]_vars /\ restarts' = restarts
<1>1. ASSUME NEW n \in Node, PollSend(n) \/ PollCheck(n) \/ NewKey(n) \/ UploadGivesUp(n) \/ NodeDies(n)
      PROVE  [Next]_vars /\ restarts' = restarts
  BY <1>1 DEF PollSend, PollCheck, NewKey, UploadGivesUp, NodeDies, boundVars
<1>2. ASSUME NEW n \in Node, PollServe(n)
      PROVE  [Next]_vars /\ restarts' = restarts
  <2>1. PICK roll \in Rolls(n, polling[n].pending) : PollTake(n, roll)
    BY <1>2 DEF PollServe
  <2>2. polling[n] \in Poll
    BY <1>2 DEF PollServe, NodesTyped
  <2>3. polling[n].pending \in Held
    BY <2>2 DEF Poll
  <2>4. TakeJobs(n, polling[n].pending, roll) /\ restarts' = restarts
    BY <2>1 DEF PollTake
  <2> QED
    BY <2>3, <2>4 DEF Next
<1>3. ASSUME NEW t, NEW o, Execute(t, o)
      PROVE  [Next]_vars /\ restarts' = restarts
  BY <1>3 DEF Execute
<1>4. ASSUME NEW n \in Node, Upload(n) \/ UploadUnacked(n)
      PROVE  [Next]_vars /\ restarts' = restarts
  BY <1>4, ReceiveIsStep DEF Upload, UploadUnacked, boundVars
<1>5. ASSUME NEW r \in Request, FetchEnter(r) \/ FetchEnqueue(r), UNCHANGED fleetVars
      PROVE  [Next]_vars /\ restarts' = restarts
  BY <1>5 DEF Next, fleetVars, boundVars
<1>6. ASSUME SweepStep \/ ShutdownStep
      PROVE  [Next]_vars /\ restarts' = restarts
  BY <1>6 DEF SweepStep, ShutdownStep, Next, fleetVars, boundVars
<1>7. ASSUME NEW i \in Live, LeaseDue(i) \/ TwinAges(i), UNCHANGED fleetVars
      PROVE  [Next]_vars /\ restarts' = restarts
  BY <1>7 DEF Next, fleetVars, boundVars
<1>8. ASSUME Stop \/ SweeperStops
      PROVE  [Next]_vars /\ restarts' = restarts
  BY <1>8 DEF Stop, SweeperStops, boundVars
<1> QED
  BY <1>1, <1>2, <1>3, <1>4, <1>5, <1>6, <1>7, <1>8 DEF FleetNext

\* A new server process: no jobs, no pairs, and nobody waits.
LEMMA RestartKeeps ==
  ASSUME BrokerInv, Restart
  PROVE  BrokerInv' /\ LinkedPairs'
<1>1. /\ Live' = {} /\ DOMAIN audits' = {} /\ next_id' = 1
      /\ queues' = [h \in Host |-> <<>>]
      /\ call' = [r \in Request |-> IF call[r] = "idle" THEN "idle" ELSE "done"]
      /\ answer' = answer /\ reg' = [n \in Node |-> NewNode]
      /\ shutdown' = FALSE /\ drained' = FALSE
  BY DEF Restart, Live
<1>2. queues' \in [Host -> Seq(Entry)]
  BY <1>1
<1>3. reg' \in [Node -> NodeRt]
  BY <1>1 DEF NewNode, NodeRt
<1>4. answer' \in [Request -> Answer \cup {Err, None}]
  BY <1>1 DEF BrokerInv, TypeOK
<1>5. call' \in [Request -> {"idle", "entered", "waiting", "done"}]
  BY <1>1
<1>6. TypeOK'
  <2>1. Live' \subseteq 1 .. (next_id' - 1) /\ DOMAIN audits' \subseteq 1 .. (next_id' - 1)
    BY ONLY <1>1
  <2>2. next_id' \in Nat \ {0} /\ shutdown' \in BOOLEAN /\ drained' \in BOOLEAN
    <3>1. next_id' = 1 /\ shutdown' = FALSE /\ drained' = FALSE
      BY <1>1
    <3>2. next_id' \in Nat \ {0}
      BY ONLY <3>1
    <3>3. shutdown' \in BOOLEAN /\ drained' \in BOOLEAN
      BY ONLY <3>1, Zenon
    <3> QED
      BY <3>2, <3>3
  <2>3. (\A i \in Live' : jobs'[i] \in JobState) /\ \A t \in DOMAIN audits' : audits'[t] \in AuditPair
    BY <1>1
  <2> QED
    BY <2>1, <2>2, <2>3, <1>2, <1>3, <1>4, <1>5 DEF TypeOK
<1>7. \A r \in Request : call'[r] # "waiting"
  BY <1>1
<1>8. EveryWaiterHasItsJob'
  BY <1>1, <1>7 DEF EveryWaiterHasItsJob
<1>9. EntriesAgree'
  BY <1>1 DEF EntriesAgree
<1> QED
  BY <1>1, <1>6, <1>8, <1>9
  DEF BrokerInv, UnleasedJobIsQueued, LinksAgree, TwinNotOnExcludedNode, OpenAuditHasItsTwin,
      OpenAuditHasItsPrimary, LinkedPairs

-----------------------------------------------------------------------------
(* What keeps each conjunct of the nodes *)

\* A step in which nodes only finish jobs, and polls stay or end.
LEMMA RoomKept ==
  ASSUME NodesTyped, Room, IsABag(running'),
         \A t \in DOMAIN running' : t \in DOMAIN running /\ running'[t] <= running[t],
         \A n \in Node : polling'[n] # None =>
           polling[n] # None /\ polling'[n].pending = polling[n].pending
  PROVE  Room'
<1> SUFFICES ASSUME NEW n \in Node, NEW h \in Host
             PROVE  /\ IsFiniteSet(Copies(running', n, h))
                    /\ Cardinality(Copies(running', n, h)) <= TARGET_INFLIGHT_PER_HOST
                    /\ polling'[n] # None =>
                         Cardinality(Copies(running', n, h)) <= polling'[n].pending[h]
  BY DEF Room, Inflight
<1>1. IsABag(running) /\ polling \in [Node -> Poll \cup {None}]
  BY DEF NodesTyped
<1>2. /\ IsFiniteSet(Copies(running, n, h))
      /\ Cardinality(Copies(running, n, h)) <= TARGET_INFLIGHT_PER_HOST
      /\ polling[n] # None => Cardinality(Copies(running, n, h)) <= polling[n].pending[h]
  BY DEF Room, Inflight
<1>3. /\ IsFiniteSet(Copies(running', n, h))
      /\ Cardinality(Copies(running', n, h)) <= Cardinality(Copies(running, n, h))
  BY <1>1, <1>2, FewerCopies
<1> DEFINE new == Cardinality(Copies(running', n, h))
           old == Cardinality(Copies(running, n, h))
<1>4. new \in Nat /\ old \in Nat
  BY <1>2, <1>3, FS_CardinalityType
<1>5. polling[n] # None => polling[n].pending[h] \in Nat
  BY <1>1 DEF Poll, Held
<1> DEFINE said == polling[n].pending[h]
<1> HIDE DEF new, old, said
<1>6. new <= TARGET_INFLIGHT_PER_HOST /\ (polling[n] # None => new <= said)
  BY <1>2, <1>3, <1>4, <1>5, BrokerAssumption DEF new, old, said
<1> QED
  BY <1>3, <1>6 DEF new, said

\* Jobs keep their requests: what nodes run and report stays right.
LEMMA TasksStay ==
  ASSUME BrokerInv, BrokerInv', NodesTyped, JobsKept, TasksKnown, NEW t \in DOMAIN running
  PROVE  t.id < next_id' /\ (t.id \in Live' => jobs'[t.id].req = t.req)
<1>1. t.id < next_id /\ (t.id \in Live => jobs[t.id].req = t.req)
  BY DEF TasksKnown, BagToSet
<1>2. t.id \in Nat /\ next_id \in Nat /\ next_id' \in Nat
  <2>1. t \in Task
    BY DEF NodesTyped, BagToSet
  <2>2. next_id \in Nat /\ next_id' \in Nat
    BY DEF BrokerInv, TypeOK
  <2> QED
    BY <2>1, <2>2 DEF Task
<1> QED
  BY <1>1, <1>2 DEF JobsKept

LEMMA ReportsStay ==
  ASSUME BrokerInv, BrokerInv', NodesTyped, JobsKept, ReportsRight, NEW n \in Node,
         NEW u, \E k \in DOMAIN uploads[n] : u = uploads[n][k]
  PROVE  u.id < next_id' /\ (u.id \in Live' => Right(u.outcome, jobs'[u.id].req))
<1>1. PICK k \in DOMAIN uploads[n] : u = uploads[n][k]
  OBVIOUS
<1>2. u.id < next_id /\ (u.id \in Live => Right(u.outcome, jobs[u.id].req))
  BY <1>1 DEF ReportsRight
<1>3. u.id \in Nat
  <2>1. uploads[n] \in Seq(Report)
    BY DEF NodesTyped
  <2>2. u \in Report
    BY <1>1, <2>1, LenProperties, ElementOfSeq
  <2> QED
    BY <2>2 DEF Report
<1>4. next_id \in Nat /\ next_id' \in Nat
  BY DEF BrokerInv, TypeOK
<1> QED
  BY <1>2, <1>3, <1>4 DEF JobsKept

\* Nodes that only finish or drop what they have keep it right.
LEMMA HonestKept ==
  ASSUME BrokerInv, BrokerInv', NodesTyped, JobsKept, Honest,
         PairsRight', AnswersOwnRequest', NoneCharged',
         \A t \in DOMAIN running' : t \in DOMAIN running,
         \A n \in Node : \A k \in DOMAIN uploads'[n] :
           \E j \in DOMAIN uploads[n] : uploads'[n][k] = uploads[n][j]
  PROVE  Honest'
<1>1. TasksKnown'
  BY TasksStay DEF TasksKnown, BagToSet, Honest
<1>2. ReportsRight'
  <2> SUFFICES ASSUME NEW n \in Node, NEW k \in DOMAIN uploads'[n]
               PROVE  /\ uploads'[n][k].id < next_id'
                      /\ uploads'[n][k].id \in Live' =>
                           Right(uploads'[n][k].outcome, jobs'[uploads'[n][k].id].req)
    BY DEF ReportsRight, Right
  <2> DEFINE u == uploads'[n][k]
  <2>1. \E j \in DOMAIN uploads[n] : u = uploads[n][j]
    OBVIOUS
  <2> HIDE DEF u
  <2>2. u.id < next_id' /\ (u.id \in Live' => Right(u.outcome, jobs'[u.id].req))
    BY <2>1, ReportsStay DEF Honest
  <2> QED
    BY <2>2 DEF u
<1> QED
  BY <1>1, <1>2 DEF Honest

\* A step that leaves nodes alone.
LEMMA NodesAlone ==
  ASSUME FleetInv, BrokerInv', JobsKept, NoAnswer, UNCHANGED <<nodeVars, restarts>>,
         stop' \in BOOLEAN, sweeping' \in BOOLEAN
  PROVE  NodesTyped' /\ Room' /\ (Liars = {} /\ restarts = 0 => Honest')
<1>1. NodesTyped'
  BY DEF FleetInv, NodesTyped, nodeVars
<1>2. Room'
  BY DEF FleetInv, Room, Inflight, nodeVars
<1>3. ASSUME Liars = {}, restarts = 0
      PROVE  Honest'
  <2>1. Honest
    BY <1>3 DEF FleetInv
  <2>2. PairsRight' /\ AnswersOwnRequest' /\ NoneCharged'
    BY <2>1, NoAnswerIsRight DEF Honest
  <2>3. UNCHANGED <<running, uploads>>
    BY DEF nodeVars
  <2> QED
    BY <2>1, <2>2, <2>3, HonestKept DEF FleetInv
<1> QED
  BY <1>1, <1>2, <1>3

-----------------------------------------------------------------------------
(* One lemma for each step of a node *)

\* Steps of a node the broker does not see.
LEMMA BrokerAlone ==
  ASSUME FleetInv, UNCHANGED vars
  PROVE  BrokerInv' /\ JobsKept /\ NoAnswer
BY BrokerStep, CalmSteps DEF FleetInv

LEMMA BagOfRunning ==
  ASSUME NodesTyped, NEW t \in DOMAIN running
  PROVE  running[t] \in Nat \ {0} /\ t \in Task
BY DEF NodesTyped, IsABag, BagToSet

LEMMA PollSendKeeps ==
  ASSUME FleetInv, NEW n \in Node, PollSend(n)
  PROVE  NodesTyped' /\ Room' /\ (Liars = {} /\ restarts = 0 => Honest')
<1> DEFINE said == [h \in Host |-> Inflight(n, h)]
           poll == [pending |-> said, checked |-> FALSE]
<1>1. /\ polling' = [polling EXCEPT ![n] = poll]
      /\ UNCHANGED <<vars, running, uploads, paused, stop, sweeping, restarts>>
  BY DEF PollSend, procVars, boundVars
<1>2. said \in Held
  <2>1. \A h \in Host : Inflight(n, h) \in 0 .. TARGET_INFLIGHT_PER_HOST
    <3> SUFFICES ASSUME NEW h \in Host
                 PROVE  Inflight(n, h) \in 0 .. TARGET_INFLIGHT_PER_HOST
      OBVIOUS
    <3>1. Inflight(n, h) \in Nat /\ Inflight(n, h) <= TARGET_INFLIGHT_PER_HOST
      BY FS_CardinalityType DEF FleetInv, Room, Inflight
    <3> QED
      BY <3>1, BrokerAssumption
  <2> QED
    BY <2>1 DEF Held
<1>3. poll \in Poll /\ poll.pending = said
  BY <1>2 DEF Poll
<1>4. polling \in [Node -> Poll \cup {None}]
  BY DEF FleetInv, NodesTyped
<1>5. NodesTyped'
  <2>1. polling' \in [Node -> Poll \cup {None}]
    <3> HIDE DEF poll
    <3> QED
      BY <1>1, <1>3, <1>4
  <2> QED
    BY <1>1, <2>1 DEF FleetInv, NodesTyped
<1>6. Room'
  <2> SUFFICES ASSUME NEW m \in Node, NEW h \in Host
               PROVE  /\ IsFiniteSet(Copies(running, m, h))
                      /\ Inflight(m, h) <= TARGET_INFLIGHT_PER_HOST
                      /\ polling'[m] # None => Inflight(m, h) <= polling'[m].pending[h]
    BY <1>1 DEF Room, Inflight
  <2>1. /\ IsFiniteSet(Copies(running, m, h))
        /\ Inflight(m, h) <= TARGET_INFLIGHT_PER_HOST
        /\ polling[m] # None => Inflight(m, h) <= polling[m].pending[h]
        /\ Inflight(m, h) \in Nat
    BY FS_CardinalityType DEF FleetInv, Room, Inflight
  <2>2. CASE m = n
    <3>1. polling'[m].pending[h] = Inflight(m, h)
      BY <1>1, <1>4, <2>2
    <3> QED
      BY <2>1, <3>1
  <2>3. CASE m # n
    BY <1>1, <1>4, <2>1, <2>3
  <2> QED
    BY <2>2, <2>3
<1>7. ASSUME Liars = {}, restarts = 0
      PROVE  Honest'
  <2>1. Honest
    BY <1>7 DEF FleetInv
  <2>2. PairsRight' /\ AnswersOwnRequest' /\ NoneCharged' /\ BrokerInv' /\ JobsKept
    BY <1>1, <2>1, BrokerAlone, NoAnswerIsRight DEF Honest
  <2> QED
    BY <1>1, <2>1, <2>2, HonestKept DEF FleetInv
<1> QED
  BY <1>5, <1>6, <1>7

\* Polls that end or go on, and whatever leaves jobs and results alone.
LEMMA PollsKeep ==
  ASSUME FleetInv, BrokerInv', JobsKept, NoAnswer,
         polling' \in [Node -> Poll \cup {None}],
         \A n \in Node : polling'[n] # None =>
           polling[n] # None /\ polling'[n].pending = polling[n].pending,
         paused' \subseteq Node,
         UNCHANGED <<running, uploads, stop, sweeping, restarts>>
  PROVE  NodesTyped' /\ Room' /\ (Liars = {} /\ restarts = 0 => Honest')
<1>1. NodesTyped'
  BY DEF FleetInv, NodesTyped
<1>2. Room'
  <2>1. \A t \in DOMAIN running : running[t] <= running[t]
    BY BagOfRunning DEF FleetInv
  <2>2. IsABag(running')
    BY <1>1 DEF NodesTyped
  <2> QED
    BY <2>1, <2>2, RoomKept DEF FleetInv
<1>3. ASSUME Liars = {}, restarts = 0
      PROVE  Honest'
  <2>1. Honest
    BY <1>3 DEF FleetInv
  <2>2. PairsRight' /\ AnswersOwnRequest' /\ NoneCharged'
    BY <2>1, NoAnswerIsRight DEF Honest
  <2> QED
    BY <2>1, <2>2, HonestKept DEF FleetInv
<1> QED
  BY <1>1, <1>2, <1>3

LEMMA PollCheckKeeps ==
  ASSUME FleetInv, NEW n \in Node, PollCheck(n)
  PROVE  NodesTyped' /\ Room' /\ (Liars = {} /\ restarts = 0 => Honest')
<1> DEFINE again == [polling[n] EXCEPT !.checked = TRUE]
<1>1. /\ polling[n] # None
      /\ polling' = [polling EXCEPT ![n] = None] \/ polling' = [polling EXCEPT ![n] = again]
      /\ UNCHANGED <<vars, running, uploads, paused, stop, sweeping, restarts>>
  BY DEF PollCheck, procVars, boundVars
<1>2. polling \in [Node -> Poll \cup {None}] /\ paused \subseteq Node
  BY DEF FleetInv, NodesTyped
<1>3. again \in Poll /\ again.pending = polling[n].pending
  BY <1>1, <1>2 DEF Poll
<1> HIDE DEF again
<1>4. /\ polling' \in [Node -> Poll \cup {None}]
      /\ \A m \in Node : polling'[m] # None =>
           polling[m] # None /\ polling'[m].pending = polling[m].pending
  BY <1>1, <1>2, <1>3
<1> QED
  BY <1>1, <1>2, <1>4, BrokerAlone, PollsKeep

LEMMA NewKeyKeeps ==
  ASSUME FleetInv, NEW n \in Node, NewKey(n)
  PROVE  NodesTyped' /\ Room' /\ (Liars = {} /\ restarts = 0 => Honest')
<1>1. /\ paused' = paused \ {n}
      /\ UNCHANGED <<vars, polling, running, uploads, stop, sweeping, restarts>>
  BY DEF NewKey, procVars, boundVars
<1>2. polling \in [Node -> Poll \cup {None}] /\ paused \subseteq Node
  BY DEF FleetInv, NodesTyped
<1> QED
  BY <1>1, <1>2, BrokerAlone, PollsKeep

\* take_jobs: the reply adds to what the node runs no more than the poll left room
\* for, because the node was running no more than the poll said.
LEMMA PollServeKeeps ==
  ASSUME FleetInv, BrokerInv', NEW n \in Node, PollServe(n)
  PROVE  NodesTyped' /\ Room' /\ (Liars = {} /\ restarts = 0 => Honest')
<1> DEFINE held == polling[n].pending
           H == Handed(n, held)
           again == [polling[n] EXCEPT !.checked = FALSE]
<1>1. PICK roll \in Rolls(n, held) : PollTake(n, roll)
  BY DEF PollServe
<1>2. BrokerInv /\ LinkedPairs /\ NodesTyped /\ Room
  BY DEF FleetInv
<1>3. polling \in [Node -> Poll \cup {None}] /\ polling[n] \in Poll /\ paused \subseteq Node
  BY <1>2 DEF PollServe, NodesTyped
<1>4. held \in Held
  BY <1>3 DEF Poll
<1>5. /\ TakeJobs(n, held, roll)
      /\ \/ polling' = [polling EXCEPT ![n] = None] /\ running' = running (+) H
         \/ polling' = [polling EXCEPT ![n] = None] /\ UNCHANGED running
         \/ polling' = [polling EXCEPT ![n] = again] /\ UNCHANGED running
      /\ UNCHANGED <<uploads, paused, stop, sweeping, restarts>>
  BY <1>1 DEF PollTake, procVars
<1>6. JobsKept /\ NoAnswer
  BY <1>2, <1>4, <1>5, TakeAddsTwins
<1>7. again \in Poll /\ again.pending = polling[n].pending
  BY <1>3 DEF Poll
<1> HIDE DEF again, H, held
<1>8. CASE UNCHANGED running
  <2>1. /\ polling' \in [Node -> Poll \cup {None}]
        /\ \A m \in Node : polling'[m] # None =>
             polling[m] # None /\ polling'[m].pending = polling[m].pending
    <3>1. polling[n] # None
      BY DEF PollServe
    <3>2. polling' = [polling EXCEPT ![n] = None] \/ polling' = [polling EXCEPT ![n] = again]
      BY <1>5
    <3> QED
      BY <1>3, <1>7, <3>1, <3>2
  <2> QED
    BY <1>3, <1>5, <1>6, <1>8, <2>1, PollsKeep
<1>9. CASE polling' = [polling EXCEPT ![n] = None] /\ running' = running (+) H
  <2>1. IsABag(running) /\ BagToSet(running) \subseteq Task
    BY <1>2 DEF NodesTyped
  <2>2. /\ IsABag(H)
        /\ \A t \in DOMAIN H : /\ t.id \in Live /\ t.node = n /\ t \in Task
                               /\ t.req = jobs[t.id].req
    <3>1. /\ IsABag(H)
          /\ \A t \in DOMAIN H : /\ t.id \in Live /\ t \in Task
                                 /\ t = [node |-> n, id |-> t.id, req |-> jobs[t.id].req]
      BY <1>2, <1>4, HandedJobs DEF H
    <3>2. ASSUME NEW t \in DOMAIN H
          PROVE  t.node = n /\ t.req = jobs[t.id].req
      <4> DEFINE i == t.id
      <4>1. t = [node |-> n, id |-> i, req |-> jobs[i].req]
        BY <3>1
      <4> HIDE DEF i
      <4>2. t.node = n /\ t.req = jobs[i].req
        BY <4>1
      <4> QED
        BY <4>2 DEF i
    <3> QED
      BY <3>1, <3>2
  <2>3. DOMAIN running' = DOMAIN running \cup DOMAIN H
    BY <1>9 DEF (+)
  <2>4. IsABag(running')
    BY <1>9, <2>1, <2>2 DEF IsABag, (+)
  <2>5. NodesTyped'
    <3>1. polling' \in [Node -> Poll \cup {None}]
      BY <1>3, <1>9
    <3>2. BagToSet(running') \subseteq Task
      BY <2>1, <2>2, <2>3 DEF BagToSet
    <3> QED
      BY <1>2, <1>5, <2>4, <3>1, <3>2 DEF NodesTyped
  <2>6. Room'
    <3> SUFFICES ASSUME NEW m \in Node, NEW h \in Host
                 PROVE  /\ IsFiniteSet(Copies(running', m, h))
                        /\ Cardinality(Copies(running', m, h)) <= TARGET_INFLIGHT_PER_HOST
                        /\ polling'[m] # None =>
                             Cardinality(Copies(running', m, h)) <= polling'[m].pending[h]
      BY DEF Room, Inflight
    <3>1. /\ IsFiniteSet(Copies(running, m, h))
          /\ Cardinality(Copies(running, m, h)) <= TARGET_INFLIGHT_PER_HOST
          /\ polling[m] # None => Cardinality(Copies(running, m, h)) <= polling[m].pending[h]
      BY <1>2 DEF Room, Inflight
    <3>2. CASE m # n
      <4>1. \A t \in DOMAIN running' : t.node = m => t \in DOMAIN running /\ running'[t] = running[t]
        <5> SUFFICES ASSUME NEW t \in DOMAIN running', t.node = m
                     PROVE  t \in DOMAIN running /\ running'[t] = running[t]
          OBVIOUS
        <5>1. t \notin DOMAIN H
          BY <2>2, <3>2
        <5>2. t \in DOMAIN running /\ running[t] \in Nat
          BY <2>1, <2>3, <5>1 DEF IsABag
        <5> QED
          BY <1>9, <5>1, <5>2 DEF (+)
      <4>2. Copies(running', m, h) = Copies(running, m, h)
        <5>1. \A t \in DOMAIN running : t.node = m => t \in DOMAIN running' /\ running'[t] = running[t]
          BY <2>3, <4>1
        <5> QED
          BY <4>1, <5>1 DEF Copies, BagToSet
      <4>3. polling'[m] = polling[m]
        BY <1>3, <1>9, <3>2
      <4> QED
        BY <3>1, <4>2, <4>3
    <3>3. CASE m = n
      <4> DEFINE new == Cardinality(Copies(running', n, h))
                 old == Cardinality(Copies(running, n, h))
                 more == Cardinality(Copies(H, n, h))
                 cap == Cap(held, h)
      <4>1. IsFiniteSet(Copies(H, n, h)) /\ more <= cap
        BY <1>2, <1>4, HandedWithinCap DEF H
      <4>2. cap \in Nat /\ held[h] \in Nat /\ held[h] + cap = TARGET_INFLIGHT_PER_HOST
        BY <1>2, <1>4, PickedWithinCap DEF BrokerInv
      <4>3. IsFiniteSet(Copies(running', n, h)) /\ new <= old + more
        BY <1>9, <2>1, <2>2, <3>1, <3>3, <4>1, CopiesAddUp
      <4>4. old <= held[h]
        BY <3>1, <3>3 DEF PollServe, held
      <4>5. new \in Nat /\ old \in Nat /\ more \in Nat
        BY <3>1, <3>3, <4>1, <4>3, FS_CardinalityType
      <4> HIDE DEF new, old, more, cap
      <4>6. new <= TARGET_INFLIGHT_PER_HOST
        BY <4>1, <4>2, <4>3, <4>4, <4>5, BrokerAssumption
      <4>7. polling'[n] = None
        BY <1>3, <1>9
      <4> QED
        BY <3>3, <4>3, <4>6, <4>7 DEF new
    <3> QED
      BY <3>2, <3>3
  <2>7. ASSUME Liars = {}, restarts = 0
        PROVE  Honest'
    <3>1. Honest
      BY <2>7 DEF FleetInv
    <3>2. PairsRight' /\ AnswersOwnRequest' /\ NoneCharged'
      BY <1>6, <3>1, NoAnswerIsRight DEF Honest
    <3>3. TasksKnown'
      <4> SUFFICES ASSUME NEW t \in DOMAIN running'
                   PROVE  t.id < next_id' /\ (t.id \in Live' => jobs'[t.id].req = t.req)
        BY DEF TasksKnown, BagToSet
      <4>1. CASE t \in DOMAIN running
        BY <1>2, <1>6, <3>1, <4>1, TasksStay DEF Honest
      <4>2. CASE t \in DOMAIN H
        <5>1. t.id \in Live /\ t.req = jobs[t.id].req
          BY <2>2, <4>2
        <5>2. /\ t.id \in 1 .. (next_id - 1) /\ next_id \in Nat /\ next_id' \in Nat
          BY <1>2, <5>1 DEF BrokerInv, TypeOK
        <5> QED
          BY <1>6, <5>1, <5>2 DEF JobsKept
      <4> QED
        BY <2>3, <4>1, <4>2
    <3>4. ReportsRight'
      <4> SUFFICES ASSUME NEW m \in Node, NEW k \in DOMAIN uploads[m]
                   PROVE  /\ uploads[m][k].id < next_id'
                          /\ uploads[m][k].id \in Live' =>
                               Right(uploads[m][k].outcome, jobs'[uploads[m][k].id].req)
        BY <1>5 DEF ReportsRight, Right
      <4> QED
        BY <1>2, <1>6, <3>1, ReportsStay DEF Honest
    <3> QED
      BY <3>2, <3>3, <3>4 DEF Honest
  <2> QED
    BY <2>5, <2>6, <2>7
<1> QED
  BY <1>5, <1>8, <1>9

\* A job ends: one copy less runs, and its result, no wrong answer to the request
\* the job is about, waits to be uploaded.
LEMMA ExecuteKeeps ==
  ASSUME FleetInv, NEW t \in BagToSet(running), NEW o \in Outcome, Execute(t, o)
  PROVE  NodesTyped' /\ Room' /\ (Liars = {} /\ restarts = 0 => Honest')
<1> DEFINE n == t.node
           res == [id |-> t.id, outcome |-> o]
<1>1. /\ t \in DOMAIN running
      /\ running' = running (-) SetToBag({t})
      /\ uploads' = [uploads EXCEPT ![n] = Append(uploads[n], res)]
      /\ \/ o \in MayAnswer(n, t.req) \cup {"Failed"} /\ UNCHANGED paused
         \/ o = "KeyRejected" /\ paused' = paused \cup {n}
      /\ UNCHANGED <<vars, polling, stop, sweeping, restarts>>
  BY DEF Execute, procVars, BagToSet
<1>2. BrokerInv /\ NodesTyped /\ Room
  BY DEF FleetInv
<1>3. t \in Task /\ n \in Node /\ t.id \in Nat \ {0} /\ t.req \in Request
  BY <1>1, <1>2, BagOfRunning DEF Task
<1>4. res \in Report
  BY <1>3 DEF Report
<1>5. uploads \in [Node -> Seq(Report)] /\ paused \subseteq Node /\ polling \in [Node -> Poll \cup {None}]
  BY <1>2 DEF NodesTyped
<1>6. /\ IsABag(running')
      /\ \A u \in DOMAIN running' : u \in DOMAIN running /\ running'[u] <= running[u]
  <2> DEFINE B == [e \in DOMAIN running |-> IF e = t THEN running[e] - 1 ELSE running[e]]
  <2>1. running' = [e \in {d \in DOMAIN B : B[d] > 0} |-> B[e]]
    BY <1>1 DEF (-), SetToBag
  <2>2. \A e \in DOMAIN running : B[e] \in Nat /\ B[e] <= running[e]
    BY <1>2, BagOfRunning
  <2>3. DOMAIN B = DOMAIN running
    OBVIOUS
  <2> HIDE DEF B
  <2>4. DOMAIN running' = {d \in DOMAIN B : B[d] > 0} /\ \A e \in DOMAIN running' : running'[e] = B[e]
    BY <2>1
  <2>5. running' \in [DOMAIN running' -> {k \in Nat : k > 0}]
    BY <2>1, <2>2, <2>3
  <2> QED
    BY <2>2, <2>3, <2>4, <2>5 DEF IsABag
<1> HIDE DEF res
<1>7. NodesTyped'
  <2>1. uploads' \in [Node -> Seq(Report)]
    BY <1>1, <1>3, <1>4, <1>5
  <2>2. BagToSet(running') \subseteq Task
    BY <1>2, <1>6, BagOfRunning DEF BagToSet
  <2>3. paused' \subseteq Node
    BY <1>1, <1>3, <1>5
  <2> QED
    BY <1>1, <1>2, <1>6, <2>1, <2>2, <2>3 DEF NodesTyped
<1>8. Room'
  BY <1>1, <1>2, <1>6, RoomKept
<1>9. ASSUME Liars = {}, restarts = 0
      PROVE  Honest'
  <2>1. Honest
    BY <1>9 DEF FleetInv
  <2>2. BrokerInv' /\ JobsKept /\ NoAnswer
    BY <1>1, BrokerAlone
  <2>3. PairsRight' /\ AnswersOwnRequest' /\ NoneCharged'
    BY <2>1, <2>2, NoAnswerIsRight DEF Honest
  <2>4. TasksKnown'
    BY <1>2, <1>6, <2>1, <2>2, TasksStay DEF TasksKnown, BagToSet, Honest
  <2>5. Right(o, t.req)
    <3>1. "Failed" \notin Answer /\ "KeyRejected" \notin Answer
      BY FleetAssumption
    <3>2. n \notin Liars
      BY <1>9
    <3> QED
      BY <1>1, <3>1, <3>2 DEF Right, MayAnswer
  <2>6. res.id < next_id' /\ (res.id \in Live' => Right(res.outcome, jobs'[res.id].req))
    <3>1. res.id = t.id /\ res.outcome = o
      BY DEF res
    <3>2. t.id < next_id' /\ (t.id \in Live' => jobs'[t.id].req = t.req)
      BY <1>1, <1>2, <2>1, <2>2, TasksStay DEF Honest
    <3> QED
      BY <2>5, <3>1, <3>2
  <2>7. ReportsRight'
    <3> SUFFICES ASSUME NEW m \in Node, NEW k \in DOMAIN uploads'[m]
                 PROVE  /\ uploads'[m][k].id < next_id'
                        /\ uploads'[m][k].id \in Live' =>
                             Right(uploads'[m][k].outcome, jobs'[uploads'[m][k].id].req)
      BY DEF ReportsRight, Right
    <3> DEFINE u == uploads'[m][k]
    <3>1. u = res \/ \E j \in DOMAIN uploads[m] : u = uploads[m][j]
      <4>1. CASE m # n
        BY <1>1, <1>3, <1>5, <4>1
      <4>2. CASE m = n
        <5>1. uploads[n] \in Seq(Report) /\ uploads'[n] = Append(uploads[n], res)
          BY <1>1, <1>3, <1>5
        <5> DEFINE old == uploads[n]
                   new == uploads'[n]
        <5>2. old \in Seq(Report) /\ new = Append(old, res) /\ k \in DOMAIN new /\ u = new[k]
          BY <4>2, <5>1
        <5> HIDE DEF old, new, u
        <5>3. u = res \/ \E j \in DOMAIN old : u = old[j]
          BY <5>2, AppendProperties, LenProperties
        <5> QED
          BY <4>2, <5>3 DEF old
      <4> QED
        BY <4>1, <4>2
    <3> HIDE DEF u
    <3>2. u.id < next_id' /\ (u.id \in Live' => Right(u.outcome, jobs'[u.id].req))
      BY <1>2, <2>1, <2>2, <2>6, <3>1, ReportsStay DEF Honest
    <3> QED
      BY <3>2 DEF u
  <2> QED
    BY <2>3, <2>4, <2>7 DEF Honest
<1> QED
  BY <1>7, <1>8, <1>9

\* Results and jobs that leave a node, while the broker keeps answers right.
LEMMA NodeDropsKeep ==
  ASSUME FleetInv, BrokerInv', JobsKept,
         Liars = {} /\ restarts = 0 => PairsRight' /\ AnswersOwnRequest' /\ NoneCharged',
         polling' \in [Node -> Poll \cup {None}],
         \A n \in Node : polling'[n] # None => polling'[n] = polling[n],
         IsABag(running'),
         \A t \in DOMAIN running' : t \in DOMAIN running /\ running'[t] <= running[t],
         uploads' \in [Node -> Seq(Report)],
         \A n \in Node : \A k \in DOMAIN uploads'[n] :
           \E j \in DOMAIN uploads[n] : uploads'[n][k] = uploads[n][j],
         paused' \subseteq paused,
         UNCHANGED <<stop, sweeping, restarts>>
  PROVE  NodesTyped' /\ Room' /\ (Liars = {} /\ restarts = 0 => Honest')
<1>1. NodesTyped'
  <2>1. BagToSet(running') \subseteq Task
    BY BagOfRunning DEF BagToSet, FleetInv
  <2> QED
    BY <2>1 DEF FleetInv, NodesTyped
<1>2. Room'
  BY RoomKept DEF FleetInv
<1>3. ASSUME Liars = {}, restarts = 0
      PROVE  Honest'
  BY <1>3, HonestKept DEF FleetInv
<1> QED
  BY <1>1, <1>2, <1>3

LEMMA SameRunning ==
  ASSUME FleetInv
  PROVE  IsABag(running) /\ \A t \in DOMAIN running : running[t] <= running[t]
BY BagOfRunning DEF FleetInv, NodesTyped

LEMMA NodeDiesKeeps ==
  ASSUME FleetInv, NEW n \in Node, NodeDies(n)
  PROVE  NodesTyped' /\ Room' /\ (Liars = {} /\ restarts = 0 => Honest')
<1> DEFINE none == <<>>
<1>1. /\ polling' = [polling EXCEPT ![n] = None]
      /\ running' = [t \in {u \in DOMAIN running : u.node # n} |-> running[t]]
      /\ uploads' = [uploads EXCEPT ![n] = none]
      /\ paused' = paused \ {n}
      /\ UNCHANGED <<vars, stop, sweeping, restarts>>
  BY DEF NodeDies, procVars, BagToSet
<1>2. none \in Seq(Report) /\ DOMAIN none = {}
  OBVIOUS
<1> HIDE DEF none
<1>3. polling \in [Node -> Poll \cup {None}] /\ uploads \in [Node -> Seq(Report)]
  BY DEF FleetInv, NodesTyped
<1>4. /\ IsABag(running')
      /\ \A t \in DOMAIN running' : t \in DOMAIN running /\ running'[t] <= running[t]
  <2>1. IsABag(running) /\ \A t \in DOMAIN running : running[t] <= running[t]
    BY SameRunning
  <2> QED
    BY <1>1, <2>1 DEF IsABag
<1>5. /\ polling' \in [Node -> Poll \cup {None}]
      /\ \A m \in Node : polling'[m] # None => polling'[m] = polling[m]
  BY <1>1, <1>3
<1>6. /\ uploads' \in [Node -> Seq(Report)]
      /\ \A m \in Node : \A k \in DOMAIN uploads'[m] :
           \E j \in DOMAIN uploads[m] : uploads'[m][k] = uploads[m][j]
  BY <1>1, <1>2, <1>3
<1>7. BrokerInv' /\ JobsKept /\ NoAnswer
  BY <1>1, BrokerAlone
<1>8. Liars = {} /\ restarts = 0 => PairsRight' /\ AnswersOwnRequest' /\ NoneCharged'
  BY <1>7, NoAnswerIsRight DEF FleetInv, Honest
<1>9. paused' \subseteq paused
  BY <1>1
<1> QED
  BY <1>1, <1>4, <1>5, <1>6, <1>7, <1>8, <1>9, NodeDropsKeep

\* What the broker makes of a result a node uploads is right if the result is.
LEMMA ReceiveIsRight ==
  ASSUME FleetInv, Honest, NEW n \in Node, NEW res,
         \E k \in DOMAIN uploads[n] : res = uploads[n][k],
         Receive(n, res)
  PROVE  PairsRight' /\ AnswersOwnRequest' /\ NoneCharged'
<1>1. BrokerInv /\ LinkedPairs
  BY DEF FleetInv
<1>2. PairsRight /\ AnswersOwnRequest /\ NoneCharged
  BY DEF Honest
<1>3. ASSUME NoAnswer
      PROVE  PairsRight' /\ AnswersOwnRequest' /\ NoneCharged'
  BY <1>2, <1>3, NoAnswerIsRight
<1>4. CASE res.outcome \in Answer /\ CompleteAnswer(n, res.id, res.outcome)
  <2>1. res.id \in Live
    BY <1>4 DEF CompleteAnswer, Accepts
  <2>2. Right(res.outcome, jobs[res.id].req)
    BY <2>1 DEF Honest, ReportsRight
  <2> QED
    BY <1>1, <1>2, <1>4, <2>1, <2>2, AnswerIsRight
<1>5. CASE UNCHANGED vars \/ CompleteKeyRejected(n, res.id) \/ CompleteFailed(n, res.id)
  <2>1. NoAnswer
    BY <1>1, <1>5, CalmSteps DEF CompleteKeyRejected, CompleteFailed, Accepts
  <2> QED
    BY <1>3, <2>1
<1> QED
  BY <1>4, <1>5 DEF Receive

\* Uploading: the first result is received, acknowledged, or given up.
LEMMA UploadsKeep ==
  ASSUME FleetInv, NEW n \in Node, Upload(n) \/ UploadUnacked(n) \/ UploadGivesUp(n)
  PROVE  NodesTyped' /\ Room' /\ (Liars = {} /\ restarts = 0 => Honest')
<1> DEFINE res == Head(uploads[n])
           rest == Tail(uploads[n])
<1>1. /\ uploads[n] # <<>>
      /\ Receive(n, res) \/ UNCHANGED vars
      /\ uploads' = uploads \/ uploads' = [uploads EXCEPT ![n] = rest]
      /\ UNCHANGED <<polling, running, paused, stop, sweeping, restarts>>
  BY DEF Upload, UploadUnacked, UploadGivesUp, procVars, boundVars
<1>2. /\ polling \in [Node -> Poll \cup {None}]
      /\ uploads \in [Node -> Seq(Report)]
  BY DEF FleetInv, NodesTyped
<1>3. /\ rest \in Seq(Report)
      /\ \E k \in DOMAIN uploads[n] : res = uploads[n][k]
      /\ \A k \in DOMAIN rest : \E j \in DOMAIN uploads[n] : rest[k] = uploads[n][j]
  <2> DEFINE s == uploads[n]
  <2>1. s \in Seq(Report) /\ s # <<>>
    BY <1>1, <1>2
  <2> HIDE DEF s
  <2>2. /\ Tail(s) \in Seq(Report)
        /\ \E k \in DOMAIN s : Head(s) = s[k]
        /\ \A k \in DOMAIN Tail(s) : \E j \in DOMAIN s : Tail(s)[k] = s[j]
    <3>1. Len(s) \in Nat \ {0} /\ DOMAIN s = 1 .. Len(s)
      BY <2>1, EmptySeq, LenProperties
    <3>2. /\ Head(s) = s[1] /\ Tail(s) \in Seq(Report) /\ Len(Tail(s)) = Len(s) - 1
          /\ \A k \in 1 .. Len(Tail(s)) : Tail(s)[k] = s[k + 1]
      BY <2>1, HeadTailProperties
    <3>3. DOMAIN Tail(s) = 1 .. Len(Tail(s))
      BY <3>2, LenProperties
    <3>4. \A k \in DOMAIN Tail(s) : k + 1 \in DOMAIN s
      BY <3>1, <3>2, <3>3
    <3> QED
      BY <3>1, <3>2, <3>3, <3>4
  <2> QED
    BY <2>2 DEF s
<1> HIDE DEF rest
<1>4. /\ uploads' \in [Node -> Seq(Report)]
      /\ \A m \in Node : \A k \in DOMAIN uploads'[m] :
           \E j \in DOMAIN uploads[m] : uploads'[m][k] = uploads[m][j]
  <2>1. CASE uploads' = uploads
    BY <1>2, <2>1
  <2>2. CASE uploads' = [uploads EXCEPT ![n] = rest]
    <3>1. uploads'[n] = rest /\ \A m \in Node : m # n => uploads'[m] = uploads[m]
      BY <1>2, <2>2
    <3>2. uploads' \in [Node -> Seq(Report)]
      BY <1>2, <1>3, <2>2
    <3> QED
      BY <1>3, <3>1, <3>2
  <2> QED
    BY <1>1, <2>1, <2>2
<1>5. BrokerInv' /\ JobsKept
  BY <1>1, ReceiveIsStep, BrokerStep DEF FleetInv
<1>6. Liars = {} /\ restarts = 0 => PairsRight' /\ AnswersOwnRequest' /\ NoneCharged'
  <2> SUFFICES ASSUME Honest
               PROVE  PairsRight' /\ AnswersOwnRequest' /\ NoneCharged'
    BY DEF FleetInv
  <2>1. CASE Receive(n, res)
    <3> HIDE DEF res
    <3> QED
      BY <1>3, <2>1, ReceiveIsRight
  <2>2. CASE UNCHANGED vars
    BY <2>2, BrokerAlone, NoAnswerIsRight DEF Honest
  <2> QED
    BY <1>1, <2>1, <2>2
<1>7. /\ IsABag(running')
      /\ \A t \in DOMAIN running' : t \in DOMAIN running /\ running'[t] <= running[t]
  BY <1>1, SameRunning
<1> QED
  BY <1>1, <1>2, <1>4, <1>5, <1>6, <1>7, NodeDropsKeep

\* Steps of the server, and calls of fetch.
LEMMA ServerKeeps ==
  ASSUME FleetInv, BrokerInv',
         \/ \E r \in Request : (FetchEnter(r) \/ FetchEnqueue(r)) /\ UNCHANGED fleetVars
         \/ \E i \in Live : (LeaseDue(i) \/ TwinAges(i)) /\ UNCHANGED fleetVars
         \/ SweepStep \/ ShutdownStep \/ Stop \/ SweeperStops
  PROVE  NodesTyped' /\ Room' /\ (Liars = {} /\ restarts = 0 => Honest')
<1>1. BrokerInv /\ LinkedPairs /\ stop \in BOOLEAN /\ sweeping \in BOOLEAN
  BY DEF FleetInv, NodesTyped
<1>2. JobsKept /\ NoAnswer
  <2>1. CASE \E r \in Request : FetchEnqueue(r)
    BY <1>1, <2>1, EnqueueAddsJob
  <2>2. CASE ~ \E r \in Request : FetchEnqueue(r)
    <3>1. OnlyRemoves /\ NoAnswer
      BY <1>1, <2>2, CalmSteps DEF SweepStep, ShutdownStep, Stop, SweeperStops
    <3> QED
      BY <1>1, <3>1, RemovalIsHarmless
  <2> QED
    BY <2>1, <2>2
<1>3. /\ UNCHANGED <<nodeVars, restarts>>
      /\ stop' = stop \/ stop' = TRUE
      /\ sweeping' = sweeping \/ sweeping' = FALSE
  BY DEF SweepStep, ShutdownStep, Stop, SweeperStops, fleetVars, procVars, boundVars
<1>4. stop' \in BOOLEAN /\ sweeping' \in BOOLEAN
  BY <1>1, <1>3, Zenon
<1> QED
  BY <1>2, <1>3, <1>4, NodesAlone

LEMMA RestartNodes ==
  ASSUME FleetInv, Restart
  PROVE  NodesTyped' /\ Room' /\ restarts' # 0
<1>1. /\ polling' = [n \in Node |-> None] /\ restarts' = restarts + 1
      /\ UNCHANGED <<running, uploads, paused>> /\ stop' = FALSE /\ sweeping' = TRUE
  BY DEF Restart
<1>2. restarts \in Nat
  BY DEF FleetInv, NodesTyped
<1>3. restarts' \in Nat /\ restarts' # 0
  BY <1>1, <1>2
<1>4. stop' \in BOOLEAN /\ sweeping' \in BOOLEAN
  BY <1>1, Zenon
<1>5. polling' \in [Node -> Poll \cup {None}] /\ \A n \in Node : polling'[n] = None
  BY <1>1
<1>6. NodesTyped'
  BY <1>1, <1>3, <1>4, <1>5 DEF FleetInv, NodesTyped
<1>7. Room'
  BY <1>1, <1>5 DEF FleetInv, Room, Inflight
<1> QED
  BY <1>3, <1>6, <1>7

-----------------------------------------------------------------------------
(* The theorems *)

LEMMA FleetInitInv == FleetInit => FleetInv
<1> SUFFICES ASSUME FleetInit
             PROVE  FleetInv
  OBVIOUS
<1>1. Init /\ BrokerInv
  BY InitInv DEF FleetInit
<1>2. /\ Live = {} /\ DOMAIN audits = {} /\ \A r \in Request : answer[r] = None
      /\ \A n \in Node : reg[n].audits_hard_fail = 0
  BY <1>1 DEF Init, Live, NewNode
<1>3. DOMAIN running = {} /\ \A n \in Node : polling[n] = None /\ uploads[n] = <<>>
  BY DEF FleetInit, EmptyBag, SetToBag
<1>4. NodesTyped
  <2>1. polling \in [Node -> Poll \cup {None}] /\ uploads \in [Node -> Seq(Report)]
    BY DEF FleetInit
  <2>2. IsABag(running) /\ BagToSet(running) \subseteq Task
    BY DEF FleetInit, EmptyBag, SetToBag, IsABag, BagToSet
  <2>3. stop = FALSE /\ sweeping = TRUE /\ restarts = 0 /\ paused = {}
    BY DEF FleetInit
  <2>4. stop \in BOOLEAN /\ sweeping \in BOOLEAN
    BY <2>3, Zenon
  <2> QED
    BY <2>1, <2>2, <2>3, <2>4 DEF NodesTyped
<1>5. Room
  <2> SUFFICES ASSUME NEW n \in Node, NEW h \in Host
               PROVE  IsFiniteSet(Copies(running, n, h)) /\ Inflight(n, h) <= TARGET_INFLIGHT_PER_HOST
    BY <1>3 DEF Room
  <2>1. Copies(running, n, h) = {}
    BY <1>3 DEF Copies, BagToSet
  <2> QED
    BY <2>1, FS_EmptySet, BrokerAssumption DEF Inflight
<1>6. LinkedPairs
  BY <1>2 DEF LinkedPairs
<1>7. Honest
  <2>1. ReportsRight
    BY <1>3 DEF ReportsRight
  <2>2. AnswersOwnRequest
    BY <1>2, BrokerAssumption DEF AnswersOwnRequest
  <2> QED
    BY <1>2, <1>3, <2>1, <2>2 DEF Honest, TasksKnown, BagToSet, PairsRight, NoneCharged
<1> QED
  BY <1>1, <1>4, <1>5, <1>6, <1>7 DEF FleetInv

LEMMA FleetNextInv == FleetInv /\ [FleetNext]_fvars => FleetInv'
<1> SUFFICES ASSUME FleetInv, [FleetNext]_fvars
             PROVE  FleetInv'
  OBVIOUS
<1>1. BrokerInv /\ LinkedPairs /\ NodesTyped
  BY DEF FleetInv
<1>2. CASE UNCHANGED fvars
  <2>1. UNCHANGED vars /\ UNCHANGED <<nodeVars, restarts>> /\ UNCHANGED <<stop, sweeping>>
    BY <1>2 DEF fvars, fleetVars, procVars, boundVars
  <2>2. BrokerInv' /\ LinkedPairs' /\ JobsKept /\ NoAnswer
    BY <1>1, <2>1, BrokerStep, BrokerAlone
  <2>3. stop' \in BOOLEAN /\ sweeping' \in BOOLEAN
    BY <1>1, <2>1 DEF NodesTyped
  <2>4. NodesTyped' /\ Room' /\ (Liars = {} /\ restarts = 0 => Honest')
    BY <2>1, <2>2, <2>3, NodesAlone
  <2> QED
    BY <2>1, <2>2, <2>4 DEF FleetInv
<1>3. CASE Restart
  BY <1>1, <1>3, RestartKeeps, RestartNodes DEF FleetInv
<1>4. CASE FleetNext /\ ~Restart
  <2>1. BrokerInv' /\ LinkedPairs' /\ restarts' = restarts
    BY <1>1, <1>4, FleetSteps, BrokerStep
  <2>2. NodesTyped' /\ Room' /\ (Liars = {} /\ restarts = 0 => Honest')
    BY <1>4, <2>1, PollSendKeeps, PollCheckKeeps, PollServeKeeps, ExecuteKeeps, NewKeyKeeps,
       UploadsKeep, NodeDiesKeeps, ServerKeeps
    DEF FleetNext
  <2> QED
    BY <2>1, <2>2 DEF FleetInv
<1> QED
  BY <1>2, <1>3, <1>4

\* The inductive invariant of the fleet: the broker's, what ties a primary to its
\* pair, what nodes hold, and, among honest nodes of one server process, that every
\* answer under way is right.
THEOREM FleetInvariant == FleetSafety => []FleetInv
BY FleetInitInv, FleetNextInv, PTL DEF FleetSafety

\* Broker, nodes and processes keep their types through every fault and restart
\* (broker.rs, worker.rs, main.rs).
THEOREM FleetTypeCorrect == FleetSafety => []FleetTypeOK
<1>1. FleetInv => FleetTypeOK
  <2> SUFFICES ASSUME FleetInv
               PROVE  FleetTypeOK
    OBVIOUS
  <2>1. \A n \in Node : polling[n] # None => polling[n] \in [pending : [Host -> Nat], checked : BOOLEAN]
    <3> SUFFICES ASSUME NEW n \in Node, polling[n] # None
                 PROVE  polling[n] \in [pending : [Host -> Nat], checked : BOOLEAN]
      OBVIOUS
    <3>1. polling[n] \in Poll
      BY DEF FleetInv, NodesTyped
    <3>2. Held \subseteq [Host -> Nat]
      BY DEF Held
    <3> QED
      BY <3>1, <3>2 DEF Poll
  <2>2. \A n \in Node : uploads[n] \in Seq([id : Nat \ {0}, outcome : Outcome])
    BY DEF FleetInv, NodesTyped, Report
  <2> QED
    BY <2>1, <2>2 DEF FleetInv, FleetTypeOK, BrokerInv, NodesTyped
<1> QED
  BY <1>1, FleetInvariant, PTL

\* A node never runs more than TARGET_INFLIGHT_PER_HOST jobs of one host, although
\* take_jobs subtracts counts that are old when the poll is served.
THEOREM TargetHolds == FleetSafety => []InflightWithinTarget
<1>1. FleetInv => InflightWithinTarget
  BY DEF FleetInv, Room, InflightWithinTarget
<1> QED
  BY <1>1, FleetInvariant, PTL

\* Without liars, and until the server restarts, a fetch of an immutable endpoint
\* that returns an answer returns the one to its own request: neither a late nor a
\* repeated upload nor a re-leased job gets at another caller (Broker::complete).
THEOREM HonestAnswersAreRight ==
  ASSUME Liars = {}
  PROVE  FleetSafety => []OwnAnswersUntilRestart
<1>1. FleetInv => OwnAnswersUntilRestart
  BY DEF FleetInv, Honest, OwnAnswersUntilRestart
<1> QED
  BY <1>1, FleetInvariant, PTL

\* Nor is an honest node charged with wrong data before a restart
\* (finish_audit_if_ready): the two answers a verdict compares are answers to one request.
THEOREM HonestNodesAreNotCharged ==
  ASSUME Liars = {}
  PROVE  FleetSafety => []HonestFleetNotAccused
<1>1. FleetInv => HonestFleetNotAccused
  BY DEF FleetInv, Honest, NoneCharged, HonestFleetNotAccused
<1> QED
  BY <1>1, FleetInvariant, PTL

=============================================================================
