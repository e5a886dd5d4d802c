-------------------------- MODULE BrokerInvariant ---------------------------
(***************************************************************************)
(* BrokerInv is inductive: no fetch is forgotten, no job stranded, no      *)
(* audit pair leaked, whatever the nodes report.                           *)
(*                                                                         *)
(* The first section says, once for each conjunct, what a step must leave  *)
(* alone to keep it; then there is one lemma per action.  The last section *)
(* takes the invariant to show that the broker implements FetchService:    *)
(* every step is a step of the service or leaves it alone.                 *)
(***************************************************************************)
EXTENDS BrokerProofs

-----------------------------------------------------------------------------
(* What keeps each conjunct *)

\* The job i of the next state keeps the fields set when it was created.
SameJob(i) ==
  /\ jobs'[i].req = jobs[i].req
  /\ jobs'[i].is_twin = jobs[i].is_twin
  /\ jobs'[i].exclude_node = jobs[i].exclude_node

\* A step that resolves exactly the fetches whose primaries it removes keeps
\* waiters and jobs in step.
LEMMA WaitersKept ==
  ASSUME BrokerInv, NEW S \in SUBSET Live,
         \A i \in Live : ~jobs[i].is_twin /\ i \notin S => i \in Live' /\ SameJob(i),
         \A i \in Live' : ~jobs'[i].is_twin => i \in Live /\ i \notin S /\ SameJob(i),
         call' = [r \in Request |-> IF r \in WaitingOn(S) THEN "done" ELSE call[r]]
  PROVE  EveryWaiterHasItsJob'
<1>2. \A i \in Live : jobs[i].req \in Request
  BY DEF BrokerInv, TypeOK, JobState
<1>3. ASSUME NEW r \in Request, call'[r] = "waiting"
      PROVE  \E i \in Live' : ~jobs'[i].is_twin /\ jobs'[i].req = r
  <2>1. call[r] = "waiting" /\ r \notin WaitingOn(S)
    BY <1>3
  <2>2. PICK i \in Live : ~jobs[i].is_twin /\ jobs[i].req = r
    BY <2>1 DEF BrokerInv, EveryWaiterHasItsJob
  <2>3. i \notin S
    BY <2>1, <2>2 DEF WaitingOn
  <2> QED
    BY <2>2, <2>3 DEF SameJob
<1>4. ASSUME NEW i \in Live', ~jobs'[i].is_twin
      PROVE  /\ call'[jobs'[i].req] = "waiting"
             /\ \A k \in Live' : ~jobs'[k].is_twin /\ jobs'[k].req = jobs'[i].req => k = i
  <2>1. i \in Live /\ i \notin S /\ ~jobs[i].is_twin /\ jobs'[i].req = jobs[i].req
    BY <1>4 DEF SameJob
  <2>2. call[jobs[i].req] = "waiting"
    BY <2>1 DEF BrokerInv, EveryWaiterHasItsJob
  <2>3. jobs[i].req \notin WaitingOn(S)
    <3> SUFFICES ASSUME NEW k \in S, ~jobs[k].is_twin, jobs[k].req = jobs[i].req
                 PROVE  FALSE
      BY DEF WaitingOn
    <3>1. k = i
      BY <2>1 DEF BrokerInv, EveryWaiterHasItsJob
    <3> QED
      BY <2>1, <3>1
  <2>4. ASSUME NEW k \in Live', ~jobs'[k].is_twin, jobs'[k].req = jobs'[i].req
        PROVE  k = i
    <3>1. k \in Live /\ ~jobs[k].is_twin /\ jobs[k].req = jobs[i].req
      BY <2>1, <2>4 DEF SameJob
    <3> QED
      BY <2>1, <3>1 DEF BrokerInv, EveryWaiterHasItsJob
  <2> QED
    BY <1>2, <2>1, <2>2, <2>3, <2>4
<1> QED
  BY <1>3, <1>4 DEF EveryWaiterHasItsJob

\* Jobs that live on keep their host and exclusion, and what is pushed describes
\* its job.
LEMMA EntriesKept ==
  ASSUME BrokerInv, TypeOK', next_id <= next_id',
         \A i \in Live' : i < next_id => i \in Live /\ SameJob(i),
         \A h \in Host : \A e : Has(queues'[h], e) =>
           \/ Has(queues[h], e)
           \/ /\ e.id < next_id'
              /\ e.id \in Live' => /\ e = [id |-> e.id, exclude |-> jobs'[e.id].exclude_node]
                                   /\ HostOf[jobs'[e.id].req] = h
  PROVE  EntriesAgree'
<1> SUFFICES ASSUME NEW h \in Host, NEW e, Has(queues'[h], e)
             PROVE  /\ e.id < next_id'
                    /\ e.id \in Live' => /\ e = [id |-> e.id, exclude |-> jobs'[e.id].exclude_node]
                                         /\ HostOf[jobs'[e.id].req] = h
  BY DEF EntriesAgree, EntryOf, HostOfJob, Has
<1>2. CASE Has(queues[h], e)
  <2>1. PICK j \in DOMAIN queues[h] : queues[h][j] = e
    BY <1>2 DEF Has
  <2>2. /\ e.id < next_id
        /\ e.id \in Live => e = [id |-> e.id, exclude |-> jobs[e.id].exclude_node] /\ HostOf[jobs[e.id].req] = h
    BY <2>1 DEF BrokerInv, EntriesAgree, EntryOf, HostOfJob
  <2>3. e.id < next_id'
    <3>1. next_id \in Nat /\ next_id' \in Nat /\ queues[h] \in Seq(Entry)
      BY DEF BrokerInv, TypeOK
    <3>2. queues[h][j] \in Entry
      BY <3>1
    <3>3. queues[h][j].id \in Nat
      BY <3>2 DEF Entry
    <3> QED
      BY <2>1, <2>2, <3>1, <3>3
  <2>4. ASSUME e.id \in Live'
        PROVE  e = [id |-> e.id, exclude |-> jobs'[e.id].exclude_node] /\ HostOf[jobs'[e.id].req] = h
    <3>1. e.id \in Live /\ SameJob(e.id)
      BY <2>2, <2>4
    <3> QED
      BY <2>2, <3>1 DEF SameJob
  <2> QED
    BY <2>3, <2>4
<1>3. CASE ~Has(queues[h], e)
  BY <1>3
<1> QED
  BY <1>2, <1>3

\* Links change only to twins created in the same step.
LEMMA LinksKept ==
  ASSUME BrokerInv, TypeOK', next_id <= next_id',
         \A i \in Live' \cap Live :
           /\ SameJob(i)
           /\ \/ jobs'[i].twin_id = jobs[i].twin_id
              \/ jobs'[i].twin_id \in Live' /\ jobs'[jobs'[i].twin_id].is_twin,
         \A i \in Live' \ Live :
           /\ i >= next_id
           /\ \/ jobs'[i].is_twin /\ jobs'[i].exclude_node \in Node /\ jobs'[i].twin_id < next_id'
              \/ jobs'[i].twin_id = NoId
           /\ jobs'[i].is_twin => jobs'[i].exclude_node \in Node
  PROVE  LinksAgree'
<1>0. /\ next_id \in Nat /\ next_id' \in Nat /\ next_id' # 0
      /\ Live' \subseteq 1 .. (next_id' - 1)
      /\ \A i \in Live : jobs[i].twin_id \in Nat
      /\ \A i \in Live' : jobs'[i].twin_id \in Nat
  BY DEF BrokerInv, TypeOK, JobState
<1> SUFFICES ASSUME NEW i \in Live'
             PROVE  /\ jobs'[i].twin_id < next_id'
                    /\ jobs'[i].is_twin => jobs'[i].exclude_node \in Node
                    /\ ~jobs'[i].is_twin /\ jobs'[i].twin_id \in Live' => jobs'[jobs'[i].twin_id].is_twin
  BY DEF LinksAgree
<1>1. CASE i \notin Live
  <2>1. jobs'[i].twin_id < next_id'
    BY <1>0, <1>1 DEF NoId
  <2>2. NoId \notin Live'
    <3>1. NoId \notin 1 .. (next_id' - 1)
      BY DEF NoId
    <3> QED
      BY <1>0, <3>1
  <2>3. jobs'[i].is_twin \/ jobs'[i].twin_id = NoId
    BY <1>1
  <2>4. jobs'[i].is_twin => jobs'[i].exclude_node \in Node
    BY <1>1
  <2> QED
    BY <2>1, <2>2, <2>3, <2>4
<1>2. CASE i \in Live /\ jobs'[i].twin_id = jobs[i].twin_id
  <2>1. /\ jobs[i].twin_id < next_id
        /\ jobs[i].is_twin => jobs[i].exclude_node \in Node
        /\ ~jobs[i].is_twin /\ jobs[i].twin_id \in Live => jobs[jobs[i].twin_id].is_twin
    BY <1>2 DEF BrokerInv, LinksAgree
  <2>2. jobs'[i].twin_id < next_id'
    BY <1>0, <1>2, <2>1
  <2>3. jobs'[i].twin_id \in Live' => jobs'[i].twin_id \in Live
    BY <1>0, <1>2, <2>1
  <2>4. SameJob(i) /\ (jobs'[i].twin_id \in Live' => SameJob(jobs'[i].twin_id))
    BY <1>2, <2>3
  <2>5. jobs'[i].is_twin => jobs'[i].exclude_node \in Node
    BY <2>1, <2>4 DEF SameJob
  <2>6. ~jobs'[i].is_twin /\ jobs'[i].twin_id \in Live' => jobs'[jobs'[i].twin_id].is_twin
    BY <1>2, <2>1, <2>3, <2>4, Zenon DEF SameJob
  <2> QED
    BY <2>2, <2>5, <2>6
<1>3. CASE i \in Live /\ jobs'[i].twin_id \in Live' /\ jobs'[jobs'[i].twin_id].is_twin
  <2>1. jobs'[i].twin_id < next_id'
    <3>1. jobs'[i].twin_id \in 1 .. (next_id' - 1)
      BY <1>0, <1>3
    <3> QED
      BY <1>0, <3>1
  <2>2. SameJob(i)
    BY <1>3
  <2>3. jobs'[i].is_twin => jobs'[i].exclude_node \in Node
    BY <1>3, <2>2 DEF BrokerInv, LinksAgree, SameJob
  <2> QED
    BY <1>3, <2>1, <2>3
<1> QED
  BY <1>1, <1>2, <1>3

\* A pair that is left alone keeps or keeps missing its twin.
LEMMA AuditsKept ==
  ASSUME BrokerInv,
         \A t \in DOMAIN audits' :
           /\ t \in DOMAIN audits
           /\ audits'[t] = audits[t]
           /\ t \in Live <=> t \in Live'
           /\ t \in Live => SameJob(t)
  PROVE  OpenAuditHasItsTwin'
<1> SUFFICES ASSUME NEW t \in DOMAIN audits'
             PROVE  \/ /\ audits'[t].twin = None
                       /\ t \in Live'
                       /\ jobs'[t].is_twin
                       /\ jobs'[t].req = audits'[t].req
                       /\ jobs'[t].exclude_node = audits'[t].primary_node
                    \/ /\ audits'[t].twin # None
                       /\ t \notin Live'
                       /\ audits'[t].primary = None
  BY DEF OpenAuditHasItsTwin
<1> QED
  BY DEF BrokerInv, OpenAuditHasItsTwin, SameJob

\* A pair that still waits for its primary was waiting before, and the primary that
\* names it lives on.
LEMMA PrimariesKept ==
  ASSUME BrokerInv,
         \A t \in DOMAIN audits' : audits'[t].primary = None /\ ~audits'[t].forgotten =>
           /\ t \in DOMAIN audits
           /\ audits[t].primary = None /\ ~audits[t].forgotten
           /\ audits'[t].req = audits[t].req,
         \A i \in Live :
           /\ ~jobs[i].is_twin
           /\ jobs[i].twin_id \in DOMAIN audits'
           /\ audits'[jobs[i].twin_id].primary = None
           => i \in Live' /\ SameJob(i) /\ jobs'[i].twin_id = jobs[i].twin_id
  PROVE  OpenAuditHasItsPrimary'
<1> SUFFICES ASSUME NEW t \in DOMAIN audits', audits'[t].primary = None, ~audits'[t].forgotten
             PROVE  \E i \in Live' : /\ ~jobs'[i].is_twin
                                     /\ jobs'[i].twin_id = t
                                     /\ jobs'[i].req = audits'[t].req
  BY DEF OpenAuditHasItsPrimary
<1>1. /\ t \in DOMAIN audits
      /\ audits[t].primary = None /\ ~audits[t].forgotten
      /\ audits'[t].req = audits[t].req
  OBVIOUS
<1>2. PICK i \in Live : ~jobs[i].is_twin /\ jobs[i].twin_id = t /\ jobs[i].req = audits[t].req
  BY <1>1 DEF BrokerInv, OpenAuditHasItsPrimary
<1>3. i \in Live' /\ SameJob(i) /\ jobs'[i].twin_id = t
  BY <1>2
<1> QED
  BY <1>1, <1>2, <1>3 DEF SameJob

-----------------------------------------------------------------------------
(* Steps that remove jobs: complete with an answer, abandon *)

\* Removing jobs and nothing else keeps what is said of queues and links.
LEMMA RemovalKept ==
  ASSUME BrokerInv, TypeOK', NEW G, jobs' = Without(jobs, G), queues' = queues, next_id' = next_id
  PROVE  /\ Live' = Live \ G
         /\ \A i \in Live' : SameJob(i) /\ jobs'[i].twin_id = jobs[i].twin_id
         /\ UnleasedJobIsQueued'
         /\ EntriesAgree'
         /\ LinksAgree'
         /\ TwinNotOnExcludedNode'
<1>1. Live' = Live \ G /\ \A i \in Live' : i \in Live /\ jobs'[i] = jobs[i]
  BY DEF Live, Without
<1>2. \A i \in Live' : SameJob(i)
  BY <1>1 DEF SameJob
<1>3. UnleasedJobIsQueued'
  BY <1>1 DEF BrokerInv, UnleasedJobIsQueued, HostOfJob, EntryOf
<1>4. next_id <= next_id' /\ next_id \in Nat
  BY DEF BrokerInv, TypeOK
<1>5. EntriesAgree'
  BY <1>1, <1>2, <1>4, EntriesKept
<1>6. LinksAgree'
  BY <1>1, <1>2, <1>4, LinksKept
<1>7. TwinNotOnExcludedNode'
  BY <1>1 DEF BrokerInv, TwinNotOnExcludedNode
<1> QED
  BY <1>1, <1>2, <1>3, <1>5, <1>6, <1>7

\* A job in audits is no primary.
LEMMA PairsAreOfTwins ==
  ASSUME BrokerInv, NEW t \in DOMAIN audits, t \in Live
  PROVE  jobs[t].is_twin
BY DEF BrokerInv, OpenAuditHasItsTwin

\* Abandoning takes no primary along but those it resolves.
LEMMA TornPrimaries ==
  ASSUME BrokerInv, NEW S \in SUBSET Live
  PROVE  \A i \in Live : ~jobs[i].is_twin => (i \in Torn(S) <=> i \in S)
<1> SUFFICES ASSUME NEW i \in Live, ~jobs[i].is_twin, i \in Torn(S), i \notin S
             PROVE  FALSE
  BY DEF Torn
<1>1. PICK j \in S : ~jobs[j].is_twin /\ jobs[j].twin_id = i
  BY DEF Torn
<1> QED
  BY <1>1 DEF BrokerInv, LinksAgree

LEMMA AbandonKeeps ==
  ASSUME BrokerInv, TypeOK', NEW i \in Live, Abandon({i}), UNCHANGED <<queues, next_id>>
  PROVE  BrokerInv'
<1>1. /\ jobs' = Without(jobs, Torn({i}))
      /\ audits' = Without(audits, Torn({i}))
      /\ Resolve(WaitingOn({i}), Err)
  BY DEF Abandon
<1>2. /\ Live' = Live \ Torn({i})
      /\ \A k \in Live' : SameJob(k) /\ jobs'[k].twin_id = jobs[k].twin_id
      /\ UnleasedJobIsQueued'
      /\ EntriesAgree'
      /\ LinksAgree'
      /\ TwinNotOnExcludedNode'
  BY <1>1, RemovalKept
<1>3. EveryWaiterHasItsJob'
  <2>1. call' = [r \in Request |-> IF r \in WaitingOn({i}) THEN "done" ELSE call[r]]
    BY <1>1 DEF Resolve
  <2>2. \A k \in Live : ~jobs[k].is_twin => (k \in Torn({i}) <=> k \in {i})
    BY TornPrimaries
  <2>3. \A k \in Live' : ~jobs'[k].is_twin => ~jobs[k].is_twin
    BY <1>2 DEF SameJob
  <2> QED
    BY <1>2, <2>1, <2>2, <2>3, WaitersKept
<1>4. OpenAuditHasItsTwin'
  <2>1. \A t \in DOMAIN audits' : t \in DOMAIN audits /\ t \notin Torn({i}) /\ audits'[t] = audits[t]
    BY <1>1 DEF Without
  <2> QED
    BY <1>2, <2>1, AuditsKept
<1>5. OpenAuditHasItsPrimary'
  <2>1. \A t \in DOMAIN audits' : t \in DOMAIN audits /\ t \notin Torn({i}) /\ audits'[t] = audits[t]
    BY <1>1 DEF Without
  <2>2. \A k \in Live : ~jobs[k].is_twin => (k \in Torn({i}) <=> k \in {i})
    BY TornPrimaries
  <2>3. ~jobs[i].is_twin => jobs[i].twin_id \in Torn({i})
    BY DEF Torn
  <2>4. \A k \in Live : ~jobs[k].is_twin /\ jobs[k].twin_id \in DOMAIN audits' => k \in Live'
    BY <1>2, <2>1, <2>2, <2>3
  <2> QED
    BY <1>2, <2>1, <2>4, PrimariesKept
<1> QED
  BY <1>2, <1>3, <1>4, <1>5 DEF BrokerInv

LEMMA AnswerKeeps ==
  ASSUME BrokerInv, TypeOK', NEW n \in Node, NEW i \in Live, NEW a \in Answer,
         CompleteAnswer(n, i, a)
  PROVE  BrokerInv'
<1>1. /\ jobs' = Without(jobs, {i})
      /\ Resolve(WaitingOn({i}), a)
      /\ queues' = queues /\ next_id' = next_id
  BY DEF CompleteAnswer
<1>2. /\ Live' = Live \ {i}
      /\ \A k \in Live' : SameJob(k) /\ jobs'[k].twin_id = jobs[k].twin_id
      /\ UnleasedJobIsQueued'
      /\ EntriesAgree'
      /\ LinksAgree'
      /\ TwinNotOnExcludedNode'
  BY <1>1, RemovalKept
<1>3. EveryWaiterHasItsJob'
  <2>1. call' = [r \in Request |-> IF r \in WaitingOn({i}) THEN "done" ELSE call[r]]
    BY <1>1 DEF Resolve
  <2>2. \A k \in Live' : ~jobs'[k].is_twin => ~jobs[k].is_twin
    BY <1>2 DEF SameJob
  <2> QED
    BY <1>2, <2>1, <2>2, WaitersKept
<1> DEFINE t == IF jobs[i].is_twin THEN i ELSE jobs[i].twin_id
           pair == IF jobs[i].is_twin
                   THEN [audits[t] EXCEPT !.twin_node = n, !.twin = a]
                   ELSE [audits[t] EXCEPT !.primary = a]
<1>4. i \in DOMAIN audits => i = t
  BY PairsAreOfTwins
<1>5. /\ t \notin DOMAIN audits => audits' = audits
      /\ t \in DOMAIN audits => Settle(n, t, pair)
  BY DEF CompleteAnswer
<1>6. a # None
  BY BrokerAssumption
<1>7. OpenAuditHasItsTwin'
  <2>1. CASE t \notin DOMAIN audits
    <3> HIDE DEF t
    <3> QED
      BY <1>2, <1>4, <1>5, <2>1, AuditsKept
  <2>2. CASE t \in DOMAIN audits /\ pair.primary # None /\ pair.twin # None
    <3>1. audits' = Without(audits, {t})
      BY <1>5, <2>2 DEF Settle
    <3> HIDE DEF t
    <3>2. \A u \in DOMAIN audits' : u \in DOMAIN audits /\ u # i /\ audits'[u] = audits[u]
      BY <1>4, <3>1 DEF Without
    <3> QED
      BY <1>2, <3>2, AuditsKept
  <2>3. CASE t \in DOMAIN audits /\ ~(pair.primary # None /\ pair.twin # None)
    <3>1. audits' = [audits EXCEPT ![t] = pair]
      BY <1>5, <2>3 DEF Settle
    <3>2. DOMAIN audits' = DOMAIN audits /\ audits'[t] = pair
      BY <2>3, <3>1
    <3>3. \A u \in DOMAIN audits : u # t => u # i /\ audits'[u] = audits[u]
      BY <1>4, <3>1
    <3>4. audits[t] \in AuditPair
      BY <2>3 DEF BrokerInv, TypeOK
    <3>5. \/ /\ pair.twin = None
             /\ t \in Live'
             /\ jobs'[t].is_twin
             /\ jobs'[t].req = pair.req
             /\ jobs'[t].exclude_node = pair.primary_node
          \/ /\ pair.twin # None
             /\ t \notin Live'
             /\ pair.primary = None
      <4>1. CASE jobs[i].is_twin
        <5>1. t = i /\ pair.twin = a
          BY <3>4, <4>1 DEF AuditPair
        <5> HIDE DEF pair, t
        <5> QED
          BY <1>2, <1>6, <2>3, <5>1
      <4>2. CASE ~jobs[i].is_twin
        <5>1. /\ pair.primary = a /\ pair.twin = audits[t].twin /\ pair.req = audits[t].req
              /\ pair.primary_node = audits[t].primary_node
          BY <3>4, <4>2 DEF AuditPair
        <5>2. pair.twin = None
          <6> HIDE DEF pair, t
          <6> QED
            BY <1>6, <2>3, <5>1
        <5> HIDE DEF pair, t
        <5>3. /\ t \in Live
              /\ jobs[t].is_twin
              /\ jobs[t].req = audits[t].req
              /\ jobs[t].exclude_node = audits[t].primary_node
          BY <2>3, <5>1, <5>2 DEF BrokerInv, OpenAuditHasItsTwin
        <5>4. t # i
          BY <4>2, <5>3
        <5>5. t \in Live' /\ SameJob(t)
          BY <1>2, <5>3, <5>4
        <5> QED
          BY <5>1, <5>2, <5>3, <5>5 DEF SameJob
      <4> QED
        BY <4>1, <4>2
    <3>6. ASSUME NEW u \in DOMAIN audits, u # t
          PROVE  /\ audits'[u] = audits[u]
                 /\ u \in Live <=> u \in Live'
                 /\ u \in Live => SameJob(u)
      <4> HIDE DEF t
      <4> QED
        BY <1>2, <3>3, <3>6
    <3> HIDE DEF pair, t
    <3>7. ASSUME NEW u \in DOMAIN audits'
          PROVE  \/ /\ audits'[u].twin = None
                    /\ u \in Live'
                    /\ jobs'[u].is_twin
                    /\ jobs'[u].req = audits'[u].req
                    /\ jobs'[u].exclude_node = audits'[u].primary_node
                 \/ /\ audits'[u].twin # None
                    /\ u \notin Live'
                    /\ audits'[u].primary = None
      <4>1. CASE u = t
        BY <3>2, <3>5, <4>1
      <4>2. CASE u # t
        BY <3>2, <3>6, <4>2 DEF BrokerInv, OpenAuditHasItsTwin, SameJob
      <4> QED
        BY <4>1, <4>2
    <3> QED
      BY <3>7 DEF OpenAuditHasItsTwin
  <2> QED
    BY <2>1, <2>2, <2>3
<1>8. OpenAuditHasItsPrimary'
  <2>1. t \in DOMAIN audits => audits[t] \in AuditPair
    BY DEF BrokerInv, TypeOK
  <2>2. t \in DOMAIN audits => /\ pair.forgotten = audits[t].forgotten /\ pair.req = audits[t].req
                               /\ pair.primary = IF jobs[i].is_twin THEN audits[t].primary ELSE a
    BY <2>1 DEF AuditPair
  <2>3. \/ audits' = audits
        \/ audits' = Without(audits, {t})
        \/ t \in DOMAIN audits /\ audits' = [audits EXCEPT ![t] = pair]
    BY <1>5 DEF Settle
  <2>4. ~jobs[i].is_twin => t = jobs[i].twin_id
    OBVIOUS
  <2> HIDE DEF t, pair
  <2>5. \A u \in DOMAIN audits' : /\ u \in DOMAIN audits
                                  /\ u # t => audits'[u] = audits[u]
                                  /\ u = t => audits'[u] = pair
    BY <1>5, <2>3 DEF Without, Settle
  <2>6. ASSUME NEW u \in DOMAIN audits', audits'[u].primary = None, ~audits'[u].forgotten
        PROVE  /\ u \in DOMAIN audits
               /\ audits[u].primary = None /\ ~audits[u].forgotten
               /\ audits'[u].req = audits[u].req
    BY <1>6, <2>2, <2>5, <2>6
  <2>7. ASSUME NEW k \in Live, ~jobs[k].is_twin, jobs[k].twin_id \in DOMAIN audits',
               audits'[jobs[k].twin_id].primary = None
        PROVE  k \in Live'
    BY <1>2, <1>6, <2>2, <2>4, <2>5, <2>7
  <2> QED
    BY <1>2, <2>6, <2>7, PrimariesKept
<1> QED
  BY <1>2, <1>3, <1>7, <1>8 DEF BrokerInv

-----------------------------------------------------------------------------
(* Steps that keep every job *)

\* Timers, flags and an entering fetch touch nothing the invariant speaks of.
LEMMA QuietKeeps ==
  ASSUME BrokerInv, TypeOK', Live' = Live,
         \A i \in Live : /\ SameJob(i)
                         /\ jobs'[i].lease = jobs[i].lease
                         /\ jobs'[i].twin_id = jobs[i].twin_id,
         UNCHANGED <<next_id, queues, audits>>,
         \A r \in Request : call'[r] = "waiting" <=> call[r] = "waiting"
  PROVE  BrokerInv'
<1>1. EveryWaiterHasItsJob'
  <2>1. \A i \in Live : jobs[i].req \in Request
    BY DEF BrokerInv, TypeOK, JobState
  <2> QED
    BY <2>1 DEF BrokerInv, EveryWaiterHasItsJob, SameJob
<1>2. UnleasedJobIsQueued'
  BY DEF BrokerInv, UnleasedJobIsQueued, HostOfJob, EntryOf, SameJob
<1>3. next_id <= next_id' /\ next_id \in Nat
  BY DEF BrokerInv, TypeOK
<1>4. EntriesAgree'
  BY <1>3, EntriesKept
<1>5. LinksAgree'
  BY <1>3, LinksKept
<1>6. TwinNotOnExcludedNode'
  BY DEF BrokerInv, TwinNotOnExcludedNode, SameJob
<1>7. OpenAuditHasItsTwin'
  BY AuditsKept
<1>8. OpenAuditHasItsPrimary'
  BY PrimariesKept
<1> QED
  BY <1>1, <1>2, <1>4, <1>5, <1>6, <1>7, <1>8 DEF BrokerInv

\* A result that does not resolve its job: the lease is dropped and the job queued.
LEMMA RequeueKeeps ==
  ASSUME BrokerInv, TypeOK', NEW i \in Live, NEW k, Requeue(i, k), next_id' = next_id
  PROVE  BrokerInv'
<1>1. /\ jobs' = [jobs EXCEPT ![i] =
                    [jobs[i] EXCEPT !.lease = None, !.due = FALSE, !.attempts = k]]
      /\ queues' = [queues EXCEPT ![HostOfJob(i)] = Append(queues[HostOfJob(i)], EntryOf(i))]
      /\ UNCHANGED <<audits, call, answer>>
  BY DEF Requeue
<1>2. jobs[i] \in JobState /\ HostOfJob(i) \in Host /\ EntryOf(i) \in Entry
  BY BrokerAssumption DEF BrokerInv, TypeOK, JobState, HostOfJob, EntryOf, Entry
<1>3. /\ Live' = Live
      /\ \A j \in Live : j # i => jobs'[j] = jobs[j]
      /\ jobs'[i] = [jobs[i] EXCEPT !.lease = None, !.due = FALSE, !.attempts = k]
  BY <1>1 DEF Live
<1>4. \A j \in Live : SameJob(j) /\ jobs'[j].twin_id = jobs[j].twin_id
  <2>1. SameJob(i) /\ jobs'[i].twin_id = jobs[i].twin_id
    BY <1>2, <1>3 DEF SameJob, JobState
  <2>2. \A j \in Live : j # i => SameJob(j) /\ jobs'[j].twin_id = jobs[j].twin_id
    BY <1>3 DEF SameJob
  <2> QED
    BY <2>1, <2>2
<1>5. jobs'[i].lease = None
  BY <1>2, <1>3 DEF JobState
<1>6. ASSUME NEW h \in Host, NEW e
      PROVE  Has(queues'[h], e) <=> Has(queues[h], e) \/ (h = HostOfJob(i) /\ e = EntryOf(i))
  <2>1. queues[h] \in Seq(Entry) /\ queues \in [Host -> Seq(Entry)]
    BY DEF BrokerInv, TypeOK
  <2>2. CASE h = HostOfJob(i)
    <3>1. queues'[h] = Append(queues[h], EntryOf(i))
      BY <1>1, <1>2, <2>1, <2>2
    <3> QED
      BY <1>2, <2>1, <2>2, <3>1, PushElements
  <2>3. CASE h # HostOfJob(i)
    BY <1>1, <2>1, <2>3
  <2> QED
    BY <2>2, <2>3
<1>7. EveryWaiterHasItsJob'
  <2>1. WaitingOn({}) = {}
    BY DEF WaitingOn
  <2>2. call' = [r \in Request |-> IF r \in WaitingOn({}) THEN "done" ELSE call[r]]
    BY <1>1, <2>1 DEF BrokerInv, TypeOK
  <2>3. \A j \in Live : jobs'[j].is_twin = jobs[j].is_twin
    BY <1>4 DEF SameJob
  <2> QED
    BY <1>3, <1>4, <2>2, <2>3, WaitersKept
<1>8. UnleasedJobIsQueued'
  <2> SUFFICES ASSUME NEW j \in Live, jobs'[j].lease = None
               PROVE  Has(queues'[HostOf[jobs'[j].req]], [id |-> j, exclude |-> jobs'[j].exclude_node])
    BY <1>3 DEF UnleasedJobIsQueued, HostOfJob, EntryOf
  <2>1. HostOf[jobs'[j].req] = HostOfJob(j) /\ [id |-> j, exclude |-> jobs'[j].exclude_node] = EntryOf(j)
    BY <1>4 DEF SameJob, HostOfJob, EntryOf
  <2>2. HostOfJob(j) \in Host
    BY BrokerAssumption DEF BrokerInv, TypeOK, JobState, HostOfJob
  <2>3. CASE j = i
    BY <1>6, <2>1, <2>2, <2>3
  <2>4. CASE j # i
    <3>1. Has(queues[HostOfJob(j)], EntryOf(j))
      BY <1>3, <2>4 DEF BrokerInv, UnleasedJobIsQueued
    <3> QED
      BY <1>6, <2>1, <2>2, <3>1
  <2> QED
    BY <2>3, <2>4
<1>9. next_id <= next_id' /\ next_id \in Nat
  BY DEF BrokerInv, TypeOK
<1>10. EntriesAgree'
  <2>1. EntryOf(i) = [id |-> i, exclude |-> jobs'[i].exclude_node] /\ HostOf[jobs'[i].req] = HostOfJob(i)
    BY <1>4 DEF SameJob, EntryOf, HostOfJob
  <2>2. i < next_id'
    BY DEF BrokerInv, TypeOK
  <2>3. ASSUME NEW h \in Host, NEW e, Has(queues'[h], e)
        PROVE  \/ Has(queues[h], e)
               \/ /\ e.id < next_id'
                  /\ e.id \in Live' => /\ e = [id |-> e.id, exclude |-> jobs'[e.id].exclude_node]
                                       /\ HostOf[jobs'[e.id].req] = h
    BY <1>6, <2>1, <2>2, <2>3
  <2> QED
    BY <1>3, <1>4, <1>9, <2>3, EntriesKept
<1>11. LinksAgree'
  BY <1>3, <1>4, <1>9, LinksKept
<1>12. TwinNotOnExcludedNode'
  <2> SUFFICES ASSUME NEW j \in Live, jobs'[j].is_twin
               PROVE  jobs'[j].lease # jobs'[j].exclude_node
    BY <1>3 DEF TwinNotOnExcludedNode
  <2>1. jobs[j].is_twin /\ jobs'[j].exclude_node = jobs[j].exclude_node
    BY <1>4 DEF SameJob
  <2>2. jobs[j].exclude_node \in Node /\ jobs[j].lease # jobs[j].exclude_node
    BY <2>1 DEF BrokerInv, LinksAgree, TwinNotOnExcludedNode
  <2> QED
    BY <1>3, <1>5, <2>1, <2>2, BrokerAssumption
<1>13. OpenAuditHasItsTwin'
  BY <1>1, <1>3, <1>4, AuditsKept
<1>14. OpenAuditHasItsPrimary'
  BY <1>1, <1>3, <1>4, PrimariesKept
<1> QED
  BY <1>7, <1>8, <1>10, <1>11, <1>12, <1>13, <1>14 DEF BrokerInv

\* fetch, behind the lock: a fresh id, its job and its entry.
LEMMA EnqueueKeeps ==
  ASSUME BrokerInv, TypeOK', NEW r \in Request, FetchEnqueue(r)
  PROVE  BrokerInv'
<1>1. /\ call[r] = "entered"
      /\ call' = [call EXCEPT ![r] = "waiting"]
      /\ next_id' = next_id + 1
      /\ queues' = [queues EXCEPT ![HostOf[r]] =
                      Append(queues[HostOf[r]], [id |-> next_id, exclude |-> None])]
      /\ audits' = audits
  BY DEF FetchEnqueue
<1>2. jobs' = [i \in Live \cup {next_id} |-> IF i = next_id THEN NewJob(r) ELSE jobs[i]]
  BY DEF FetchEnqueue
<1>3. /\ next_id \in Nat \ {0} /\ next_id <= next_id'
      /\ Live \subseteq 1 .. (next_id - 1)
      /\ DOMAIN audits \subseteq 1 .. (next_id - 1)
      /\ call \in [Request -> {"idle", "entered", "waiting", "done"}]
      /\ HostOf[r] \in Host
  BY <1>1, BrokerAssumption DEF BrokerInv, TypeOK
<1>4. next_id \notin Live /\ next_id \notin DOMAIN audits
  BY <1>3
<1>5. /\ Live' = Live \cup {next_id}
      /\ \A i \in Live : jobs'[i] = jobs[i]
      /\ jobs'[next_id] = NewJob(r)
  BY <1>2, <1>4 DEF Live
<1>6. \A i \in Live : SameJob(i)
  BY <1>5 DEF SameJob
<1>7. /\ jobs'[next_id].req = r /\ jobs'[next_id].is_twin = FALSE
      /\ jobs'[next_id].exclude_node = None /\ jobs'[next_id].twin_id = NoId
  BY <1>5 DEF NewJob
<1>8. ASSUME NEW h \in Host, NEW e
      PROVE  Has(queues'[h], e) <=>
               Has(queues[h], e) \/ (h = HostOf[r] /\ e = [id |-> next_id, exclude |-> None])
  <2>1. queues[h] \in Seq(Entry) /\ queues \in [Host -> Seq(Entry)]
    BY DEF BrokerInv, TypeOK
  <2>2. [id |-> next_id, exclude |-> None] \in Entry
    BY <1>3 DEF Entry
  <2>3. CASE h = HostOf[r]
    <3>1. queues'[h] = Append(queues[h], [id |-> next_id, exclude |-> None])
      BY <1>1, <1>3, <2>1, <2>3
    <3> QED
      BY <2>1, <2>2, <2>3, <3>1, PushElements
  <2>4. CASE h # HostOf[r]
    BY <1>1, <2>1, <2>4
  <2> QED
    BY <2>3, <2>4
<1>9. EveryWaiterHasItsJob'
  <2>1. ASSUME NEW q \in Request, call'[q] = "waiting"
        PROVE  \E i \in Live' : ~jobs'[i].is_twin /\ jobs'[i].req = q
    <3>1. CASE q = r
      BY <1>5, <1>7, <3>1
    <3>2. CASE q # r
      <4>1. call[q] = "waiting"
        BY <1>1, <1>3, <2>1, <3>2
      <4>2. PICK i \in Live : ~jobs[i].is_twin /\ jobs[i].req = q
        BY <4>1 DEF BrokerInv, EveryWaiterHasItsJob
      <4> QED
        BY <1>5, <4>2
    <3> QED
      BY <3>1, <3>2
  <2>2. \A i \in Live : ~jobs[i].is_twin => jobs[i].req # r
    BY <1>1 DEF BrokerInv, EveryWaiterHasItsJob
  <2>3. ASSUME NEW i \in Live', ~jobs'[i].is_twin
        PROVE  /\ call'[jobs'[i].req] = "waiting"
               /\ \A k \in Live' : ~jobs'[k].is_twin /\ jobs'[k].req = jobs'[i].req => k = i
    <3>1. CASE i = next_id
      <4>1. call'[r] = "waiting"
        BY <1>1, <1>3
      <4>2. \A k \in Live : ~jobs'[k].is_twin => jobs'[k].req # r
        BY <1>5, <2>2
      <4> QED
        BY <1>5, <1>7, <3>1, <4>1, <4>2
    <3>2. CASE i \in Live
      <4>1. jobs'[i] = jobs[i] /\ ~jobs[i].is_twin /\ jobs[i].req # r
        BY <1>5, <2>2, <2>3, <3>2
      <4>2. call[jobs[i].req] = "waiting" /\ jobs[i].req \in Request
        BY <3>2, <4>1 DEF BrokerInv, EveryWaiterHasItsJob, TypeOK, JobState
      <4>3. call'[jobs[i].req] = "waiting"
        BY <1>1, <1>3, <4>1, <4>2
      <4>4. \A k \in Live : ~jobs'[k].is_twin /\ jobs'[k].req = jobs[i].req => k = i
        BY <1>5, <3>2, <4>1 DEF BrokerInv, EveryWaiterHasItsJob
      <4> QED
        BY <1>5, <1>7, <4>1, <4>3, <4>4
    <3> QED
      BY <1>5, <3>1, <3>2
  <2> QED
    BY <2>1, <2>3 DEF EveryWaiterHasItsJob
<1>10. UnleasedJobIsQueued'
  <2> SUFFICES ASSUME NEW j \in Live', jobs'[j].lease = None
               PROVE  Has(queues'[HostOf[jobs'[j].req]], [id |-> j, exclude |-> jobs'[j].exclude_node])
    BY DEF UnleasedJobIsQueued, HostOfJob, EntryOf
  <2>1. CASE j = next_id
    BY <1>3, <1>7, <1>8, <2>1
  <2>2. CASE j \in Live
    <3>1. Has(queues[HostOf[jobs[j].req]], [id |-> j, exclude |-> jobs[j].exclude_node])
      BY <1>5, <2>2 DEF BrokerInv, UnleasedJobIsQueued, HostOfJob, EntryOf
    <3>2. HostOf[jobs[j].req] \in Host
      BY <2>2, BrokerAssumption DEF BrokerInv, TypeOK, JobState
    <3> QED
      BY <1>5, <1>8, <2>2, <3>1, <3>2
  <2> QED
    BY <1>5, <2>1, <2>2
<1>11. EntriesAgree'
  <2>1. next_id < next_id'
    BY <1>1, <1>3
  <2>2. ASSUME NEW h \in Host, NEW e, Has(queues'[h], e)
        PROVE  \/ Has(queues[h], e)
               \/ /\ e.id < next_id'
                  /\ e.id \in Live' => /\ e = [id |-> e.id, exclude |-> jobs'[e.id].exclude_node]
                                       /\ HostOf[jobs'[e.id].req] = h
    BY <1>7, <1>8, <2>1, <2>2
  <2>3. \A i \in Live' : i < next_id => i \in Live /\ SameJob(i)
    BY <1>3, <1>5, <1>6
  <2> QED
    BY <1>3, <2>2, <2>3, EntriesKept
<1>12. LinksAgree'
  <2>1. \A i \in Live' \cap Live : SameJob(i) /\ jobs'[i].twin_id = jobs[i].twin_id
    BY <1>5, <1>6
  <2>2. \A i \in Live' \ Live : i >= next_id /\ jobs'[i].twin_id = NoId /\ ~jobs'[i].is_twin
    BY <1>3, <1>5, <1>7
  <2> QED
    BY <1>3, <2>1, <2>2, LinksKept
<1>13. TwinNotOnExcludedNode'
  BY <1>5, <1>7 DEF BrokerInv, TwinNotOnExcludedNode
<1>14. OpenAuditHasItsTwin'
  BY <1>1, <1>4, <1>5, <1>6, AuditsKept
<1>15. OpenAuditHasItsPrimary'
  BY <1>1, <1>5, <1>6, PrimariesKept
<1> QED
  BY <1>9, <1>10, <1>11, <1>12, <1>13, <1>14, <1>15 DEF BrokerInv

\* shutdown empties everything.
LEMMA DrainKeeps ==
  ASSUME BrokerInv, TypeOK', ShutdownDrain
  PROVE  BrokerInv'
<1>1. /\ jobs' = Without(jobs, Live)
      /\ audits' = Without(audits, DOMAIN audits)
      /\ queues' = [h \in Host |-> <<>>]
      /\ Resolve(WaitingOn(Live), Err)
  BY DEF ShutdownDrain
<1>2. Live' = {} /\ DOMAIN audits' = {} /\ \A h \in Host : DOMAIN queues'[h] = {}
  BY <1>1 DEF Without, Live
<1>3. call' = [r \in Request |-> IF r \in WaitingOn(Live) THEN "done" ELSE call[r]]
  BY <1>1 DEF Resolve
<1>4. EveryWaiterHasItsJob'
  BY <1>2, <1>3, WaitersKept
<1> QED
  BY <1>2, <1>4
  DEF BrokerInv, UnleasedJobIsQueued, EntriesAgree, LinksAgree, TwinNotOnExcludedNode,
      OpenAuditHasItsTwin, OpenAuditHasItsPrimary

-----------------------------------------------------------------------------
(* take_jobs *)

\* Where a pick comes from, and what its entry says.
LEMMA PickPlace ==
  ASSUME BrokerInv, NEW n \in Node, NEW held \in Held, NEW p \in Picks(n, held)
  PROVE  /\ p[1] \in Host
         /\ PickedId(p) \in Live
         /\ HostOfJob(PickedId(p)) = p[1]
         /\ jobs[PickedId(p)].exclude_node # n
<1>1. PICK h \in Host : p \in {h} \X Picked(n, held, h)
  BY DEF Picks
<1>2. p[1] = h /\ p[2] \in Picked(n, held, h)
  BY <1>1
<1>3. /\ p[2] \in DOMAIN queues[h]
      /\ queues[h][p[2]].exclude # n
  BY <1>2 DEF Picked
<1>4. PickedId(p) \in Live /\ PickedId(p) = queues[h][p[2]].id
  BY <1>2 DEF Picks, PickedId
<1>5. /\ queues[h][p[2]] = [id |-> PickedId(p), exclude |-> jobs[PickedId(p)].exclude_node]
      /\ HostOfJob(PickedId(p)) = h
  BY <1>3, <1>4 DEF BrokerInv, EntriesAgree, EntryOf
<1> QED
  BY <1>2, <1>3, <1>4, <1>5

\* What take_jobs does to the jobs that were there.
LEMMA TakeOldJobs ==
  ASSUME BrokerInv, NEW n \in Node, NEW held \in Held, NEW roll \in Rolls(n, held),
         TakeJobs(n, held, roll), NEW i \in Live
  PROVE  /\ i \in Live'
         /\ SameJob(i)
         /\ jobs'[i].lease = IF i \in {PickedId(p) : p \in Picks(n, held)} THEN n ELSE jobs[i].lease
         /\ \/ jobs'[i].twin_id = jobs[i].twin_id
            \/ jobs'[i].twin_id \in next_id .. (next_id + Len(roll) - 1)
<1> DEFINE twins == next_id .. (next_id + Len(roll) - 1)
           taken == {PickedId(p) : p \in Picks(n, held)}
<1>1. DOMAIN roll = 1 .. Len(roll) /\ Len(roll) \in Nat /\ next_id \in Nat
  BY RollsAreSequences, LenProperties DEF BrokerInv, TypeOK
<1>2. i \notin twins /\ jobs[i] \in JobState
  BY <1>1 DEF BrokerInv, TypeOK
<1>3. /\ DOMAIN jobs' = Live \cup twins
      /\ jobs'[i] = IF i \in taken THEN Leased(n, i, roll) ELSE jobs[i]
  BY <1>2 DEF TakeJobs
<1>4. CASE i \notin taken
  BY <1>3, <1>4 DEF SameJob, Live
<1>5. CASE i \in taken
  <2> DEFINE mine == {k \in DOMAIN roll : PickedId(roll[k]) = i}
             last == CHOOSE k \in mine : \A l \in mine : l <= k
             tw == IF mine = {} THEN jobs[i].twin_id ELSE next_id - 1 + last
  <2>1. tw = jobs[i].twin_id \/ tw \in twins
    <3>1. CASE mine # {}
      <4>1. mine \in SUBSET (1 .. Len(roll))
        BY <1>1
      <4>2. \E k \in mine : \A l \in mine : l <= k
        <5> HIDE DEF mine
        <5> QED
          BY <1>1, <3>1, <4>1, FiniteSetHasLast
      <4>3. last \in 1 .. Len(roll)
        BY <4>1, <4>2
      <4> HIDE DEF last, mine
      <4> QED
        BY <1>1, <3>1, <4>3
    <3> QED
      BY <3>1
  <2>2. jobs'[i] = [jobs[i] EXCEPT !.lease = n, !.due = FALSE, !.twin_id = tw]
    BY <1>3, <1>5 DEF Leased
  <2> HIDE DEF tw
  <2> QED
    BY <1>2, <1>3, <1>5, <2>1, <2>2 DEF SameJob, JobState, Live
<1> QED
  BY <1>4, <1>5

\* A primary that has a twin keeps naming it; one that gets twins names the last.
LEMMA TakeKeepsLinks ==
  ASSUME BrokerInv, NEW n \in Node, NEW held \in Held, NEW roll \in Rolls(n, held),
         TakeJobs(n, held, roll)
  PROVE  /\ \A i \in Live : jobs[i].twin_id # NoId => jobs'[i].twin_id = jobs[i].twin_id
         /\ \A k \in DOMAIN roll : ~RolledAgain(roll, k) =>
              jobs'[PickedId(roll[k])].twin_id = next_id + k - 1
<1> DEFINE twins == next_id .. (next_id + Len(roll) - 1)
           taken == {PickedId(p) : p \in Picks(n, held)}
           Mine(i) == {k \in DOMAIN roll : PickedId(roll[k]) = i}
           Last(i) == CHOOSE k \in Mine(i) : \A l \in Mine(i) : l <= k
           Tw(i) == IF Mine(i) = {} THEN jobs[i].twin_id ELSE next_id - 1 + Last(i)
<1>1. DOMAIN roll = 1 .. Len(roll) /\ Len(roll) \in Nat /\ next_id \in Nat
  BY RollsAreSequences, LenProperties DEF BrokerInv, TypeOK
<1>2. ASSUME NEW i \in Live
      PROVE  jobs'[i].twin_id = IF i \in taken THEN Tw(i) ELSE jobs[i].twin_id
  <2>1. i \notin twins /\ jobs[i] \in JobState
    BY <1>1 DEF BrokerInv, TypeOK
  <2>2. jobs'[i] = IF i \in taken THEN Leased(n, i, roll) ELSE jobs[i]
    BY <2>1 DEF TakeJobs
  <2>3. CASE i \in taken
    <3>1. jobs'[i] = [jobs[i] EXCEPT !.lease = n, !.due = FALSE, !.twin_id = Tw(i)]
      BY <2>2, <2>3 DEF Leased
    <3> HIDE DEF Tw
    <3> QED
      BY <2>1, <2>3, <3>1 DEF JobState
  <2> QED
    BY <2>2, <2>3
<1>3. ASSUME NEW i \in Live, jobs[i].twin_id # NoId
      PROVE  jobs'[i].twin_id = jobs[i].twin_id
  <2>1. Mine(i) = {}
    BY <1>3, RolledPick DEF BrokerInv
  <2> QED
    BY <1>2, <2>1
<1>4. ASSUME NEW k \in DOMAIN roll, ~RolledAgain(roll, k)
      PROVE  jobs'[PickedId(roll[k])].twin_id = next_id + k - 1
  <2>1. PICK i \in Live : i = PickedId(roll[k]) /\ i \in taken
    BY RolledPick DEF BrokerInv
  <2>2. k \in Mine(i) /\ \A l \in Mine(i) : l <= k /\ l \in Nat
    BY <1>1, <1>4, <2>1 DEF RolledAgain
  <2>3. Last(i) = k
    <3> DEFINE mine == Mine(i)
    <3>1. k \in mine /\ k \in Nat /\ \A l \in mine : l <= k /\ l \in Nat
      BY <1>1, <2>2
    <3> HIDE DEF mine
    <3>2. (CHOOSE m \in mine : \A l \in mine : l <= m) = k
      BY <3>1
    <3> QED
      BY <3>2 DEF mine
  <2>4. Tw(i) = next_id - 1 + k
    BY <2>2, <2>3
  <2>5. jobs'[i].twin_id = Tw(i)
    BY <1>2, <2>1
  <2> HIDE DEF Tw
  <2> QED
    BY <1>1, <2>1, <2>4, <2>5
<1> QED
  BY <1>3, <1>4

\* What take_jobs creates: a twin of a live primary of the same host, queued for
\* the others, with its pair.
LEMMA TakeNewTwins ==
  ASSUME BrokerInv, NEW n \in Node, NEW held \in Held, NEW roll \in Rolls(n, held),
         TakeJobs(n, held, roll), NEW t \in next_id .. (next_id + Len(roll) - 1)
  PROVE  \E i \in Live : /\ t \in Live' /\ jobs'[t] = NewTwin(n, i)
                         /\ t \in DOMAIN audits'
                         /\ audits'[t] = NewPair(n, i, RolledAgain(roll, t - next_id + 1))
                         /\ i = PickedId(roll[t - next_id + 1]) /\ ~jobs[i].is_twin
                         /\ roll[t - next_id + 1][1] = HostOfJob(i)
                         /\ t - next_id + 1 \in DOMAIN roll
<1> DEFINE k == t - next_id + 1
<1>1. DOMAIN roll = 1 .. Len(roll) /\ Len(roll) \in Nat /\ next_id \in Nat
  BY RollsAreSequences, LenProperties DEF BrokerInv, TypeOK
<1>2. k \in DOMAIN roll
  BY <1>1
<1>3. roll[k] \in Picks(n, held)
  BY <1>2, RolledPick DEF BrokerInv
<1>4. /\ PickedId(roll[k]) \in Live /\ HostOfJob(PickedId(roll[k])) = roll[k][1]
      /\ ~jobs[PickedId(roll[k])].is_twin
  BY <1>2, <1>3, PickPlace, RolledPick DEF BrokerInv
<1>5. t \in DOMAIN jobs' /\ jobs'[t] = NewTwin(n, PickedId(roll[k]))
  <2> DEFINE taken == {PickedId(p) : p \in Picks(n, held)}
             twins == next_id .. (next_id + Len(roll) - 1)
  <2>1. jobs' = [i \in Live \cup twins |->
                   CASE i \in twins -> NewTwin(n, PickedId(roll[i - next_id + 1]))
                     [] i \in taken -> Leased(n, i, roll)
                     [] OTHER -> jobs[i]]
    BY DEF TakeJobs
  <2>2. t \in twins
    OBVIOUS
  <2>3. \A i \in Live : i \notin twins
    BY <1>1 DEF BrokerInv, TypeOK
  <2>4. taken \subseteq Live
    BY DEF Picks, PickedId
  <2> HIDE DEF taken, twins
  <2> QED
    BY <2>1, <2>2, <2>3, <2>4
<1>6. t \in DOMAIN audits' /\ audits'[t] = NewPair(n, PickedId(roll[k]), RolledAgain(roll, k))
  BY DEF TakeJobs
<1> QED
  BY <1>2, <1>4, <1>5, <1>6 DEF Live

LEMMA TakeKeeps ==
  ASSUME BrokerInv, TypeOK', NEW n \in Node, NEW held \in Held, NEW roll \in Rolls(n, held),
         TakeJobs(n, held, roll)
  PROVE  BrokerInv'
<1> DEFINE twins == next_id .. (next_id + Len(roll) - 1)
           taken == {PickedId(p) : p \in Picks(n, held)}
<1>1. DOMAIN roll = 1 .. Len(roll) /\ Len(roll) \in Nat /\ next_id \in Nat
  BY RollsAreSequences, LenProperties DEF BrokerInv, TypeOK
<1>2. next_id' = next_id + Len(roll) /\ next_id <= next_id'
  BY <1>1 DEF TakeJobs
<1>3. /\ Live' = Live \cup twins
      /\ DOMAIN audits' = DOMAIN audits \cup twins
      /\ \A t \in DOMAIN audits \ twins : audits'[t] = audits[t]
      /\ call' = call
  BY DEF TakeJobs, Live
<1>4. \A i \in Live \cup DOMAIN audits : i < next_id /\ i \notin twins
  BY <1>1 DEF BrokerInv, TypeOK
<1>5. \A i \in Live : /\ SameJob(i)
                      /\ jobs'[i].lease = IF i \in taken THEN n ELSE jobs[i].lease
                      /\ jobs'[i].twin_id = jobs[i].twin_id \/ jobs'[i].twin_id \in twins
  BY TakeOldJobs
<1>6. \A t \in twins :
        \E i \in Live : /\ jobs'[t] = NewTwin(n, i)
                        /\ audits'[t] = NewPair(n, i, RolledAgain(roll, t - next_id + 1))
                        /\ i = PickedId(roll[t - next_id + 1]) /\ ~jobs[i].is_twin
                        /\ roll[t - next_id + 1][1] = HostOfJob(i)
                        /\ t - next_id + 1 \in DOMAIN roll
  BY TakeNewTwins
<1>7. \A t \in twins : /\ jobs'[t].is_twin /\ jobs'[t].exclude_node = n
                       /\ jobs'[t].lease = None
                       /\ jobs'[t].twin_id \in Live
                       /\ HostOf[jobs'[t].req] = roll[t - next_id + 1][1]
                       /\ t - next_id + 1 \in DOMAIN roll
                       /\ audits'[t].twin = None
                       /\ audits'[t].primary_node = n
                       /\ audits'[t].req = jobs'[t].req
  <2> SUFFICES ASSUME NEW t \in twins, NEW i \in Live, NEW f,
                      jobs'[t] = NewTwin(n, i), audits'[t] = NewPair(n, i, f)
               PROVE  /\ jobs'[t].is_twin /\ jobs'[t].exclude_node = n
                      /\ jobs'[t].lease = None
                      /\ jobs'[t].twin_id \in Live
                      /\ HostOf[jobs'[t].req] = HostOfJob(i)
                      /\ audits'[t].twin = None
                      /\ audits'[t].primary_node = n
                      /\ audits'[t].req = jobs'[t].req
    <3> HIDE DEF twins
    <3> QED
      BY <1>6
  <2> QED
    BY DEF NewTwin, NewPair, HostOfJob
<1>8. \A i \in Live : HostOfJob(i) \in Host /\ jobs[i].req \in Request
  BY BrokerAssumption DEF BrokerInv, TypeOK, JobState, HostOfJob
<1> HIDE DEF taken, twins
<1>9. EveryWaiterHasItsJob'
  <2>1. WaitingOn({}) = {}
    BY DEF WaitingOn
  <2>2. call' = [r \in Request |-> IF r \in WaitingOn({}) THEN "done" ELSE call[r]]
    BY <1>3, <2>1 DEF BrokerInv, TypeOK
  <2>3. \A i \in Live' : ~jobs'[i].is_twin => i \in Live
    BY <1>3, <1>7
  <2> QED
    BY <1>3, <1>5, <2>2, <2>3, WaitersKept
<1>10. UnleasedJobIsQueued'
  <2> SUFFICES ASSUME NEW j \in Live', jobs'[j].lease = None
               PROVE  Has(queues'[HostOf[jobs'[j].req]], [id |-> j, exclude |-> jobs'[j].exclude_node])
    BY DEF UnleasedJobIsQueued, HostOfJob, EntryOf
  <2>1. CASE j \in twins
    <3> DEFINE k == j - next_id + 1
    <3>1. k \in DOMAIN roll /\ HostOf[jobs'[j].req] = roll[k][1] /\ jobs'[j].exclude_node = n
      BY <1>7, <2>1
    <3>2. roll[k][1] \in Host
      BY <3>1, RolledPick DEF BrokerInv
    <3>3. j = next_id + k - 1
      BY <1>1, <2>1 DEF twins
    <3> HIDE DEF k
    <3> QED
      BY <3>1, <3>2, <3>3, TakeQueues DEF BrokerInv
  <2>2. CASE j \in Live
    <3> DEFINE h == HostOfJob(j)
    <3>1. h \in Host /\ HostOf[jobs'[j].req] = h /\ jobs'[j].exclude_node = jobs[j].exclude_node
      BY <1>5, <1>8, <2>2 DEF SameJob, HostOfJob
    <3>2. j \notin taken /\ jobs[j].lease = None
      BY <1>5, <2>2, BrokerAssumption
    <3>3. PICK k \in DOMAIN queues[h] : queues[h][k] = EntryOf(j)
      BY <2>2, <3>2 DEF BrokerInv, UnleasedJobIsQueued, Has
    <3>4. k \notin Picked(n, held, h)
      <4> SUFFICES ASSUME k \in Picked(n, held, h) PROVE FALSE
        OBVIOUS
      <4>1. queues[h][k].id = j
        BY <3>3 DEF EntryOf
      <4>2. <<h, k>> \in {h} \X Picked(n, held, h)
        OBVIOUS
      <4>3. <<h, k>> \in Picks(n, held) /\ PickedId(<<h, k>>) = j
        BY <2>2, <3>1, <4>1, <4>2 DEF Picks, PickedId
      <4> QED
        BY <3>2, <4>3 DEF taken
    <3>5. EntryOf(j) = [id |-> j, exclude |-> jobs'[j].exclude_node]
      BY <3>1 DEF EntryOf
    <3> HIDE DEF h
    <3> QED
      BY <3>1, <3>3, <3>4, <3>5, TakeQueues DEF BrokerInv
  <2> QED
    BY <1>3, <2>1, <2>2
<1>11. EntriesAgree'
  <2>1. \A i \in Live' : i < next_id => i \in Live /\ SameJob(i)
    BY <1>1, <1>3, <1>5 DEF twins
  <2>2. ASSUME NEW h \in Host, NEW e, Has(queues'[h], e)
        PROVE  \/ Has(queues[h], e)
               \/ /\ e.id < next_id'
                  /\ e.id \in Live' => /\ e = [id |-> e.id, exclude |-> jobs'[e.id].exclude_node]
                                       /\ HostOf[jobs'[e.id].req] = h
    <3>1. \/ \E i \in DOMAIN queues[h] \ Picked(n, held, h) : queues[h][i] = e
          \/ \E k \in DOMAIN roll : roll[k][1] = h /\ e = [id |-> next_id + k - 1, exclude |-> n]
      BY <2>2, TakeQueues DEF BrokerInv
    <3>2. CASE \E i \in DOMAIN queues[h] \ Picked(n, held, h) : queues[h][i] = e
      BY <3>2 DEF Has
    <3>3. ASSUME NEW k \in DOMAIN roll, roll[k][1] = h, e = [id |-> next_id + k - 1, exclude |-> n]
          PROVE  /\ e.id < next_id'
                 /\ e = [id |-> e.id, exclude |-> jobs'[e.id].exclude_node]
                 /\ HostOf[jobs'[e.id].req] = h
      <4>1. e.id = next_id + k - 1 /\ e.id \in twins /\ e.id - next_id + 1 = k /\ e.id < next_id'
        BY <1>1, <1>2, <3>3 DEF twins
      <4>2. jobs'[e.id].exclude_node = n /\ HostOf[jobs'[e.id].req] = h
        BY <1>7, <3>3, <4>1
      <4> QED
        BY <3>3, <4>1, <4>2
    <3> QED
      BY <3>1, <3>2, <3>3
  <2> QED
    BY <1>2, <2>1, <2>2, EntriesKept
<1>12. LinksAgree'
  <2>1. \A i \in Live' \ Live : i >= next_id /\ i \in twins
    BY <1>1, <1>3 DEF twins
  <2>2. \A i \in Live : i < next_id'
    BY <1>1, <1>2 DEF BrokerInv, TypeOK
  <2>3. \A i \in Live' \ Live : /\ i >= next_id
                                /\ jobs'[i].is_twin
                                /\ jobs'[i].exclude_node \in Node
                                /\ jobs'[i].twin_id < next_id'
    BY <1>7, <2>1, <2>2
  <2>4. \A t \in twins : t \in Live' /\ jobs'[t].is_twin
    BY <1>3, <1>7
  <2> QED
    BY <1>2, <1>5, <2>3, <2>4, LinksKept
<1>13. TwinNotOnExcludedNode'
  <2> SUFFICES ASSUME NEW j \in Live', jobs'[j].is_twin
               PROVE  jobs'[j].lease # jobs'[j].exclude_node
    BY DEF TwinNotOnExcludedNode
  <2>1. CASE j \in twins
    BY <1>7, <2>1, BrokerAssumption
  <2>2. CASE j \in Live /\ j \in taken
    <3>1. jobs[j].exclude_node # n
      BY <2>2, PickPlace DEF taken
    <3> QED
      BY <1>5, <2>2, <3>1 DEF SameJob
  <2>3. CASE j \in Live /\ j \notin taken
    BY <1>5, <2>3 DEF SameJob, BrokerInv, TwinNotOnExcludedNode
  <2> QED
    BY <1>3, <2>1, <2>2, <2>3
<1>14. OpenAuditHasItsTwin'
  <2> SUFFICES ASSUME NEW t \in DOMAIN audits'
               PROVE  \/ /\ audits'[t].twin = None
                         /\ t \in Live'
                         /\ jobs'[t].is_twin
                         /\ jobs'[t].req = audits'[t].req
                         /\ jobs'[t].exclude_node = audits'[t].primary_node
                      \/ /\ audits'[t].twin # None
                         /\ t \notin Live'
                         /\ audits'[t].primary = None
    BY DEF OpenAuditHasItsTwin
  <2>1. CASE t \in twins
    BY <1>3, <1>7, <2>1
  <2>2. CASE t \in DOMAIN audits
    <3>1. t \notin twins /\ audits'[t] = audits[t] /\ (t \in Live' <=> t \in Live)
      BY <1>3, <1>4, <2>2
    <3>2. t \in Live => SameJob(t)
      BY <1>5
    <3> QED
      BY <2>2, <3>1, <3>2 DEF BrokerInv, OpenAuditHasItsTwin, SameJob
  <2> QED
    BY <1>3, <2>1, <2>2
<1>15. OpenAuditHasItsPrimary'
  <2> SUFFICES ASSUME NEW t \in DOMAIN audits', audits'[t].primary = None, ~audits'[t].forgotten
               PROVE  \E i \in Live' : /\ ~jobs'[i].is_twin
                                       /\ jobs'[i].twin_id = t
                                       /\ jobs'[i].req = audits'[t].req
    BY DEF OpenAuditHasItsPrimary
  <2>1. CASE t \in twins
    <3>1. PICK i \in Live : /\ audits'[t] = NewPair(n, i, RolledAgain(roll, t - next_id + 1))
                            /\ i = PickedId(roll[t - next_id + 1]) /\ ~jobs[i].is_twin
                            /\ t - next_id + 1 \in DOMAIN roll
      BY <1>6, <2>1
    <3> DEFINE k == t - next_id + 1
    <3>2. audits'[t].req = jobs[i].req /\ audits'[t].forgotten = RolledAgain(roll, k)
      BY <3>1 DEF NewPair
    <3>3. next_id + k - 1 = t
      BY <1>1, <2>1 DEF twins
    <3>4. k \in DOMAIN roll /\ i = PickedId(roll[k])
      BY <3>1
    <3> HIDE DEF k
    <3>5. jobs'[i].twin_id = t
      BY <3>2, <3>3, <3>4, TakeKeepsLinks
    <3> QED
      BY <1>3, <1>5, <3>1, <3>2, <3>5 DEF SameJob
  <2>2. CASE t \in DOMAIN audits
    <3>1. t \notin twins /\ audits'[t] = audits[t] /\ t # NoId
      BY <1>3, <1>4, <2>2 DEF BrokerInv, TypeOK, NoId
    <3>2. PICK i \in Live : ~jobs[i].is_twin /\ jobs[i].twin_id = t /\ jobs[i].req = audits[t].req
      BY <2>2, <3>1 DEF BrokerInv, OpenAuditHasItsPrimary
    <3>3. jobs'[i].twin_id = t
      BY <3>1, <3>2, TakeKeepsLinks
    <3> QED
      BY <1>3, <1>5, <3>1, <3>2, <3>3 DEF SameJob
  <2> QED
    BY <1>3, <2>1, <2>2
<1> QED
  BY <1>9, <1>10, <1>11, <1>12, <1>13, <1>14, <1>15 DEF BrokerInv

-----------------------------------------------------------------------------
(* The sweeper *)

LEMMA SweepKeeps ==
  ASSUME BrokerInv, TypeOK', NEW order \in Orders(Expired), Sweep(order)
  PROVE  BrokerInv'
<1> DEFINE lost == {i \in Expired : jobs[i].attempts + 1 >= MAX_ATTEMPTS}
           stale == {i \in Live : /\ jobs[i].is_twin
                                  /\ jobs[i].lease = None \/ i \in Expired
                                  /\ jobs[i].aged}
           G == Torn(lost) \cup stale
<1>1. lost \in SUBSET Live /\ Expired \subseteq Live
  BY DEF Expired
<1>2. jobs' = [i \in Live \ G |->
                 IF i \in Expired
                 THEN [jobs[i] EXCEPT !.lease = None, !.due = FALSE, !.attempts = jobs[i].attempts + 1]
                 ELSE jobs[i]]
  BY DEF Sweep
<1>3. /\ audits' = Without(audits, G)
      /\ Resolve(WaitingOn(lost), Err)
      /\ next_id' = next_id
  BY DEF Sweep
<1>4. \A i \in Live : ~jobs[i].is_twin => (i \in G <=> i \in lost)
  <2>1. \A i \in Live : ~jobs[i].is_twin => (i \in Torn(lost) <=> i \in lost)
    <3> HIDE DEF lost
    <3> QED
      BY <1>1, TornPrimaries
  <2>2. \A i \in stale : jobs[i].is_twin
    OBVIOUS
  <2> HIDE DEF lost, stale
  <2> QED
    BY <2>1, <2>2
<1> HIDE DEF G, lost
<1>5. Live' = Live \ G
  BY <1>2 DEF Live
<1>6. ASSUME NEW i \in Live'
      PROVE  /\ i \in Live /\ SameJob(i)
             /\ jobs'[i].twin_id = jobs[i].twin_id
             /\ jobs'[i].lease = IF i \in Expired THEN None ELSE jobs[i].lease
  <2>1. i \in Live \ G /\ jobs[i] \in JobState
    BY <1>5, <1>6 DEF BrokerInv, TypeOK
  <2>2. CASE i \in Expired
    <3>1. jobs'[i] = [jobs[i] EXCEPT !.lease = None, !.due = FALSE, !.attempts = jobs[i].attempts + 1]
      BY <1>2, <2>1, <2>2
    <3> QED
      BY <2>1, <2>2, <3>1 DEF SameJob, JobState
  <2>3. CASE i \notin Expired
    <3>1. jobs'[i] = jobs[i]
      BY <1>2, <2>1, <2>3
    <3> QED
      BY <2>1, <2>3, <3>1 DEF SameJob
  <2> QED
    BY <2>2, <2>3
<1>7. EveryWaiterHasItsJob'
  <2>1. call' = [r \in Request |-> IF r \in WaitingOn(lost) THEN "done" ELSE call[r]]
    BY <1>3 DEF Resolve
  <2>2. \A i \in Live : ~jobs[i].is_twin /\ i \notin lost => i \in Live' /\ SameJob(i)
    BY <1>4, <1>5, <1>6
  <2>3. \A i \in Live' : ~jobs'[i].is_twin => i \in Live /\ i \notin lost /\ SameJob(i)
    BY <1>4, <1>5, <1>6 DEF SameJob
  <2> QED
    BY <1>1, <2>1, <2>2, <2>3, WaitersKept
<1>8. UnleasedJobIsQueued'
  <2> SUFFICES ASSUME NEW j \in Live', jobs'[j].lease = None
               PROVE  Has(queues'[HostOf[jobs'[j].req]], [id |-> j, exclude |-> jobs'[j].exclude_node])
    BY DEF UnleasedJobIsQueued, HostOfJob, EntryOf
  <2>1. HostOf[jobs'[j].req] = HostOfJob(j) /\ [id |-> j, exclude |-> jobs'[j].exclude_node] = EntryOf(j)
    BY <1>6 DEF SameJob, HostOfJob, EntryOf
  <2>2. HostOfJob(j) \in Host
    BY <1>6, BrokerAssumption DEF BrokerInv, TypeOK, JobState, HostOfJob
  <2>3. CASE j \in Expired
    <3>1. j \in Expired \cap DOMAIN jobs'
      BY <2>3 DEF Live
    <3> QED
      BY <2>1, <2>2, <3>1, SweepQueues DEF BrokerInv
  <2>4. CASE j \notin Expired
    <3>1. Has(queues[HostOfJob(j)], EntryOf(j))
      BY <1>6, <2>4 DEF BrokerInv, UnleasedJobIsQueued
    <3> QED
      BY <2>1, <2>2, <3>1, SweepQueues DEF BrokerInv
  <2> QED
    BY <2>3, <2>4
<1>9. next_id <= next_id' /\ next_id \in Nat
  BY <1>3 DEF BrokerInv, TypeOK
<1>10. EntriesAgree'
  <2>1. ASSUME NEW h \in Host, NEW e, Has(queues'[h], e)
        PROVE  \/ Has(queues[h], e)
               \/ /\ e.id < next_id'
                  /\ e.id \in Live' => /\ e = [id |-> e.id, exclude |-> jobs'[e.id].exclude_node]
                                       /\ HostOf[jobs'[e.id].req] = h
    <3>1. CASE ~Has(queues[h], e)
      <4>1. PICK i \in Expired : HostOfJob(i) = h /\ e = EntryOf(i)
        BY <2>1, <3>1, SweepQueues DEF BrokerInv
      <4>2. e.id = i /\ e = [id |-> i, exclude |-> jobs[i].exclude_node] /\ HostOf[jobs[i].req] = h
        BY <4>1 DEF EntryOf, HostOfJob
      <4>3. i < next_id'
        BY <1>1, <1>3 DEF BrokerInv, TypeOK
      <4>4. i \in Live' => SameJob(i)
        BY <1>6
      <4> QED
        BY <4>2, <4>3, <4>4 DEF SameJob
    <3> QED
      BY <3>1
  <2> QED
    BY <1>6, <1>9, <2>1, EntriesKept
<1>11. LinksAgree'
  BY <1>6, <1>9, LinksKept
<1>12. TwinNotOnExcludedNode'
  <2> SUFFICES ASSUME NEW j \in Live', jobs'[j].is_twin
               PROVE  jobs'[j].lease # jobs'[j].exclude_node
    BY DEF TwinNotOnExcludedNode
  <2>1. j \in Live /\ jobs[j].is_twin /\ jobs'[j].exclude_node = jobs[j].exclude_node
    BY <1>6 DEF SameJob
  <2>2. jobs[j].exclude_node \in Node /\ jobs[j].lease # jobs[j].exclude_node
    BY <2>1 DEF BrokerInv, LinksAgree, TwinNotOnExcludedNode
  <2> QED
    BY <1>6, <2>1, <2>2, BrokerAssumption
<1>13. OpenAuditHasItsTwin'
  <2>1. \A t \in DOMAIN audits' : t \in DOMAIN audits /\ t \notin G /\ audits'[t] = audits[t]
    BY <1>3 DEF Without
  <2> QED
    BY <1>5, <1>6, <2>1, AuditsKept
<1>14. OpenAuditHasItsPrimary'
  <2>1. \A t \in DOMAIN audits' : t \in DOMAIN audits /\ t \notin G /\ audits'[t] = audits[t]
    BY <1>3 DEF Without
  <2>2. \A k \in lost : ~jobs[k].is_twin => jobs[k].twin_id \in G
    BY DEF G, Torn
  <2>3. \A k \in Live : ~jobs[k].is_twin /\ jobs[k].twin_id \in DOMAIN audits' => k \in Live'
    BY <1>4, <1>5, <2>1, <2>2
  <2> QED
    BY <1>6, <2>1, <2>3, PrimariesKept
<1> QED
  BY <1>7, <1>8, <1>10, <1>11, <1>12, <1>13, <1>14 DEF BrokerInv

-----------------------------------------------------------------------------
(* Induction *)

LEMMA InitInv == Init => BrokerInv
<1> SUFFICES ASSUME Init PROVE BrokerInv
  OBVIOUS
<1>1. TypeOK
  BY InitType
<1>2. Live = {} /\ DOMAIN audits = {} /\ \A h \in Host : DOMAIN queues[h] = {}
  BY DEF Init, Live
<1>3. \A r \in Request : call[r] # "waiting"
  BY DEF Init
<1> QED
  BY <1>1, <1>2, <1>3
  DEF BrokerInv, EveryWaiterHasItsJob, UnleasedJobIsQueued, EntriesAgree, LinksAgree,
      TwinNotOnExcludedNode, OpenAuditHasItsTwin, OpenAuditHasItsPrimary

LEMMA NextInv ==
  ASSUME BrokerInv, [Next]_vars
  PROVE  BrokerInv'
<1>1. TypeOK /\ TypeOK'
  BY NextType DEF BrokerInv
<1>2. call \in [Request -> {"idle", "entered", "waiting", "done"}]
  BY <1>1 DEF TypeOK
<1>3. ASSUME UNCHANGED <<next_id, jobs, queues, audits>>,
             \A r \in Request : call'[r] = "waiting" <=> call[r] = "waiting"
      PROVE  BrokerInv'
  <2>1. Live' = Live /\ \A i \in Live : SameJob(i)
    BY <1>3 DEF Live, SameJob
  <2> QED
    BY <1>1, <1>3, <2>1, QuietKeeps
<1>4. ASSUME NEW r \in Request, FetchEnter(r)
      PROVE  BrokerInv'
  <2>1. \A q \in Request : call'[q] = "waiting" <=> call[q] = "waiting"
    BY <1>2, <1>4 DEF FetchEnter, Resolve
  <2> QED
    BY <1>3, <1>4, <2>1 DEF FetchEnter
<1>5. ASSUME NEW n \in Node, NEW i \in Live, CompleteKeyRejected(n, i)
      PROVE  BrokerInv'
  BY <1>1, <1>5, RequeueKeeps DEF CompleteKeyRejected
<1>6. ASSUME NEW n \in Node, NEW i \in Live, CompleteFailed(n, i)
      PROVE  BrokerInv'
  <2>1. \/ Abandon({i}) /\ UNCHANGED <<queues, next_id>>
        \/ Requeue(i, jobs[i].attempts + 1) /\ next_id' = next_id
    BY <1>6 DEF CompleteFailed
  <2> QED
    BY <1>1, <2>1, AbandonKeeps, RequeueKeeps
<1>7. ASSUME ShutdownFlag
      PROVE  BrokerInv'
  BY <1>3, <1>7 DEF ShutdownFlag
<1>8. ASSUME NEW i \in Live, LeaseDue(i) \/ TwinAges(i)
      PROVE  BrokerInv'
  <2>1. UNCHANGED <<next_id, queues, audits, call>>
    BY <1>8 DEF LeaseDue, TwinAges
  <2>2. \/ jobs' = [jobs EXCEPT ![i] = [jobs[i] EXCEPT !.due = TRUE]]
        \/ jobs' = [jobs EXCEPT ![i] = [jobs[i] EXCEPT !.aged = TRUE]]
    BY <1>8 DEF LeaseDue, TwinAges
  <2>3. jobs[i] \in JobState
    BY <1>1 DEF TypeOK
  <2>4. Live' = Live /\ \A k \in Live : k # i => jobs'[k] = jobs[k]
    BY <2>2 DEF Live
  <2>5. \A k \in Live : /\ SameJob(k)
                        /\ jobs'[k].lease = jobs[k].lease
                        /\ jobs'[k].twin_id = jobs[k].twin_id
    <3>1. jobs'[i] = [jobs[i] EXCEPT !.due = TRUE] \/ jobs'[i] = [jobs[i] EXCEPT !.aged = TRUE]
      BY <2>2 DEF Live
    <3>2. /\ SameJob(i)
          /\ jobs'[i].lease = jobs[i].lease
          /\ jobs'[i].twin_id = jobs[i].twin_id
      BY <2>3, <3>1 DEF SameJob, JobState
    <3> QED
      BY <2>4, <3>2 DEF SameJob
  <2> QED
    BY <1>1, <2>1, <2>4, <2>5, QuietKeeps
<1>9. ASSUME UNCHANGED vars
      PROVE  BrokerInv'
  BY <1>3, <1>9 DEF vars
<1> QED
  BY <1>1, <1>4, <1>5, <1>6, <1>7, <1>8, <1>9, EnqueueKeeps, TakeKeeps, AnswerKeeps,
     SweepKeeps, DrainKeeps
  DEF Next

\* The inductive invariant holds of every behaviour of the broker.
THEOREM InvariantCorrect == Spec => []BrokerInv
<1>1. BrokerInv /\ [Next]_vars => BrokerInv'
  BY NextInv
<1> QED
  BY <1>1, InitInv, PTL DEF Spec

\* No fetch is forgotten: whoever waits has exactly one live job, whatever nodes
\* report, however leases expire (fetch, complete, release, abandon, sweep).
THEOREM WaitersCorrect == Spec => []EveryWaiterHasItsJob
<1>1. BrokerInv => EveryWaiterHasItsJob
  BY DEF BrokerInv
<1> QED
  BY <1>1, InvariantCorrect, PTL

\* No job is stranded: a job without lease can be picked from its host's queue.
THEOREM QueueCorrect == Spec => []UnleasedJobIsQueued
<1>1. BrokerInv => UnleasedJobIsQueued
  BY DEF BrokerInv
<1> QED
  BY <1>1, InvariantCorrect, PTL

\* take_jobs never leases a twin to the node its exclude_node names: the first lessee
\* of the primary.  A node that leases the primary later is not excluded.
THEOREM ExclusionCorrect == Spec => []TwinNotOnExcludedNode
<1>1. BrokerInv => TwinNotOnExcludedNode
  BY DEF BrokerInv
<1> QED
  BY <1>1, InvariantCorrect, PTL

\* No audit pair is leaked but by a double pick: each answer an open pair waits for
\* (complete, finish_audit_if_ready) has its live job, the primary's naming this pair,
\* unless one take_jobs call gave the primary a later twin as well.
THEOREM AuditsCorrect == Spec => []OpenAuditCanEnd
<1>1. BrokerInv => OpenAuditCanEnd
  BY DEF BrokerInv, OpenAuditCanEnd
<1> QED
  BY <1>1, InvariantCorrect, PTL

-----------------------------------------------------------------------------
(* The broker implements FetchService *)

\* The state of a call as its caller sees it.
StateOf(c) == IF c \in {"entered", "waiting"} THEN "pending" ELSE c

\* The strikes of a waiting call are the attempts of its one primary.
LEMMA StrikesNow ==
  ASSUME BrokerInv
  PROVE  /\ DOMAIN Strikes = Request
         /\ \A r \in Request : call[r] # "waiting" => Strikes[r] = 0
         /\ \A i \in Live : ~jobs[i].is_twin =>
              /\ jobs[i].req \in Request /\ call[jobs[i].req] = "waiting"
              /\ Strikes[jobs[i].req] = jobs[i].attempts
<1>1. \A i \in Live : jobs[i].req \in Request
  BY DEF BrokerInv, TypeOK, JobState
<1>2. ASSUME NEW i \in Live, ~jobs[i].is_twin
      PROVE  call[jobs[i].req] = "waiting" /\ PrimaryOf(jobs[i].req) = i
  BY <1>2 DEF PrimaryOf, BrokerInv, EveryWaiterHasItsJob
<1> QED
  BY <1>1, <1>2 DEF Strikes

\* What they are after a step.
LEMMA StrikesNext ==
  ASSUME BrokerInv', NEW g, g = [r \in Request |-> g[r]],
         \A r \in Request : call'[r] # "waiting" => g[r] = 0,
         \A i \in Live' : ~jobs'[i].is_twin => jobs'[i].attempts = g[jobs'[i].req]
  PROVE  Strikes' = g
<1>1. ASSUME NEW r \in Request, call'[r] = "waiting"
      PROVE  jobs'[PrimaryOf(r)'].attempts = g[r]
  <2>1. \E i \in Live' : ~jobs'[i].is_twin /\ jobs'[i].req = r
    BY <1>1 DEF BrokerInv, EveryWaiterHasItsJob
  <2>2. /\ PrimaryOf(r)' \in Live' /\ ~jobs'[PrimaryOf(r)'].is_twin
        /\ jobs'[PrimaryOf(r)'].req = r
    BY <2>1 DEF PrimaryOf
  <2> QED
    BY <2>2
<1>2. Strikes' = [r \in Request |-> IF call'[r] = "waiting" THEN jobs'[PrimaryOf(r)'].attempts ELSE 0]
  BY DEF Strikes
<1> QED
  BY <1>1, <1>2

\* A step in which primaries leave or stay as they are and no call returns is a
\* stutter of the service.
LEMMA ServiceRests ==
  ASSUME BrokerInv, BrokerInv', UNCHANGED <<answer, shutdown>>,
         \A r \in Request : StateOf(call'[r]) = StateOf(call[r]),
         \A i \in Live' : ~jobs'[i].is_twin =>
           \/ i \in Live /\ ~jobs[i].is_twin /\ jobs'[i].req = jobs[i].req
              /\ jobs'[i].attempts = jobs[i].attempts
           \/ call[jobs'[i].req] # "waiting" /\ jobs'[i].attempts = 0,
         \A r \in Request : call[r] = "waiting" => call'[r] = "waiting"
  PROVE  UNCHANGED Service!svars
<1>1. Strikes' = Strikes
  <2>1. Strikes = [r \in Request |-> Strikes[r]]
    BY DEF Strikes
  <2>2. \A r \in Request : call'[r] # "waiting" => Strikes[r] = 0
    BY StrikesNow
  <2>3. \A i \in Live' : ~jobs'[i].is_twin => jobs'[i].req \in Request
    BY DEF BrokerInv, TypeOK, JobState
  <2>4. \A i \in Live' : ~jobs'[i].is_twin => jobs'[i].attempts = Strikes[jobs'[i].req]
    BY <2>3, StrikesNow
  <2> QED
    BY <2>1, <2>2, <2>4, StrikesNext
<1> QED
  BY <1>1 DEF Service!svars, StateOf

\* Sending on responders is returning to callers.
LEMMA ServiceReturns ==
  ASSUME NEW R \in SUBSET Request, NEW a, Resolve(R, a)
  PROVE  Service!Return(R, a)
<1>1. /\ call' = [r \in Request |-> IF r \in R THEN "done" ELSE call[r]]
      /\ answer' = [r \in Request |-> IF r \in R THEN a ELSE answer[r]]
  BY DEF Resolve
<1>2. \A r \in Request : StateOf(call'[r]) = IF r \in R THEN "done" ELSE StateOf(call[r])
  BY <1>1 DEF StateOf
<1> QED
  BY <1>1, <1>2 DEF Service!Return, StateOf

\* Two primaries of one call are one job.
LEMMA OnePrimary ==
  ASSUME BrokerInv, NEW S \in SUBSET Live
  PROVE  /\ \A i \in Live : ~jobs[i].is_twin => (jobs[i].req \in WaitingOn(S) <=> i \in S)
         /\ \A r \in WaitingOn(S) : /\ r \in Request /\ call[r] = "waiting"
                                    /\ \E i \in S : ~jobs[i].is_twin /\ jobs[i].req = r
<1>1. \A i \in Live : ~jobs[i].is_twin => (jobs[i].req \in WaitingOn(S) <=> i \in S)
  BY DEF WaitingOn, BrokerInv, EveryWaiterHasItsJob
<1> QED
  BY <1>1, StrikesNow DEF WaitingOn

\* The jobs in S fail once more, and those that fail for the last time are given up.
Struck(S, lost) ==
  /\ lost = {i \in S : jobs[i].attempts + 1 >= MAX_ATTEMPTS}
  /\ Resolve(WaitingOn(lost), Err)
  /\ UNCHANGED shutdown
  /\ \A i \in Live' : ~jobs'[i].is_twin =>
       /\ i \in Live \ lost /\ ~jobs[i].is_twin /\ jobs'[i].req = jobs[i].req
       /\ jobs'[i].attempts = IF i \in S THEN jobs[i].attempts + 1 ELSE jobs[i].attempts

LEMMA ServiceStrikes ==
  ASSUME BrokerInv, BrokerInv', NEW S \in SUBSET Live, NEW lost, Struck(S, lost)
  PROVE  Service!Next
<1> USE DEF Struck
<1> DEFINE W == WaitingOn(S)
           out == WaitingOn(lost)
           g == [r \in Request |-> IF r \in out THEN 0
                                   ELSE IF r \in W THEN Strikes[r] + 1 ELSE Strikes[r]]
<1>1. lost \in SUBSET Live
  OBVIOUS
<1>2. /\ \A i \in Live : ~jobs[i].is_twin => (jobs[i].req \in W <=> i \in S)
      /\ \A r \in W : /\ r \in Request /\ call[r] = "waiting"
                      /\ \E i \in S : ~jobs[i].is_twin /\ jobs[i].req = r
  BY OnePrimary
<1>3. /\ \A i \in Live : ~jobs[i].is_twin => (jobs[i].req \in out <=> i \in lost)
      /\ \A r \in out : /\ r \in Request /\ call[r] = "waiting"
                        /\ \E i \in lost : ~jobs[i].is_twin /\ jobs[i].req = r
  BY <1>1, OnePrimary
<1>4. call' = [r \in Request |-> IF r \in out THEN "done" ELSE call[r]]
  BY DEF Resolve
<1>5. Service!Return(out, Err)
  <2>1. out \in SUBSET Request
    BY <1>3
  <2> QED
    BY <2>1, ServiceReturns
<1> HIDE DEF W, out
<1>6. out = {r \in W : Strikes[r] + 1 >= MAX_ATTEMPTS}
  BY <1>2, <1>3, StrikesNow
<1>7. Strikes' = g
  <2>1. \A r \in Request : call'[r] # "waiting" => g[r] = 0
    BY <1>2, <1>4, StrikesNow
  <2>2. ASSUME NEW i \in Live', ~jobs'[i].is_twin
        PROVE  jobs'[i].attempts = g[jobs'[i].req]
    <3>1. /\ i \in Live \ lost /\ ~jobs[i].is_twin /\ jobs'[i].req = jobs[i].req
          /\ jobs'[i].attempts = IF i \in S THEN jobs[i].attempts + 1 ELSE jobs[i].attempts
      BY <2>2
    <3>2. /\ jobs[i].req \in Request /\ Strikes[jobs[i].req] = jobs[i].attempts
          /\ jobs[i].req \notin out /\ (jobs[i].req \in W <=> i \in S)
      BY <1>2, <1>3, <3>1, StrikesNow
    <3> QED
      BY <3>1, <3>2
  <2>3. g = [r \in Request |-> g[r]]
    OBVIOUS
  <2> HIDE DEF g
  <2> QED
    BY <2>1, <2>2, <2>3, StrikesNext
<1>8. W \subseteq Service!Pending
  BY <1>2 DEF Service!Pending
<1>9. W \in SUBSET Request
  BY <1>2
<1>10. Service!Strike(W)
  BY <1>5, <1>6, <1>7, <1>8 DEF Service!Strike
<1>11. \E T \in SUBSET Request : Service!Strike(T)
  BY <1>9, <1>10 DEF Service!Strike, Service!Return, Service!Pending
<1> QED
  BY <1>11 DEF Service!Next

LEMMA SweepStrikes ==
  ASSUME BrokerInv, BrokerInv', NEW order \in Orders(Expired), Sweep(order)
  PROVE  Service!Next
<1> DEFINE lost == {i \in Expired : jobs[i].attempts + 1 >= MAX_ATTEMPTS}
           stale == {i \in Live : /\ jobs[i].is_twin
                                  /\ jobs[i].lease = None \/ i \in Expired
                                  /\ jobs[i].aged}
           G == Torn(lost) \cup stale
<1>1. lost \in SUBSET Live /\ Expired \in SUBSET Live
  BY DEF Expired
<1>2. jobs' = [i \in Live \ G |->
                 IF i \in Expired
                 THEN [jobs[i] EXCEPT !.lease = None, !.due = FALSE, !.attempts = jobs[i].attempts + 1]
                 ELSE jobs[i]]
  BY DEF Sweep
<1>3. Resolve(WaitingOn(lost), Err) /\ UNCHANGED shutdown
  BY DEF Sweep
<1>4. lost \subseteq G
  BY DEF Torn
<1>5. lost = {i \in Expired : jobs[i].attempts + 1 >= MAX_ATTEMPTS}
  OBVIOUS
<1> HIDE DEF G, lost
<1>6. ASSUME NEW i \in Live', ~jobs'[i].is_twin
      PROVE  /\ i \in Live \ lost /\ ~jobs[i].is_twin /\ jobs'[i].req = jobs[i].req
             /\ jobs'[i].attempts = IF i \in Expired THEN jobs[i].attempts + 1 ELSE jobs[i].attempts
  <2>1. i \in Live \ G /\ jobs[i] \in JobState
    BY <1>2 DEF BrokerInv, TypeOK, Live
  <2>2. CASE i \in Expired
    <3>1. jobs'[i] = [jobs[i] EXCEPT !.lease = None, !.due = FALSE, !.attempts = jobs[i].attempts + 1]
      BY <1>2, <2>1, <2>2
    <3> QED
      BY <1>4, <1>6, <2>1, <2>2, <3>1 DEF JobState
  <2>3. CASE i \notin Expired
    <3>1. jobs'[i] = jobs[i]
      BY <1>2, <2>1, <2>3
    <3> QED
      BY <1>4, <1>6, <2>1, <2>3, <3>1
  <2> QED
    BY <2>2, <2>3
<1>7. Struck(Expired, lost)
  BY <1>3, <1>5, <1>6 DEF Struck
<1> QED
  BY <1>1, <1>7, ServiceStrikes

\* A job that is put back changes in lease, due and attempts only.
LEMMA RequeuedJob ==
  ASSUME BrokerInv, NEW i \in Live, NEW attempts, Requeue(i, attempts)
  PROVE  /\ Live' = Live /\ UNCHANGED <<call, answer>>
         /\ \A k \in Live : /\ jobs'[k].req = jobs[k].req /\ jobs'[k].is_twin = jobs[k].is_twin
                            /\ jobs'[k].attempts = IF k = i THEN attempts ELSE jobs[k].attempts
<1>1. jobs[i] \in JobState
  BY DEF BrokerInv, TypeOK
<1>2. jobs' = [jobs EXCEPT ![i] = [jobs[i] EXCEPT !.lease = None, !.due = FALSE, !.attempts = attempts]]
      /\ UNCHANGED <<call, answer>>
  BY DEF Requeue
<1>3. jobs'[i] = [jobs[i] EXCEPT !.lease = None, !.due = FALSE, !.attempts = attempts]
      /\ Live' = Live /\ \A k \in Live : k # i => jobs'[k] = jobs[k]
  BY <1>2 DEF Live
<1>4. jobs'[i].req = jobs[i].req /\ jobs'[i].is_twin = jobs[i].is_twin /\ jobs'[i].attempts = attempts
  BY <1>1, <1>3 DEF JobState
<1> QED
  BY <1>2, <1>3, <1>4

LEMMA FailureStrikes ==
  ASSUME BrokerInv, BrokerInv', NEW n \in Node, NEW i \in Live, CompleteFailed(n, i)
  PROVE  Service!Next
<1> DEFINE S == {i}
           lost == {k \in S : jobs[k].attempts + 1 >= MAX_ATTEMPTS}
<1>1. UNCHANGED shutdown
  BY DEF CompleteFailed
<1>2. CASE jobs[i].attempts + 1 >= MAX_ATTEMPTS
  <2>1. jobs' = Without(jobs, Torn(S)) /\ Resolve(WaitingOn(S), Err)
    BY <1>2 DEF CompleteFailed, Abandon
  <2>2. lost = S
    BY <1>2
  <2>3. \A k \in Live' : k \in Live \ S /\ jobs'[k] = jobs[k]
    BY <2>1 DEF Without, Live, Torn
  <2>4. Struck(S, S)
    BY <1>1, <2>1, <2>2, <2>3 DEF Struck
  <2> QED
    BY <2>4, ServiceStrikes
<1>3. CASE ~(jobs[i].attempts + 1 >= MAX_ATTEMPTS)
  <2>1. Requeue(i, jobs[i].attempts + 1)
    BY <1>3 DEF CompleteFailed
  <2> DEFINE more == jobs[i].attempts + 1
  <2>2. /\ Live' = Live /\ UNCHANGED <<call, answer>>
        /\ \A k \in Live : /\ jobs'[k].req = jobs[k].req /\ jobs'[k].is_twin = jobs[k].is_twin
                           /\ jobs'[k].attempts = IF k = i THEN more ELSE jobs[k].attempts
    <3> HIDE DEF more
    <3> QED
      BY <2>1, RequeuedJob DEF more
  <2>3. lost = {} /\ WaitingOn({}) = {}
    BY <1>3 DEF WaitingOn
  <2>4. call = [r \in Request |-> call[r]] /\ answer = [r \in Request |-> answer[r]]
    BY DEF BrokerInv, TypeOK
  <2>5. Resolve(WaitingOn({}), Err)
    BY <2>2, <2>3, <2>4 DEF Resolve
  <2>6. Struck(S, {})
    BY <1>1, <2>2, <2>3, <2>5 DEF Struck
  <2> QED
    BY <2>6, ServiceStrikes
<1> QED
  BY <1>2, <1>3

\* The first answer to a primary is the one its caller gets; that of a twin is not.
LEMMA AnswerResponds ==
  ASSUME BrokerInv, BrokerInv', NEW n \in Node, NEW i \in Live, NEW a \in Answer,
         CompleteAnswer(n, i, a)
  PROVE  Service!Next \/ UNCHANGED Service!svars
<1>1. /\ Live' = Live \ {i} /\ UNCHANGED shutdown /\ Resolve(WaitingOn({i}), a)
      /\ \A k \in Live' : jobs'[k] = jobs[k]
  BY DEF CompleteAnswer, Without, Live
<1>2. CASE jobs[i].is_twin
  <2>1. WaitingOn({i}) = {}
    BY <1>2 DEF WaitingOn
  <2>2. UNCHANGED <<call, answer>>
    BY <1>1, <2>1 DEF Resolve, BrokerInv, TypeOK
  <2> QED
    BY <1>1, <2>2, ServiceRests
<1>3. CASE ~jobs[i].is_twin
  <2> DEFINE r == jobs[i].req
             g == [Strikes EXCEPT ![r] = 0]
  <2>1. r \in Request /\ call[r] = "waiting" /\ DOMAIN Strikes = Request
    BY <1>3, StrikesNow
  <2>2. WaitingOn({i}) = {r}
    BY <1>3 DEF WaitingOn
  <2>3. Resolve({r}, a)
    BY <1>1, <2>2
  <2>4. Service!Return({r}, a)
    <3> HIDE DEF r
    <3> QED
      BY <2>1, <2>3, ServiceReturns
  <2>5. Strikes' = g
    <3>1. g = [q \in Request |-> g[q]] /\ \A q \in Request : g[q] = IF q = r THEN 0 ELSE Strikes[q]
      BY <2>1
    <3>2. \A q \in Request : call'[q] # "waiting" => g[q] = 0
      BY <2>3, <3>1, StrikesNow DEF Resolve
    <3>3. \A k \in Live' : ~jobs'[k].is_twin => jobs'[k].attempts = g[jobs'[k].req]
      BY <1>1, <1>3, <3>1, StrikesNow DEF BrokerInv, EveryWaiterHasItsJob
    <3> HIDE DEF g
    <3> QED
      BY <3>1, <3>2, <3>3, StrikesNext
  <2>6. r \in Service!Pending
    BY <2>1 DEF Service!Pending
  <2>7. Service!Respond(r, a)
    BY <1>1, <2>4, <2>5, <2>6 DEF Service!Respond
  <2>8. \E q \in Request, b \in Answer : Service!Respond(q, b)
    <3> HIDE DEF r
    <3> QED
      BY <2>1, <2>7 DEF Service!Respond, Service!Return, Service!Pending
  <2> QED
    BY <2>8 DEF Service!Next
<1> QED
  BY <1>2, <1>3

\* The drain of shutdown returns Err to whoever waits.
LEMMA DrainReturns ==
  ASSUME BrokerInv, BrokerInv', ShutdownDrain
  PROVE  Service!Next
<1> DEFINE W == WaitingOn(Live)
           g == [r \in Request |-> IF r \in W THEN 0 ELSE Strikes[r]]
<1>1. shutdown /\ UNCHANGED shutdown /\ Resolve(W, Err) /\ Live' = {}
  BY DEF ShutdownDrain, Without, Live
<1>2. \A r \in W : r \in Request /\ call[r] = "waiting"
  BY OnePrimary
<1>3. W \in SUBSET Request
  BY <1>2
<1> HIDE DEF W
<1>4. Service!Return(W, Err)
  BY <1>1, <1>3, ServiceReturns
<1>5. Strikes' = g
  <2>1. g = [r \in Request |-> g[r]] /\ \A r \in Request : call'[r] # "waiting" => g[r] = 0
    BY <1>1, StrikesNow DEF Resolve
  <2> HIDE DEF g
  <2> QED
    BY <1>1, <2>1, StrikesNext
<1>6. W \subseteq Service!Pending
  BY <1>2 DEF Service!Pending
<1>7. Service!Drain(W)
  BY <1>1, <1>4, <1>5, <1>6 DEF Service!Drain
<1>8. \E T \in SUBSET Request : Service!Drain(T)
  BY <1>3, <1>7 DEF Service!Drain, Service!Return, Service!Pending
<1> QED
  BY <1>8 DEF Service!Next

\* fetch: the flag decides between a refusal and a pending call; the job comes later.
LEMMA EnterBegins ==
  ASSUME BrokerInv, BrokerInv', NEW r \in Request, FetchEnter(r)
  PROVE  Service!Next
<1>1. call[r] = "idle" /\ UNCHANGED <<jobs, shutdown>>
  BY DEF FetchEnter
<1>2. call \in [Request -> {"idle", "entered", "waiting", "done"}]
  BY DEF BrokerInv, TypeOK
<1>3. \A q \in Request : call'[q] = "waiting" <=> call[q] = "waiting"
  BY <1>1, <1>2 DEF FetchEnter, Resolve
<1>4. Strikes' = Strikes
  <2>1. Strikes = [q \in Request |-> Strikes[q]] /\ \A q \in Request : call'[q] # "waiting" => Strikes[q] = 0
    BY <1>3, StrikesNow DEF Strikes
  <2>2. \A i \in Live' : ~jobs'[i].is_twin => jobs'[i].attempts = Strikes[jobs'[i].req]
    BY <1>1, StrikesNow DEF Live
  <2> QED
    BY <2>1, <2>2, StrikesNext
<1>5. CASE shutdown
  <2>1. Service!Return({r}, Err)
    BY <1>5, ServiceReturns DEF FetchEnter
  <2>2. Service!Refuse(r)
    BY <1>1, <1>4, <1>5, <2>1 DEF Service!Refuse
  <2> QED
    BY <2>2 DEF Service!Next
<1>6. CASE ~shutdown
  <2>1. call' = [call EXCEPT ![r] = "entered"] /\ UNCHANGED answer
    BY <1>6 DEF FetchEnter
  <2>2. \A q \in Request : StateOf(call'[q]) = IF q = r THEN "pending" ELSE StateOf(call[q])
    BY <1>2, <2>1 DEF StateOf
  <2>3. Service!Begin(r)
    BY <1>1, <1>4, <1>6, <2>1, <2>2 DEF Service!Begin, StateOf
  <2> QED
    BY <2>3 DEF Service!Next
<1> QED
  BY <1>5, <1>6

LEMMA EnqueueRests ==
  ASSUME BrokerInv, BrokerInv', NEW r \in Request, FetchEnqueue(r)
  PROVE  UNCHANGED Service!svars
<1>1. /\ call[r] = "entered" /\ call' = [call EXCEPT ![r] = "waiting"] /\ UNCHANGED <<answer, shutdown>>
      /\ jobs' = [i \in Live \cup {next_id} |-> IF i = next_id THEN NewJob(r) ELSE jobs[i]]
  BY DEF FetchEnqueue
<1>2. call \in [Request -> {"idle", "entered", "waiting", "done"}] /\ next_id \notin Live
  BY DEF BrokerInv, TypeOK
<1>3. \A q \in Request : StateOf(call'[q]) = StateOf(call[q])
  BY <1>1, <1>2 DEF StateOf
<1>4. \A i \in Live' : \/ i \in Live /\ jobs'[i] = jobs[i]
                       \/ jobs'[i].req = r /\ jobs'[i].attempts = 0
  BY <1>1 DEF Live, NewJob
<1>5. \A q \in Request : call[q] = "waiting" => call'[q] = "waiting"
  BY <1>1, <1>2
<1>6. call[r] # "waiting"
  BY <1>1
<1> QED
  BY <1>1, <1>3, <1>4, <1>5, <1>6, ServiceRests

LEMMA TakeRests ==
  ASSUME BrokerInv, BrokerInv', NEW n \in Node, NEW held \in Held, NEW roll \in Rolls(n, held),
         TakeJobs(n, held, roll)
  PROVE  UNCHANGED Service!svars
<1> DEFINE twins == next_id .. (next_id + Len(roll) - 1)
           taken == {PickedId(p) : p \in Picks(n, held)}
<1>1. UNCHANGED <<call, answer, shutdown>> /\ Live' = Live \cup twins
  BY DEF TakeJobs, Live
<1>2. ASSUME NEW t \in twins PROVE jobs'[t].is_twin
  <2>1. PICK i \in Live : jobs'[t] = NewTwin(n, i)
    BY TakeNewTwins
  <2>2. NewTwin(n, i).is_twin
    BY DEF NewTwin
  <2> QED
    BY <2>1, <2>2
<1>3. DOMAIN roll = 1 .. Len(roll) /\ Len(roll) \in Nat /\ next_id \in Nat
  BY RollsAreSequences, LenProperties DEF BrokerInv, TypeOK
<1>4. ASSUME NEW i \in Live
      PROVE  jobs'[i].req = jobs[i].req /\ jobs'[i].is_twin = jobs[i].is_twin
             /\ jobs'[i].attempts = jobs[i].attempts
  <2>1. i \notin twins /\ jobs[i] \in JobState
    BY <1>3 DEF BrokerInv, TypeOK
  <2>2. jobs'[i] = IF i \in taken THEN Leased(n, i, roll) ELSE jobs[i]
    BY <2>1 DEF TakeJobs
  <2>3. Leased(n, i, roll).attempts = jobs[i].attempts
    BY <2>1 DEF Leased, JobState
  <2>4. SameJob(i)
    BY TakeOldJobs
  <2> QED
    BY <2>2, <2>3, <2>4 DEF SameJob
<1> HIDE DEF twins
<1> QED
  BY <1>1, <1>2, <1>4, ServiceRests

LEMMA TimeRests ==
  ASSUME BrokerInv, BrokerInv', NEW i \in Live, LeaseDue(i) \/ TwinAges(i)
  PROVE  UNCHANGED Service!svars
<1>1. UNCHANGED <<call, answer, shutdown>> /\ jobs[i] \in JobState
  BY DEF LeaseDue, TwinAges, BrokerInv, TypeOK
<1>2. \/ jobs' = [jobs EXCEPT ![i] = [jobs[i] EXCEPT !.due = TRUE]]
      \/ jobs' = [jobs EXCEPT ![i] = [jobs[i] EXCEPT !.aged = TRUE]]
  BY DEF LeaseDue, TwinAges
<1>3. Live' = Live /\ \A k \in Live : k # i => jobs'[k] = jobs[k]
  BY <1>2 DEF Live
<1>4. jobs'[i] = [jobs[i] EXCEPT !.due = TRUE] \/ jobs'[i] = [jobs[i] EXCEPT !.aged = TRUE]
  BY <1>2 DEF Live
<1>5. jobs'[i].req = jobs[i].req /\ jobs'[i].is_twin = jobs[i].is_twin /\ jobs'[i].attempts = jobs[i].attempts
  BY <1>1, <1>4 DEF JobState
<1> QED
  BY <1>1, <1>3, <1>5, ServiceRests

LEMMA NextImplements ==
  ASSUME BrokerInv, BrokerInv', [Next]_vars
  PROVE  [Service!Next]_(Service!svars)
<1>1. ASSUME NEW n \in Node, NEW i \in Live, CompleteKeyRejected(n, i)
      PROVE  UNCHANGED Service!svars
  <2> DEFINE same == jobs[i].attempts
  <2>1. Requeue(i, same) /\ UNCHANGED shutdown
    BY <1>1 DEF CompleteKeyRejected
  <2>2. /\ Live' = Live /\ UNCHANGED <<call, answer>>
        /\ \A k \in Live : /\ jobs'[k].req = jobs[k].req /\ jobs'[k].is_twin = jobs[k].is_twin
                           /\ jobs'[k].attempts = IF k = i THEN same ELSE jobs[k].attempts
    <3> HIDE DEF same
    <3> QED
      BY <2>1, RequeuedJob
  <2> QED
    BY <2>1, <2>2, ServiceRests
<1>2. ASSUME ShutdownFlag PROVE Service!Next
  <2>1. UNCHANGED <<call, answer, jobs>> /\ shutdown' = TRUE
    BY <1>2 DEF ShutdownFlag
  <2>2. Strikes' = Strikes
    BY <2>1 DEF Strikes, PrimaryOf, Live
  <2>3. Service!Close
    BY <2>1, <2>2 DEF Service!Close
  <2> QED
    BY <2>3 DEF Service!Next
<1>3. ASSUME UNCHANGED vars PROVE UNCHANGED Service!svars
  BY <1>3 DEF vars, Service!svars, Strikes, PrimaryOf, Live
<1> QED
  BY <1>1, <1>2, <1>3, EnterBegins, EnqueueRests, TakeRests, AnswerResponds, FailureStrikes, SweepStrikes,
     DrainReturns, TimeRests
  DEF Next

LEMMA InitImplements == Init => Service!Init
<1> SUFFICES ASSUME Init PROVE Service!Init
  OBVIOUS
<1>1. call = [r \in Request |-> "idle"] /\ answer = [r \in Request |-> None] /\ shutdown = FALSE
  BY DEF Init
<1>2. Strikes = [r \in Request |-> 0]
  BY <1>1 DEF Strikes
<1> QED
  BY <1>1, <1>2 DEF Service!Init

\* The broker keeps the promise in the doc comment of fetch: every call returns at most
\* once, with an answer, or with Err only after MAX_ATTEMPTS failed attempts of its own
\* or at shutdown, whatever nodes report and however often.
THEOREM BrokerImplementsFetchService == Spec => KeepsFetchPromise
<1>1. BrokerInv /\ BrokerInv' /\ [Next]_vars => [Service!Next]_(Service!svars)
  BY NextImplements
<1> QED
  BY <1>1, InitImplements, InvariantCorrect, PTL DEF Spec, KeepsFetchPromise, Service!Spec
=============================================================================
