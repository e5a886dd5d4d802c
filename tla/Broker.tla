------------------------------- MODULE Broker -------------------------------
(***************************************************************************)
(* The fetch broker (crates/server/src/broker.rs) with the part of the     *)
(* node registry it updates (crates/server/src/registry.rs).               *)
(*                                                                         *)
(* Crawl tasks call fetch and wait; nodes call take_jobs and complete; a   *)
(* sweeper re-queues expired leases; ctrl-c calls shutdown.  Everything    *)
(* but the shutdown flag lives under one mutex, so each critical section   *)
(* is one action.  fetch and shutdown touch the flag outside the mutex and *)
(* are therefore two actions each.                                         *)
(*                                                                         *)
(* The environment is unconstrained: any node may report any id that was   *)
(* ever issued, with any outcome, at any time and any number of times.     *)
(* Module Fleet restricts it to nodes that run jobs they were handed.      *)
(*                                                                         *)
(* Time is abstracted to two facts that become true at some moment: the    *)
(* deadline of a lease has passed (due), a twin is older than TWIN_TTL     *)
(* (aged).  They become true in any order, which allows more behaviours    *)
(* than clocks do.                                                         *)
(***************************************************************************)
EXTENDS Integers, Sequences, FiniteSets

CONSTANTS
  Node,         \* enrolled node ids
  Host,         \* routing hosts
  Request,      \* crawl-side calls of fetch, each with its host/method/path
  HostOf,       \* HostOf[r]: the routing host of r
  Immutable,    \* the requests whose method is in IMMUTABLE_METHODS
  Body,         \* response bodies, up to json_equal
  NotFound,     \* a definitive 404
  Err,          \* what an abandoned fetch resolves to
  None,         \* Rust's None
  MAX_ATTEMPTS,
  TARGET_INFLIGHT_PER_HOST

Answer == Body \cup {NotFound}

ASSUME BrokerAssumption ==
  /\ HostOf \in [Request -> Host]
  /\ Immutable \subseteq Request
  /\ None \notin Node
  /\ None \notin Answer
  /\ Err \notin Answer \cup {None}
  /\ MAX_ATTEMPTS \in Nat \ {0}
  /\ TARGET_INFLIGHT_PER_HOST \in Nat

VARIABLES
  next_id,      \* Inner::next_id
  jobs,         \* Inner::jobs, id -> JobState
  queues,       \* Inner::queues, host -> sequence of entries
  audits,       \* Inner::audits, twin id -> AuditPair
  shutdown,     \* the atomic flag
  drained,      \* Broker::shutdown has run its critical section
  call,         \* call[r]: where the crawl task is inside fetch
  answer,       \* answer[r]: what fetch returned
  reg           \* registry counters and key state per node

vars == <<next_id, jobs, queues, audits, shutdown, drained, call, answer, reg>>

-----------------------------------------------------------------------------
(* State *)

NoId == 0       \* twin_id = None

\* An audit twin is exactly a job without responder, so is_twin stands for both.
JobState ==
  [req : Request, lease : Node \cup {None}, due : BOOLEAN,
   attempts : 0 .. (MAX_ATTEMPTS - 1), exclude_node : Node \cup {None},
   twin_id : Nat, is_twin : BOOLEAN, aged : BOOLEAN]

Entry == [id : Nat \ {0}, exclude : Node \cup {None}]

\* forgotten is not in the code: it records that the primary was given a later
\* twin, so that its answer will be filed under that one.
AuditPair ==
  [req : Request, primary_node : Node, twin_node : Node \cup {None},
   primary : Answer \cup {None}, twin : Answer \cup {None}, forgotten : BOOLEAN]

NodeRt ==
  [completed : Nat, audits_pass : Nat, audits_hard_fail : Nat,
   audits_soft_fail : Nat, key_bad : BOOLEAN]

NewNode ==
  [completed |-> 0, audits_pass |-> 0, audits_hard_fail |-> 0,
   audits_soft_fail |-> 0, key_bad |-> FALSE]

Init ==
  /\ next_id = 1
  /\ jobs = [i \in {} |-> None]
  /\ queues = [h \in Host |-> <<>>]
  /\ audits = [i \in {} |-> None]
  /\ shutdown = FALSE
  /\ drained = FALSE
  /\ call = [r \in Request |-> "idle"]
  /\ answer = [r \in Request |-> None]
  /\ reg = [n \in Node |-> NewNode]

-----------------------------------------------------------------------------
(* Helpers *)

\* The elements of sequence s at the indices in K, in order: what is left of a
\* queue once the other indices are removed.
Keep(s, K) ==
  [k \in 1 .. Cardinality(K) |->
     s[CHOOSE i \in K : Cardinality({j \in K : j <= i}) = k]]

\* e is an element of sequence s.
Has(s, e) == \E k \in DOMAIN s : s[k] = e

\* The map f without the keys in S.
Without(f, S) == [i \in DOMAIN f \ S |-> f[i]]

Live == DOMAIN jobs
HostOfJob(i) == HostOf[jobs[i].req]
EntryOf(i) == [id |-> i, exclude |-> jobs[i].exclude_node]

\* Sending on the responders of the requests in R.
Resolve(R, a) ==
  /\ call' = [r \in Request |-> IF r \in R THEN "done" ELSE call[r]]
  /\ answer' = [r \in Request |-> IF r \in R THEN a ELSE answer[r]]

\* The requests that wait on a job in S; a twin has no responder.
WaitingOn(S) == {jobs[i].req : i \in {j \in S : ~jobs[j].is_twin}}

-----------------------------------------------------------------------------
(* Crawl side: fetch *)

\* The flag is tested before the lock is taken.
FetchEnter(r) ==
  /\ call[r] = "idle"
  /\ IF shutdown
     THEN Resolve({r}, Err)
     ELSE /\ call' = [call EXCEPT ![r] = "entered"]
          /\ UNCHANGED answer
  /\ UNCHANGED <<next_id, jobs, queues, audits, shutdown, drained, reg>>

NewJob(r) ==
  [req |-> r, lease |-> None, due |-> FALSE, attempts |-> 0,
   exclude_node |-> None, twin_id |-> NoId, is_twin |-> FALSE, aged |-> FALSE]

\* Faulty variant: the id is not advanced.
FetchEnqueueSameId(r) ==
  /\ call[r] = "entered"
  /\ call' = [call EXCEPT ![r] = "waiting"]
  /\ jobs' = [i \in Live \cup {next_id} |->
                IF i = next_id THEN NewJob(r) ELSE jobs[i]]
  /\ queues' = [queues EXCEPT ![HostOf[r]] =
                  Append(@, [id |-> next_id, exclude |-> None])]
  /\ UNCHANGED <<next_id, audits, shutdown, drained, answer, reg>>

FetchEnqueue(r) ==
  /\ call[r] = "entered"
  /\ call' = [call EXCEPT ![r] = "waiting"]
  /\ next_id' = next_id + 1
  /\ jobs' = [i \in Live \cup {next_id} |->
                IF i = next_id THEN NewJob(r) ELSE jobs[i]]
  /\ queues' = [queues EXCEPT ![HostOf[r]] =
                  Append(@, [id |-> next_id, exclude |-> None])]
  /\ UNCHANGED <<audits, shutdown, drained, answer, reg>>

-----------------------------------------------------------------------------
(* Node side: take_jobs *)

\* Faulty variant: what the node holds is not subtracted.
CapIgnoringHeld(held, h) == TARGET_INFLIGHT_PER_HOST

\* held[h] is what the node says it still holds for h.
Cap(held, h) ==
  IF held[h] < TARGET_INFLIGHT_PER_HOST
  THEN TARGET_INFLIGHT_PER_HOST - held[h] ELSE 0

\* The indices removed from the queue of h: the first Cap entries that do not
\* exclude the node.  Entries of vanished jobs are removed and count as well.
Picked(n, held, h) ==
  {i \in DOMAIN queues[h] :
     /\ queues[h][i].exclude # n
     /\ Cardinality({k \in 1 .. i : queues[h][k].exclude # n}) <= Cap(held, h)}

\* Every place <<host, index>> whose entry is removed and still has its job.
Picks(n, held) ==
  {p \in UNION {{h} \X Picked(n, held, h) : h \in Host} :
     queues[p[1]][p[2]].id \in Live}

PickedId(p) == queues[p[1]][p[2]].id

\* The audit dice are rolled for each dispatched primary that has no twin yet,
\* if another node is active.  The state of that job is the one before any twin
\* of this call is created, so an id picked twice is rolled for twice.
Auditable(n, held) ==
  {p \in Picks(n, held) :
     LET j == jobs[PickedId(p)] IN ~j.is_twin /\ j.twin_id = NoId}

\* The picks that lost the dice, in the order in which their twins are created:
\* queue order within a host, the hosts in whatever order the map yields.
Rolls(n, held) ==
  LET C == Auditable(n, held)
  IN  {<<>>} \cup
      IF Node = {n} THEN {} ELSE
      {s \in UNION {[1 .. m -> C] : m \in 1 .. Cardinality(C)} :
         \A j, k \in DOMAIN s :
           j < k => /\ s[j] # s[k]
                    /\ s[j][1] = s[k][1] => s[j][2] < s[k][2]}

NewTwin(n, i) ==
  [req |-> jobs[i].req, lease |-> None, due |-> FALSE, attempts |-> 0,
   exclude_node |-> n, twin_id |-> i, is_twin |-> TRUE, aged |-> FALSE]

NewPair(n, i, forgotten) ==
  [req |-> jobs[i].req, primary_node |-> n, twin_node |-> None,
   primary |-> None, twin |-> None, forgotten |-> forgotten]

\* The job of the k-th roll gets another twin later in this call.
RolledAgain(roll, k) ==
  \E l \in DOMAIN roll : l > k /\ PickedId(roll[l]) = PickedId(roll[k])

\* Leasing job i to n; roll[k] gets twin next_id + k - 1, and of several twins
\* of one primary the last one is the primary's twin_id.
Leased(n, i, roll) ==
  LET mine == {k \in DOMAIN roll : PickedId(roll[k]) = i}
  IN  [jobs[i] EXCEPT
         !.lease = n,
         !.due = FALSE,
         !.twin_id = IF mine = {} THEN @
                     ELSE next_id - 1 + CHOOSE k \in mine : \A l \in mine : l <= k]

TakeJobs(n, held, roll) ==
  LET Id(k) == PickedId(roll[k])
      taken == {PickedId(p) : p \in Picks(n, held)}
      twins == next_id .. (next_id + Len(roll) - 1)
      entries == [k \in DOMAIN roll |-> [id |-> next_id + k - 1, exclude |-> n]]
  IN  /\ next_id' = next_id + Len(roll)
      /\ jobs' = [i \in Live \cup twins |->
                    CASE i \in twins -> NewTwin(n, Id(i - next_id + 1))
                      [] i \in taken -> Leased(n, i, roll)
                      [] OTHER -> jobs[i]]
      /\ queues' = [h \in Host |->
                      Keep(queues[h], DOMAIN queues[h] \ Picked(n, held, h))
                      \o Keep(entries, {k \in DOMAIN roll : roll[k][1] = h})]
      /\ audits' = [i \in DOMAIN audits \cup twins |->
                      IF i \in twins
                      THEN NewPair(n, Id(i - next_id + 1), RolledAgain(roll, i - next_id + 1))
                      ELSE audits[i]]
      /\ UNCHANGED <<shutdown, drained, call, answer, reg>>

-----------------------------------------------------------------------------
(* Node side: complete *)

\* A result counts if the job exists and is leased to this node or to nobody.
Accepts(n, i) == i \in Live /\ jobs[i].lease \in {n, None}

Credit(n) ==
  [reg EXCEPT ![n] = [reg[n] EXCEPT !.completed = reg[n].completed + 1, !.key_bad = FALSE]]

Verdict(pair) ==
  CASE pair.primary = pair.twin -> "pass"
    [] pair.primary # pair.twin /\ pair.req \in Immutable -> "hard"
    [] OTHER -> "soft"

\* registry.audit_result: both participants get the verdict (a node that is
\* both gets it twice).
Charge(rg, a, b, v) ==
  LET Times(n) == (IF n = a THEN 1 ELSE 0) + (IF n = b THEN 1 ELSE 0)
  IN  [n \in Node |->
         CASE v = "pass" -> [rg[n] EXCEPT !.audits_pass = @ + Times(n)]
           [] v = "hard" -> [rg[n] EXCEPT !.audits_hard_fail = @ + Times(n)]
           [] v = "soft" -> [rg[n] EXCEPT !.audits_soft_fail = @ + Times(n)]]

\* finish_audit_if_ready on the pair keyed by twin t, which now reads pair.
Settle(n, t, pair) ==
  IF pair.primary # None /\ pair.twin # None
  THEN /\ audits' = Without(audits, {t})
       /\ reg' = Charge(Credit(n), pair.primary_node, pair.twin_node, Verdict(pair))
  ELSE /\ audits' = [audits EXCEPT ![t] = pair]
       /\ reg' = Credit(n)

\* Outcome Ok (a \in Body) or NotFound.
CompleteAnswer(n, i, a) ==
  /\ Accepts(n, i)
  /\ jobs' = Without(jobs, {i})
  /\ Resolve(WaitingOn({i}), a)
  /\ LET t == IF jobs[i].is_twin THEN i ELSE jobs[i].twin_id
     IN  IF t \notin DOMAIN audits
         THEN reg' = Credit(n) /\ UNCHANGED audits
         ELSE Settle(n, t,
                IF jobs[i].is_twin
                THEN [audits[t] EXCEPT !.twin_node = n, !.twin = a]
                ELSE [audits[t] EXCEPT !.primary = a])
  /\ UNCHANGED <<next_id, queues, shutdown, drained>>

\* Faulty variant: a twin takes its primary along too.
TornBothWays(S) == S \cup {jobs[i].twin_id : i \in S}

\* Ids that leave jobs and audits when the jobs in S are abandoned: a primary
\* takes its twin along.
Torn(S) == S \cup {jobs[i].twin_id : i \in {j \in S : ~jobs[j].is_twin}}

\* Faulty variant: the audit pairs stay.
AbandonKeepingPairs(S) ==
  /\ jobs' = Without(jobs, Torn(S))
  /\ Resolve(WaitingOn(S), Err)
  /\ UNCHANGED audits

Abandon(S) ==
  /\ jobs' = Without(jobs, Torn(S))
  /\ audits' = Without(audits, Torn(S))
  /\ Resolve(WaitingOn(S), Err)

\* Faulty variant: the released job is not pushed back.
RequeueWithoutPush(i, attempts) ==
  /\ jobs' = [jobs EXCEPT ![i] =
                [jobs[i] EXCEPT !.lease = None, !.due = FALSE, !.attempts = attempts]]
  /\ UNCHANGED <<queues, audits, call, answer>>

\* release(id, false): attempts was updated by the caller.
Requeue(i, attempts) ==
  /\ jobs' = [jobs EXCEPT ![i] =
                [jobs[i] EXCEPT !.lease = None, !.due = FALSE, !.attempts = attempts]]
  /\ queues' = [queues EXCEPT ![HostOfJob(i)] = Append(@, EntryOf(i))]
  /\ UNCHANGED <<audits, call, answer>>

CompleteKeyRejected(n, i) ==
  /\ Accepts(n, i)
  /\ Requeue(i, jobs[i].attempts)
  /\ reg' = [reg EXCEPT ![n].key_bad = TRUE]
  /\ UNCHANGED <<next_id, shutdown, drained>>

\* Faulty variants: the job is never given up; it is given up at once.
CompleteFailedForever(n, i) ==
  /\ Accepts(n, i)
  /\ Requeue(i, jobs[i].attempts + 1)
  /\ UNCHANGED <<next_id, shutdown, drained, reg>>

CompleteFailedTooSoon(n, i) ==
  /\ Accepts(n, i)
  /\ Abandon({i})
  /\ UNCHANGED <<next_id, queues, shutdown, drained, reg>>

CompleteFailed(n, i) ==
  /\ Accepts(n, i)
  /\ IF jobs[i].attempts + 1 >= MAX_ATTEMPTS
     THEN Abandon({i}) /\ UNCHANGED queues
     ELSE Requeue(i, jobs[i].attempts + 1)
  /\ UNCHANGED <<next_id, shutdown, drained, reg>>

-----------------------------------------------------------------------------
(* The sweeper *)

Expired == {i \in Live : jobs[i].lease # None /\ jobs[i].due}

\* HashMap iteration visits the expired leases in some order.
Orders(S) ==
  {s \in [1 .. Cardinality(S) -> S] : \A i \in S : \E k \in DOMAIN s : s[k] = i}

\* release(id, true) for each expired lease, then the stale twins are dropped.
\* A twin visited after its abandoned primary is gone by then; one visited
\* before it leaves an entry in the queue.
Sweep(order) ==
  LET lost == {i \in Expired : jobs[i].attempts + 1 >= MAX_ATTEMPTS}
      gone == Torn(lost)
      KilledBefore(k) ==
        \E l \in 1 .. (k - 1) : /\ order[l] \in lost
                                /\ order[k] \in Torn({order[l]}) \ {order[l]}
      back == {k \in DOMAIN order : order[k] \notin lost /\ ~KilledBefore(k)}
      entries == [k \in DOMAIN order |-> EntryOf(order[k])]
      stale == {i \in Live : /\ jobs[i].is_twin
                             /\ jobs[i].lease = None \/ i \in Expired
                             /\ jobs[i].aged}
      remain == Live \ (gone \cup stale)
  IN  /\ jobs' = [i \in remain |->
                    IF i \in Expired
                    THEN [jobs[i] EXCEPT !.lease = None, !.due = FALSE,
                                         !.attempts = @ + 1]
                    ELSE jobs[i]]
      /\ audits' = Without(audits, gone \cup stale)
      /\ queues' = [h \in Host |->
                      queues[h] \o Keep(entries, {k \in back : HostOfJob(order[k]) = h})]
      /\ Resolve(WaitingOn(lost), Err)
      /\ UNCHANGED <<next_id, shutdown, drained, reg>>

-----------------------------------------------------------------------------
(* Shutdown *)

ShutdownFlag ==
  /\ ~shutdown
  /\ shutdown' = TRUE
  /\ UNCHANGED <<next_id, jobs, queues, audits, drained, call, answer, reg>>

ShutdownDrain ==
  /\ shutdown
  /\ ~drained
  /\ drained' = TRUE
  /\ jobs' = Without(jobs, Live)
  /\ queues' = [h \in Host |-> <<>>]
  /\ audits' = Without(audits, DOMAIN audits)
  /\ Resolve(WaitingOn(Live), Err)
  /\ UNCHANGED <<next_id, shutdown, reg>>

-----------------------------------------------------------------------------
(* Time *)

LeaseDue(i) ==
  /\ i \in Live
  /\ jobs[i].lease # None
  /\ ~jobs[i].due
  /\ jobs' = [jobs EXCEPT ![i].due = TRUE]
  /\ UNCHANGED <<next_id, queues, audits, shutdown, drained, call, answer, reg>>

TwinAges(i) ==
  /\ i \in Live
  /\ jobs[i].is_twin
  /\ ~jobs[i].aged
  /\ jobs' = [jobs EXCEPT ![i].aged = TRUE]
  /\ UNCHANGED <<next_id, queues, audits, shutdown, drained, call, answer, reg>>

-----------------------------------------------------------------------------
Held == [Host -> 0 .. TARGET_INFLIGHT_PER_HOST]

Next ==
  \/ \E r \in Request : FetchEnter(r)
  \/ \E r \in Request : FetchEnqueue(r)
  \/ \E n \in Node, held \in Held : \E roll \in Rolls(n, held) : TakeJobs(n, held, roll)
  \/ \E n \in Node, i \in Live, a \in Answer : CompleteAnswer(n, i, a)
  \/ \E n \in Node, i \in Live : CompleteKeyRejected(n, i)
  \/ \E n \in Node, i \in Live : CompleteFailed(n, i)
  \/ \E order \in Orders(Expired) : Sweep(order)
  \/ ShutdownFlag
  \/ ShutdownDrain
  \/ \E i \in Live : LeaseDue(i)
  \/ \E i \in Live : TwinAges(i)

Spec == Init /\ [][Next]_vars

-----------------------------------------------------------------------------
(* Properties *)

\* Every variable has the shape of the field it stands for; ids are below next_id.
TypeOK ==
  /\ next_id \in Nat \ {0}
  /\ Live \subseteq 1 .. (next_id - 1)
  /\ \A i \in Live : jobs[i] \in JobState
  /\ queues \in [Host -> Seq(Entry)]
  /\ DOMAIN audits \subseteq 1 .. (next_id - 1)
  /\ \A t \in DOMAIN audits : audits[t] \in AuditPair
  /\ shutdown \in BOOLEAN
  /\ drained \in BOOLEAN
  /\ call \in [Request -> {"idle", "entered", "waiting", "done"}]
  /\ answer \in [Request -> Answer \cup {Err, None}]
  /\ reg \in [Node -> NodeRt]

\* A fetch that waits has a live primary job to resolve it, and exactly one; a
\* live primary has a fetch waiting on it (no responder is dropped or reused).
EveryWaiterHasItsJob ==
  /\ \A r \in Request : call[r] = "waiting" =>
       \E i \in Live : ~jobs[i].is_twin /\ jobs[i].req = r
  /\ \A i \in Live : ~jobs[i].is_twin =>
       /\ call[jobs[i].req] = "waiting"
       /\ \A k \in Live : ~jobs[k].is_twin /\ jobs[k].req = jobs[i].req => k = i

\* A job no node has leased is in the queue of its host, under the exclusion of
\* the job, so some poll can hand it out: no job is stranded.
UnleasedJobIsQueued ==
  \A i \in Live : jobs[i].lease = None =>
    Has(queues[HostOfJob(i)], EntryOf(i))

\* A twin is never leased to the node in its exclude_node.  That is the node its
\* primary was leased to when the twin was created, and no other: a primary that
\* is leased again later may meet its twin on one node.
TwinNotOnExcludedNode ==
  \A i \in Live : jobs[i].is_twin => jobs[i].lease # jobs[i].exclude_node

\* A pair in audits whose twin has not answered has that twin as a live job; a
\* pair with both answers has been settled.
OpenAuditHasItsTwin ==
  \A t \in DOMAIN audits :
    \/ /\ audits[t].twin = None
       /\ t \in Live
       /\ jobs[t].is_twin
       /\ jobs[t].req = audits[t].req
       /\ jobs[t].exclude_node = audits[t].primary_node
    \/ /\ audits[t].twin # None
       /\ t \notin Live
       /\ audits[t].primary = None

\* A pair in audits whose primary has not answered has that primary as a live job
\* that still names the pair, unless the primary was given a later twin.
OpenAuditHasItsPrimary ==
  \A t \in DOMAIN audits :
    audits[t].primary = None /\ ~audits[t].forgotten =>
      \E i \in Live : /\ ~jobs[i].is_twin
                      /\ jobs[i].twin_id = t
                      /\ jobs[i].req = audits[t].req

\* Every answer an open audit pair still waits for can come: the twin that has not
\* answered is a live job, and so is the primary, whose answer complete will file
\* under this pair.  The exception is a primary picked twice by one take_jobs call:
\* it remembers the second twin only, and the first pair stays in the map for good
\* once its twin has answered.
OpenAuditCanEnd == OpenAuditHasItsTwin /\ OpenAuditHasItsPrimary

\* A queue entry carries an issued id; while its job lives it is in the queue of
\* the job's host and carries the job's exclusion.
EntriesAgree ==
  \A h \in Host : \A k \in DOMAIN queues[h] :
    LET e == queues[h][k]
    IN  /\ e.id < next_id
        /\ e.id \in Live => e = EntryOf(e.id) /\ HostOfJob(e.id) = h

\* The cross-link of a primary never names another primary.
LinksAgree ==
  \A i \in Live :
    /\ jobs[i].twin_id < next_id
    /\ jobs[i].is_twin => jobs[i].exclude_node \in Node
    /\ ~jobs[i].is_twin /\ jobs[i].twin_id \in Live => jobs[jobs[i].twin_id].is_twin

\* The inductive invariant: the properties above and what they lean on.
BrokerInv ==
  /\ TypeOK
  /\ EveryWaiterHasItsJob
  /\ UnleasedJobIsQueued
  /\ EntriesAgree
  /\ LinksAgree
  /\ TwinNotOnExcludedNode
  /\ OpenAuditHasItsTwin
  /\ OpenAuditHasItsPrimary

\* The live primary of a waiting request, and the failed attempts it has had.
PrimaryOf(r) == CHOOSE i \in Live : ~jobs[i].is_twin /\ jobs[i].req = r
Strikes == [r \in Request |-> IF call[r] = "waiting" THEN jobs[PrimaryOf(r)].attempts ELSE 0]

Service == INSTANCE FetchService WITH
  state <- [r \in Request |-> IF call[r] \in {"entered", "waiting"} THEN "pending" ELSE call[r]],
  strikes <- Strikes,
  down <- shutdown

\* The broker implements FetchService: each fetch returns at most once, with an
\* answer, or with Err only after MAX_ATTEMPTS failed attempts or at shutdown,
\* whatever nodes report and however often.
KeepsFetchPromise == Service!Spec
=============================================================================
