------------------------------- MODULE Frontier -------------------------------
(***************************************************************************)
(* The crawl queue of the store (crates/server/src/storage.rs): the tables *)
(* T_FRONTIER, keyed by platform, bucket, due time and player, and         *)
(* T_FRONTIER_IDX, the key of each queued player.  Every operation is one  *)
(* fast transaction; here it is a function from tables to tables.          *)
(***************************************************************************)
EXTENDS Integers, FiniteSets

CONSTANTS
  Player,    \* player ids
  Regions    \* the enabled platforms, in the order of ALL_REGIONS

Platform == {Regions[k] : k \in DOMAIN Regions}

BUCKET_PRIORITY == 0   \* cohort members
BUCKET_OTHER == 1      \* legacy, drained and dropped
Bucket == {BUCKET_PRIORITY, BUCKET_OTHER}

\* FrontierTask.last_visit_ms: 0, the marker of a deep visit, or the time of the visit.
NEVER == 0
DEEP_VISIT_MS == 1

FrontierKey == [platform : Platform, bucket : Bucket, due : Nat]
FrontierEntry == [key : FrontierKey, pid : Player, last_visit : Nat]

Key(pf, bucket, due) == [platform |-> pf, bucket |-> bucket, due |-> due]
Entry(key, p, last_visit) == [key |-> key, pid |-> p, last_visit |-> last_visit]

\* entries: T_FRONTIER; idx: T_FRONTIER_IDX.
FrontierTables(f) ==
  /\ f.entries \subseteq FrontierEntry
  /\ DOMAIN f.idx \subseteq Player
  /\ \A p \in DOMAIN f.idx : f.idx[p] \in FrontierKey

EmptyFrontier == [entries |-> {}, idx |-> [p \in {} |-> 0]]

Queued(f) == DOMAIN f.idx

\* The entries that f's index names for the players in ps.
EntriesOf(f, ps) == {e \in f.entries : e.pid \in ps \cap Queued(f) /\ e.key = f.idx[e.pid]}

\* The index with the keys in keys put in.
Moved(idx, keys) ==
  [p \in DOMAIN keys \cup DOMAIN idx |-> IF p \in DOMAIN keys THEN keys[p] ELSE idx[p]]

-----------------------------------------------------------------------------
\* Faulty variant: an entry in the old bucket stays in the queue.
PushBatchKeepsOld(f, key, ps, last_visit) ==
  LET new == {p \in ps : p \in Queued(f) => f.idx[p].bucket > key.bucket}
  IN  [entries |-> f.entries \cup {Entry(key, p, last_visit) : p \in new},
       idx |-> Moved(f.idx, [p \in new |-> key])]

\* frontier_push_batch: players queued in the same or a better bucket stay as they
\* are, the others move to key.
PushBatch(f, key, ps, last_visit) ==
  LET new == {p \in ps : p \in Queued(f) => f.idx[p].bucket > key.bucket}
  IN  [entries |-> (f.entries \ EntriesOf(f, new)) \cup {Entry(key, p, last_visit) : p \in new},
       idx |-> Moved(f.idx, [p \in new |-> key])]

\* frontier_push
Push(f, key, p, last_visit) == PushBatch(f, key, {p}, last_visit)

Due(f, pf, bucket, now) ==
  {e \in f.entries : e.key.platform = pf /\ e.key.bucket = bucket /\ e.key.due <= now}

\* frontier_pop_due: the entries it may take, the earliest of the best bucket (of
\* several with the same due time, any).
Poppable(f, pf, now) ==
  LET priority == Due(f, pf, BUCKET_PRIORITY, now)
      due == IF priority # {} THEN priority ELSE Due(f, pf, BUCKET_OTHER, now)
  IN  {e \in due : \A d \in due : e.key.due <= d.key.due}

Popped(f, e) ==
  [entries |-> f.entries \ {e}, idx |-> [p \in Queued(f) \ {e.pid} |-> f.idx[p]]]

\* frontier_overdue_count: overdue by more than the grace period, counted up to cap.
OverdueCount(f, pf, now, grace, cap) ==
  LET cutoff == IF now > grace THEN now - grace ELSE 0
      n == Cardinality(Due(f, pf, BUCKET_PRIORITY, cutoff))
  IN  IF n > cap THEN cap ELSE n

\* Faulty variant: a member without a platform is queued all the same.
ReconciledAll(f, cohort, home, now) ==
  LET stranded == cohort \ Queued(f)
      Keyed(p) == Key(home[p], BUCKET_PRIORITY, now)
  IN  [entries |-> f.entries \cup {Entry(Keyed(p), p, NEVER) : p \in stranded},
       idx |-> Moved(f.idx, [p \in stranded |-> Keyed(p)])]

\* frontier_reconcile: cohort members without an entry come back as never visited, on
\* the platform home gives; those it gives none are left out.
Reconciled(f, cohort, home, now) ==
  LET stranded == cohort \ Queued(f)
      Found(pf) == {p \in stranded : home[p] = pf}
      Keyed(p) == Key(home[p], BUCKET_PRIORITY, now)
      found == UNION {Found(pf) : pf \in Platform}
  IN  [entries |-> f.entries \cup {Entry(Keyed(p), p, NEVER) : p \in found},
       idx |-> Moved(f.idx, [p \in found |-> Keyed(p)])]

\* frontier_backfill_reset: every cohort member in the priority bucket becomes a deep
\* visit that is due now.
BackfillReset(f, cohort, now) ==
  LET old == {e \in f.entries : e.key.bucket = BUCKET_PRIORITY /\ e.pid \in cohort}
      Now(e) == Key(e.key.platform, BUCKET_PRIORITY, now)
  IN  [entries |-> (f.entries \ old) \cup {Entry(Now(e), e.pid, DEEP_VISIT_MS) : e \in old},
       idx |-> Moved(f.idx, [p \in {e.pid : e \in old} |-> [f.idx[p] EXCEPT !.due = now]])]

-----------------------------------------------------------------------------
\* The queue and its index agree: every entry is the one its player's index key names,
\* every key names an entry, so a player has one entry at most.
Indexed(f) ==
  /\ \A e \in f.entries : e.pid \in Queued(f) /\ f.idx[e.pid] = e.key
  /\ \A p \in Queued(f) : \E e \in f.entries : e.pid = p
  /\ \A d, e \in f.entries : d.pid = e.pid => d = e
=============================================================================
