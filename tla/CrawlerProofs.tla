---------------------------- MODULE CrawlerProofs ----------------------------
(***************************************************************************)
(* Proofs about Crawler, for any regions, players, games, leagues and      *)
(* ladders, any page size and thresholds, and any number of restarts.      *)
(*                                                                         *)
(* CrawlerInv is the inductive invariant.  What must hold of the tables in *)
(* memory must hold of those on disk too, since a restart puts them in the *)
(* place of the others: TablesInv states it of either.  The rest ties the  *)
(* place of a region's task to the tables.  BackfillInv, on top of it,     *)
(* follows the marker of a deep visit.                                     *)
(***************************************************************************)
EXTENDS Crawler, FiniteSetTheorems, SequenceTheorems, TLAPS

\* The games of a player are on one platform.  A player who moves keeps the id, and the
\* walk over later games passes over the other platform's.
OnePlatform ==
  \A g, h \in Game : PlayersOf[g] \cap PlayersOf[h] # {} => PlatformOf[g] = PlatformOf[h]

Valid(progress) == {g \in DOMAIN progress : progress[g].valid}

Sampled(t) ==
  /\ OnePlatform => Exact(t.progress)
  /\ t.samples = Cardinality(Valid(t.progress))

TablesInv(t) ==
  /\ CrawlerTables(t)
  /\ Indexed(t.frontier)
  /\ \A pf \in Platform : Behind(pf, t.cursor[pf]) \subseteq t.cohort
  /\ \A g \in DOMAIN t.progress : PlatformOf[g] \in Platform
  /\ Sampled(t)

\* A region stores matches of its own shard only.
TodoIsLocal ==
  \A pf \in Platform : At(pf, "fetch") => \A g \in loop[pf].todo : PlatformOf[g] = pf

\* The page in front of the next cursor is enrolled before the cursor moves.
PageIsEnrolled ==
  \A pf \in Platform : At(pf, "cursor") => Behind(pf, loop[pf].next) \subseteq db.cohort

\* When all regions have ended, the last commit has saved everything.
LastCommitIsWhole ==
  (\A pf \in Platform : At(pf, "off")) /\ restarts < MaxRestarts => disk = db

CrawlerInv ==
  /\ CrawlerTypeOK
  /\ TablesInv(db) /\ TablesInv(disk)
  /\ TodoIsLocal
  /\ PageIsEnrolled
  /\ MembersStayInPlay
  /\ LastCommitIsWhole

-----------------------------------------------------------------------------
(* The queue *)

\* h is f with the entries of the players in DOMAIN keys replaced by one each, which
\* has the key the index then has.
Replaces(f, keys, add, h) ==
  /\ DOMAIN keys \subseteq Player
  /\ \A p \in DOMAIN keys : keys[p] \in FrontierKey
  /\ add \subseteq FrontierEntry
  /\ \A e \in add : e.pid \in DOMAIN keys /\ e.key = keys[e.pid]
  /\ \A p \in DOMAIN keys : \E e \in add : e.pid = p
  /\ \A d, e \in add : d.pid = e.pid => d = e
  /\ h.entries = {e \in f.entries : e.pid \notin DOMAIN keys} \cup add
  /\ h.idx = Moved(f.idx, keys)

\* Then queue and index still agree.
LEMMA MovedKeeps ==
  ASSUME NEW f, FrontierTables(f), Indexed(f), NEW keys, NEW add, NEW h,
         Replaces(f, keys, add, h)
  PROVE  /\ FrontierTables(h) /\ Indexed(h)
         /\ Queued(h) = Queued(f) \cup DOMAIN keys
<1> USE DEF Replaces
<1>1. /\ DOMAIN h.idx = DOMAIN keys \cup DOMAIN f.idx
      /\ \A p \in DOMAIN keys : h.idx[p] = keys[p]
      /\ \A p \in DOMAIN f.idx \ DOMAIN keys : h.idx[p] = f.idx[p]
  BY DEF Moved
<1>2. Queued(h) = Queued(f) \cup DOMAIN keys
  BY <1>1 DEF Queued
<1>3. FrontierTables(h)
  BY <1>1 DEF FrontierTables
<1>4. ASSUME NEW e \in h.entries
      PROVE  e.pid \in Queued(h) /\ h.idx[e.pid] = e.key
  <2>1. CASE e \in add
    BY <1>1, <2>1 DEF Queued
  <2>2. CASE e \in f.entries /\ e.pid \notin DOMAIN keys
    BY <1>1, <2>2 DEF Indexed, Queued
  <2> QED
    BY <1>4, <2>1, <2>2
<1>5. ASSUME NEW p \in Queued(h)
      PROVE  \E e \in h.entries : e.pid = p
  <2>1. CASE p \in DOMAIN keys
    BY <2>1
  <2>2. CASE p \in Queued(f) \ DOMAIN keys
    BY <2>2 DEF Indexed
  <2> QED
    BY <1>2, <1>5, <2>1, <2>2
<1>6. ASSUME NEW d \in h.entries, NEW e \in h.entries, d.pid = e.pid
      PROVE  d = e
  <2>1. CASE d \in add /\ e \in add
    BY <1>6, <2>1
  <2>2. CASE ~(d \in add) /\ ~(e \in add)
    BY <1>6, <2>2 DEF Indexed
  <2>3. CASE d \in add /\ ~(e \in add)
    BY <1>6, <2>3
  <2>4. CASE ~(d \in add) /\ e \in add
    BY <1>6, <2>4
  <2> QED
    BY <2>1, <2>2, <2>3, <2>4
<1> QED
  BY <1>2, <1>3, <1>4, <1>5, <1>6 DEF Indexed

\* frontier_push_batch: every player given is queued then, once.
LEMMA PushBatchKeeps ==
  ASSUME NEW f, FrontierTables(f), Indexed(f), NEW key \in FrontierKey,
         NEW ps, ps \subseteq Player, NEW last_visit \in Nat
  PROVE  /\ FrontierTables(PushBatch(f, key, ps, last_visit))
         /\ Indexed(PushBatch(f, key, ps, last_visit))
         /\ Queued(PushBatch(f, key, ps, last_visit)) = Queued(f) \cup ps
<1> DEFINE new == {p \in ps : p \in Queued(f) => f.idx[p].bucket > key.bucket}
           keys == [p \in new |-> key]
           add == {Entry(key, p, last_visit) : p \in new}
           h == PushBatch(f, key, ps, last_visit)
<1>1. DOMAIN keys = new /\ new \subseteq Player /\ \A p \in new : keys[p] = key
  OBVIOUS
<1>2. EntriesOf(f, new) = {e \in f.entries : e.pid \in new}
  BY DEF EntriesOf, Indexed
<1>3. h.entries = {e \in f.entries : e.pid \notin new} \cup add
  <2>1. h.entries = (f.entries \ EntriesOf(f, new)) \cup add
    BY DEF PushBatch
  <2> QED
    BY <1>2, <2>1
<1>4. h.idx = Moved(f.idx, keys)
  BY DEF PushBatch
<1>5. /\ add \subseteq FrontierEntry
      /\ \A e \in add : e.pid \in new /\ e.key = key
      /\ \A p \in new : \E e \in add : e.pid = p
      /\ \A d, e \in add : d.pid = e.pid => d = e
  <2> HIDE DEF new
  <2>1. \A p \in new : /\ Entry(key, p, last_visit) \in FrontierEntry
                       /\ Entry(key, p, last_visit).pid = p /\ Entry(key, p, last_visit).key = key
    BY <1>1 DEF Entry, FrontierEntry
  <2> QED
    BY <2>1
<1>6. Queued(f) \cup new = Queued(f) \cup ps
  OBVIOUS
<1> HIDE DEF new, keys, add, h
<1>7. Replaces(f, keys, add, h)
  BY <1>1, <1>3, <1>4, <1>5 DEF Replaces
<1>8. FrontierTables(h) /\ Indexed(h) /\ Queued(h) = Queued(f) \cup DOMAIN keys
  BY <1>7, MovedKeeps
<1> QED
  BY <1>1, <1>6, <1>8 DEF h

\* frontier_pop_due takes one player out.
LEMMA PoppedKeeps ==
  ASSUME NEW f, FrontierTables(f), Indexed(f), NEW e \in f.entries
  PROVE  /\ FrontierTables(Popped(f, e)) /\ Indexed(Popped(f, e))
         /\ Queued(Popped(f, e)) = Queued(f) \ {e.pid}
<1> DEFINE h == Popped(f, e)
<1>1. /\ h.entries = f.entries \ {e}
      /\ DOMAIN h.idx = Queued(f) \ {e.pid}
      /\ \A p \in Queued(f) \ {e.pid} : h.idx[p] = f.idx[p]
  BY DEF Popped
<1> HIDE DEF h
<1>2. \A d \in h.entries : d \in f.entries /\ d.pid # e.pid
  BY <1>1 DEF Indexed
<1>3. FrontierTables(h)
  BY <1>1 DEF FrontierTables, Queued
<1>4. \A d \in h.entries : d.pid \in Queued(h) /\ h.idx[d.pid] = d.key
  BY <1>1, <1>2 DEF Indexed, Queued
<1>5. \A p \in Queued(h) : \E d \in h.entries : d.pid = p
  BY <1>1 DEF Indexed, Queued
<1>6. \A d, c \in h.entries : d.pid = c.pid => d = c
  BY <1>1 DEF Indexed
<1> QED
  BY <1>1, <1>3, <1>4, <1>5, <1>6 DEF h, Indexed, Queued

\* frontier_reconcile: the members for whom a platform is found are queued then.
LEMMA ReconciledKeeps ==
  ASSUME NEW f, FrontierTables(f), Indexed(f), NEW cohort, cohort \subseteq Player,
         NEW home, NEW t \in Nat
  PROVE  /\ FrontierTables(Reconciled(f, cohort, home, t))
         /\ Indexed(Reconciled(f, cohort, home, t))
         /\ Queued(Reconciled(f, cohort, home, t)) =
              Queued(f) \cup {p \in cohort : home[p] \in Platform}
<1> DEFINE stranded == cohort \ Queued(f)
           Found(pf) == {p \in stranded : home[p] = pf}
           found == UNION {Found(pf) : pf \in Platform}
           Keyed(p) == Key(home[p], BUCKET_PRIORITY, t)
           keys == [p \in found |-> Keyed(p)]
           add == {Entry(Keyed(p), p, NEVER) : p \in found}
           h == Reconciled(f, cohort, home, t)
<1>1. h.entries = f.entries \cup add /\ h.idx = Moved(f.idx, keys)
  BY DEF Reconciled
<1>2. found = {p \in stranded : home[p] \in Platform}
  OBVIOUS
<1>3. found \subseteq Player /\ DOMAIN keys = found
  BY <1>2
<1>4. \A p \in found : Keyed(p) \in FrontierKey
  BY <1>2 DEF Key, FrontierKey, Bucket
<1>5. \A e \in f.entries : e.pid \notin found
  BY <1>2 DEF Indexed
<1>6. /\ \A p \in DOMAIN keys : keys[p] = Keyed(p)
      /\ \A e \in add : e.pid \in DOMAIN keys /\ e.key = keys[e.pid]
      /\ \A p \in DOMAIN keys : \E e \in add : e.pid = p
      /\ \A d, e \in add : d.pid = e.pid => d = e
  <2> HIDE DEF found, Keyed
  <2>1. \A p \in found : /\ Entry(Keyed(p), p, NEVER).pid = p
                         /\ Entry(Keyed(p), p, NEVER).key = Keyed(p)
    BY DEF Entry
  <2>2. DOMAIN keys = found /\ \A p \in found : keys[p] = Keyed(p)
    OBVIOUS
  <2> HIDE DEF keys
  <2>3. /\ \A e \in add : e.pid \in found /\ e.key = Keyed(e.pid)
        /\ \A p \in found : \E e \in add : e.pid = p
        /\ \A d, e \in add : d.pid = e.pid => d = e
    BY <2>1
  <2> QED
    BY <2>2, <2>3
<1>7. add \subseteq FrontierEntry
  <2>1. NEVER \in Nat
    BY DEF NEVER
  <2> HIDE DEF Keyed, found
  <2> QED
    BY <1>3, <1>4, <2>1 DEF Entry, FrontierEntry
<1>8. {p \in cohort : home[p] \in Platform} \cup Queued(f) = found \cup Queued(f)
  BY <1>2
<1> HIDE DEF found, keys, add, h, Keyed, stranded
<1>9. h.entries = {e \in f.entries : e.pid \notin DOMAIN keys} \cup add
  BY <1>1, <1>3, <1>5
<1>10. \A p \in DOMAIN keys : keys[p] \in FrontierKey
  BY <1>3, <1>4, <1>6
<1>11. Replaces(f, keys, add, h)
  BY <1>1, <1>3, <1>6, <1>7, <1>9, <1>10 DEF Replaces
<1>12. FrontierTables(h) /\ Indexed(h) /\ Queued(h) = Queued(f) \cup DOMAIN keys
  BY <1>11, MovedKeeps
<1> QED
  BY <1>3, <1>8, <1>12 DEF h

\* frontier_backfill_reset changes entries and leaves the same players queued.
LEMMA BackfillKeeps ==
  ASSUME NEW f, FrontierTables(f), Indexed(f), NEW cohort, NEW t \in Nat
  PROVE  /\ FrontierTables(BackfillReset(f, cohort, t))
         /\ Indexed(BackfillReset(f, cohort, t))
         /\ Queued(BackfillReset(f, cohort, t)) = Queued(f)
<1> DEFINE old == {e \in f.entries : e.key.bucket = BUCKET_PRIORITY /\ e.pid \in cohort}
           ps == {e.pid : e \in old}
           Now(e) == Key(e.key.platform, BUCKET_PRIORITY, t)
           keys == [p \in ps |-> [f.idx[p] EXCEPT !.due = t]]
           add == {Entry(Now(e), e.pid, DEEP_VISIT_MS) : e \in old}
           h == BackfillReset(f, cohort, t)
<1>1. h.entries = (f.entries \ old) \cup add /\ h.idx = Moved(f.idx, keys)
  BY DEF BackfillReset
<1>2. \A e \in old : e \in FrontierEntry /\ e.key \in FrontierKey /\ e.key.bucket = BUCKET_PRIORITY
  BY DEF FrontierTables, FrontierEntry
<1>3. \A e \in old : e.pid \in Queued(f) /\ f.idx[e.pid] = e.key
  BY DEF Indexed
<1>4. \A e \in old : Now(e) \in FrontierKey /\ [e.key EXCEPT !.due = t] = Now(e)
  BY <1>2 DEF FrontierKey, Key
<1>5. ps \subseteq Player /\ ps \subseteq Queued(f) /\ DOMAIN keys = ps
  BY <1>2, <1>3 DEF FrontierEntry
<1>6. \A e \in old : keys[e.pid] = Now(e)
  BY <1>3, <1>4
<1>7. old = {e \in f.entries : e.pid \in ps}
  BY DEF Indexed
<1>8. \A p \in ps : \E e \in old : e.pid = p
  OBVIOUS
<1>9. \A d, e \in old : d.pid = e.pid => d = e
  BY DEF Indexed
<1> HIDE DEF old, ps, Now, keys, h
<1>10. \A p \in DOMAIN keys : keys[p] \in FrontierKey
  BY <1>4, <1>5, <1>6, <1>8
<1>11. add \subseteq FrontierEntry
  <2>1. DEEP_VISIT_MS \in Nat
    BY DEF DEEP_VISIT_MS
  <2>2. \A e \in old : e.pid \in Player
    BY <1>2 DEF FrontierEntry
  <2> QED
    BY <1>4, <2>1, <2>2 DEF Entry, FrontierEntry
<1>12. /\ \A e \in add : e.pid \in DOMAIN keys /\ e.key = keys[e.pid]
       /\ \A p \in DOMAIN keys : \E e \in add : e.pid = p
       /\ \A d, e \in add : d.pid = e.pid => d = e
  <2>1. \A e \in old : Entry(Now(e), e.pid, DEEP_VISIT_MS).pid = e.pid
                       /\ Entry(Now(e), e.pid, DEEP_VISIT_MS).key = Now(e)
    BY DEF Entry
  <2>2. \A e \in old : e.pid \in ps
    BY DEF ps
  <2>3. ASSUME NEW c \in add, NEW d \in add, c.pid = d.pid
        PROVE  c = d
    <3>1. PICK x \in old : c = Entry(Now(x), x.pid, DEEP_VISIT_MS)
      OBVIOUS
    <3>2. PICK y \in old : d = Entry(Now(y), y.pid, DEEP_VISIT_MS)
      OBVIOUS
    <3>3. x = y
      BY <1>9, <2>1, <2>3, <3>1, <3>2
    <3> QED
      BY <3>1, <3>2, <3>3
  <2> QED
    BY <1>5, <1>6, <1>8, <2>1, <2>2, <2>3
<1> HIDE DEF add
<1>13. h.entries = {e \in f.entries : e.pid \notin DOMAIN keys} \cup add
  BY <1>1, <1>5, <1>7
<1>14. Replaces(f, keys, add, h)
  BY <1>1, <1>5, <1>10, <1>11, <1>12, <1>13 DEF Replaces
<1>15. FrontierTables(h) /\ Indexed(h) /\ Queued(h) = Queued(f) \cup DOMAIN keys
  BY <1>14, MovedKeeps
<1> QED
  BY <1>5, <1>15 DEF h

-----------------------------------------------------------------------------
(* Sample accounting *)

ProgressTable(progress) ==
  /\ DOMAIN progress \subseteq Game
  /\ \A g \in DOMAIN progress : progress[g] \in Row(g)

\* The stored games of p before g.
EarlierThan(progress, g, p) == {h \in DOMAIN progress : h < g /\ p \in PlayersOf[h]}

LEMMA SetsOfGames ==
  /\ IsFiniteSet(Game)
  /\ \A S : S \subseteq Game => IsFiniteSet(S) /\ Cardinality(S) \in Nat
<1>1. IsFiniteSet(Game)
  BY CrawlerAssumption, FS_Interval DEF Game
<1> QED
  BY <1>1, FS_Subset, FS_CardinalityType

\* store_match of a match that is not stored yet: its own row, and those of later games,
\* which only grow.
LEMMA RowsAfter ==
  ASSUME NEW progress, ProgressTable(progress), NEW g \in Game, g \notin DOMAIN progress
  PROVE  LET after == WithMatch(progress, g)
         IN  /\ DOMAIN after = DOMAIN progress \cup {g}
             /\ ProgressTable(after)
             /\ \A p \in PlayersOf[g] :
                  after[g].counts[p] = Capped(Cardinality(EarlierThan(progress, g, p)))
             /\ \A h \in DOMAIN progress : \A p \in PlayersOf[h] :
                  after[h].counts[p] =
                    progress[h].counts[p] + IF Credit(progress, g, h, p) THEN 1 ELSE 0
             /\ after[g].valid <=> Full(after[g].counts)
             /\ \A h \in DOMAIN progress :
                  after[h].valid <=> progress[h].valid \/ Full(after[h].counts)
<1> DEFINE after == WithMatch(progress, g)
           first == [p \in PlayersOf[g] |-> Capped(Cardinality(EarlierThan(progress, g, p)))]
           Later(h) == [p \in DOMAIN progress[h].counts |->
                          progress[h].counts[p] + IF Credit(progress, g, h, p) THEN 1 ELSE 0]
           FullFirst == FALSE \/ Full(first)
           FullLater(h) == progress[h].valid \/ Full(Later(h))
<1>1. \A p : {k \in Timeline(progress, p) : k < g} = EarlierThan(progress, g, p)
  BY DEF Timeline, EarlierThan
<1>2. after = [h \in DOMAIN progress \cup {g} |->
                 IF h = g THEN [counts |-> first, valid |-> FullFirst]
                 ELSE [counts |-> Later(h), valid |-> FullLater(h)]]
  BY <1>1 DEF WithMatch
<1>3. first \in [PlayersOf[g] -> Nat]
  <2>1. \A p \in PlayersOf[g] : Cardinality(EarlierThan(progress, g, p)) \in Nat
    <3>1. \A p : EarlierThan(progress, g, p) \subseteq Game
      BY DEF EarlierThan, ProgressTable
    <3> QED
      BY <3>1, SetsOfGames
  <2>2. \A n \in Nat : Capped(n) \in Nat
    BY CrawlerAssumption DEF Capped
  <2> QED
    BY <2>1, <2>2
<1>4. ASSUME NEW h \in DOMAIN progress
      PROVE  /\ Later(h) \in [PlayersOf[h] -> Nat]
             /\ DOMAIN progress[h].counts = PlayersOf[h]
  <2>1. progress[h].counts \in [PlayersOf[h] -> Nat]
    BY DEF ProgressTable, Row
  <2> QED
    BY <2>1
<1> HIDE DEF first, Later
<1>5. FullFirst \in BOOLEAN /\ \A h : FullLater(h) \in BOOLEAN
  OBVIOUS
<1> HIDE DEF FullFirst, FullLater
<1>6. /\ DOMAIN after = DOMAIN progress \cup {g}
      /\ after[g] = [counts |-> first, valid |-> FullFirst]
      /\ \A h \in DOMAIN progress : after[h] = [counts |-> Later(h), valid |-> FullLater(h)]
  BY <1>2, Zenon
<1> HIDE DEF after
<1>7. ProgressTable(after)
  <2>1. after[g] \in Row(g)
    BY <1>3, <1>5, <1>6 DEF Row
  <2>2. \A h \in DOMAIN progress : after[h] \in Row(h)
    BY <1>4, <1>5, <1>6 DEF Row
  <2> QED
    BY <1>6, <2>1, <2>2 DEF ProgressTable
<1>8. \A p \in PlayersOf[g] :
        after[g].counts[p] = Capped(Cardinality(EarlierThan(progress, g, p)))
  BY <1>6 DEF first
<1>9. \A h \in DOMAIN progress : \A p \in PlayersOf[h] :
        after[h].counts[p] = progress[h].counts[p] + IF Credit(progress, g, h, p) THEN 1 ELSE 0
  BY <1>4, <1>6 DEF Later
<1>10. /\ after[g].counts = first /\ after[g].valid = FullFirst
       /\ \A h \in DOMAIN progress : after[h].counts = Later(h) /\ after[h].valid = FullLater(h)
  BY <1>6
<1>11. /\ after[g].valid <=> Full(after[g].counts)
       /\ \A h \in DOMAIN progress : after[h].valid <=> progress[h].valid \/ Full(after[h].counts)
  BY <1>10, Zenon DEF FullFirst, FullLater
<1> QED
  BY <1>6, <1>7, <1>8, <1>9, <1>11 DEF after

\* The retroactive walk stops at the first later game that is at the cap.  Counts are
\* monotone in game time, so it reaches exactly the games below the cap.
LEMMA ExactAfter ==
  ASSUME NEW progress, ProgressTable(progress), OnePlatform, Exact(progress),
         NEW g \in Game, g \notin DOMAIN progress,
         NEW h \in DOMAIN progress, NEW p \in PlayersOf[h]
  PROVE  WithMatch(progress, g)[h].counts[p] =
           Capped(Cardinality(EarlierThan(WithMatch(progress, g), h, p)))
<1> DEFINE after == WithMatch(progress, g)
           E(k) == EarlierThan(progress, k, p)
           n == Cardinality(E(h))
           H == HISTORY_REQUIRED
<1>1. /\ DOMAIN after = DOMAIN progress \cup {g}
      /\ after[h].counts[p] = progress[h].counts[p] + IF Credit(progress, g, h, p) THEN 1 ELSE 0
  <2>1. /\ DOMAIN after = DOMAIN progress \cup {g}
        /\ \A k \in DOMAIN progress : \A q \in PlayersOf[k] :
             after[k].counts[q] = progress[k].counts[q] + IF Credit(progress, g, k, q) THEN 1 ELSE 0
    BY RowsAfter
  <2> HIDE DEF after
  <2> QED
    BY <2>1
<1>2. /\ DOMAIN progress \subseteq Nat /\ g \in Nat /\ h \in Nat /\ h # g /\ h \in Game
      /\ DOMAIN progress \subseteq Game
  BY DEF ProgressTable, Game
<1>3. \A k \in DOMAIN progress : p \in PlayersOf[k] => progress[k].counts[p] = Capped(Cardinality(E(k)))
  BY DEF Exact, EarlierThan
<1>4. \A k : E(k) \subseteq Game /\ IsFiniteSet(E(k)) /\ Cardinality(E(k)) \in Nat
  <2>1. \A k : E(k) \subseteq Game
    BY <1>2 DEF EarlierThan
  <2> QED
    BY <2>1, SetsOfGames
<1>5. H \in Nat /\ H > 0
  BY CrawlerAssumption
<1>6. /\ \A a \in Nat : Capped(a) \in Nat
      /\ \A a, b \in Nat : a <= b /\ Capped(b) < H => Capped(a) < H
  BY <1>5 DEF Capped
<1>7. \A a \in Nat : Capped(a + 1) = Capped(a) + IF Capped(a) < H THEN 1 ELSE 0
  BY <1>5 DEF Capped
<1>8. CASE p \in PlayersOf[g] /\ g < h
  <2>1. EarlierThan(after, h, p) = E(h) \cup {g} /\ g \notin E(h)
    BY <1>1, <1>8 DEF EarlierThan
  <2>2. Cardinality(EarlierThan(after, h, p)) = n + 1
    BY <1>4, <2>1, FS_AddElement
  <2>3. PlatformOf[h] = PlatformOf[g]
    BY <1>2, <1>8 DEF OnePlatform
  <2>4. h \in Between(progress, p, g, h)
    BY <1>2, <1>8, <2>3 DEF Between, Timeline
  <2>5. ASSUME NEW k \in Between(progress, p, g, h)
        PROVE  Capped(n) < H => progress[k].counts[p] < H
    <3>1. k \in DOMAIN progress /\ p \in PlayersOf[k] /\ k <= h
      BY <2>5 DEF Between, Timeline
    <3>2. E(k) \subseteq E(h)
      BY <1>2, <3>1 DEF EarlierThan
    <3>3. Cardinality(E(k)) <= n
      BY <1>4, <3>2, FS_Subset
    <3> DEFINE m == Cardinality(E(k))
    <3>4. n \in Nat /\ m \in Nat
      BY <1>4
    <3>5. progress[k].counts[p] = Capped(m)
      BY <1>3, <3>1
    <3>6. m <= n
      BY <3>3
    <3> HIDE DEF E, n, m, H
    <3> QED
      BY <1>6, <3>4, <3>5, <3>6
  <2>6. progress[h].counts[p] = Capped(n)
    BY <1>3
  <2>7. Credit(progress, g, h, p) <=> Capped(n) < H
    <3> HIDE DEF n
    <3> QED
      BY <1>8, <2>4, <2>5, <2>6 DEF Credit
  <2>8. n \in Nat
    BY <1>4
  <2> HIDE DEF n, H, after
  <2>9. Capped(n + 1) = Capped(n) + IF Capped(n) < H THEN 1 ELSE 0
    BY <1>7, <2>8
  <2> QED
    BY <1>1, <2>2, <2>6, <2>7, <2>9 DEF after
<1>9. CASE ~(p \in PlayersOf[g] /\ g < h)
  <2>1. EarlierThan(after, h, p) = E(h)
    BY <1>1, <1>9 DEF EarlierThan
  <2>2. ~Credit(progress, g, h, p)
    BY <1>9 DEF Credit, Between
  <2>3. progress[h].counts[p] = Capped(n)
    BY <1>3
  <2>4. n \in Nat
    BY <1>4
  <2> HIDE DEF n, after
  <2>5. after[h].counts[p] = Capped(n)
    BY <1>1, <1>6, <2>2, <2>3, <2>4
  <2> QED
    BY <2>1, <2>5 DEF n, after
<1> QED
  BY <1>8, <1>9

\* store_match keeps counts and samples to the definition, whatever the order in
\* which matches arrive.
LEMMA WithMatchKeeps ==
  ASSUME NEW progress, ProgressTable(progress), NEW g \in Game
  PROVE  /\ ProgressTable(WithMatch(progress, g))
         /\ DOMAIN WithMatch(progress, g) = DOMAIN progress \cup {g}
         /\ OnePlatform /\ Exact(progress) => Exact(WithMatch(progress, g))
         /\ Cardinality(NewlyValid(progress, WithMatch(progress, g))) \in Nat
         /\ Cardinality(Valid(WithMatch(progress, g))) =
              Cardinality(Valid(progress)) + Cardinality(NewlyValid(progress, WithMatch(progress, g)))
<1> DEFINE after == WithMatch(progress, g)
<1>1. CASE g \in DOMAIN progress
  <2>1. after = progress
    BY <1>1 DEF WithMatch
  <2>2. NewlyValid(progress, progress) = {}
    BY DEF NewlyValid
  <2>3. Cardinality({}) = 0
    BY FS_EmptySet
  <2>4. Valid(progress) \subseteq Game
    BY DEF Valid, ProgressTable
  <2>5. Cardinality(Valid(progress)) \in Nat
    BY <2>4, SetsOfGames
  <2>6. DOMAIN progress \cup {g} = DOMAIN progress
    BY <1>1
  <2> QED
    BY <2>1, <2>2, <2>3, <2>5, <2>6
<1>2. CASE g \notin DOMAIN progress
  <2>1. /\ DOMAIN after = DOMAIN progress \cup {g}
        /\ ProgressTable(after)
        /\ \A p \in PlayersOf[g] :
             after[g].counts[p] = Capped(Cardinality(EarlierThan(progress, g, p)))
        /\ \A h \in DOMAIN progress : \A p \in PlayersOf[h] :
             after[h].counts[p] =
               progress[h].counts[p] + IF Credit(progress, g, h, p) THEN 1 ELSE 0
        /\ after[g].valid <=> Full(after[g].counts)
        /\ \A h \in DOMAIN progress : after[h].valid <=> progress[h].valid \/ Full(after[h].counts)
    BY <1>2, RowsAfter
  <2> HIDE DEF after
  <2>2. Valid(after) = Valid(progress) \cup NewlyValid(progress, after)
    BY <2>1 DEF Valid, NewlyValid
  <2>3. Valid(progress) \cap NewlyValid(progress, after) = {}
    BY DEF Valid, NewlyValid
  <2>4. Valid(progress) \subseteq Game /\ NewlyValid(progress, after) \subseteq Game
    BY <2>1 DEF Valid, NewlyValid, ProgressTable
  <2>5. /\ IsFiniteSet(Valid(progress)) /\ Cardinality(Valid(progress)) \in Nat
        /\ IsFiniteSet(NewlyValid(progress, after)) /\ Cardinality(NewlyValid(progress, after)) \in Nat
    BY <2>4, SetsOfGames
  <2>6. Cardinality(Valid(after)) = Cardinality(Valid(progress)) + Cardinality(NewlyValid(progress, after))
    <3> DEFINE A == Valid(progress)
               B == NewlyValid(progress, after)
    <3>1. Cardinality(A \cap B) = 0
      BY <2>3, FS_EmptySet
    <3> HIDE DEF A, B
    <3>2. Cardinality(A \cup B) = Cardinality(A) + Cardinality(B) - Cardinality(A \cap B)
      BY <2>5, FS_Union DEF A, B
    <3>3. Cardinality(A) \in Nat /\ Cardinality(B) \in Nat
      BY <2>5 DEF A, B
    <3>4. Cardinality(A \cup B) = Cardinality(A) + Cardinality(B)
      BY <3>1, <3>2, <3>3
    <3> QED
      BY <2>2, <3>4 DEF A, B
  <2>7. ASSUME OnePlatform, Exact(progress)
        PROVE  Exact(after)
    <3>1. ASSUME NEW h \in DOMAIN after, NEW p \in PlayersOf[h]
          PROVE  after[h].counts[p] = Capped(Cardinality(EarlierThan(after, h, p)))
      <4>1. CASE h = g
        <5>1. EarlierThan(after, g, p) = EarlierThan(progress, g, p)
          BY <2>1 DEF EarlierThan, Game
        <5> QED
          BY <2>1, <3>1, <4>1, <5>1
      <4>2. CASE h \in DOMAIN progress
        BY <1>2, <2>7, <3>1, <4>2, ExactAfter DEF after
      <4> QED
        BY <2>1, <3>1, <4>1, <4>2
    <3>2. ASSUME NEW h \in DOMAIN progress, progress[h].valid
          PROVE  Full(after[h].counts)
      <4>1. /\ progress[h].counts \in [PlayersOf[h] -> Nat]
            /\ after[h].counts \in [PlayersOf[h] -> Nat]
        <5>1. progress[h] \in Row(h) /\ after[h] \in Row(h)
          BY <2>1 DEF ProgressTable
        <5> QED
          BY <5>1 DEF Row
      <4>2. Full(progress[h].counts)
        BY <2>7, <3>2 DEF Exact
      <4>3. HISTORY_REQUIRED \in Nat
        BY CrawlerAssumption
      <4>4. ASSUME NEW p \in PlayersOf[h]
            PROVE  after[h].counts[p] >= HISTORY_REQUIRED
        <5>1. progress[h].counts[p] \in Nat /\ progress[h].counts[p] >= HISTORY_REQUIRED
          BY <4>1, <4>2 DEF Full
        <5>2. \/ after[h].counts[p] = progress[h].counts[p] + 1
              \/ after[h].counts[p] = progress[h].counts[p] + 0
          BY <2>1
        <5> QED
          BY <4>3, <5>1, <5>2
      <4> QED
        BY <4>1, <4>4 DEF Full
    <3>3. \A h \in DOMAIN after : after[h].valid <=> Full(after[h].counts)
      BY <2>1, <3>2
    <3> QED
      BY <3>1, <3>3 DEF Exact, EarlierThan
  <2> QED
    BY <2>1, <2>5, <2>6, <2>7 DEF after
<1> QED
  BY <1>1, <1>2

-----------------------------------------------------------------------------
(* The tables *)

TableNames == {"frontier", "cohort", "outsider", "progress", "samples", "seeded", "cursor"}

\* Where now and the bounds of time are.
LEMMA TimeIsNat == Time \subseteq Nat \ {0, 1}
BY CrawlerAssumption DEF Time, DEEP_VISIT_MS

\* A key in the priority bucket.
LEMMA PriorityKey ==
  ASSUME NEW pf \in Platform, NEW due \in Nat
  PROVE  Key(pf, BUCKET_PRIORITY, due) \in FrontierKey
BY DEF Key, FrontierKey, Bucket

\* A table in which only the queue has changed.
LEMMA FrontierSet ==
  ASSUME NEW t, TablesInv(t), NEW f, FrontierTables(f), Indexed(f),
         NEW u, u = [t EXCEPT !.frontier = f]
  PROVE  TablesInv(u) /\ u.frontier = f /\ u.cohort = t.cohort
<1>1. CrawlerTables(t) /\ DOMAIN t = TableNames
  BY DEF TablesInv, CrawlerTables, TableNames
<1>2. /\ DOMAIN u = TableNames /\ u.frontier = f
      /\ u.cohort = t.cohort /\ u.outsider = t.outsider /\ u.progress = t.progress
      /\ u.samples = t.samples /\ u.seeded = t.seeded /\ u.cursor = t.cursor
  BY <1>1 DEF TableNames
<1>3. CrawlerTables(u)
  BY <1>1, <1>2 DEF CrawlerTables, TableNames
<1> QED
  BY <1>2, <1>3 DEF TablesInv, Sampled

\* One in which players are pushed.
Pushed(t, pf, due, ps, last_visit) ==
  [t EXCEPT !.frontier = PushBatch(@, Key(pf, BUCKET_PRIORITY, due), ps, last_visit)]

LEMMA PlayersPushed ==
  ASSUME NEW t, TablesInv(t), NEW pf \in Platform, NEW due \in Nat, NEW ps, ps \subseteq Player,
         NEW last_visit \in Nat
  PROVE  LET u == Pushed(t, pf, due, ps, last_visit)
         IN  TablesInv(u) /\ u.cohort = t.cohort /\ Queued(u.frontier) = Queued(t.frontier) \cup ps
<1> DEFINE u == Pushed(t, pf, due, ps, last_visit)
           key == Key(pf, BUCKET_PRIORITY, due)
           old == t.frontier
           f == PushBatch(old, key, ps, last_visit)
<1>1. FrontierTables(old) /\ Indexed(old)
  BY DEF TablesInv, CrawlerTables
<1>2. key \in FrontierKey
  BY PriorityKey
<1>3. u = [t EXCEPT !.frontier = f]
  BY DEF Pushed
<1> HIDE DEF key, old, u
<1>4. FrontierTables(f) /\ Indexed(f) /\ Queued(f) = Queued(old) \cup ps
  BY <1>1, <1>2, PushBatchKeeps
<1> HIDE DEF f
<1>5. TablesInv(u) /\ u.frontier = f /\ u.cohort = t.cohort
  BY <1>3, <1>4, FrontierSet
<1> QED
  BY <1>4, <1>5 DEF old, u

\* enroll: every player given is in the cohort and in the queue.
LEMMA EnrolledKeeps ==
  ASSUME TablesInv(db), now \in Time, NEW pf \in Platform, NEW ps, ps \subseteq Player
  PROVE  /\ TablesInv(Enrolled(pf, ps))
         /\ Enrolled(pf, ps).cohort = db.cohort \cup ps
         /\ Queued(Enrolled(pf, ps).frontier) = Queued(db.frontier) \cup ps
<1> DEFINE u == Enrolled(pf, ps)
           f == PushBatch(db.frontier, Key(pf, BUCKET_PRIORITY, now), ps, NEVER)
           out == [p \in Player |-> IF p \in ps THEN 0 ELSE db.outsider[p]]
<1>1. CrawlerTables(db) /\ DOMAIN db = TableNames /\ FrontierTables(db.frontier) /\ Indexed(db.frontier)
  BY DEF TablesInv, CrawlerTables, TableNames
<1>2. FrontierTables(f) /\ Indexed(f) /\ Queued(f) = Queued(db.frontier) \cup ps
  <2> DEFINE key == Key(pf, BUCKET_PRIORITY, now)
             old == db.frontier
  <2>1. now \in Nat /\ NEVER \in Nat
    BY TimeIsNat DEF NEVER
  <2>2. key \in FrontierKey
    BY <2>1, PriorityKey
  <2> HIDE DEF key, old
  <2>3. FrontierTables(old) /\ Indexed(old)
    BY <1>1 DEF old
  <2>4. /\ FrontierTables(PushBatch(old, key, ps, NEVER))
        /\ Indexed(PushBatch(old, key, ps, NEVER))
        /\ Queued(PushBatch(old, key, ps, NEVER)) = Queued(old) \cup ps
    BY <2>1, <2>2, <2>3, PushBatchKeeps
  <2> QED
    BY <2>4 DEF old, key
<1>3. out \in [Player -> Nat]
  BY <1>1 DEF CrawlerTables
<1>4. u = [db EXCEPT !.cohort = db.cohort \cup ps, !.outsider = out, !.frontier = f]
  BY DEF Enrolled
<1> HIDE DEF u, f, out
<1>5. /\ DOMAIN u = TableNames /\ u.frontier = f /\ u.cohort = db.cohort \cup ps /\ u.outsider = out
      /\ u.progress = db.progress /\ u.samples = db.samples /\ u.seeded = db.seeded
      /\ u.cursor = db.cursor
  BY <1>1, <1>4 DEF TableNames
<1>6. CrawlerTables(u)
  BY <1>1, <1>2, <1>3, <1>5 DEF CrawlerTables, TableNames
<1>7. TablesInv(u)
  BY <1>2, <1>5, <1>6 DEF TablesInv, Sampled
<1> QED
  BY <1>2, <1>5, <1>7 DEF u

\* store_match.
LEMMA StoredKeeps ==
  ASSUME TablesInv(db), NEW g \in Game, PlatformOf[g] \in Platform, NEW paused \in BOOLEAN
  PROVE  /\ TablesInv(Stored(g, paused))
         /\ Stored(g, paused).cohort = db.cohort \cup Adopted(g, paused)
         /\ Stored(g, paused).frontier = db.frontier
         /\ Adopted(g, paused) \subseteq Player
<1> DEFINE u == Stored(g, paused)
           progress == WithMatch(db.progress, g)
           joins == Adopted(g, paused)
           sighted == IF g \in DOMAIN db.progress THEN {} ELSE PlayersOf[g] \ db.cohort
           out == [p \in Player |-> CASE p \in joins -> 0
                                      [] p \in sighted \ joins -> db.outsider[p] + 1
                                      [] OTHER -> db.outsider[p]]
           samples == db.samples + Cardinality(NewlyValid(db.progress, progress))
<1>1. CrawlerTables(db) /\ DOMAIN db = TableNames
  BY DEF TablesInv, CrawlerTables, TableNames
<1>2. ProgressTable(db.progress)
  BY <1>1 DEF CrawlerTables, ProgressTable
<1>3. /\ ProgressTable(progress)
      /\ DOMAIN progress = DOMAIN db.progress \cup {g}
      /\ OnePlatform /\ Exact(db.progress) => Exact(progress)
      /\ Cardinality(NewlyValid(db.progress, progress)) \in Nat
      /\ Cardinality(Valid(progress)) =
           Cardinality(Valid(db.progress)) + Cardinality(NewlyValid(db.progress, progress))
  BY <1>2, WithMatchKeeps
<1>4. joins \subseteq Player
  BY CrawlerAssumption DEF Adopted
<1>5. out \in [Player -> Nat]
  <2>1. db.outsider \in [Player -> Nat]
    BY <1>1 DEF CrawlerTables
  <2> HIDE DEF joins, sighted
  <2>2. \A p \in Player : out[p] \in Nat
    BY <2>1
  <2> QED
    BY <2>2
<1>6. u = [db EXCEPT !.progress = progress, !.samples = samples, !.cohort = db.cohort \cup joins,
                     !.outsider = out]
  BY DEF Stored
<1> HIDE DEF u, progress, joins, sighted, out, samples
<1>7. /\ DOMAIN u = TableNames /\ u.frontier = db.frontier /\ u.cohort = db.cohort \cup joins
      /\ u.outsider = out /\ u.progress = progress /\ u.samples = samples /\ u.seeded = db.seeded
      /\ u.cursor = db.cursor
  BY <1>1, <1>6 DEF TableNames
<1>8. samples \in Nat /\ samples = Cardinality(Valid(progress))
  BY <1>1, <1>3 DEF TablesInv, Sampled, samples, CrawlerTables
<1>9. CrawlerTables(u)
  BY <1>1, <1>3, <1>4, <1>5, <1>7, <1>8 DEF CrawlerTables, TableNames, ProgressTable
<1>10. TablesInv(u)
  <2>1. Sampled(u)
    BY <1>3, <1>7, <1>8 DEF TablesInv, Sampled
  <2>2. \A h \in DOMAIN u.progress : PlatformOf[h] \in Platform
    BY <1>3, <1>7 DEF TablesInv
  <2>3. \A pf \in Platform : Behind(pf, u.cursor[pf]) \subseteq u.cohort
    BY <1>7 DEF TablesInv
  <2>4. Indexed(u.frontier)
    BY <1>7 DEF TablesInv
  <2> QED
    BY <1>9, <2>1, <2>2, <2>3, <2>4 DEF TablesInv
<1> QED
  BY <1>4, <1>7, <1>10 DEF u, joins

\* A set of game numbers has a first and a last.
LEMMA FirstAndLast ==
  ASSUME NEW S \in SUBSET Nat, S # {}
  PROVE  /\ \E k \in S : \A l \in S : k <= l
         /\ \A b \in Nat : (\A x \in S : x <= b) => \E k \in S : \A l \in S : l <= k
<1>1. \A T \in SUBSET Nat : T # {} => \E k \in T : \A l \in T : k <= l
  <2> SUFFICES ASSUME NEW T \in SUBSET Nat, T # {}
               PROVE  \E k \in T : \A l \in T : k <= l
    OBVIOUS
  <2>1. PICK x \in T : \A y \in T : ~(<<y, x>> \in OpToRel(<, Nat))
    BY NatLessThanWellFounded, WFMin
  <2>2. \A y \in T : ~(y < x)
    BY <2>1 DEF OpToRel
  <2> QED
    BY <2>2
<1>2. ASSUME NEW b \in Nat, \A x \in S : x <= b
      PROVE  \E k \in S : \A l \in S : l <= k
  <2> DEFINE T == {b - k : k \in S}
  <2>1. \A k \in S : b - k \in Nat
    BY <1>2
  <2>2. T \in SUBSET Nat /\ T # {}
    BY <2>1
  <2>3. PICK x \in T : \A y \in T : x <= y
    <3> HIDE DEF T
    <3> QED
      BY <1>1, <2>2
  <2>4. PICK k \in S : x = b - k
    OBVIOUS
  <2>5. \A l \in S : b - k <= b - l
    BY <2>3, <2>4
  <2> QED
    BY <2>5
<1> QED
  BY <1>1, <1>2

\* A member with a stored match has a home to be put on.
LEMMA HomeIsFound ==
  ASSUME NEW t, TablesInv(t), NEW p, Timeline(t.progress, p) # {}
  PROVE  HomeOf(t, p) \in Platform
<1> DEFINE games == Timeline(t.progress, p)
           last == CHOOSE g \in games : \A h \in games : h <= g
           found == {k \in DOMAIN Regions : \E g \in DOMAIN t.progress :
                       PlatformOf[g] = Regions[k] /\ Num[g] = Num[last]}
           first == CHOOSE k \in found : \A l \in found : k <= l
<1>1. /\ DOMAIN t.progress \subseteq Game /\ games \subseteq DOMAIN t.progress
      /\ \A g \in DOMAIN t.progress : PlatformOf[g] \in Platform
  BY DEF TablesInv, CrawlerTables, Timeline
<1>2. games \in SUBSET Nat /\ games # {} /\ MaxTime \in Nat /\ \A x \in games : x <= MaxTime
  BY <1>1, CrawlerAssumption DEF Game
<1>3. last \in games
  <2> HIDE DEF games
  <2>1. \E k \in games : \A l \in games : l <= k
    BY <1>2, FirstAndLast
  <2> QED
    BY <2>1
<1> HIDE DEF games, last
<1>4. PICK k \in DOMAIN Regions : PlatformOf[last] = Regions[k]
  BY <1>1, <1>3 DEF Platform
<1>5. k \in found
  BY <1>1, <1>3, <1>4
<1>6. found \in SUBSET Nat
  <2>1. DOMAIN Regions = 1 .. Len(Regions) /\ Len(Regions) \in Nat
    BY CrawlerAssumption, LenProperties
  <2> QED
    BY <2>1
<1>7. first \in found
  <2> HIDE DEF found
  <2>1. \E i \in found : \A l \in found : i <= l
    BY <1>5, <1>6, FirstAndLast
  <2> QED
    BY <2>1
<1>8. HomeOf(t, p) = Regions[first]
  BY <1>2, <1>5 DEF HomeOf, games, last
<1> QED
  BY <1>7, <1>8 DEF Platform

\* What a start makes of the tables: nobody leaves the queue, and every member with a
\* stored match is in it.
LEMMA StartedKeeps ==
  ASSUME NEW t, TablesInv(t), now \in Time, NEW backfill \in BOOLEAN
  PROVE  /\ TablesInv(Started(t, backfill))
         /\ Started(t, backfill).cohort = t.cohort
         /\ Started(t, backfill).progress = t.progress
         /\ Queued(t.frontier) \subseteq Queued(Started(t, backfill).frontier)
         /\ \A p \in t.cohort : Timeline(t.progress, p) # {} => p \in Queued(Started(t, backfill).frontier)
<1> DEFINE home == [p \in t.cohort |-> HomeOf(t, p)]
           old == t.frontier
           cohort == t.cohort
           f == Reconciled(old, cohort, home, now)
           h == IF backfill THEN BackfillReset(f, cohort, now) ELSE f
           u == Started(t, backfill)
<1>1. /\ FrontierTables(old) /\ Indexed(old) /\ cohort \subseteq Player /\ now \in Nat
      /\ DOMAIN t = TableNames
  BY TimeIsNat DEF TablesInv, CrawlerTables, TableNames
<1>2. \A p \in cohort : home[p] = HomeOf(t, p)
  OBVIOUS
<1>3. \A p \in cohort : Timeline(t.progress, p) # {} => HomeOf(t, p) \in Platform
  BY HomeIsFound
<1>4. u = [t EXCEPT !.frontier = h]
  BY DEF Started
<1> HIDE DEF home, old, cohort, u
<1>5. /\ FrontierTables(f) /\ Indexed(f)
      /\ Queued(f) = Queued(old) \cup {p \in cohort : home[p] \in Platform}
  BY <1>1, ReconciledKeeps
<1> HIDE DEF f
<1>6. FrontierTables(h) /\ Indexed(h) /\ Queued(h) = Queued(f)
  BY <1>1, <1>5, BackfillKeeps
<1> HIDE DEF h
<1>7. TablesInv(u) /\ u.frontier = h /\ u.cohort = t.cohort
  BY <1>4, <1>6, FrontierSet
<1>8. u.progress = t.progress
  BY <1>1, <1>4 DEF TableNames
<1> QED
  BY <1>2, <1>3, <1>5, <1>6, <1>7, <1>8 DEF u, old, cohort

-----------------------------------------------------------------------------
(* The steps of a region *)

\* The players queued in t or visited at place.
InPlay(t, place) ==
  Queued(t.frontier) \cup IF place.at \in {"visit", "fetch"} THEN {place.pid} ELSE {}

\* What a step of the task of pf to place must do.
TaskStep(pf, place) ==
  /\ loop' = [loop EXCEPT ![pf] = place]
  /\ place \in Place
  /\ place.at = "fetch" => \A g \in place.todo : PlatformOf[g] = pf
  /\ place.at = "cursor" => Behind(pf, place.next) \subseteq db'.cohort
  /\ place.at = "off" /\ restarts < MaxRestarts => disk' = db'
  /\ TablesInv(db') /\ TablesInv(disk')
  /\ db.cohort \subseteq db'.cohort
  /\ db'.cohort \subseteq db.cohort \cup InPlay(db', place) \cup left'
  /\ Queued(db.frontier) \cap db.cohort \subseteq InPlay(db', place)
  /\ loop[pf].at \in {"visit", "fetch"} => loop[pf].pid \in InPlay(db', place)
  /\ seen' \subseteq Game /\ bitmap' \subseteq Game
  /\ braked' \in [Platform -> BOOLEAN]
  /\ left \subseteq left'
  /\ UNCHANGED <<stop, now, restarts>>

LEMMA TaskStepKeeps ==
  ASSUME CrawlerInv, NEW pf \in Platform, NEW place, TaskStep(pf, place)
  PROVE  CrawlerInv'
<1> USE DEF TaskStep
<1>1. loop \in [Platform -> Place] /\ loop' \in [Platform -> Place]
  BY DEF CrawlerInv, CrawlerTypeOK
<1>2. loop'[pf] = place /\ \A q \in Platform : q # pf => loop'[q] = loop[q]
  BY <1>1
<1>3. CrawlerTypeOK'
  <2>1. CrawlerTables(db') /\ CrawlerTables(disk')
    BY DEF TablesInv
  <2> QED
    BY <1>1, <2>1 DEF CrawlerInv, CrawlerTypeOK
<1>4. TodoIsLocal'
  BY <1>2 DEF CrawlerInv, TodoIsLocal, At
<1>5. PageIsEnrolled'
  BY <1>2 DEF CrawlerInv, PageIsEnrolled, At
<1>6. LastCommitIsWhole'
  BY <1>2 DEF LastCommitIsWhole, At
<1>7. MembersStayInPlay'
  <2>1. \A p \in InPlay(db', place) : p \in Queued(db'.frontier) \cup Visiting'
    BY <1>2 DEF InPlay, Visiting
  <2>2. \A p \in Visiting : p \in Visiting' \/ (loop[pf].at \in {"visit", "fetch"} /\ p = loop[pf].pid)
    BY <1>2 DEF Visiting
  <2>3. ASSUME NEW p \in db'.cohort
        PROVE  p \in Queued(db'.frontier) \cup Visiting' \cup left'
    <3>1. CASE p \in InPlay(db', place) \cup left'
      BY <2>1, <3>1
    <3>2. CASE p \in db.cohort
      <4>1. p \in Queued(db.frontier) \cup Visiting \cup left
        BY <3>2 DEF CrawlerInv, MembersStayInPlay
      <4> QED
        BY <2>1, <2>2, <3>2, <4>1
    <3> QED
      BY <2>3, <3>1, <3>2
  <2> QED
    BY <2>3 DEF MembersStayInPlay
<1> QED
  BY <1>3, <1>4, <1>5, <1>6, <1>7 DEF CrawlerInv

\* Places without locals, and the top of the loop.
LEMMA GotoPlace ==
  ASSUME NEW where \in {"pop", "expand", "end", "stop", "off"}
  PROVE  Goto(where) \in Place /\ Goto(where).at = where
BY DEF Goto, Place, OtherPlace

LEMMA NextPlace ==
  ASSUME now \in Time, NEW t, NEW pf, NEW stopped \in BOOLEAN
  PROVE  /\ NextIteration(t, pf, stopped) \in Place
         /\ NextIteration(t, pf, stopped).at \in {"stop", "pop", "seed"}
<1>1. Seeding \in Place /\ Seeding.at = "seed"
  BY DEF Seeding, Place, SeedPlace
<1>2. NextIteration(t, pf, stopped) \in {Goto("stop"), Goto("pop"), Seeding}
  BY DEF NextIteration
<1> QED
  BY <1>1, <1>2, GotoPlace

\* What the task of pf has at each place.
LEMMA PlaceAt ==
  ASSUME CrawlerInv, NEW pf \in Platform
  PROVE  /\ At(pf, "seed") => loop[pf] \in SeedPlace
         /\ At(pf, "visit") => loop[pf] \in VisitPlace
         /\ At(pf, "fetch") => loop[pf] \in FetchPlace
         /\ At(pf, "cursor") => loop[pf] \in CursorPlace
<1>1. loop[pf] \in Place
  BY DEF CrawlerInv, CrawlerTypeOK
<1> QED
  BY <1>1 DEF At, Place, SeedPlace, VisitPlace, FetchPlace, CursorPlace, OtherPlace

LEMMA BrakeTyped ==
  ASSUME CrawlerInv, NEW pf \in Platform, UpdateBrake(pf)
  PROVE  braked' \in [Platform -> BOOLEAN]
<1> DEFINE overdue == OverdueCount(db.frontier, pf, now, BRAKE_OVERDUE_GRACE, 2 * BRAKE_ON_COUNT)
           some == overdue > BRAKE_OFF_COUNT
           many == overdue >= BRAKE_ON_COUNT
<1>1. BrakeAfter(pf) = IF braked[pf] THEN some ELSE many
  BY DEF BrakeAfter
<1> HIDE DEF overdue
<1>2. some \in BOOLEAN /\ many \in BOOLEAN
  OBVIOUS
<1> HIDE DEF some, many
<1>3. BrakeAfter(pf) \in BOOLEAN
  BY <1>1, <1>2, Zenon
<1> QED
  BY <1>3 DEF UpdateBrake, CrawlerInv, CrawlerTypeOK

LEMMA SeedLeagueKeeps ==
  ASSUME CrawlerInv, NEW pf \in Platform, SeedLeague(pf)
  PROVE  CrawlerInv'
<1> DEFINE i == loop[pf].league
<1>1. /\ TablesInv(db) /\ TablesInv(disk) /\ now \in Time /\ seen \subseteq Game /\ bitmap \subseteq Game
      /\ At(pf, "seed") /\ loop[pf] \in SeedPlace /\ i \in Nat \ {0}
  BY PlaceAt DEF CrawlerInv, CrawlerTypeOK, SeedLeague, SeedPlace
<1>2. /\ braked' \in [Platform -> BOOLEAN]
      /\ UNCHANGED <<disk, seen, bitmap, stop, now, restarts, left>>
      /\ i <= Len(Apex[pf])
  BY BrakeTyped DEF SeedLeague, history
<1>3. \A n \in Nat \ {0} : /\ [loop[pf] EXCEPT !.league = n] \in Place
                           /\ [loop[pf] EXCEPT !.league = n].at = "seed"
  BY <1>1 DEF Place, SeedPlace
<1>4. Apex[pf] \in Seq(SUBSET Player) /\ Len(Apex[pf]) \in Nat /\ Apex[pf][i] \subseteq Player
  <2>1. Apex[pf] \in Seq(SUBSET Player)
    BY CrawlerAssumption
  <2> QED
    BY <1>1, <1>2, <2>1, LenProperties
<1>5. CASE braked'[pf] /\ i > 1
  <2> DEFINE place == [loop[pf] EXCEPT !.league = Len(Apex[pf]) + 1]
  <2>1. db' = db /\ loop' = [loop EXCEPT ![pf] = place]
    BY <1>5 DEF SeedLeague, Move
  <2>2. place \in Place /\ place.at = "seed"
    <3>1. Len(Apex[pf]) + 1 \in Nat \ {0}
      BY <1>4
    <3> QED
      BY <1>3, <3>1
  <2> HIDE DEF place
  <2>3. TaskStep(pf, place)
    BY <1>1, <1>2, <2>1, <2>2 DEF TaskStep, InPlay, At
  <2> QED
    BY <2>3, TaskStepKeeps
<1>6. CASE ~(braked'[pf] /\ i > 1) /\ db' = Enrolled(pf, Apex[pf][i])
           /\ Move(pf, [loop[pf] EXCEPT !.league = i + 1])
  <2> DEFINE place == [loop[pf] EXCEPT !.league = i + 1]
  <2>1. loop' = [loop EXCEPT ![pf] = place]
    BY <1>6 DEF Move
  <2>2. /\ TablesInv(db') /\ db'.cohort = db.cohort \cup Apex[pf][i]
        /\ Queued(db'.frontier) = Queued(db.frontier) \cup Apex[pf][i]
    BY <1>1, <1>4, <1>6, EnrolledKeeps
  <2>3. place \in Place /\ place.at = "seed"
    BY <1>1, <1>3
  <2> HIDE DEF place
  <2>4. TaskStep(pf, place)
    BY <1>1, <1>2, <2>1, <2>2, <2>3 DEF TaskStep, InPlay, At
  <2> QED
    BY <2>4, TaskStepKeeps
<1>7. CASE db' = db /\ Move(pf, NextIteration(db, pf, FALSE))
  <2> DEFINE place == NextIteration(db, pf, FALSE)
  <2>1. loop' = [loop EXCEPT ![pf] = place]
    BY <1>7 DEF Move
  <2>2. place \in Place /\ place.at \in {"stop", "pop", "seed"}
    BY <1>1, NextPlace
  <2> HIDE DEF place
  <2>3. TaskStep(pf, place)
    BY <1>1, <1>2, <1>7, <2>1, <2>2 DEF TaskStep, InPlay, At
  <2> QED
    BY <2>3, TaskStepKeeps
<1> QED
  BY <1>5, <1>6, <1>7 DEF SeedLeague

\* What the steps below use of the invariant.
LEMMA Facts ==
  ASSUME CrawlerInv
  PROVE  /\ TablesInv(db) /\ TablesInv(disk) /\ CrawlerTables(db) /\ DOMAIN db = TableNames
         /\ now \in Time /\ now \in Nat
         /\ seen \subseteq Game /\ bitmap \subseteq Game
         /\ stop \in BOOLEAN /\ braked \in [Platform -> BOOLEAN]
         /\ loop \in [Platform -> Place]
<1>1. /\ TablesInv(db) /\ TablesInv(disk) /\ CrawlerTables(db) /\ now \in Time
      /\ seen \subseteq Game /\ bitmap \subseteq Game
      /\ stop \in BOOLEAN /\ braked \in [Platform -> BOOLEAN]
      /\ loop \in [Platform -> Place]
  BY DEF CrawlerInv, CrawlerTypeOK
<1>2. now \in Nat
  BY <1>1, TimeIsNat
<1>3. DOMAIN db = TableNames
  BY <1>1 DEF CrawlerTables, TableNames
<1> QED
  BY <1>1, <1>2, <1>3

LEMMA SeedDoneKeeps ==
  ASSUME CrawlerInv, NEW pf \in Platform, SeedDone(pf)
  PROVE  CrawlerInv'
<1>1. /\ TablesInv(db) /\ TablesInv(disk) /\ CrawlerTables(db) /\ DOMAIN db = TableNames
      /\ seen \subseteq Game /\ bitmap \subseteq Game /\ braked \in [Platform -> BOOLEAN]
  BY Facts
<1>2. At(pf, "seed") /\ UNCHANGED <<disk, seen, bitmap, braked, stop, now, restarts, left>>
  BY DEF SeedDone, bounds, history
<1>3. loop[pf].since \in Time
  BY <1>2, PlaceAt DEF SeedPlace
<1>4. /\ TablesInv(db') /\ db'.cohort = db.cohort /\ db'.frontier = db.frontier
  <2>1. CASE db' = db
    BY <1>1, <2>1
  <2>2. CASE db' = [db EXCEPT !.seeded[pf] = loop[pf].since]
    <3> DEFINE seeded == [db.seeded EXCEPT ![pf] = loop[pf].since]
    <3>1. db' = [db EXCEPT !.seeded = seeded]
      BY <2>2
    <3>2. seeded \in [Platform -> Time \cup {None}]
      BY <1>1, <1>3 DEF CrawlerTables
    <3> HIDE DEF seeded
    <3>3. /\ DOMAIN db' = TableNames /\ db'.seeded = seeded /\ db'.cursor = db.cursor
          /\ db'.cohort = db.cohort /\ db'.frontier = db.frontier /\ db'.progress = db.progress
          /\ db'.samples = db.samples /\ db'.outsider = db.outsider
      BY <1>1, <3>1 DEF TableNames
    <3>4. CrawlerTables(db')
      BY <1>1, <3>2, <3>3 DEF CrawlerTables, TableNames
    <3> QED
      BY <1>1, <3>3, <3>4 DEF TablesInv, Sampled
  <2> QED
    BY <2>1, <2>2 DEF SeedDone
<1>5. PICK place \in {Goto("pop"), Goto("stop")} : loop' = [loop EXCEPT ![pf] = place]
  BY DEF SeedDone, Move
<1>6. place \in Place /\ place.at \in {"pop", "stop"}
  BY <1>5, GotoPlace
<1>7. TaskStep(pf, place)
  BY <1>1, <1>2, <1>4, <1>5, <1>6 DEF TaskStep, InPlay, At
<1> QED
  BY <1>7, TaskStepKeeps

\* A member that is popped is visited next; others leave the queue.
LEMMA PopKeeps ==
  ASSUME CrawlerInv, NEW pf \in Platform, Pop(pf)
  PROVE  CrawlerInv'
<1>1. /\ TablesInv(db) /\ TablesInv(disk) /\ CrawlerTables(db) /\ now \in Time /\ stop \in BOOLEAN
      /\ seen \subseteq Game /\ bitmap \subseteq Game /\ braked \in [Platform -> BOOLEAN]
  BY Facts
<1>2. At(pf, "pop") /\ UNCHANGED <<disk, seen, bitmap, braked, stop, now, restarts, left>>
  BY DEF Pop, bounds, history
<1>3. CASE db' = db /\ Move(pf, Goto("expand"))
  <2>1. loop' = [loop EXCEPT ![pf] = Goto("expand")]
    BY <1>3 DEF Move
  <2>2. Goto("expand") \in Place /\ Goto("expand").at = "expand"
    BY GotoPlace
  <2>3. TaskStep(pf, Goto("expand"))
    BY <1>1, <1>2, <1>3, <2>1, <2>2 DEF TaskStep, InPlay, At
  <2> QED
    BY <2>3, TaskStepKeeps
<1>4. ASSUME NEW e \in Poppable(db.frontier, pf, now),
             db' = [db EXCEPT !.frontier = Popped(db.frontier, e)],
             Move(pf, IF e.pid \in db.cohort
                      THEN [at |-> "visit", pid |-> e.pid, last_visit |-> e.last_visit]
                      ELSE NextIteration(db, pf, stop))
      PROVE  CrawlerInv'
  <2> DEFINE visit == [at |-> "visit", pid |-> e.pid, last_visit |-> e.last_visit]
             next == NextIteration(db, pf, stop)
             place == IF e.pid \in db.cohort THEN visit ELSE next
             old == db.frontier
             f == Popped(old, e)
  <2>1. e \in old.entries
    BY DEF Poppable, Due
  <2>2. FrontierTables(old) /\ Indexed(old)
    BY <1>1 DEF TablesInv, CrawlerTables
  <2>3. e \in FrontierEntry
    BY <2>1, <2>2 DEF FrontierTables
  <2>4. visit \in Place /\ visit.at = "visit" /\ visit.pid = e.pid
    BY <2>3 DEF FrontierEntry, Place, VisitPlace
  <2>5. next \in Place /\ next.at \in {"stop", "pop", "seed"}
    BY <1>1, NextPlace
  <2>6. db' = [db EXCEPT !.frontier = f] /\ loop' = [loop EXCEPT ![pf] = place]
    BY <1>4 DEF Move
  <2> HIDE DEF visit, next, old
  <2>7. FrontierTables(f) /\ Indexed(f) /\ Queued(f) = Queued(old) \ {e.pid}
    BY <2>1, <2>2, PoppedKeeps
  <2> HIDE DEF f
  <2>8. TablesInv(db') /\ db'.frontier = f /\ db'.cohort = db.cohort
    BY <1>1, <2>6, <2>7, FrontierSet
  <2>9. CASE e.pid \in db.cohort
    <3>1. place = visit
      BY <2>9
    <3> HIDE DEF place
    <3>2. InPlay(db', place) = Queued(f) \cup {e.pid}
      BY <2>4, <2>8, <3>1 DEF InPlay
    <3>3. TaskStep(pf, place)
      BY <1>1, <1>2, <2>4, <2>6, <2>7, <2>8, <3>1, <3>2 DEF TaskStep, At, old
    <3> QED
      BY <3>3, TaskStepKeeps
  <2>10. CASE e.pid \notin db.cohort
    <3>1. place = next
      BY <2>10
    <3> HIDE DEF place
    <3>2. InPlay(db', place) = Queued(f)
      BY <2>5, <2>8, <3>1 DEF InPlay
    <3>3. TaskStep(pf, place)
      BY <1>1, <1>2, <2>5, <2>6, <2>7, <2>8, <2>10, <3>1, <3>2 DEF TaskStep, At, old
    <3> QED
      BY <3>3, TaskStepKeeps
  <2> QED
    BY <2>9, <2>10
<1> QED
  BY <1>3, <1>4 DEF Pop

\* A player who is put back into the queue on the way to the end of the iteration.
LEMMA PutBackKeeps ==
  ASSUME CrawlerInv, NEW pf \in Platform, loop[pf].at \in {"visit", "fetch"},
         NEW due \in Nat, NEW last_visit \in Nat,
         db' = Pushed(db, pf, due, {loop[pf].pid}, last_visit),
         Move(pf, Goto("end")), braked' \in [Platform -> BOOLEAN],
         UNCHANGED <<disk, seen, bitmap, stop, now, restarts, left>>
  PROVE  CrawlerInv'
<1> DEFINE ps == {loop[pf].pid}
           u == Pushed(db, pf, due, ps, last_visit)
<1>1. /\ TablesInv(db) /\ TablesInv(disk) /\ seen \subseteq Game /\ bitmap \subseteq Game
  BY Facts
<1>2. ps \subseteq Player
  BY PlaceAt DEF At, VisitPlace, FetchPlace
<1>3. db' = u
  OBVIOUS
<1>4. loop' = [loop EXCEPT ![pf] = Goto("end")] /\ Goto("end") \in Place /\ Goto("end").at = "end"
  BY GotoPlace DEF Move
<1>5. loop[pf].pid \in ps
  OBVIOUS
<1> HIDE DEF ps
<1>6. TablesInv(u) /\ u.cohort = db.cohort /\ Queued(u.frontier) = Queued(db.frontier) \cup ps
  BY <1>1, <1>2, PlayersPushed
<1> HIDE DEF u
<1>7. TaskStep(pf, Goto("end"))
  BY <1>1, <1>3, <1>4, <1>5, <1>6 DEF TaskStep, InPlay
<1> QED
  BY <1>7, TaskStepKeeps

LEMMA ListMatchesKeeps ==
  ASSUME CrawlerInv, NEW pf \in Platform, ListMatches(pf)
  PROVE  CrawlerInv'
<1> DEFINE v == loop[pf]
           deep == v.last_visit = DEEP_VISIT_MS
           ids == NewIds(pf, v.pid, deep)
<1>1. /\ TablesInv(db) /\ TablesInv(disk) /\ now \in Time /\ now \in Nat
      /\ seen \subseteq Game /\ bitmap \subseteq Game
  BY Facts
<1>2. /\ At(pf, "visit") /\ UpdateBrake(pf)
      /\ UNCHANGED <<disk, seen, bitmap, stop, now, restarts, left>>
  BY DEF ListMatches, history
<1>3. braked' \in [Platform -> BOOLEAN]
  BY <1>2, BrakeTyped
<1>4. v \in VisitPlace
  BY <1>2, PlaceAt
<1>5. CASE db' = db /\ Move(pf, [at |-> "fetch", pid |-> v.pid, last_visit |-> v.last_visit,
                                 todo |-> ids, listed |-> now, whole |-> TRUE])
  <2> DEFINE place == [at |-> "fetch", pid |-> v.pid, last_visit |-> v.last_visit,
                       todo |-> ids, listed |-> now, whole |-> TRUE]
  <2>1. ids \subseteq Game /\ \A g \in ids : PlatformOf[g] = pf
    BY DEF NewIds, PageIds, Listed
  <2>2. loop' = [loop EXCEPT ![pf] = place]
    BY <1>5 DEF Move
  <2> HIDE DEF ids, v
  <2>3. place \in Place /\ place.at = "fetch" /\ place.pid = v.pid /\ place.todo = ids
    BY <1>1, <1>4, <2>1 DEF Place, VisitPlace, FetchPlace
  <2> HIDE DEF place
  <2>4. InPlay(db', place) = Queued(db.frontier) \cup {v.pid}
    BY <1>5, <2>3 DEF InPlay
  <2>5. TaskStep(pf, place)
    BY <1>1, <1>2, <1>3, <1>5, <2>1, <2>2, <2>3, <2>4 DEF TaskStep, v
  <2> QED
    BY <2>5, TaskStepKeeps
<1>6. CASE db' = Pushed(db, pf, now + RETRY_DELAY, {v.pid}, v.last_visit) /\ Move(pf, Goto("end"))
  <2>1. RETRY_DELAY \in Nat
    BY CrawlerAssumption
  <2>2. now + RETRY_DELAY \in Nat /\ v.last_visit \in Nat
    BY <1>1, <1>4, <2>1 DEF VisitPlace
  <2>3. loop[pf].at \in {"visit", "fetch"}
    BY <1>2 DEF At
  <2> QED
    BY <1>2, <1>3, <1>6, <2>2, <2>3, PutBackKeeps
<1> QED
  BY <1>5, <1>6 DEF ListMatches, Push, Pushed

\* The place of a task that is done with one download.
Fetching(pf, todo, whole) == [loop[pf] EXCEPT !.todo = todo, !.whole = whole]

LEMMA LessTodo ==
  ASSUME CrawlerInv, NEW pf \in Platform, At(pf, "fetch"), NEW todo, todo \subseteq loop[pf].todo,
         NEW whole \in BOOLEAN
  PROVE  LET place == Fetching(pf, todo, whole)
         IN  /\ place \in Place /\ place.at = "fetch" /\ place.pid = loop[pf].pid
             /\ place.todo = todo /\ \A g \in place.todo : PlatformOf[g] = pf
<1>1. loop[pf] \in FetchPlace
  BY PlaceAt
<1>2. \A g \in loop[pf].todo : PlatformOf[g] = pf
  BY DEF CrawlerInv, TodoIsLocal
<1> DEFINE place == Fetching(pf, todo, whole)
<1>3. place \in FetchPlace /\ place.at = "fetch" /\ place.pid = loop[pf].pid /\ place.todo = todo
  BY <1>1 DEF FetchPlace, Fetching
<1> QED
  BY <1>2, <1>3 DEF Place

\* A match is stored: the players it adopts are queued.
LEMMA FetchStoredKeeps ==
  ASSUME CrawlerInv, NEW pf \in Platform, NEW g \in Game, NEW roll \in BOOLEAN,
         FetchStored(pf, g, roll)
  PROVE  CrawlerInv'
<1> DEFINE paused == braked[pf]
           after == Stored(g, paused)
           new == Adopted(g, paused)
           todo == loop[pf].todo \ {g}
           place == [loop[pf] EXCEPT !.todo = todo]
<1>1. /\ TablesInv(db) /\ TablesInv(disk) /\ now \in Nat /\ NEVER \in Nat
      /\ seen \subseteq Game /\ bitmap \subseteq Game /\ braked \in [Platform -> BOOLEAN]
      /\ paused \in BOOLEAN
  BY Facts DEF NEVER
<1>2. /\ At(pf, "fetch") /\ g \in loop[pf].todo
      /\ seen' = seen \cup {g} /\ loop' = [loop EXCEPT ![pf] = place]
      /\ UNCHANGED <<bitmap, braked, stop, now, restarts, left>>
      /\ db' = Pushed(after, pf, now, new, NEVER)
      /\ disk' \in {after, disk}
  BY DEF FetchStored, Move, Durable, bounds, history, Pushed
<1>3. PlatformOf[g] \in Platform
  BY <1>2 DEF CrawlerInv, TodoIsLocal
<1>4. /\ place \in Place /\ place.at = "fetch" /\ place.pid = loop[pf].pid
      /\ \A k \in place.todo : PlatformOf[k] = pf
  <2>1. loop[pf] \in FetchPlace
    BY <1>2, PlaceAt
  <2> DEFINE whole == loop[pf].whole
  <2>2. whole \in BOOLEAN /\ place = Fetching(pf, todo, whole)
    BY <2>1 DEF FetchPlace, Fetching
  <2>3. todo \subseteq loop[pf].todo
    OBVIOUS
  <2> DEFINE next == Fetching(pf, todo, whole)
  <2> HIDE DEF whole, todo, place
  <2>4. /\ next \in Place /\ next.at = "fetch" /\ next.pid = loop[pf].pid
        /\ \A k \in next.todo : PlatformOf[k] = pf
    BY <1>2, <2>2, <2>3, LessTodo
  <2> QED
    BY <2>2, <2>4
<1> HIDE DEF paused, place
<1>5. /\ TablesInv(after) /\ after.cohort = db.cohort \cup new /\ after.frontier = db.frontier
      /\ new \subseteq Player
  BY <1>1, <1>3, StoredKeeps
<1> HIDE DEF after, new
<1> DEFINE u == Pushed(after, pf, now, new, NEVER)
<1>6. /\ TablesInv(u) /\ u.cohort = after.cohort /\ Queued(u.frontier) = Queued(after.frontier) \cup new
  <2>1. now \in Nat /\ NEVER \in Nat /\ TablesInv(after) /\ new \subseteq Player
    BY <1>1, <1>5 DEF NEVER
  <2> QED
    BY ONLY <2>1, pf \in Platform, PlayersPushed
<1> HIDE DEF u
<1>7. db' = u
  BY <1>2 DEF u
<1>8. /\ TablesInv(db') /\ db'.cohort = after.cohort
      /\ Queued(db'.frontier) = Queued(after.frontier) \cup new
  BY <1>6, <1>7
<1>9. TablesInv(disk')
  BY <1>1, <1>2, <1>5
<1>10. InPlay(db', place) = Queued(db.frontier) \cup new \cup {loop[pf].pid}
  BY <1>4, <1>5, <1>8 DEF InPlay
<1>11. db'.cohort = db.cohort \cup new
  BY <1>5, <1>8
<1>12. TaskStep(pf, place)
  BY <1>1, <1>2, <1>4, <1>8, <1>9, <1>10, <1>11 DEF TaskStep, At
<1> QED
  BY <1>12, TaskStepKeeps

\* A store that fails behind its transaction leaves the adopted players out.
LEMMA FetchFailsLateKeeps ==
  ASSUME CrawlerInv, NEW pf \in Platform, NEW g \in Game, NEW roll \in BOOLEAN,
         NEW marked \in BOOLEAN, FetchFailsLate(pf, g, roll, marked)
  PROVE  CrawlerInv'
<1> DEFINE paused == braked[pf]
           after == Stored(g, paused)
           new == Adopted(g, paused)
           todo == loop[pf].todo \ {g}
           place == Fetching(pf, todo, FALSE)
<1>1. /\ TablesInv(db) /\ TablesInv(disk)
      /\ seen \subseteq Game /\ bitmap \subseteq Game /\ braked \in [Platform -> BOOLEAN]
      /\ paused \in BOOLEAN
  BY Facts
<1>2. /\ At(pf, "fetch") /\ g \in loop[pf].todo
      /\ seen' \in {seen, seen \cup {g}} /\ loop' = [loop EXCEPT ![pf] = place]
      /\ UNCHANGED <<bitmap, braked, stop, now, restarts>>
      /\ left' = left \cup new
      /\ db' = after
      /\ disk' \in {after, disk}
  BY DEF FetchFailsLate, Move, Durable, Fetching
<1>3. PlatformOf[g] \in Platform
  BY <1>2 DEF CrawlerInv, TodoIsLocal
<1>4. todo \subseteq loop[pf].todo
  OBVIOUS
<1> HIDE DEF paused, todo
<1>5. /\ place \in Place /\ place.at = "fetch" /\ place.pid = loop[pf].pid
      /\ \A k \in place.todo : PlatformOf[k] = pf
  BY <1>2, <1>4, LessTodo
<1> HIDE DEF place
<1>6. TablesInv(after) /\ after.cohort = db.cohort \cup new /\ after.frontier = db.frontier
  BY <1>1, <1>3, StoredKeeps
<1> HIDE DEF after, new
<1>7. InPlay(db', place) = Queued(db.frontier) \cup {loop[pf].pid}
  BY <1>2, <1>5, <1>6 DEF InPlay
<1>8. /\ TablesInv(db') /\ TablesInv(disk') /\ seen' \subseteq Game /\ bitmap' \subseteq Game
      /\ db'.cohort = db.cohort \cup new
  BY <1>1, <1>2, <1>6
<1>9. TaskStep(pf, place)
  BY <1>1, <1>2, <1>5, <1>7, <1>8 DEF TaskStep, At
<1> QED
  BY <1>9, TaskStepKeeps

\* A match that is not stored leaves the tables alone.
LEMMA FetchOtherKeeps ==
  ASSUME CrawlerInv, NEW pf \in Platform, NEW g \in Game,
         FetchSkipped(pf, g) \/ FetchDropped(pf, g)
  PROVE  CrawlerInv'
<1> DEFINE todo == loop[pf].todo \ {g}
<1>1. /\ TablesInv(db) /\ TablesInv(disk) /\ seen \subseteq Game /\ bitmap \subseteq Game
      /\ braked \in [Platform -> BOOLEAN]
  BY Facts
<1>2. /\ At(pf, "fetch") /\ seen' \in {seen, seen \cup {g}}
      /\ UNCHANGED <<db, disk, bitmap, braked, stop, now, restarts, left>>
  BY DEF FetchSkipped, FetchDropped, bounds, history
<1>3. loop[pf] \in FetchPlace
  BY <1>2, PlaceAt
<1>4. PICK whole \in BOOLEAN : loop' = [loop EXCEPT ![pf] = Fetching(pf, todo, whole)]
  <2>1. CASE FetchSkipped(pf, g)
    <3> DEFINE w == loop[pf].whole
    <3>1. w \in BOOLEAN /\ [loop[pf] EXCEPT !.todo = todo] = Fetching(pf, todo, w)
      BY <1>3 DEF FetchPlace, Fetching
    <3> QED
      BY <2>1, <3>1 DEF FetchSkipped, Move
  <2>2. CASE FetchDropped(pf, g)
    BY <2>2 DEF FetchDropped, Move, Fetching
  <2> QED
    BY <2>1, <2>2
<1> DEFINE place == Fetching(pf, todo, whole)
<1>5. todo \subseteq loop[pf].todo
  OBVIOUS
<1> HIDE DEF todo
<1>6. /\ place \in Place /\ place.at = "fetch" /\ place.pid = loop[pf].pid
      /\ \A k \in place.todo : PlatformOf[k] = pf
  BY <1>2, <1>5, LessTodo
<1> HIDE DEF place
<1>7. InPlay(db', place) = Queued(db.frontier) \cup {loop[pf].pid}
  BY <1>2, <1>6 DEF InPlay
<1>8. TaskStep(pf, place)
  BY <1>1, <1>2, <1>4, <1>6, <1>7 DEF TaskStep, place
<1> QED
  BY <1>8, TaskStepKeeps

LEMMA RescheduleKeeps ==
  ASSUME CrawlerInv, NEW pf \in Platform, Reschedule(pf)
  PROVE  CrawlerInv'
<1>1. now \in Nat /\ braked \in [Platform -> BOOLEAN]
  BY Facts
<1>2. /\ loop[pf].at \in {"visit", "fetch"} /\ Move(pf, Goto("end"))
      /\ UNCHANGED <<disk, seen, bitmap, braked, stop, now, restarts, left>>
  BY DEF Reschedule, At, bounds, history
<1>3. PICK due \in Nat, last_visit \in Nat :
        db' = Pushed(db, pf, due, {loop[pf].pid}, last_visit)
  <2>1. DEEP_VISIT_MS \in Nat
    BY DEF DEEP_VISIT_MS
  <2>2. \A delay \in Revisit : now + delay \in Nat
    <3>1. Revisit \subseteq Nat
      BY CrawlerAssumption
    <3> QED
      BY <1>1, <3>1
  <2> QED
    BY <1>1, <2>1, <2>2 DEF Reschedule, Push, Pushed
<1> QED
  BY <1>1, <1>2, <1>3, PutBackKeeps

\* The players behind the cursor when it moves past a page, and past the end of a band.
LEMMA BehindNext ==
  ASSUME NEW pf \in Platform, NEW c \in Cursor, NEW d,
         \/ d = <<c[1], c[2] + 1>> /\ c[1] <= Len(Ladder[pf]) /\ c[2] <= Len(Ladder[pf][c[1]])
         \/ d = <<c[1] + 1, 1>> /\ c[1] <= Len(Ladder[pf]) /\ c[2] > Len(Ladder[pf][c[1]])
  PROVE  /\ d \in Cursor
         /\ c[2] <= Len(Ladder[pf][c[1]]) =>
              /\ Ladder[pf][c[1]][c[2]] \subseteq Player
              /\ Behind(pf, d) \subseteq Behind(pf, c) \cup Ladder[pf][c[1]][c[2]]
         /\ c[2] > Len(Ladder[pf][c[1]]) => Behind(pf, d) \subseteq Behind(pf, c)
<1> DEFINE ladder == Ladder[pf]
           i == c[1]
           j == c[2]
<1>1. ladder \in Seq(Seq(SUBSET Player))
  BY CrawlerAssumption
<1>2. i \in Nat \ {0} /\ j \in Nat \ {0}
  BY DEF Cursor
<1>3. DOMAIN ladder = 1 .. Len(ladder) /\ Len(ladder) \in Nat
  <2> HIDE DEF ladder
  <2> QED
    BY <1>1, LenProperties
<1>4. i \in DOMAIN ladder
  <2>1. i <= Len(ladder)
    OBVIOUS
  <2> HIDE DEF ladder, i
  <2> QED
    BY <1>2, <1>3, <2>1
<1>5. ladder[i] \in Seq(SUBSET Player)
  <2> HIDE DEF ladder, i
  <2> QED
    BY <1>1, <1>3, <1>4
<1>6. DOMAIN ladder[i] = 1 .. Len(ladder[i]) /\ Len(ladder[i]) \in Nat
  <2> DEFINE band == ladder[i]
  <2> HIDE DEF band
  <2>1. band \in Seq(SUBSET Player)
    BY <1>5 DEF band
  <2>2. DOMAIN band = 1 .. Len(band) /\ Len(band) \in Nat
    BY <2>1, LenProperties
  <2> QED
    BY <2>2 DEF band
<1>7. CASE d = <<i, j + 1>> /\ j <= Len(ladder[i])
  <2>1. d \in Cursor /\ d[1] = i /\ d[2] = j + 1
    BY <1>2, <1>7 DEF Cursor
  <2>2. j \in DOMAIN ladder[i]
    <3> HIDE DEF ladder, i, j
    <3> QED
      BY <1>2, <1>6, <1>7
  <2>3. ladder[i][j] \subseteq Player
    <3> HIDE DEF ladder, i, j
    <3> QED
      BY <1>5, <1>6, <2>2
  <2>4. Behind(pf, d) \subseteq Behind(pf, c) \cup ladder[i][j]
    <3>1. ASSUME NEW b \in DOMAIN ladder, NEW k \in DOMAIN ladder[b],
                 b < d[1] \/ (b = d[1] /\ k < d[2])
          PROVE  b < i \/ (b = i /\ k < j) \/ (b = i /\ k = j)
      <4>1. CASE b = i
        <5> HIDE DEF ladder, i, j
        <5>1. k \in Nat
          BY <1>6, <3>1, <4>1
        <5> QED
          BY <1>2, <2>1, <3>1, <4>1, <5>1
      <4> HIDE DEF ladder, i, j
      <4> QED
        BY <2>1, <3>1, <4>1
    <3> QED
      BY <3>1 DEF Behind
  <2>5. ~(j > Len(ladder[i]))
    <3> HIDE DEF ladder, i, j
    <3> QED
      BY <1>2, <1>6, <1>7
  <2> QED
    BY <2>1, <2>3, <2>4, <2>5
<1>8. CASE d = <<i + 1, 1>> /\ j > Len(ladder[i])
  <2>1. d \in Cursor /\ d[1] = i + 1 /\ d[2] = 1
    BY <1>2, <1>8 DEF Cursor
  <2>2. ~(j <= Len(ladder[i]))
    <3> HIDE DEF ladder, i, j
    <3> QED
      BY <1>2, <1>6, <1>8
  <2>3. ASSUME NEW b \in DOMAIN ladder, NEW k \in DOMAIN ladder[b],
               b < d[1] \/ (b = d[1] /\ k < d[2])
        PROVE  b < i \/ (b = i /\ k < j) \/ b = i + 1
    <3> HIDE DEF ladder, i, j
    <3>1. b \in Nat
      BY <1>3
    <3>2. CASE b = i
      <4>1. k \in Nat /\ k <= Len(ladder[i])
        BY <1>6, <2>3, <3>2
      <4> QED
        BY <1>2, <1>6, <1>8, <3>2, <4>1
    <3> QED
      BY <1>2, <2>1, <2>3, <3>1, <3>2
  <2>4. ASSUME NEW b \in DOMAIN ladder, NEW k \in DOMAIN ladder[b], b = i + 1,
               b < d[1] \/ (b = d[1] /\ k < d[2])
        PROVE  FALSE
    <3>1. ladder[b] \in Seq(SUBSET Player)
      <4> HIDE DEF ladder
      <4> QED
        BY <1>1, <1>3
    <3> DEFINE band == ladder[b]
    <3> HIDE DEF band, ladder, i, j
    <3>2. DOMAIN band = 1 .. Len(band) /\ Len(band) \in Nat
      BY <3>1, LenProperties DEF band
    <3>3. k \in Nat /\ k >= 1
      BY <2>4, <3>2 DEF band
    <3> QED
      BY <1>2, <2>1, <2>4, <3>3
  <2>5. Behind(pf, d) \subseteq Behind(pf, c)
    BY <2>3, <2>4 DEF Behind
  <2> QED
    BY <2>1, <2>2, <2>5
<1> QED
  BY <1>7, <1>8

\* A page is enrolled before the cursor moves past it.
LEMMA ExpandPageKeeps ==
  ASSUME CrawlerInv, NEW pf \in Platform, ExpandPage(pf)
  PROVE  CrawlerInv'
<1> DEFINE c == db.cursor[pf]
           page == Ladder[pf][c[1]][c[2]]
<1>1. /\ TablesInv(db) /\ TablesInv(disk) /\ CrawlerTables(db) /\ now \in Time
      /\ seen \subseteq Game /\ bitmap \subseteq Game
  BY Facts
<1>2. At(pf, "expand") /\ UpdateBrake(pf) /\ UNCHANGED <<disk, seen, bitmap, stop, now, restarts, left>>
  BY DEF ExpandPage, history
<1>3. braked' \in [Platform -> BOOLEAN]
  BY <1>2, BrakeTyped
<1>4. c \in Cursor /\ Behind(pf, c) \subseteq db.cohort
  BY <1>1 DEF CrawlerTables, TablesInv
<1>5. \A next \in Cursor : /\ [at |-> "cursor", next |-> next] \in Place
                           /\ [at |-> "cursor", next |-> next].at = "cursor"
                           /\ [at |-> "cursor", next |-> next].next = next
  BY DEF Place, CursorPlace
<1>6. CASE db' = db /\ \E where \in {"end", "stop"} : Move(pf, Goto(where))
  <2>1. PICK where \in {"end", "stop"} : loop' = [loop EXCEPT ![pf] = Goto(where)]
    BY <1>6 DEF Move
  <2>2. Goto(where) \in Place /\ Goto(where).at \in {"end", "stop"}
    BY GotoPlace
  <2>3. TaskStep(pf, Goto(where))
    BY <1>1, <1>2, <1>3, <1>6, <2>1, <2>2 DEF TaskStep, InPlay, At
  <2> QED
    BY <2>3, TaskStepKeeps
<1>7. CASE /\ c[1] <= Len(Ladder[pf]) /\ c[2] <= Len(Ladder[pf][c[1]])
           /\ db' = Enrolled(pf, page)
           /\ Move(pf, [at |-> "cursor", next |-> <<c[1], c[2] + 1>>])
  <2> DEFINE next == <<c[1], c[2] + 1>>
             place == [at |-> "cursor", next |-> next]
  <2>1. loop' = [loop EXCEPT ![pf] = place]
    BY <1>7 DEF Move
  <2>2. /\ c[1] <= Len(Ladder[pf]) /\ c[2] <= Len(Ladder[pf][c[1]]) /\ next = <<c[1], c[2] + 1>>
    BY <1>7
  <2> HIDE DEF next, c
  <2>3. next \in Cursor /\ page \subseteq Player /\ Behind(pf, next) \subseteq Behind(pf, c) \cup page
    BY <1>4, <2>2, BehindNext
  <2>4. place \in Place /\ place.at = "cursor" /\ place.next = next
    BY <1>5, <2>3
  <2> HIDE DEF page, place
  <2>5. /\ TablesInv(db') /\ db'.cohort = db.cohort \cup page
        /\ Queued(db'.frontier) = Queued(db.frontier) \cup page
    BY <1>1, <1>7, <2>3, EnrolledKeeps
  <2>6. Behind(pf, place.next) \subseteq db'.cohort
    BY <1>4, <2>3, <2>4, <2>5
  <2>7. TaskStep(pf, place)
    BY <1>1, <1>2, <1>3, <2>1, <2>4, <2>5, <2>6 DEF TaskStep, InPlay, At
  <2> QED
    BY <2>7, TaskStepKeeps
<1>8. CASE /\ c[1] <= Len(Ladder[pf]) /\ c[2] > Len(Ladder[pf][c[1]])
           /\ db' = db
           /\ Move(pf, [at |-> "cursor", next |-> <<c[1] + 1, 1>>])
  <2> DEFINE next == <<c[1] + 1, 1>>
             place == [at |-> "cursor", next |-> next]
  <2>1. loop' = [loop EXCEPT ![pf] = place]
    BY <1>8 DEF Move
  <2>2. /\ c[1] <= Len(Ladder[pf]) /\ c[2] > Len(Ladder[pf][c[1]]) /\ next = <<c[1] + 1, 1>>
    BY <1>8
  <2> HIDE DEF next, c
  <2>3. next \in Cursor /\ Behind(pf, next) \subseteq Behind(pf, c)
    BY <1>4, <2>2, BehindNext
  <2>4. place \in Place /\ place.at = "cursor" /\ place.next = next
    BY <1>5, <2>3
  <2> HIDE DEF place
  <2>5. Behind(pf, place.next) \subseteq db'.cohort
    BY <1>4, <1>8, <2>3, <2>4
  <2>6. TaskStep(pf, place)
    BY <1>1, <1>2, <1>3, <1>8, <2>1, <2>4, <2>5 DEF TaskStep, InPlay, At
  <2> QED
    BY <2>6, TaskStepKeeps
<1>9. c[1] <= Len(Ladder[pf]) \/ c[1] > Len(Ladder[pf])
  <2>1. Ladder[pf] \in Seq(Seq(SUBSET Player))
    BY CrawlerAssumption
  <2>2. Len(Ladder[pf]) \in Nat /\ c[1] \in Nat
    BY <1>4, <2>1, LenProperties DEF Cursor
  <2> HIDE DEF c
  <2> QED
    BY <2>2
<1> QED
  BY <1>6, <1>7, <1>8, <1>9 DEF ExpandPage

LEMMA SetCursorKeeps ==
  ASSUME CrawlerInv, NEW pf \in Platform, SetCursor(pf)
  PROVE  CrawlerInv'
<1> DEFINE next == loop[pf].next
           cursor == [db.cursor EXCEPT ![pf] = next]
<1>1. /\ TablesInv(db) /\ TablesInv(disk) /\ CrawlerTables(db) /\ DOMAIN db = TableNames
      /\ seen \subseteq Game /\ bitmap \subseteq Game /\ braked \in [Platform -> BOOLEAN]
  BY Facts
<1>2. /\ At(pf, "cursor") /\ UNCHANGED <<disk, seen, bitmap, braked, stop, now, restarts, left>>
      /\ db' = [db EXCEPT !.cursor = cursor] /\ loop' = [loop EXCEPT ![pf] = Goto("end")]
  BY DEF SetCursor, Move, bounds, history
<1>3. next \in Cursor /\ Behind(pf, next) \subseteq db.cohort
  <2>1. loop[pf] \in CursorPlace
    BY <1>2, PlaceAt
  <2> QED
    BY <1>2, <2>1 DEF CrawlerInv, PageIsEnrolled, CursorPlace
<1>4. db.cursor \in [Platform -> Cursor]
  BY <1>1 DEF CrawlerTables
<1> HIDE DEF next
<1>5. /\ cursor \in [Platform -> Cursor]
      /\ \A q \in Platform : cursor[q] = IF q = pf THEN next ELSE db.cursor[q]
  BY <1>3, <1>4
<1> HIDE DEF cursor
<1>6. /\ DOMAIN db' = TableNames /\ db'.seeded = db.seeded /\ db'.cursor = cursor
      /\ db'.cohort = db.cohort /\ db'.frontier = db.frontier /\ db'.progress = db.progress
      /\ db'.samples = db.samples /\ db'.outsider = db.outsider
  BY <1>1, <1>2 DEF TableNames
<1>7. CrawlerTables(db')
  BY <1>1, <1>5, <1>6 DEF CrawlerTables, TableNames
<1>8. TablesInv(db')
  BY <1>1, <1>3, <1>5, <1>6, <1>7 DEF TablesInv, Sampled
<1>9. Goto("end") \in Place /\ Goto("end").at = "end"
  BY GotoPlace
<1>10. TaskStep(pf, Goto("end"))
  BY <1>1, <1>2, <1>6, <1>8, <1>9 DEF TaskStep, InPlay, At
<1> QED
  BY <1>10, TaskStepKeeps

LEMMA EndIterationKeeps ==
  ASSUME CrawlerInv, NEW pf \in Platform, NEW commit \in BOOLEAN, EndIteration(pf, commit)
  PROVE  CrawlerInv'
<1> DEFINE place == NextIteration(db, pf, stop)
<1>1. /\ TablesInv(db) /\ TablesInv(disk) /\ now \in Time /\ stop \in BOOLEAN
      /\ seen \subseteq Game /\ bitmap \subseteq Game /\ braked \in [Platform -> BOOLEAN]
  BY Facts
<1>2. /\ At(pf, "end") /\ UNCHANGED <<db, seen, braked, stop, now, restarts, left>>
      /\ loop' = [loop EXCEPT ![pf] = place]
      /\ disk' \in {db, disk} /\ bitmap' \in {seen, bitmap}
  BY DEF EndIteration, Commit, Durable, Move, bounds, history
<1>3. place \in Place /\ place.at \in {"stop", "pop", "seed"}
  BY <1>1, NextPlace
<1> HIDE DEF place
<1>4. TaskStep(pf, place)
  BY <1>1, <1>2, <1>3 DEF TaskStep, InPlay, At
<1> QED
  BY <1>4, TaskStepKeeps

LEMMA RegionStopsKeeps ==
  ASSUME CrawlerInv, NEW pf \in Platform, RegionStops(pf)
  PROVE  CrawlerInv'
<1> DEFINE place == Goto("off")
<1>1. /\ TablesInv(db) /\ TablesInv(disk)
      /\ seen \subseteq Game /\ bitmap \subseteq Game /\ braked \in [Platform -> BOOLEAN]
  BY Facts
<1>2. /\ At(pf, "stop") /\ UNCHANGED <<db, seen, braked, stop, now, restarts, left>>
      /\ loop' = [loop EXCEPT ![pf] = place]
      /\ disk' \in {db, disk} /\ bitmap' \in {seen, bitmap}
      /\ restarts < MaxRestarts => disk' = db
  BY DEF RegionStops, Commit, Durable, Move, bounds, history
<1>3. place \in Place /\ place.at = "off"
  BY GotoPlace
<1> HIDE DEF place
<1>4. TaskStep(pf, place)
  BY <1>1, <1>2, <1>3 DEF TaskStep, InPlay, At
<1> QED
  BY <1>4, TaskStepKeeps

-----------------------------------------------------------------------------
(* The steps of the process and the clock *)

LEMMA SomeRegion == Regions[1] \in Platform /\ Platform # {}
<1>1. Regions # <<>> /\ Regions \in Seq(Platform)
  BY CrawlerAssumption
<1>2. 1 \in DOMAIN Regions
  <2>1. Len(Regions) \in Nat /\ DOMAIN Regions = 1 .. Len(Regions)
    BY <1>1, LenProperties
  <2>2. Len(Regions) # 0
    BY <1>1, EmptySeq
  <2> QED
    BY <2>1, <2>2
<1> QED
  BY <1>2 DEF Platform

LEMMA QuietKeeps ==
  ASSUME CrawlerInv, Checkpoint \/ Stop \/ Tick \/ UNCHANGED cvars
  PROVE  CrawlerInv'
<1>1. /\ TablesInv(db) /\ TablesInv(disk) /\ now \in Time /\ stop \in BOOLEAN
      /\ seen \subseteq Game /\ bitmap \subseteq Game /\ braked \in [Platform -> BOOLEAN]
      /\ loop \in [Platform -> Place]
  BY Facts
<1>2. /\ UNCHANGED <<db, seen, bitmap, loop, braked, restarts, left>>
      /\ disk' \in {db, disk} /\ (restarts < MaxRestarts /\ disk = db => disk' = db)
  BY DEF Checkpoint, Stop, Tick, Durable, cvars, bounds, history
<1>3. now' \in Time /\ stop' \in BOOLEAN
  <2>1. CASE Tick
    <3>1. Start \in Nat /\ MaxTime \in Nat
      BY CrawlerAssumption
    <3> QED
      BY <1>1, <2>1, <3>1 DEF Tick, Time
  <2> QED
    BY <1>1, <2>1 DEF Checkpoint, Stop, cvars
<1>4. CrawlerTypeOK'
  <2>1. CrawlerTables(db') /\ CrawlerTables(disk')
    BY <1>1, <1>2 DEF TablesInv
  <2> QED
    BY <1>1, <1>2, <1>3, <2>1 DEF CrawlerTypeOK
<1>5. TablesInv(db') /\ TablesInv(disk')
  BY <1>1, <1>2
<1>6. TodoIsLocal' /\ PageIsEnrolled' /\ MembersStayInPlay'
  BY <1>2 DEF CrawlerInv, TodoIsLocal, PageIsEnrolled, MembersStayInPlay, At, Visiting
<1>7. LastCommitIsWhole'
  BY <1>2 DEF CrawlerInv, LastCommitIsWhole, At
<1> QED
  BY <1>4, <1>5, <1>6, <1>7 DEF CrawlerInv

\* A start takes the tables on disk, after a clean shutdown those in memory.
\* Reconciliation brings back the members with a stored match.
LEMMA RestartKeeps ==
  ASSUME CrawlerInv, NEW backfill \in BOOLEAN, Restart(backfill)
  PROVE  CrawlerInv'
<1> DEFINE clean == \A pf \in Platform : At(pf, "off")
           u == Started(disk, backfill)
<1>1. /\ TablesInv(db) /\ TablesInv(disk) /\ now \in Time
      /\ seen \subseteq Game /\ bitmap \subseteq Game
  BY Facts
<1>2. /\ restarts < MaxRestarts /\ db' = u /\ seen' = bitmap
      /\ loop' = [pf \in Platform |-> NextIteration(db', pf, FALSE)]
      /\ braked' = [pf \in Platform |-> FALSE] /\ stop' = FALSE
      /\ left' = {p \in IF clean THEN left ELSE db'.cohort \ Queued(db'.frontier) :
                    Timeline(db'.progress, p) = {}}
      /\ UNCHANGED <<disk, bitmap, now>>
  BY DEF Restart
<1> HIDE DEF u
<1>3. /\ TablesInv(u) /\ u.cohort = disk.cohort /\ u.progress = disk.progress
      /\ Queued(disk.frontier) \subseteq Queued(u.frontier)
      /\ \A p \in disk.cohort : Timeline(disk.progress, p) # {} => p \in Queued(u.frontier)
  BY <1>1, StartedKeeps DEF u
<1>4. /\ loop' \in [Platform -> Place]
      /\ \A pf \in Platform : loop'[pf].at \in {"stop", "pop", "seed"}
  <2>1. \A pf \in Platform : /\ NextIteration(db', pf, FALSE) \in Place
                             /\ NextIteration(db', pf, FALSE).at \in {"stop", "pop", "seed"}
    BY <1>1, NextPlace
  <2> QED
    BY <1>2, <2>1
<1>5. CrawlerTypeOK'
  <2>1. CrawlerTables(db') /\ CrawlerTables(disk')
    BY <1>1, <1>2, <1>3 DEF TablesInv
  <2> QED
    BY <1>1, <1>2, <1>4, <2>1 DEF CrawlerTypeOK
<1>6. TablesInv(db') /\ TablesInv(disk')
  BY <1>1, <1>2, <1>3
<1>7. TodoIsLocal' /\ PageIsEnrolled'
  BY <1>4 DEF TodoIsLocal, PageIsEnrolled, At
<1>8. LastCommitIsWhole'
  BY <1>4, SomeRegion DEF LastCommitIsWhole, At
<1>9. MembersStayInPlay'
  <2>1. ASSUME NEW p \in db'.cohort
        PROVE  p \in Queued(db'.frontier) \cup left'
    <3>1. CASE clean
      <4>1. disk = db
        BY <1>2, <3>1 DEF CrawlerInv, LastCommitIsWhole
      <4>2. Visiting = {}
        BY <3>1 DEF Visiting, At
      <4>3. p \in Queued(db.frontier) \cup left
        BY <1>2, <1>3, <2>1, <4>1, <4>2 DEF CrawlerInv, MembersStayInPlay
      <4>4. Timeline(db'.progress, p) # {} => p \in Queued(db'.frontier)
        BY <1>2, <1>3, <2>1
      <4>5. Queued(db.frontier) \subseteq Queued(db'.frontier)
        BY <1>2, <1>3, <4>1
      <4>6. left' = {q \in left : Timeline(db'.progress, q) = {}}
        BY <1>2, <3>1
      <4> QED
        BY <4>3, <4>4, <4>5, <4>6
    <3>2. CASE ~clean
      <4> HIDE DEF clean
      <4> QED
        BY <1>2, <1>3, <2>1, <3>2
    <3> QED
      BY <3>1, <3>2
  <2> QED
    BY <2>1 DEF MembersStayInPlay
<1> QED
  BY <1>5, <1>6, <1>7, <1>8, <1>9 DEF CrawlerInv

-----------------------------------------------------------------------------
(* The invariant *)

\* An empty store, but for the players an older version left in the queue.
LEMMA InitInv == CrawlerInit => CrawlerInv
<1> SUFFICES ASSUME CrawlerInit PROVE CrawlerInv
  OBVIOUS
<1> DEFINE key == Key(Regions[1], BUCKET_OTHER, 0)
           f == PushBatch(EmptyFrontier, key, Legacy, NEVER)
           u == Tables0
<1>1. now = Start /\ now \in Time
  <2>1. Start \in Nat /\ MaxTime \in Nat /\ Start <= MaxTime
    BY CrawlerAssumption
  <2> QED
    BY <2>1 DEF CrawlerInit, Time
<1>2. FrontierTables(f) /\ Indexed(f)
  <2>1. key \in FrontierKey /\ NEVER \in Nat
    BY SomeRegion DEF Key, FrontierKey, Bucket, NEVER
  <2>2. FrontierTables(EmptyFrontier) /\ Indexed(EmptyFrontier)
    BY DEF FrontierTables, Indexed, EmptyFrontier, Queued
  <2>3. Legacy \subseteq Player
    BY CrawlerAssumption
  <2> HIDE DEF key
  <2> QED
    BY <2>1, <2>2, <2>3, PushBatchKeeps
<1>3. /\ DOMAIN u = TableNames /\ u.frontier = f /\ u.cohort = {}
      /\ u.outsider = [p \in Player |-> 0] /\ u.progress = [g \in {} |-> 0] /\ u.samples = 0
      /\ u.seeded = [pf \in Platform |-> None] /\ u.cursor = [pf \in Platform |-> <<1, 1>>]
  BY DEF Tables0, TableNames
<1> HIDE DEF u, f
<1>4. DOMAIN u.progress = {}
  BY <1>3
<1>5. CrawlerTables(u)
  <2>1. <<1, 1>> \in Cursor
    BY DEF Cursor
  <2>2. u.cursor \in [Platform -> Cursor] /\ u.outsider \in [Player -> Nat]
        /\ u.seeded \in [Platform -> Time \cup {None}]
    BY <1>3, <2>1
  <2> QED
    BY <1>2, <1>3, <1>4, <2>2 DEF CrawlerTables, TableNames
<1>6. Sampled(u)
  <2>1. Valid(u.progress) = {}
    BY <1>4 DEF Valid
  <2>2. Exact(u.progress)
    BY <1>4 DEF Exact
  <2> QED
    BY <1>3, <2>1, <2>2, FS_EmptySet DEF Sampled
<1>7. \A pf \in Platform : Behind(pf, u.cursor[pf]) = {}
  <2>1. ASSUME NEW pf \in Platform, NEW b \in DOMAIN Ladder[pf], NEW k \in DOMAIN Ladder[pf][b]
        PROVE  ~(b < 1) /\ ~(k < 1)
    <3> DEFINE ladder == Ladder[pf]
               band == ladder[b]
    <3>1. ladder \in Seq(Seq(SUBSET Player))
      BY CrawlerAssumption
    <3>2. b \in DOMAIN ladder /\ k \in DOMAIN band
      OBVIOUS
    <3> HIDE DEF ladder
    <3>3. DOMAIN ladder = 1 .. Len(ladder) /\ Len(ladder) \in Nat
      BY <3>1, LenProperties
    <3>4. band \in Seq(SUBSET Player)
      BY <3>1, <3>2, <3>3
    <3> HIDE DEF band
    <3>5. DOMAIN band = 1 .. Len(band) /\ Len(band) \in Nat
      BY <3>4, LenProperties
    <3> QED
      BY <3>2, <3>3, <3>5
  <2>2. \A pf \in Platform : u.cursor[pf] = <<1, 1>>
    BY <1>3
  <2>3. ASSUME NEW pf \in Platform PROVE Behind(pf, <<1, 1>>) = {}
    BY <2>1 DEF Behind
  <2> QED
    BY <2>2, <2>3
<1>8. TablesInv(u)
  BY <1>2, <1>3, <1>4, <1>5, <1>6, <1>7 DEF TablesInv
<1>9. db = u /\ disk = u
  BY DEF CrawlerInit, u
<1>10. loop = [pf \in Platform |-> Seeding] /\ Seeding \in Place /\ Seeding.at = "seed"
  BY <1>1 DEF CrawlerInit, Seeding, Place, SeedPlace
<1>11. \A pf \in Platform : loop[pf].at = "seed"
  BY <1>10
<1>12. CrawlerTypeOK
  <2>1. loop \in [Platform -> Place]
    BY <1>10
  <2> QED
    BY <1>1, <1>5, <1>9, <2>1 DEF CrawlerInit, CrawlerTypeOK
<1>13. TodoIsLocal /\ PageIsEnrolled
  BY <1>11 DEF TodoIsLocal, PageIsEnrolled, At
<1>14. MembersStayInPlay /\ LastCommitIsWhole
  BY <1>3, <1>9 DEF MembersStayInPlay, LastCommitIsWhole
<1> QED
  BY <1>8, <1>9, <1>12, <1>13, <1>14 DEF CrawlerInv

LEMMA NextInv == CrawlerInv /\ [CrawlerNext]_cvars => CrawlerInv'
<1> SUFFICES ASSUME CrawlerInv, [CrawlerNext]_cvars PROVE CrawlerInv'
  OBVIOUS
<1>1. ASSUME NEW pf \in Platform, SeedLeague(pf) PROVE CrawlerInv'
  BY <1>1, SeedLeagueKeeps
<1>2. ASSUME NEW pf \in Platform, SeedDone(pf) PROVE CrawlerInv'
  BY <1>2, SeedDoneKeeps
<1>3. ASSUME NEW pf \in Platform, Pop(pf) PROVE CrawlerInv'
  BY <1>3, PopKeeps
<1>4. ASSUME NEW pf \in Platform, ListMatches(pf) PROVE CrawlerInv'
  BY <1>4, ListMatchesKeeps
<1>5. ASSUME NEW pf \in Platform, NEW g \in Game, NEW roll \in BOOLEAN, FetchStored(pf, g, roll)
      PROVE  CrawlerInv'
  BY <1>5, FetchStoredKeeps
<1>6. ASSUME NEW pf \in Platform, NEW g \in Game, FetchSkipped(pf, g) \/ FetchDropped(pf, g)
      PROVE  CrawlerInv'
  BY <1>6, FetchOtherKeeps
<1>7. ASSUME NEW pf \in Platform, Reschedule(pf) PROVE CrawlerInv'
  BY <1>7, RescheduleKeeps
<1>8. ASSUME NEW pf \in Platform, ExpandPage(pf) PROVE CrawlerInv'
  BY <1>8, ExpandPageKeeps
<1>9. ASSUME NEW pf \in Platform, SetCursor(pf) PROVE CrawlerInv'
  BY <1>9, SetCursorKeeps
<1>10. ASSUME NEW pf \in Platform, NEW commit \in BOOLEAN, EndIteration(pf, commit) PROVE CrawlerInv'
  BY <1>10, EndIterationKeeps
<1>11. ASSUME NEW pf \in Platform, RegionStops(pf) PROVE CrawlerInv'
  BY <1>11, RegionStopsKeeps
<1>12. ASSUME NEW backfill \in BOOLEAN, Restart(backfill) PROVE CrawlerInv'
  BY <1>12, RestartKeeps
<1>13. CASE Checkpoint \/ Stop \/ Tick \/ UNCHANGED cvars
  BY <1>13, QuietKeeps
<1>14. ASSUME NEW pf \in Platform, NEW g \in Game, NEW roll \in BOOLEAN, NEW marked \in BOOLEAN,
              FetchFailsLate(pf, g, roll, marked)
       PROVE  CrawlerInv'
  BY <1>14, FetchFailsLateKeeps
<1> QED
  BY <1>1, <1>2, <1>3, <1>4, <1>5, <1>6, <1>7, <1>8, <1>9, <1>10, <1>11, <1>12, <1>13, <1>14
  DEF CrawlerNext

\* The tables keep their invariant in memory and on disk through every step of the
\* regions, every shutdown, crash and start of the server.
THEOREM CrawlerInvariant == CrawlerSpec => []CrawlerInv
BY InitInv, NextInv, PTL DEF CrawlerSpec

\* Every variable of the region crawlers has its type.
THEOREM CrawlerTypeCorrect == CrawlerSpec => []CrawlerTypeOK
<1>1. CrawlerInv => CrawlerTypeOK
  BY DEF CrawlerInv
<1> QED
  BY <1>1, CrawlerInvariant, PTL

\* T_FRONTIER and T_FRONTIER_IDX agree after any pushes, pops, reconciliations and
\* backfill resets, in memory and on disk: no player is queued twice.
THEOREM QueueMatchesIndex == CrawlerSpec => []FrontierAgrees
<1>1. CrawlerInv => FrontierAgrees
  BY DEF CrawlerInv, TablesInv, FrontierAgrees
<1> QED
  BY <1>1, CrawlerInvariant, PTL

\* A cohort member is queued or being visited, whichever fetches fail and whenever the
\* server stops.  A store that fails behind its transaction leaves the players it adopts
\* out until the next start, and a start after a crash only members without a stored
\* match.
THEOREM NoMemberIsLost == CrawlerSpec => []MembersStayInPlay
<1>1. CrawlerInv => MembersStayInPlay
  BY DEF CrawlerInv
<1> QED
  BY <1>1, CrawlerInvariant, PTL

\* The expansion cursor passes no ladder page whose players are not in the cohort, in
\* memory or in what a crash leaves.
THEOREM NoPageIsSkipped == CrawlerSpec => []CursorFollowsEnrolment
<1>1. CrawlerInv => CursorFollowsEnrolment
  BY DEF CrawlerInv, TablesInv, CursorFollowsEnrolment
<1> QED
  BY <1>1, CrawlerInvariant, PTL

\* The counts of store_match and the number of valid samples are those of the
\* definition in whatever order matches arrive, as long as no player has games on two
\* platforms.
THEOREM SampleCountsAreExact == CrawlerSpec => [](OnePlatform => SamplesAreExact)
<1>1. CrawlerInv => (OnePlatform => SamplesAreExact)
  BY DEF CrawlerInv, TablesInv, Sampled, Valid, SamplesAreExact
<1> QED
  BY <1>1, CrawlerInvariant, PTL

\* A step of a region during which growth is paused in all of them.
LEMMA BrakedStep ==
  ASSUME CrawlerInv, CrawlerNext, \A pf \in Platform : braked[pf] /\ braked'[pf]
  PROVE  db'.cohort \subseteq db.cohort \cup UNION {Apex[pf][1] : pf \in Platform}
<1>1. TablesInv(db) /\ now \in Time /\ DOMAIN db = TableNames
  BY Facts
<1>2. ASSUME NEW pf \in Platform, SeedLeague(pf)
      PROVE  db'.cohort \subseteq db.cohort \cup Apex[pf][1]
  <2> DEFINE i == loop[pf].league
  <2>1. i \in Nat \ {0} /\ i <= Len(Apex[pf])
    BY <1>2, PlaceAt DEF SeedLeague, SeedPlace
  <2>2. CASE db' = db
    BY <2>2
  <2>3. CASE ~(braked'[pf] /\ i > 1) /\ db' = Enrolled(pf, Apex[pf][i])
    <3>1. i = 1
      <4> HIDE DEF i
      <4> QED
        BY <2>1, <2>3
    <3>2. db' = Enrolled(pf, Apex[pf][1])
      BY <2>3, <3>1
    <3>3. Enrolled(pf, Apex[pf][1]).cohort = db.cohort \cup Apex[pf][1]
      BY <1>1 DEF Enrolled, TableNames
    <3> QED
      BY <3>2, <3>3
  <2> QED
    BY <1>2, <2>2, <2>3 DEF SeedLeague
<1>3. ASSUME NEW pf \in Platform, NEW g \in Game, NEW roll \in BOOLEAN, FetchStored(pf, g, roll)
      PROVE  db'.cohort \subseteq db.cohort
  <2> DEFINE after == Stored(g, braked[pf])
             f == PushBatch(after.frontier, Key(pf, BUCKET_PRIORITY, now), Adopted(g, braked[pf]), NEVER)
  <2>1. Adopted(g, braked[pf]) = {}
    BY DEF Adopted
  <2>2. db' = [after EXCEPT !.frontier = f]
    BY <1>3 DEF FetchStored
  <2>3. DOMAIN after = TableNames /\ after.cohort = db.cohort \cup Adopted(g, braked[pf])
    BY <1>1 DEF Stored, TableNames
  <2> HIDE DEF after, f
  <2> QED
    BY <2>1, <2>2, <2>3 DEF TableNames
<1>4. ASSUME NEW pf \in Platform, ExpandPage(pf)
      PROVE  db' = db
  BY <1>4 DEF ExpandPage
<1>5. ASSUME NEW pf \in Platform,
             \/ SeedDone(pf) \/ Pop(pf) \/ ListMatches(pf) \/ Reschedule(pf) \/ SetCursor(pf)
      PROVE  db'.cohort = db.cohort
  <2>1. \/ db' = db
        \/ \E f : db' = [db EXCEPT !.frontier = f]
        \/ \E f : db' = [db EXCEPT !.seeded = f]
        \/ \E f : db' = [db EXCEPT !.cursor = f]
    BY <1>5 DEF SeedDone, Pop, ListMatches, Reschedule, SetCursor
  <2> QED
    BY <1>1, <2>1 DEF TableNames
<1>6. ASSUME NEW pf \in Platform,
             \/ \E g \in Game : FetchSkipped(pf, g) \/ FetchDropped(pf, g)
             \/ \E commit \in BOOLEAN : EndIteration(pf, commit)
             \/ RegionStops(pf)
      PROVE  db' = db
  BY <1>6 DEF FetchSkipped, FetchDropped, EndIteration, RegionStops
<1>7. CASE Checkpoint \/ Stop \/ Tick
  BY <1>7 DEF Checkpoint, Stop, Tick
<1>8. ASSUME NEW backfill \in BOOLEAN, Restart(backfill)
      PROVE  FALSE
  BY <1>8, SomeRegion DEF Restart
<1>9. ASSUME NEW pf \in Platform, NEW g \in Game, NEW roll \in BOOLEAN, NEW marked \in BOOLEAN,
             FetchFailsLate(pf, g, roll, marked)
      PROVE  db'.cohort \subseteq db.cohort
  <2>1. Adopted(g, braked[pf]) = {}
    BY DEF Adopted
  <2>2. db' = Stored(g, braked[pf])
    BY <1>9 DEF FetchFailsLate
  <2>3. Stored(g, braked[pf]).cohort = db.cohort \cup Adopted(g, braked[pf])
    BY <1>1 DEF Stored, TableNames
  <2> QED
    BY <2>1, <2>2, <2>3
<1> QED
  BY <1>2, <1>3, <1>4, <1>5, <1>6, <1>7, <1>8, <1>9 DEF CrawlerNext

\* While the brake is on in every region, ladder expansion, adoption and the lower
\* leagues add nobody to the cohort.
THEOREM BrakeHolds == CrawlerSpec => BrakeStopsGrowth
<1> DEFINE Paused == \A pf \in Platform : braked[pf] /\ braked'[pf]
           Best == UNION {Apex[pf][1] : pf \in Platform}
<1>1. CrawlerInv /\ [CrawlerNext]_cvars => [Paused => db'.cohort \subseteq db.cohort \cup Best]_cvars
  BY BrakedStep
<1> QED
  BY <1>1, CrawlerInvariant, PTL DEF CrawlerSpec, BrakeStopsGrowth

-----------------------------------------------------------------------------
(* Backfill *)

\* The players region pf meets, in leagues, on the ladder, in games, in the old queue.
Meets(pf) ==
  {p \in Player :
     \/ \E i \in DOMAIN Apex[pf] : p \in Apex[pf][i]
     \/ \E b \in DOMAIN Ladder[pf] : \E k \in DOMAIN Ladder[pf][b] : p \in Ladder[pf][b][k]
     \/ \E g \in Game : PlatformOf[g] = pf /\ p \in PlayersOf[g]
     \/ pf = Regions[1] /\ p \in Legacy}

\* No player is met by two regions.
Settled == \A pf, q \in Platform : pf # q => Meets(pf) \cap Meets(q) = {}

\* No match list is longer than a visit may read.
ShortHistories ==
  \A p \in Player : Cardinality({g \in Game : p \in PlayersOf[g]}) <= MATCHLIST_MAX_DEPTH

\* The matches on pf that the backfill asked of p for.
Backlog(pf, p) == {g \in Game : g <= asked[p] /\ p \in PlayersOf[g] /\ PlatformOf[g] = pf}
Caught(pf, p) == asked[p] # None => Backlog(pf, p) \subseteq seen

\* A queued player is a member if deep, in the priority bucket if ever asked for, and
\* without the marker has nothing left of the backlog.
EntrySettled(e) ==
  /\ e.pid \in Meets(e.key.platform)
  /\ e.last_visit = DEEP_VISIT_MS => e.pid \in db.cohort
  /\ e.last_visit = DEEP_VISIT_MS \/ asked[e.pid] # None => e.key.bucket = BUCKET_PRIORITY
  /\ e.last_visit # DEEP_VISIT_MS => Caught(e.key.platform, e.pid)

\* So has a visited one, or the downloads under way are what is left.
VisitSettled(pf) ==
  loop[pf].at \in {"visit", "fetch"} =>
    /\ loop[pf].pid \in Meets(pf) \cap db.cohort
    /\ loop[pf].pid \notin Queued(db.frontier)
    /\ loop[pf].last_visit # DEEP_VISIT_MS => Caught(pf, loop[pf].pid)
    /\ (/\ loop[pf].last_visit = DEEP_VISIT_MS /\ loop[pf].at = "fetch" /\ ~stop
        /\ asked[loop[pf].pid] # None) =>
         Backlog(pf, loop[pf].pid) \subseteq seen \cup loop[pf].todo

AskedMembers ==
  \A p \in Player : asked[p] # None => asked[p] \in Nat /\ asked[p] <= now /\ p \in db.cohort

\* When all regions have ended, the last commit has saved the bitmaps too.
LastBitmapIsWhole ==
  (\A pf \in Platform : At(pf, "off")) /\ restarts < MaxRestarts => bitmap = seen

BackfillInv ==
  /\ faults \in Nat /\ crashes \in Nat
  /\ LastBitmapIsWhole
  /\ faults = 0 /\ crashes = 0 =>
       /\ left = {}
       /\ AskedMembers
       /\ \A e \in db.frontier.entries : EntrySettled(e)
       /\ \A pf \in Platform : VisitSettled(pf)

\* Products and quotients by the page size.
LEMMA TimesGrows ==
  ASSUME NEW j \in Nat, NEW k \in Nat, NEW n \in Nat, j <= k
  PROVE  j * n \in Nat /\ j * n <= k * n
<1>1. k = j + (k - j) /\ k - j \in Nat
  OBVIOUS
<1> DEFINE d == k - j
<1>2. d \in Nat /\ k = j + d
  BY <1>1
<1> HIDE DEF d
<1>3. (j + d) * n = j * n + d * n /\ j * n \in Nat /\ d * n \in Nat
  BY <1>2
<1> QED
  BY <1>2, <1>3

LEMMA QuotientIs ==
  ASSUME NEW r \in Nat, NEW n \in Nat \ {0}, NEW j \in Nat
  PROVE  /\ r \div n \in Nat
         /\ r \div n <= r
         /\ r \div n = j <=> j * n <= r /\ r < j * n + n
         /\ j < r \div n => j * n + n <= r
<1> DEFINE k == r \div n
<1>1. k \in Nat /\ k * n <= r /\ r < k * n + n
  OBVIOUS
<1> HIDE DEF k
<1>2. ASSUME NEW a \in Nat, NEW b \in Nat, a < b PROVE a * n + n <= b * n
  <2>1. a + 1 <= b /\ a + 1 \in Nat
    BY <1>2
  <2>2. (a + 1) * n <= b * n
    BY <2>1, TimesGrows
  <2>3. (a + 1) * n = a * n + n
    OBVIOUS
  <2> QED BY <2>2, <2>3
<1>3. j * n \in Nat /\ k * n \in Nat
  BY <1>1
<1>4. j < k => j * n + n <= k * n
  BY <1>1, <1>2
<1>5. k < j => k * n + n <= j * n
  BY <1>1, <1>2
<1>6. k <= r
  <2>1. k * 1 <= k * n
    <3>1. n * k = k * n /\ 1 * k = k * 1
      BY <1>1
    <3>2. 1 * k <= n * k
      BY <1>1, TimesGrows
    <3> QED BY <3>1, <3>2
  <2> QED BY <2>1, <1>1, <1>3
<1>7. k = j <=> j * n <= r /\ r < j * n + n
  BY <1>1, <1>3, <1>4, <1>5
<1>8. j < k => j * n + n <= r
  BY <1>1, <1>3, <1>4
<1> QED
  BY <1>1, <1>6, <1>7, <1>8 DEF k

\* How many of list are newer than g.
Rank(list, g) == Cardinality({h \in list : h > g})

\* The ranks of the members of list are 0 to its size less one, each once.
LEMMA RankIsBijection ==
  ASSUME NEW list \in SUBSET Nat, IsFiniteSet(list)
  PROVE  [g \in list |-> Rank(list, g)] \in Bijection(list, 0 .. Cardinality(list) - 1)
<1> DEFINE n == Cardinality(list)
           T == 0 .. n - 1
           f == [g \in list |-> Rank(list, g)]
           newer(g) == {h \in list : h > g}
<1>1. n \in Nat
  BY FS_CardinalityType
<1>2. ASSUME NEW g \in list
      PROVE  IsFiniteSet(newer(g)) /\ Rank(list, g) \in Nat /\ Rank(list, g) < n
  <2>1. newer(g) \in SUBSET list /\ newer(g) # list
    OBVIOUS
  <2> HIDE DEF newer
  <2>2. IsFiniteSet(newer(g)) /\ Cardinality(newer(g)) <= n /\ Cardinality(newer(g)) # n
    BY <2>1, FS_Subset
  <2>3. Cardinality(newer(g)) \in Nat
    BY <2>2, FS_CardinalityType
  <2>4. Rank(list, g) = Cardinality(newer(g))
    BY DEF Rank, newer
  <2> QED BY <1>1, <2>2, <2>3, <2>4
<1>3. ASSUME NEW g \in list, NEW h \in list, g < h PROVE Rank(list, h) < Rank(list, g)
  <2>1. newer(h) \in SUBSET newer(g) /\ h \in newer(g) /\ h \notin newer(h)
    <3>1. g \in Nat /\ h \in Nat /\ h > g /\ ~(h > h)
      BY <1>3
    <3>2. \A i \in list : i \in Nat /\ (i > h => i > g)
      BY <1>3, <3>1
    <3> QED BY <3>1, <3>2
  <2>2. IsFiniteSet(newer(g)) /\ Rank(list, g) \in Nat /\ Rank(list, h) \in Nat
    BY <1>2
  <2>3. Rank(list, g) = Cardinality(newer(g)) /\ Rank(list, h) = Cardinality(newer(h))
    BY DEF Rank
  <2> HIDE DEF newer
  <2>4. Cardinality(newer(h)) <= Cardinality(newer(g)) /\ Cardinality(newer(g)) # Cardinality(newer(h))
    BY <2>1, <2>2, FS_Subset
  <2> QED BY <2>2, <2>3, <2>4
<1>4. f \in [list -> T]
  <2>1. ASSUME NEW g \in list PROVE Rank(list, g) \in T
    <3>1. Rank(list, g) \in Nat /\ Rank(list, g) < n
      BY <1>2
    <3> HIDE DEF n
    <3> QED BY <1>1, <3>1
  <2> HIDE DEF T
  <2> QED BY <2>1
<1>5. \A g, h \in list : f[g] = f[h] => g = h
  <2> SUFFICES ASSUME NEW g \in list, NEW h \in list, Rank(list, g) = Rank(list, h) PROVE g = h
    OBVIOUS
  <2>1. Rank(list, g) \in Nat
    BY <1>2
  <2>2. ~(g < h) /\ ~(h < g)
    BY <2>1, <1>3
  <2>3. g \in Nat /\ h \in Nat
    OBVIOUS
  <2> QED BY <2>2, <2>3
<1> HIDE DEF f
<1>6. f \in Injection(list, T)
  BY <1>4, <1>5 DEF Injection, IsInjective
<1> HIDE DEF n
<1>7. IsFiniteSet(T) /\ Cardinality(T) = n
  <2>1. 0 \in Int /\ n - 1 \in Int
    BY <1>1
  <2>2. IsFiniteSet(T) /\ Cardinality(T) = IF 0 > n - 1 THEN 0 ELSE (n - 1) - 0 + 1
    BY <2>1, FS_Interval
  <2> HIDE DEF T
  <2>3. IF 0 > n - 1 THEN n = 0 ELSE (n - 1) - 0 + 1 = n
    BY <1>1
  <2> QED BY <2>2, <2>3
<1> HIDE DEF T
<1>8. f \in Surjection(list, T)
  BY <1>6, <1>7, FS_Injection DEF n
<1>9. f \in Bijection(list, T)
  BY <1>6, <1>8 DEF Bijection
<1> QED
  BY <1>9 DEF f, T, n

\* A page in front of one that is not empty is full.
LEMMA PagesAreFull ==
  ASSUME NEW list \in SUBSET Nat, IsFiniteSet(list), NEW g \in list
  PROVE  /\ PageOf(list, g) \in 0 .. Cardinality(list)
         /\ \A j \in Nat : j < PageOf(list, g) =>
              Cardinality(PageIds(list, j)) = PAGE /\ (j + 1) * PAGE < Cardinality(list)
<1> DEFINE n == Cardinality(list)
           T == 0 .. n - 1
           f == [h \in list |-> Rank(list, h)]
<1>1. n \in Nat /\ PAGE \in Nat \ {0}
  BY FS_CardinalityType, CrawlerAssumption
<1>2. f \in Bijection(list, T)
  BY RankIsBijection
<1>3. /\ f \in [list -> T] /\ \A h, i \in list : f[h] = f[i] => h = i
      /\ \A t \in T : \E h \in list : f[h] = t
  BY <1>2 DEF Bijection, Injection, Surjection, IsInjective
<1>4. \A h \in list : PageOf(list, h) = f[h] \div PAGE /\ f[h] \in Nat /\ f[h] < n
  BY <1>1, <1>3 DEF PageOf, Rank
<1> HIDE DEF f
<1>5. PageOf(list, g) \in 0 .. n
  <2>1. f[g] \in Nat /\ f[g] < n /\ PageOf(list, g) = f[g] \div PAGE
    BY <1>4
  <2>2. f[g] \div PAGE \in Nat /\ f[g] \div PAGE <= f[g]
    BY <1>1, <2>1, QuotientIs
  <2> QED BY <1>1, <2>1, <2>2
<1>6. ASSUME NEW j \in Nat, j < PageOf(list, g)
      PROVE  Cardinality(PageIds(list, j)) = PAGE /\ (j + 1) * PAGE < n
  <2> DEFINE m == j * PAGE
             I == m .. m + PAGE - 1
             P == PageIds(list, j)
             r == f[g]
  <2>1. m \in Nat
    BY <1>1
  <2>2. r \in Nat /\ r < n /\ m + PAGE <= r
    <3>1. r \in Nat /\ r < n /\ PageOf(list, g) = r \div PAGE
      BY <1>4
    <3> HIDE DEF r
    <3>2. j < r \div PAGE
      BY <1>6, <3>1
    <3> QED BY <1>1, <3>1, <3>2, QuotientIs
  <2>3. (j + 1) * PAGE = m + PAGE
    BY <1>1
  <2>4. P = {h \in list : f[h] \in I}
    <3>1. ASSUME NEW h \in list PROVE PageOf(list, h) = j <=> f[h] \in I
      <4>1. f[h] \in Nat /\ PageOf(list, h) = f[h] \div PAGE
        BY <1>4
      <4>2. f[h] \div PAGE = j <=> m <= f[h] /\ f[h] < m + PAGE
        BY <1>1, <4>1, QuotientIs
      <4> HIDE DEF m
      <4> QED BY <1>1, <2>1, <4>1, <4>2
    <3> QED BY <3>1 DEF PageIds
  <2> HIDE DEF m, r
  <2>5. I \subseteq T
    BY <1>1, <2>1, <2>2
  <2>6. IsFiniteSet(I) /\ Cardinality(I) = PAGE
    <3>1. m \in Int /\ m + PAGE - 1 \in Int /\ ~(m > m + PAGE - 1) /\ (m + PAGE - 1) - m + 1 = PAGE
      BY <1>1, <2>1
    <3> QED BY <3>1, FS_Interval
  <2> HIDE DEF I, P, T
  <2> DEFINE b == [h \in P |-> f[h]]
  <2>7. b \in [P -> I] /\ \A h \in P : b[h] = f[h] /\ h \in list
    BY <2>4
  <2>8. \A h, i \in P : b[h] = b[i] => h = i
    BY <2>7, <1>3
  <2>9. \A t \in I : \E h \in P : b[h] = t
    BY <2>4, <2>5, <2>7, <1>3
  <2> HIDE DEF b
  <2>10. b \in Injection(P, I) /\ b \in Surjection(P, I)
    BY <2>7, <2>8, <2>9 DEF Injection, Surjection, IsInjective
  <2>11. Cardinality(P) = Cardinality(I)
    BY <2>6, <2>10, FS_Injection
  <2> QED BY <1>1, <2>1, <2>2, <2>3, <2>6, <2>11 DEF P
<1> QED
  BY <1>5, <1>6

\* A deep visit that is not stopped lists all the player has on its platform.
LEMMA DeepVisitIsWhole ==
  ASSUME ShortHistories, now \in Nat, ~stop, NEW pf \in Platform, NEW p \in Player,
         NEW g \in Game, g <= now, p \in PlayersOf[g], PlatformOf[g] = pf
  PROVE  g \in seen \/ g \in NewIds(pf, p, TRUE)
<1> DEFINE list == Listed(pf, p, TRUE)
           all == {h \in Game : p \in PlayersOf[h]}
           k == PageOf(list, g)
           read == {i \in 0 .. Cardinality(list) : \A j \in 0 .. (i - 1) : GoesOn(list, j, TRUE)}
<1>1. MaxTime \in Nat /\ PAGE \in Nat /\ MATCHLIST_MAX_DEPTH \in Nat
  BY CrawlerAssumption
<1>2. IsFiniteSet(all)
  <2>1. IsFiniteSet(Game)
    BY <1>1, FS_Interval DEF Game
  <2> QED BY <2>1, FS_Subset
<1>3. g \in list /\ list \in SUBSET all /\ list \in SUBSET Nat
  BY <1>1 DEF Listed, Game
<1>4. Cardinality(all) <= MATCHLIST_MAX_DEPTH
  BY DEF ShortHistories
<1>5. NewIds(pf, p, TRUE) = {h \in UNION {PageIds(list, i) : i \in read} : PlatformOf[h] = pf /\ h \notin seen}
  BY DEF NewIds
<1> HIDE DEF list, all
<1>6. IsFiniteSet(list) /\ Cardinality(list) <= Cardinality(all)
  BY <1>2, <1>3, FS_Subset
<1>7. Cardinality(list) \in Nat /\ Cardinality(all) \in Nat
  BY <1>2, <1>6, FS_CardinalityType
<1>8. /\ k \in 0 .. Cardinality(list)
      /\ \A j \in Nat : j < k =>
           Cardinality(PageIds(list, j)) = PAGE /\ (j + 1) * PAGE < Cardinality(list)
  BY <1>3, <1>6, PagesAreFull
<1>9. k \in Nat
  BY <1>7, <1>8
<1> HIDE DEF k
<1>10. ASSUME NEW j \in 0 .. (k - 1) PROVE GoesOn(list, j, TRUE)
  <2>1. j \in Nat /\ j < k
    BY <1>9
  <2>2. Cardinality(PageIds(list, j)) = PAGE /\ (j + 1) * PAGE < Cardinality(list)
    BY <1>8, <2>1
  <2> DEFINE m == (j + 1) * PAGE
  <2>3. m \in Nat
    BY <1>1, <2>1
  <2>4. m < Cardinality(list)
    BY <2>2
  <2> HIDE DEF m
  <2>5. m < MATCHLIST_MAX_DEPTH
    BY <1>1, <1>4, <1>6, <1>7, <2>3, <2>4
  <2> QED BY <2>2, <2>5 DEF GoesOn, m
<1>11. k \in read
  BY <1>8, <1>10
<1>12. g \in PageIds(list, k)
  BY <1>3 DEF PageIds, k
<1> QED
  BY <1>5, <1>11, <1>12

\* A step of region pf as far as the backfill is concerned, to place.
RegionStep(pf, place) ==
  /\ UNCHANGED <<asked, crashes, now, stop, restarts>>
  /\ faults' \in {faults, faults + 1}
  /\ left' = left \/ faults' = faults + 1
  /\ loop' = [loop EXCEPT ![pf] = place]
  /\ seen \subseteq seen' /\ db.cohort \subseteq db'.cohort
  /\ place.at = "off" /\ restarts < MaxRestarts => bitmap' = seen'

\* It touches players of its own only: what it queues and whom it visits is to be shown.
LEMMA RegionKeeps ==
  ASSUME Settled, CrawlerInv, BackfillInv, NEW pf \in Platform, NEW place, RegionStep(pf, place),
         faults = 0 /\ faults' = 0 /\ crashes = 0 =>
           /\ Queued(db'.frontier) \subseteq Queued(db.frontier) \cup Meets(pf)
           /\ \A e \in db'.frontier.entries : e \in db.frontier.entries \/ EntrySettled(e)'
           /\ place.at \in {"visit", "fetch"} => VisitSettled(pf)'
  PROVE  BackfillInv'
<1>1. /\ loop'[pf] = place /\ \A q \in Platform : q # pf => loop'[q] = loop[q]
      /\ asked' = asked /\ crashes' = crashes /\ now' = now /\ stop' = stop
      /\ restarts' = restarts
      /\ seen \subseteq seen' /\ db.cohort \subseteq db'.cohort
  BY Facts DEF RegionStep
<1>2. faults' \in Nat /\ crashes' \in Nat /\ (faults' = 0 => faults = 0 /\ left' = left)
  BY DEF RegionStep, BackfillInv
<1>3. LastBitmapIsWhole'
  BY <1>1 DEF LastBitmapIsWhole, At, RegionStep
<1>4. ASSUME faults' = 0, crashes' = 0
      PROVE  /\ left' = {} /\ AskedMembers'
             /\ \A e \in db'.frontier.entries : EntrySettled(e)'
             /\ \A q \in Platform : VisitSettled(q)'
  <2>1. /\ faults = 0 /\ crashes = 0 /\ left = {} /\ AskedMembers
        /\ \A e \in db.frontier.entries : EntrySettled(e)
        /\ \A q \in Platform : VisitSettled(q)
    BY <1>1, <1>2, <1>4 DEF BackfillInv
  <2>2. /\ Queued(db'.frontier) \subseteq Queued(db.frontier) \cup Meets(pf)
        /\ \A e \in db'.frontier.entries : e \in db.frontier.entries \/ EntrySettled(e)'
        /\ place.at \in {"visit", "fetch"} => VisitSettled(pf)'
    BY <1>4, <2>1
  <2>3. AskedMembers'
    BY <1>1, <2>1 DEF AskedMembers
  <2>4. \A q, p : Caught(q, p) => Caught(q, p)'
    BY <1>1 DEF Caught, Backlog
  <2>5. ASSUME NEW e \in db'.frontier.entries PROVE EntrySettled(e)'
    <3>1. CASE e \in db.frontier.entries
      <4>1. EntrySettled(e)
        BY <2>1, <3>1
      <4> QED BY <1>1, <2>4, <4>1 DEF EntrySettled
    <3> QED BY <2>2, <3>1
  <2>6. ASSUME NEW q \in Platform PROVE VisitSettled(q)'
    <3>1. CASE q = pf
      BY <1>1, <2>2, <3>1 DEF VisitSettled
    <3>2. CASE q # pf
      <4> SUFFICES ASSUME loop[q].at \in {"visit", "fetch"} PROVE VisitSettled(q)'
        BY <1>1, <3>2 DEF VisitSettled
      <4>1. VisitSettled(q) /\ loop'[q] = loop[q]
        BY <1>1, <2>1, <3>2
      <4>2. loop[q].pid \in Meets(q) /\ loop[q].pid \notin Meets(pf)
        BY <3>2, <4>1 DEF VisitSettled, Settled
      <4>3. loop[q].pid \notin Queued(db'.frontier)
        BY <2>2, <4>1, <4>2 DEF VisitSettled
      <4>4. Backlog(q, loop[q].pid)' = Backlog(q, loop[q].pid)
        BY <1>1, <4>1 DEF Backlog
      <4>5. /\ loop[q].pid \in db'.cohort
            /\ loop[q].last_visit # DEEP_VISIT_MS => Caught(q, loop[q].pid)'
        BY <1>1, <2>4, <4>1 DEF VisitSettled
      <4>6. (/\ loop[q].last_visit = DEEP_VISIT_MS /\ loop[q].at = "fetch" /\ ~stop
             /\ asked[loop[q].pid] # None) =>
              Backlog(q, loop[q].pid) \subseteq seen' \cup loop[q].todo
        BY <1>1, <4>1 DEF VisitSettled
      <4>7. (loop[q].pid)' = loop[q].pid
        BY <4>1
      <4>8. Caught(q, loop[q].pid)' <=> (asked[loop[q].pid] # None => Backlog(q, loop[q].pid) \subseteq seen')
        BY <1>1, <4>1, <4>4 DEF Caught
      <4> QED
        BY <1>1, <4>1, <4>2, <4>3, <4>4, <4>5, <4>6, <4>8 DEF VisitSettled
    <3> QED BY <3>1, <3>2
  <2> QED BY <1>2, <1>4, <2>1, <2>3, <2>5, <2>6
<1> QED
  BY <1>2, <1>3, <1>4 DEF BackfillInv

\* One that leaves the queue as it is and ends away from a visit.
LEMMA CalmKeeps ==
  ASSUME Settled, CrawlerInv, BackfillInv, NEW pf \in Platform, NEW place, RegionStep(pf, place),
         place.at \notin {"visit", "fetch"}, db'.frontier = db.frontier
  PROVE  BackfillInv'
BY RegionKeeps

\* What is in the queue after a push.
LEMMA PushedEntries ==
  ASSUME NEW f, NEW key, NEW ps, NEW lv, NEW e \in PushBatch(f, key, ps, lv).entries
  PROVE  \/ e \in f.entries
         \/ /\ e.pid \in ps /\ e.key = key /\ e.last_visit = lv
            /\ e.pid \in Queued(f) => f.idx[e.pid].bucket > key.bucket
<1> DEFINE new == {p \in ps : p \in Queued(f) => f.idx[p].bucket > key.bucket}
<1>1. PushBatch(f, key, ps, lv).entries = (f.entries \ EntriesOf(f, new)) \cup {Entry(key, p, lv) : p \in new}
  BY DEF PushBatch
<1>2. CASE e \in f.entries
  BY <1>2
<1>3. CASE e \notin f.entries
  <2>1. PICK p \in new : e = Entry(key, p, lv)
    BY <1>1, <1>3
  <2>2. e.pid = p /\ e.key = key /\ e.last_visit = lv
    BY <2>1 DEF Entry
  <2> QED BY <2>1, <2>2
<1> QED
  BY <1>2, <1>3

\* Only players nobody has asked for are queued as never visited: the others are
\* members, and queued in the priority bucket or being visited by pf.
LEMMA NewcomersSettle ==
  ASSUME Settled, CrawlerInv, BackfillInv, faults = 0, crashes = 0, NEW pf \in Platform,
         NEW ps, ps \subseteq Meets(pf),
         loop[pf].at \notin {"visit", "fetch"} \/ ps \cap db.cohort = {},
         NEW due, NEW e, e \in PushBatch(db.frontier, Key(pf, BUCKET_PRIORITY, due), ps, NEVER).entries,
         asked' = asked
  PROVE  e \in db.frontier.entries \/ EntrySettled(e)'
<1> DEFINE key == Key(pf, BUCKET_PRIORITY, due)
           f == db.frontier
<1>1. key.platform = pf /\ key.bucket = BUCKET_PRIORITY
  BY DEF Key
<1>2. /\ left = {} /\ AskedMembers /\ MembersStayInPlay
      /\ \A d \in f.entries : EntrySettled(d)
      /\ \A q \in Platform : VisitSettled(q)
  BY DEF BackfillInv, CrawlerInv
<1>3. Indexed(f)
  BY Facts DEF TablesInv
<1> HIDE DEF key
<1> SUFFICES ASSUME e \notin f.entries PROVE EntrySettled(e)'
  OBVIOUS
<1> DEFINE p == e.pid
<1>4. /\ p \in ps /\ e.key = key /\ e.last_visit = NEVER
      /\ p \in Queued(f) => f.idx[p].bucket > key.bucket
  BY PushedEntries DEF key
<1>5. p \in Player
  BY <1>4 DEF Meets
<1>6. asked[p] = None
  <2> SUFFICES ASSUME asked[p] # None PROVE FALSE
    OBVIOUS
  <2>1. p \in db.cohort
    BY <1>2, <1>5 DEF AskedMembers
  <2>2. p \in Queued(f) \cup Visiting
    BY <1>2, <2>1 DEF MembersStayInPlay
  <2>3. CASE p \in Queued(f)
    <3>1. PICK d \in f.entries : d.pid = p
      BY <1>3, <2>3 DEF Indexed
    <3>2. f.idx[p] = d.key /\ d.key.bucket = BUCKET_PRIORITY
      BY <1>2, <1>3, <3>1 DEF Indexed, EntrySettled
    <3>3. ~(BUCKET_PRIORITY > BUCKET_PRIORITY)
      BY DEF BUCKET_PRIORITY
    <3> QED BY <1>1, <1>4, <2>3, <3>2, <3>3
  <2>4. CASE p \in Visiting
    <3>1. PICK q \in Platform : loop[q].at \in {"visit", "fetch"} /\ loop[q].pid = p
      BY <2>4 DEF Visiting
    <3>2. p \in Meets(q)
      BY <1>2, <3>1 DEF VisitSettled
    <3>3. q = pf
      BY <1>4, <3>2 DEF Settled
    <3> QED BY <1>4, <2>1, <3>1, <3>3
  <2> QED BY <2>2, <2>3, <2>4
<1>7. NEVER # DEEP_VISIT_MS
  BY DEF NEVER, DEEP_VISIT_MS
<1> HIDE DEF f
<1> QED
  BY <1>1, <1>4, <1>6, <1>7 DEF EntrySettled, Caught

\* Players of pf are enrolled by it.
LEMMA EnrolledSettles ==
  ASSUME Settled, CrawlerInv, BackfillInv, NEW pf \in Platform, NEW place, RegionStep(pf, place),
         loop[pf].at \notin {"visit", "fetch"}, place.at \notin {"visit", "fetch"},
         NEW ps, ps \subseteq Meets(pf), db' = Enrolled(pf, ps)
  PROVE  BackfillInv'
<1> DEFINE f == PushBatch(db.frontier, Key(pf, BUCKET_PRIORITY, now), ps, NEVER)
<1>1. TablesInv(db) /\ now \in Time /\ ps \subseteq Player /\ DOMAIN db = TableNames
  BY Facts DEF Meets
<1>2. db'.frontier = f
  BY <1>1 DEF Enrolled, TableNames
<1>3. Queued(db'.frontier) \subseteq Queued(db.frontier) \cup Meets(pf)
  BY <1>1, EnrolledKeeps
<1>4. asked' = asked
  BY DEF RegionStep
<1>5. ASSUME faults = 0, crashes = 0, NEW e \in db'.frontier.entries
      PROVE  e \in db.frontier.entries \/ EntrySettled(e)'
  BY <1>2, <1>4, <1>5, NewcomersSettle
<1> QED
  BY <1>3, <1>5, RegionKeeps

LEMMA SeedLeagueSettles ==
  ASSUME Settled, CrawlerInv, BackfillInv, NEW pf \in Platform, SeedLeague(pf)
  PROVE  BackfillInv'
<1> DEFINE i == loop[pf].league
<1>1. At(pf, "seed") /\ loop[pf] \in SeedPlace /\ i \in Nat \ {0} /\ now \in Time
  BY PlaceAt, Facts DEF SeedLeague, SeedPlace
<1>2. /\ UNCHANGED <<seen, stop, now, restarts, crashes, asked, left>>
      /\ i <= Len(Apex[pf])
  BY DEF SeedLeague, history
<1>3. \A n : [loop[pf] EXCEPT !.league = n].at = "seed"
  BY <1>1 DEF SeedPlace
<1>4. CASE db' = db /\ faults' \in {faults, faults + 1}
           /\ \E n : Move(pf, [loop[pf] EXCEPT !.league = n])
  <2>1. PICK n : Move(pf, [loop[pf] EXCEPT !.league = n])
    BY <1>4
  <2> DEFINE place == [loop[pf] EXCEPT !.league = n]
  <2>2. loop' = [loop EXCEPT ![pf] = place] /\ place.at = "seed"
    BY <1>3, <2>1 DEF Move
  <2> HIDE DEF place
  <2>3. RegionStep(pf, place)
    BY <1>2, <1>4, <2>2 DEF RegionStep
  <2> QED BY <1>4, <2>2, <2>3, CalmKeeps
<1>5. CASE db' = Enrolled(pf, Apex[pf][i]) /\ Move(pf, [loop[pf] EXCEPT !.league = i + 1]) /\ faults' = faults
  <2> DEFINE place == [loop[pf] EXCEPT !.league = i + 1]
             ps == Apex[pf][i]
  <2>1. loop' = [loop EXCEPT ![pf] = place] /\ place.at = "seed"
    BY <1>3, <1>5 DEF Move
  <2>2. i \in DOMAIN Apex[pf] /\ ps \subseteq Player
    <3>1. Apex[pf] \in Seq(SUBSET Player)
      BY CrawlerAssumption
    <3>2. Len(Apex[pf]) \in Nat /\ DOMAIN Apex[pf] = 1 .. Len(Apex[pf])
      BY <3>1, LenProperties
    <3>3. i \in DOMAIN Apex[pf]
      BY <1>1, <1>2, <3>2
    <3> QED BY <3>1, <3>2, <3>3, ElementOfSeq
  <2>3. ps \subseteq Meets(pf)
    BY <2>2 DEF Meets
  <2>4. db.cohort \subseteq db'.cohort
    BY <1>1, <1>5, <2>2, Facts, EnrolledKeeps
  <2> HIDE DEF place, ps
  <2>5. RegionStep(pf, place)
    BY <1>2, <1>5, <2>1, <2>4 DEF RegionStep
  <2>6. db' = Enrolled(pf, ps) /\ loop[pf].at \notin {"visit", "fetch"}
    BY <1>1, <1>5 DEF ps, At
  <2> QED BY <2>1, <2>3, <2>5, <2>6, EnrolledSettles
<1>6. CASE db' = db /\ faults' \in {faults, faults + 1} /\ Move(pf, NextIteration(db, pf, FALSE))
  <2> DEFINE place == NextIteration(db, pf, FALSE)
  <2>1. loop' = [loop EXCEPT ![pf] = place] /\ place.at \in {"stop", "pop", "seed"}
    BY <1>1, <1>6, NextPlace DEF Move
  <2> HIDE DEF place
  <2>2. RegionStep(pf, place)
    BY <1>2, <1>6, <2>1 DEF RegionStep
  <2> QED BY <1>6, <2>1, <2>2, CalmKeeps
<1> QED
  BY <1>4, <1>5, <1>6 DEF SeedLeague, Fault

LEMMA SeedDoneSettles ==
  ASSUME Settled, CrawlerInv, BackfillInv, NEW pf \in Platform, SeedDone(pf)
  PROVE  BackfillInv'
<1>1. DOMAIN db = TableNames
  BY Facts
<1>2. UNCHANGED <<seen, stop, now, faults, restarts, crashes, asked, left>>
  BY DEF SeedDone, bounds, history
<1>3. db'.cohort = db.cohort /\ db'.frontier = db.frontier
  <2>1. CASE db' = [db EXCEPT !.seeded[pf] = loop[pf].since]
    <3> DEFINE seeded == [db.seeded EXCEPT ![pf] = loop[pf].since]
    <3>1. db' = [db EXCEPT !.seeded = seeded]
      BY <2>1
    <3> HIDE DEF seeded
    <3> QED BY <1>1, <3>1 DEF TableNames
  <2> QED BY <2>1 DEF SeedDone
<1>4. PICK place \in {Goto("pop"), Goto("stop")} : loop' = [loop EXCEPT ![pf] = place]
  BY DEF SeedDone, Move
<1>5. place.at \in {"pop", "stop"}
  BY <1>4, GotoPlace
<1>6. RegionStep(pf, place)
  BY <1>2, <1>3, <1>4, <1>5 DEF RegionStep
<1> QED
  BY <1>3, <1>5, <1>6, CalmKeeps

LEMMA SetCursorSettles ==
  ASSUME Settled, CrawlerInv, BackfillInv, NEW pf \in Platform, SetCursor(pf)
  PROVE  BackfillInv'
<1> DEFINE cursor == [db.cursor EXCEPT ![pf] = loop[pf].next]
<1>1. DOMAIN db = TableNames
  BY Facts
<1>2. /\ UNCHANGED <<seen, stop, now, faults, restarts, crashes, asked, left>>
      /\ db' = [db EXCEPT !.cursor = cursor] /\ loop' = [loop EXCEPT ![pf] = Goto("end")]
  BY DEF SetCursor, Move, bounds, history
<1> HIDE DEF cursor
<1>3. db'.cohort = db.cohort /\ db'.frontier = db.frontier
  BY <1>1, <1>2 DEF TableNames
<1>4. Goto("end").at = "end"
  BY GotoPlace
<1>5. RegionStep(pf, Goto("end"))
  BY <1>2, <1>3, <1>4 DEF RegionStep
<1> QED
  BY <1>3, <1>4, <1>5, CalmKeeps

\* The last region to end has saved the bitmaps.
LEMMA CommitSettles ==
  ASSUME Settled, CrawlerInv, BackfillInv, NEW pf \in Platform,
         RegionStops(pf) \/ \E commit \in BOOLEAN : EndIteration(pf, commit)
  PROVE  BackfillInv'
<1> DEFINE next == NextIteration(db, pf, stop)
<1>1. UNCHANGED <<db, seen, stop, now, faults, restarts, crashes, asked, left>>
  BY DEF RegionStops, EndIteration, bounds, history
<1>2. now \in Time /\ stop \in BOOLEAN
  BY Facts
<1>3. CASE RegionStops(pf)
  <2>1. /\ loop' = [loop EXCEPT ![pf] = Goto("off")]
        /\ restarts < MaxRestarts => bitmap' = seen
    BY <1>3 DEF RegionStops, Commit, Move
  <2>2. Goto("off").at = "off"
    BY GotoPlace
  <2>3. RegionStep(pf, Goto("off"))
    BY <1>1, <2>1, <2>2 DEF RegionStep
  <2> QED BY <1>1, <2>2, <2>3, CalmKeeps
<1>4. CASE \E commit \in BOOLEAN : EndIteration(pf, commit)
  <2>1. loop' = [loop EXCEPT ![pf] = next] /\ next.at \in {"stop", "pop", "seed"}
    BY <1>2, <1>4, NextPlace DEF EndIteration, Move
  <2> HIDE DEF next
  <2>2. RegionStep(pf, next)
    BY <1>1, <2>1 DEF RegionStep
  <2> QED BY <1>1, <2>1, <2>2, CalmKeeps
<1> QED
  BY <1>3, <1>4

LEMMA ExpandPageSettles ==
  ASSUME Settled, CrawlerInv, BackfillInv, NEW pf \in Platform, ExpandPage(pf)
  PROVE  BackfillInv'
<1> DEFINE c == db.cursor[pf]
           page == Ladder[pf][c[1]][c[2]]
<1>1. TablesInv(db) /\ CrawlerTables(db) /\ now \in Time
  BY Facts
<1>2. /\ At(pf, "expand") /\ UNCHANGED <<seen, stop, now, restarts, crashes, asked, left>>
      /\ faults' \in {faults, faults + 1}
  BY DEF ExpandPage, Fault, history
<1>3. c \in Cursor
  BY <1>1 DEF CrawlerTables
<1>4. CASE db' = db /\ \E place : place.at \in {"end", "stop", "cursor"} /\ loop' = [loop EXCEPT ![pf] = place]
  <2>1. PICK place : place.at \in {"end", "stop", "cursor"} /\ loop' = [loop EXCEPT ![pf] = place]
    BY <1>4
  <2>2. RegionStep(pf, place)
    BY <1>2, <1>4, <2>1 DEF RegionStep
  <2> QED BY <1>4, <2>1, <2>2, CalmKeeps
<1>5. CASE /\ c[1] <= Len(Ladder[pf]) /\ c[2] <= Len(Ladder[pf][c[1]])
           /\ db' = Enrolled(pf, page)
           /\ Move(pf, [at |-> "cursor", next |-> <<c[1], c[2] + 1>>])
  <2> DEFINE place == [at |-> "cursor", next |-> <<c[1], c[2] + 1>>]
             ladder == Ladder[pf]
             band == ladder[c[1]]
  <2>1. loop' = [loop EXCEPT ![pf] = place] /\ place.at = "cursor"
    BY <1>5 DEF Move
  <2>2. ladder \in Seq(Seq(SUBSET Player)) /\ c[1] \in Nat \ {0} /\ c[2] \in Nat \ {0}
        /\ c[1] <= Len(ladder) /\ c[2] <= Len(band)
    BY <1>3, <1>5, CrawlerAssumption DEF Cursor
  <2> HIDE DEF c, ladder, place
  <2>3. DOMAIN ladder = 1 .. Len(ladder) /\ Len(ladder) \in Nat
    BY <2>2, LenProperties
  <2>4. c[1] \in DOMAIN ladder /\ band \in Seq(SUBSET Player)
    BY <2>2, <2>3
  <2>5. band = ladder[c[1]]
    OBVIOUS
  <2> HIDE DEF band
  <2>6. DOMAIN band = 1 .. Len(band) /\ Len(band) \in Nat
    BY <2>4, LenProperties
  <2>7. c[2] \in DOMAIN band /\ band[c[2]] \subseteq Player
    BY <2>2, <2>4, <2>6
  <2>8. page = band[c[2]]
    BY <2>5 DEF ladder
  <2>9. page \subseteq Meets(pf)
    BY <2>4, <2>5, <2>7, <2>8 DEF Meets, ladder
  <2>10. page \subseteq Player
    BY <2>7, <2>8
  <2>11. db' = Enrolled(pf, page)
    BY <1>5
  <2> HIDE DEF page
  <2>12. db.cohort \subseteq db'.cohort
    BY <1>1, <2>10, <2>11, EnrolledKeeps
  <2>13. RegionStep(pf, place)
    BY <1>2, <2>1, <2>12 DEF RegionStep
  <2>14. loop[pf].at \notin {"visit", "fetch"} /\ place.at \notin {"visit", "fetch"}
    BY <1>2, <2>1 DEF At
  <2> QED BY <2>9, <2>11, <2>13, <2>14, EnrolledSettles
<1>6. c[1] <= Len(Ladder[pf]) \/ c[1] > Len(Ladder[pf])
  <2>1. Ladder[pf] \in Seq(Seq(SUBSET Player))
    BY CrawlerAssumption
  <2>2. Len(Ladder[pf]) \in Nat /\ c[1] \in Nat
    BY <1>3, <2>1, LenProperties DEF Cursor
  <2> HIDE DEF c
  <2> QED
    BY <2>2
<1>7. /\ \A where \in {"end", "stop"} : Goto(where).at = where
      /\ \A next : [at |-> "cursor", next |-> next].at = "cursor"
  BY DEF Goto
<1> HIDE DEF c
<1>8. \/ db' = db /\ \E where \in {"end", "stop"} : Move(pf, Goto(where))
      \/ db' = db /\ \E next : Move(pf, [at |-> "cursor", next |-> next])
      \/ /\ c[1] <= Len(Ladder[pf]) /\ c[2] <= Len(Ladder[pf][c[1]])
         /\ db' = Enrolled(pf, page)
         /\ Move(pf, [at |-> "cursor", next |-> <<c[1], c[2] + 1>>])
  BY <1>6 DEF ExpandPage, c
<1> QED
  BY <1>4, <1>5, <1>7, <1>8 DEF Move

\* A member that is popped takes what was settled of its entry along.
LEMMA PopSettles ==
  ASSUME Settled, CrawlerInv, BackfillInv, NEW pf \in Platform, Pop(pf)
  PROVE  BackfillInv'
<1>1. TablesInv(db) /\ now \in Time /\ stop \in BOOLEAN /\ loop \in [Platform -> Place]
  BY Facts
<1>2. UNCHANGED <<seen, stop, now, faults, restarts, crashes, asked, left>>
  BY DEF Pop, bounds, history
<1>3. CASE db' = db /\ Move(pf, Goto("expand"))
  <2>1. loop' = [loop EXCEPT ![pf] = Goto("expand")] /\ Goto("expand").at = "expand"
    BY <1>3, GotoPlace DEF Move
  <2>2. RegionStep(pf, Goto("expand"))
    BY <1>2, <1>3, <2>1 DEF RegionStep
  <2> QED BY <1>3, <2>1, <2>2, CalmKeeps
<1>4. ASSUME NEW e \in Poppable(db.frontier, pf, now),
             db' = [db EXCEPT !.frontier = Popped(db.frontier, e)],
             Move(pf, IF e.pid \in db.cohort
                      THEN [at |-> "visit", pid |-> e.pid, last_visit |-> e.last_visit]
                      ELSE NextIteration(db, pf, stop))
      PROVE  BackfillInv'
  <2> DEFINE visit == [at |-> "visit", pid |-> e.pid, last_visit |-> e.last_visit]
             next == NextIteration(db, pf, stop)
             place == IF e.pid \in db.cohort THEN visit ELSE next
             old == db.frontier
             f == Popped(old, e)
  <2>1. e \in old.entries /\ e.key.platform = pf
    BY DEF Poppable, Due
  <2>2. FrontierTables(old) /\ Indexed(old)
    BY <1>1 DEF TablesInv, CrawlerTables
  <2>3. visit.at = "visit" /\ visit.pid = e.pid /\ visit.last_visit = e.last_visit
    OBVIOUS
  <2>4. next.at \in {"stop", "pop", "seed"}
    BY <1>1, NextPlace
  <2>5. db' = [db EXCEPT !.frontier = f] /\ loop' = [loop EXCEPT ![pf] = place]
    BY <1>4 DEF Move
  <2>6. f.entries = old.entries \ {e}
    BY DEF Popped
  <2> HIDE DEF visit, next, old
  <2>7. FrontierTables(f) /\ Indexed(f) /\ Queued(f) = Queued(old) \ {e.pid}
    BY <2>1, <2>2, PoppedKeeps
  <2> HIDE DEF f
  <2>8. db'.frontier = f /\ db'.cohort = db.cohort
    BY <1>1, <2>5, <2>7, FrontierSet
  <2>9. place.at \in {"visit", "stop", "pop", "seed"}
    BY <2>3, <2>4
  <2>10. RegionStep(pf, place)
    BY <1>2, <2>5, <2>8, <2>9 DEF RegionStep
  <2>11. ASSUME faults = 0, crashes = 0, place.at \in {"visit", "fetch"} PROVE VisitSettled(pf)'
    <3>1. e.pid \in db.cohort /\ place = visit
      BY <2>4, <2>11
    <3>2. loop'[pf] = visit
      BY <1>1, <2>5, <3>1
    <3>3. EntrySettled(e)
      BY <2>1, <2>11 DEF BackfillInv, old
    <3>4. e.pid \in Meets(pf) /\ (e.last_visit # DEEP_VISIT_MS => Caught(pf, e.pid))
      BY <2>1, <3>3 DEF EntrySettled
    <3>5. e.pid \notin Queued(db'.frontier)
      BY <2>7, <2>8
    <3>6. Caught(pf, e.pid) => Caught(pf, e.pid)'
      BY <1>2 DEF Caught, Backlog
    <3> HIDE DEF place
    <3>7. Caught(pf, loop[pf].pid)' <=> Caught(pf, e.pid)'
      BY <2>3, <3>2 DEF Caught, Backlog
    <3>8. loop'[pf].at = "visit" /\ loop'[pf].pid = e.pid /\ loop'[pf].last_visit = e.last_visit
      BY <2>3, <3>2
    <3> QED
      BY <2>8, <3>1, <3>4, <3>5, <3>6, <3>7, <3>8 DEF VisitSettled
  <2> HIDE DEF place
  <2>12. \A d \in db'.frontier.entries : d \in db.frontier.entries
    BY <2>6, <2>8 DEF old
  <2>13. Queued(db'.frontier) \subseteq Queued(db.frontier)
    BY <2>7, <2>8 DEF old
  <2> QED BY <2>10, <2>11, <2>12, <2>13, RegionKeeps
<1> QED
  BY <1>3, <1>4 DEF Pop

\* A visited player goes back with the marker, or with nothing left of the backlog.
LEMMA PutBackSettles ==
  ASSUME Settled, CrawlerInv, BackfillInv, NEW pf \in Platform, loop[pf].at \in {"visit", "fetch"},
         NEW due \in Nat, NEW last_visit \in Nat,
         db' = Pushed(db, pf, due, {loop[pf].pid}, last_visit),
         loop' = [loop EXCEPT ![pf] = Goto("end")],
         UNCHANGED <<seen, stop, now, restarts, crashes, asked, left>>,
         faults' \in {faults, faults + 1},
         faults = 0 /\ crashes = 0 =>
           (last_visit # DEEP_VISIT_MS => Caught(pf, loop[pf].pid))
  PROVE  BackfillInv'
<1>0. PICK p \in Player : loop[pf].pid = p
  BY PlaceAt DEF At, VisitPlace, FetchPlace
<1> DEFINE ps == {p}
           key == Key(pf, BUCKET_PRIORITY, due)
           u == Pushed(db, pf, due, ps, last_visit)
<1>1. TablesInv(db) /\ DOMAIN db = TableNames
  BY Facts
<1>2. ps \subseteq Player
  OBVIOUS
<1>3. db' = u /\ Goto("end").at = "end"
  BY <1>0, GotoPlace
<1>4. u.frontier = PushBatch(db.frontier, key, ps, last_visit)
  BY <1>1 DEF Pushed, TableNames
<1>5. key.platform = pf /\ key.bucket = BUCKET_PRIORITY
  BY DEF Key
<1>6. \A q \in ps : q = p
  OBVIOUS
<1> HIDE DEF ps, key
<1>7. u.cohort = db.cohort /\ Queued(u.frontier) = Queued(db.frontier) \cup ps
  BY <1>1, <1>2, PlayersPushed
<1> HIDE DEF u
<1>8. RegionStep(pf, Goto("end"))
  BY <1>3, <1>7 DEF RegionStep
<1>9. ASSUME faults = 0, crashes = 0
      PROVE  /\ Queued(db'.frontier) \subseteq Queued(db.frontier) \cup Meets(pf)
             /\ \A e \in db'.frontier.entries : e \in db.frontier.entries \/ EntrySettled(e)'
  <2>1. p \in Meets(pf) /\ p \in db.cohort
    BY <1>0, <1>9 DEF BackfillInv, VisitSettled
  <2>2. last_visit # DEEP_VISIT_MS => Caught(pf, p)'
    BY <1>0, <1>9 DEF Caught, Backlog
  <2>3. ASSUME NEW e \in db'.frontier.entries, e \notin db.frontier.entries
        PROVE  EntrySettled(e)'
    <3>1. e.pid \in ps /\ e.key = key /\ e.last_visit = last_visit
      BY <1>3, <1>4, <2>3, PushedEntries
    <3>2. e.pid = p
      BY <1>6, <3>1
    <3>3. Caught(pf, e.pid)' <=> Caught(pf, p)'
      BY <3>2
    <3> QED
      BY <1>3, <1>5, <1>7, <2>1, <2>2, <3>1, <3>2, <3>3 DEF EntrySettled
  <2> QED BY <1>3, <1>6, <1>7, <2>1, <2>3
<1> QED
  BY <1>3, <1>8, <1>9, RegionKeeps

\* What is to be shown of a visit of p that goes on at place.
LEMMA VisitGoesOn ==
  ASSUME NEW pf \in Platform, NEW p \in Player, NEW place, loop'[pf] = place, place.pid = p,
         p \in Meets(pf), p \in db'.cohort, p \notin Queued(db'.frontier),
         place.last_visit # DEEP_VISIT_MS => Caught(pf, p)',
         (/\ place.last_visit = DEEP_VISIT_MS /\ place.at = "fetch" /\ ~stop' /\ asked'[p] # None) =>
           Backlog(pf, p)' \subseteq seen' \cup place.todo
  PROVE  VisitSettled(pf)'
<1>1. (loop[pf].pid)' = p
  OBVIOUS
<1>2. /\ Caught(pf, loop[pf].pid)' <=> Caught(pf, p)'
      /\ Backlog(pf, loop[pf].pid)' = Backlog(pf, p)'
  BY <1>1 DEF Caught, Backlog
<1> QED
  BY <1>1, <1>2 DEF VisitSettled

\* What a deep visit finds to download is what is left of the backlog.
LEMMA ListMatchesSettles ==
  ASSUME Settled, ShortHistories, CrawlerInv, BackfillInv, NEW pf \in Platform, ListMatches(pf)
  PROVE  BackfillInv'
<1> DEFINE v == loop[pf]
           deep == v.last_visit = DEEP_VISIT_MS
<1>1. now \in Nat /\ loop \in [Platform -> Place]
  BY Facts
<1>2. /\ At(pf, "visit") /\ UNCHANGED <<seen, stop, now, restarts, crashes, asked, left>>
      /\ faults' \in {faults, faults + 1}
  BY DEF ListMatches, Fault, history
<1>3. v \in VisitPlace
  BY <1>2, PlaceAt
<1>4. PICK p \in Player : v.pid = p
  BY <1>3 DEF VisitPlace
<1> DEFINE ids == NewIds(pf, p, deep)
<1>5. CASE db' = db /\ Move(pf, [at |-> "fetch", pid |-> v.pid, last_visit |-> v.last_visit,
                                 todo |-> NewIds(pf, v.pid, deep), listed |-> now, whole |-> TRUE])
  <2> DEFINE place == [at |-> "fetch", pid |-> p, last_visit |-> v.last_visit,
                       todo |-> ids, listed |-> now, whole |-> TRUE]
  <2>1. loop' = [loop EXCEPT ![pf] = place]
    BY <1>4, <1>5 DEF Move
  <2> HIDE DEF ids
  <2>2. place.at = "fetch" /\ place.pid = p /\ place.todo = ids /\ place.last_visit = v.last_visit
    OBVIOUS
  <2> HIDE DEF place
  <2>3. loop'[pf] = place
    BY <1>1, <2>1
  <2>4. RegionStep(pf, place)
    BY <1>2, <1>5, <2>1, <2>2 DEF RegionStep
  <2>5. ASSUME faults = 0, crashes = 0 PROVE VisitSettled(pf)'
    <3>1. VisitSettled(pf) /\ AskedMembers
      BY <2>5 DEF BackfillInv
    <3>2. /\ p \in Meets(pf) /\ p \in db.cohort /\ p \notin Queued(db.frontier)
          /\ v.last_visit # DEEP_VISIT_MS => Caught(pf, p)
      BY <1>2, <1>4, <3>1 DEF VisitSettled, At
    <3>3. Backlog(pf, p)' = Backlog(pf, p) /\ (Caught(pf, p) => Caught(pf, p)')
      BY <1>2 DEF Caught, Backlog
    <3>4. ASSUME v.last_visit = DEEP_VISIT_MS, ~stop', asked'[p] # None
          PROVE  Backlog(pf, p)' \subseteq seen' \cup place.todo
      <4>1. ids = NewIds(pf, p, TRUE)
        BY <3>4 DEF ids
      <4>2. asked[p] \in Nat /\ asked[p] <= now /\ ~stop
        BY <1>2, <3>1, <3>4 DEF AskedMembers
      <4>3. ASSUME NEW g \in Backlog(pf, p) PROVE g \in seen \cup ids
        <5>1. g \in Game /\ g <= asked[p] /\ p \in PlayersOf[g] /\ PlatformOf[g] = pf
          BY DEF Backlog
        <5>2. g \in Nat /\ g <= now
          <6>1. g \in Nat
            BY <5>1, CrawlerAssumption DEF Game
          <6> QED BY <1>1, <4>2, <5>1, <6>1
        <5>3. g \in seen \/ g \in NewIds(pf, p, TRUE)
          BY <1>1, <4>2, <5>1, <5>2, DeepVisitIsWhole
        <5> QED BY <4>1, <5>3
      <4> QED BY <1>2, <2>2, <3>3, <4>3
    <3> HIDE DEF v
    <3> QED
      BY <1>5, <2>2, <2>3, <3>2, <3>3, <3>4, VisitGoesOn
  <2> QED BY <1>5, <2>4, <2>5, RegionKeeps
<1>6. CASE db' = Pushed(db, pf, now + RETRY_DELAY, {v.pid}, v.last_visit) /\ Move(pf, Goto("end"))
  <2>1. RETRY_DELAY \in Nat
    BY CrawlerAssumption
  <2>2. now + RETRY_DELAY \in Nat /\ v.last_visit \in Nat
    BY <1>1, <1>3, <2>1 DEF VisitPlace
  <2>3. loop[pf].at \in {"visit", "fetch"} /\ loop' = [loop EXCEPT ![pf] = Goto("end")]
    BY <1>2, <1>6 DEF At, Move
  <2>4. faults = 0 /\ crashes = 0 => (v.last_visit # DEEP_VISIT_MS => Caught(pf, v.pid))
    BY <2>3 DEF BackfillInv, VisitSettled
  <2> QED
    BY <1>2, <1>6, <2>2, <2>3, <2>4, PutBackSettles
<1> QED
  BY <1>5, <1>6 DEF ListMatches, Push, Pushed

\* One download is done: the match is seen then, or the fetch has failed, or the
\* process is stopping and the visit will keep its marker.
LEMMA DownloadSettles ==
  ASSUME CrawlerInv, BackfillInv, NEW pf \in Platform, NEW place, RegionStep(pf, place),
         At(pf, "fetch"), NEW g, seen' = seen \cup {g} \/ stop,
         place.at = "fetch", place.pid = loop[pf].pid, place.last_visit = loop[pf].last_visit,
         place.todo = loop[pf].todo \ {g},
         faults = 0, crashes = 0, loop[pf].pid \notin Queued(db'.frontier)
  PROVE  VisitSettled(pf)'
<1>1. /\ loop'[pf] = place /\ asked' = asked /\ stop' = stop
      /\ seen \subseteq seen' /\ db.cohort \subseteq db'.cohort
  BY Facts DEF RegionStep
<1>2. loop[pf] \in FetchPlace
  BY PlaceAt
<1>3. PICK p \in Player : loop[pf].pid = p
  BY <1>2 DEF FetchPlace
<1>4. VisitSettled(pf) /\ loop[pf].at = "fetch"
  BY DEF BackfillInv, At
<1>5. /\ p \in Meets(pf) /\ p \in db.cohort /\ p \notin Queued(db'.frontier)
      /\ loop[pf].last_visit # DEEP_VISIT_MS => Caught(pf, p)
      /\ (loop[pf].last_visit = DEEP_VISIT_MS /\ ~stop /\ asked[p] # None) =>
           Backlog(pf, p) \subseteq seen \cup loop[pf].todo
  BY <1>3, <1>4 DEF VisitSettled
<1>6. Backlog(pf, p)' = Backlog(pf, p) /\ (Caught(pf, p) => Caught(pf, p)')
  BY <1>1 DEF Caught, Backlog
<1>7. (place.last_visit = DEEP_VISIT_MS /\ ~stop' /\ asked'[p] # None) =>
        Backlog(pf, p)' \subseteq seen' \cup place.todo
  BY <1>1, <1>5, <1>6
<1> QED
  BY <1>1, <1>3, <1>5, <1>6, <1>7, VisitGoesOn

LEMMA FetchStoredSettles ==
  ASSUME Settled, CrawlerInv, BackfillInv, NEW pf \in Platform, NEW g \in Game, NEW roll \in BOOLEAN,
         FetchStored(pf, g, roll)
  PROVE  BackfillInv'
<1> DEFINE paused == braked[pf]
           after == Stored(g, paused)
           new == Adopted(g, paused)
           todo == loop[pf].todo \ {g}
           place == [loop[pf] EXCEPT !.todo = todo]
<1>1. /\ TablesInv(db) /\ now \in Nat /\ NEVER \in Nat /\ paused \in BOOLEAN
      /\ loop \in [Platform -> Place]
  BY Facts DEF NEVER
<1>2. /\ At(pf, "fetch") /\ g \in loop[pf].todo
      /\ seen' = seen \cup {g} /\ loop' = [loop EXCEPT ![pf] = place]
      /\ UNCHANGED <<stop, now, faults, restarts, crashes, asked, left>>
      /\ db' = Pushed(after, pf, now, new, NEVER)
  BY DEF FetchStored, Move, bounds, history, Pushed
<1>3. PlatformOf[g] = pf
  BY <1>2 DEF CrawlerInv, TodoIsLocal
<1>4. /\ place.at = "fetch" /\ place.pid = loop[pf].pid /\ place.last_visit = loop[pf].last_visit
      /\ place.todo = todo
  <2>1. loop[pf] \in FetchPlace
    BY <1>2, PlaceAt
  <2> HIDE DEF todo
  <2> QED BY <2>1 DEF FetchPlace
<1> HIDE DEF paused, place
<1>5. /\ TablesInv(after) /\ after.cohort = db.cohort \cup new /\ after.frontier = db.frontier
      /\ new \subseteq Player
  BY <1>1, <1>3, StoredKeeps
<1>6. new \subseteq Meets(pf) /\ new \cap db.cohort = {}
  BY <1>3, <1>5 DEF Adopted, Meets
<1> HIDE DEF after, new
<1> DEFINE u == Pushed(after, pf, now, new, NEVER)
<1>7. /\ u.cohort = after.cohort /\ Queued(u.frontier) = Queued(after.frontier) \cup new
  <2>1. now \in Nat /\ NEVER \in Nat /\ TablesInv(after) /\ new \subseteq Player
    BY <1>1, <1>5 DEF NEVER
  <2> QED
    BY ONLY <2>1, pf \in Platform, PlayersPushed
<1>8. u.frontier = PushBatch(db.frontier, Key(pf, BUCKET_PRIORITY, now), new, NEVER)
  <2>1. DOMAIN after = TableNames
    BY <1>5 DEF TablesInv, CrawlerTables, TableNames
  <2>2. u.frontier = PushBatch(after.frontier, Key(pf, BUCKET_PRIORITY, now), new, NEVER)
    BY <2>1 DEF Pushed, TableNames
  <2> QED BY <1>5, <2>2
<1> HIDE DEF u
<1>9. db' = u
  BY <1>2 DEF u
<1>10. RegionStep(pf, place)
  BY <1>2, <1>4, <1>5, <1>7, <1>9 DEF RegionStep
<1>11. ASSUME faults = 0, crashes = 0, NEW e \in db'.frontier.entries
       PROVE  e \in db.frontier.entries \/ EntrySettled(e)'
  BY <1>2, <1>6, <1>8, <1>9, <1>11, NewcomersSettle
<1>12. ASSUME faults = 0, crashes = 0 PROVE VisitSettled(pf)'
  <2>1. loop[pf].pid \in db.cohort /\ loop[pf].pid \notin Queued(db.frontier)
    BY <1>2, <1>12 DEF BackfillInv, VisitSettled, At
  <2>2. loop[pf].pid \notin Queued(db'.frontier)
    BY <1>5, <1>6, <1>7, <1>9, <2>1
  <2> QED BY <1>2, <1>4, <1>10, <1>12, <2>2, DownloadSettles
<1>13. Queued(db'.frontier) \subseteq Queued(db.frontier) \cup Meets(pf)
  BY <1>5, <1>6, <1>7, <1>9
<1> QED
  BY <1>10, <1>11, <1>12, <1>13, RegionKeeps

LEMMA FetchOtherSettles ==
  ASSUME Settled, CrawlerInv, BackfillInv, NEW pf \in Platform, NEW g \in Game,
         FetchSkipped(pf, g) \/ FetchDropped(pf, g)
  PROVE  BackfillInv'
<1> DEFINE todo == loop[pf].todo \ {g}
<1>1. /\ At(pf, "fetch") /\ seen \subseteq seen' /\ faults' \in {faults, faults + 1}
      /\ UNCHANGED <<db, stop, now, restarts, crashes, asked, left>>
      /\ seen' = seen \cup {g} \/ stop \/ faults' = faults + 1
  BY DEF FetchSkipped, FetchDropped, Fault, bounds, history
<1>2. loop[pf] \in FetchPlace
  BY <1>1, PlaceAt
<1>3. PICK whole \in BOOLEAN : loop' = [loop EXCEPT ![pf] = Fetching(pf, todo, whole)]
  <2>1. CASE FetchSkipped(pf, g)
    <3> DEFINE w == loop[pf].whole
    <3>1. w \in BOOLEAN /\ [loop[pf] EXCEPT !.todo = todo] = Fetching(pf, todo, w)
      BY <1>2 DEF FetchPlace, Fetching
    <3> QED
      BY <2>1, <3>1 DEF FetchSkipped, Move
  <2>2. CASE FetchDropped(pf, g)
    BY <2>2 DEF FetchDropped, Move, Fetching
  <2> QED
    BY <2>1, <2>2
<1> DEFINE place == Fetching(pf, todo, whole)
<1> HIDE DEF todo
<1>4. /\ place.at = "fetch" /\ place.pid = loop[pf].pid /\ place.last_visit = loop[pf].last_visit
      /\ place.todo = todo
  BY <1>2 DEF FetchPlace, Fetching
<1>5. loop' = [loop EXCEPT ![pf] = place]
  BY <1>3
<1> HIDE DEF place
<1>6. RegionStep(pf, place)
  BY <1>1, <1>4, <1>5 DEF RegionStep
<1>7. ASSUME faults = 0, faults' = 0, crashes = 0 PROVE VisitSettled(pf)'
  <2>1. seen' = seen \cup {g} \/ stop
    BY <1>1, <1>7
  <2>2. loop[pf].pid \notin Queued(db'.frontier)
    BY <1>1, <1>7 DEF BackfillInv, VisitSettled, At
  <2>3. place.todo = loop[pf].todo \ {g}
    BY <1>4 DEF todo
  <2> QED BY <1>1, <1>4, <1>6, <1>7, <2>1, <2>2, <2>3, DownloadSettles
<1> QED
  BY <1>1, <1>6, <1>7, RegionKeeps

\* A fault, so nothing is promised any more.
LEMMA FetchFailsLateSettles ==
  ASSUME Settled, CrawlerInv, BackfillInv, NEW pf \in Platform, NEW g \in Game, NEW roll \in BOOLEAN,
         NEW marked \in BOOLEAN, FetchFailsLate(pf, g, roll, marked)
  PROVE  BackfillInv'
<1> DEFINE place == Fetching(pf, loop[pf].todo \ {g}, FALSE)
           after == Stored(g, braked[pf])
<1>1. /\ At(pf, "fetch") /\ seen \subseteq seen' /\ faults' = faults + 1 /\ db' = after
      /\ UNCHANGED <<stop, now, restarts, crashes, asked>>
      /\ loop' = [loop EXCEPT ![pf] = place]
  BY DEF FetchFailsLate, Fault, Move, Fetching
<1>2. loop[pf] \in FetchPlace
  BY <1>1, PlaceAt
<1>3. place.at = "fetch"
  BY <1>2 DEF FetchPlace, Fetching
<1>4. DOMAIN db = TableNames
  BY Facts
<1>5. db.cohort \subseteq after.cohort
  BY <1>4 DEF Stored, TableNames
<1> HIDE DEF place, after
<1>6. RegionStep(pf, place)
  BY <1>1, <1>3, <1>5 DEF RegionStep
<1>7. faults' # 0
  BY <1>1 DEF BackfillInv
<1> QED
  BY <1>6, <1>7, RegionKeeps

\* A deep visit that gives its marker up has no downloads left.
LEMMA RescheduleSettles ==
  ASSUME Settled, CrawlerInv, BackfillInv, NEW pf \in Platform, Reschedule(pf)
  PROVE  BackfillInv'
<1> DEFINE v == loop[pf]
<1>1. now \in Nat /\ DEEP_VISIT_MS \in Nat
  BY Facts DEF DEEP_VISIT_MS
<1>2. /\ loop[pf].at = "fetch" /\ loop[pf].todo = {} /\ loop' = [loop EXCEPT ![pf] = Goto("end")]
      /\ UNCHANGED <<seen, stop, now, faults, restarts, crashes, asked, left>>
  BY DEF Reschedule, Move, At, bounds, history
<1>3. \A delay \in Revisit : now + delay \in Nat
  <2>1. Revisit \subseteq Nat
    BY CrawlerAssumption
  <2> QED BY <1>1, <2>1
<1>4. CASE stop /\ v.last_visit = DEEP_VISIT_MS
  <2>1. db' = Pushed(db, pf, now, {loop[pf].pid}, DEEP_VISIT_MS)
    BY <1>4 DEF Reschedule, Push, Pushed
  <2> QED BY <1>1, <1>2, <2>1, PutBackSettles
<1>5. CASE ~(stop /\ v.last_visit = DEEP_VISIT_MS)
  <2>1. PICK delay \in Revisit : db' = Pushed(db, pf, now + delay, {loop[pf].pid}, now)
    BY <1>5 DEF Reschedule, Push, Pushed
  <2>2. ASSUME faults = 0, crashes = 0 PROVE Caught(pf, loop[pf].pid)
    <3>1. VisitSettled(pf)
      BY <2>2 DEF BackfillInv
    <3> QED BY <1>2, <1>5, <3>1 DEF VisitSettled, Caught
  <2>3. now + delay \in Nat
    BY <1>3
  <2> QED BY <1>1, <1>2, <2>1, <2>2, <2>3, PutBackSettles
<1> QED
  BY <1>4, <1>5

LEMMA QuietSettles ==
  ASSUME CrawlerInv, BackfillInv, Checkpoint \/ Stop \/ Tick \/ UNCHANGED cvars
  PROVE  BackfillInv'
<1>1. /\ UNCHANGED <<db, seen, bitmap, loop, faults, restarts, crashes, asked, left>>
      /\ stop => stop'
  BY DEF Checkpoint, Stop, Tick, cvars, bounds, history
<1>2. now \in Nat /\ now' \in Nat /\ now <= now'
  <2>1. now \in Nat
    BY Facts
  <2>2. now' \in {now, now + 1}
    BY DEF Checkpoint, Stop, Tick, cvars
  <2> QED BY <2>1, <2>2
<1>3. LastBitmapIsWhole'
  BY <1>1 DEF BackfillInv, LastBitmapIsWhole, At
<1>4. ASSUME faults = 0, crashes = 0
      PROVE  /\ AskedMembers' /\ \A e \in db'.frontier.entries : EntrySettled(e)'
             /\ \A pf \in Platform : VisitSettled(pf)'
  <2>1. /\ AskedMembers /\ \A e \in db.frontier.entries : EntrySettled(e)
        /\ \A pf \in Platform : VisitSettled(pf)
    BY <1>4 DEF BackfillInv
  <2>2. AskedMembers'
    BY <1>1, <1>2, <2>1 DEF AskedMembers
  <2>3. \A e \in db'.frontier.entries : EntrySettled(e)'
    BY <1>1, <2>1 DEF EntrySettled, Caught, Backlog
  <2>4. \A pf \in Platform : VisitSettled(pf)'
    BY <1>1, <2>1 DEF VisitSettled, Caught, Backlog
  <2> QED BY <2>2, <2>3, <2>4
<1> QED
  BY <1>1, <1>3, <1>4 DEF BackfillInv

\* What a start makes of a queue that holds every member.
LEMMA StartedEntries ==
  ASSUME NEW t, DOMAIN t = TableNames, t.cohort \subseteq Queued(t.frontier), NEW backfill \in BOOLEAN,
         NEW e \in Started(t, backfill).frontier.entries
  PROVE  \/ /\ e \in t.frontier.entries
            /\ backfill => ~(e.key.bucket = BUCKET_PRIORITY /\ e.pid \in t.cohort)
         \/ /\ backfill /\ e.last_visit = DEEP_VISIT_MS /\ e.key.bucket = BUCKET_PRIORITY
            /\ \E d \in t.frontier.entries :
                 /\ d.pid \in t.cohort /\ e.pid = d.pid
                 /\ e.key.platform = d.key.platform
<1> DEFINE home == [p \in t.cohort |-> HomeOf(t, p)]
           old == t.frontier
           cohort == t.cohort
           f == Reconciled(old, cohort, home, now)
           h == IF backfill THEN BackfillReset(f, cohort, now) ELSE f
           due == {d \in old.entries : d.key.bucket = BUCKET_PRIORITY /\ d.pid \in cohort}
           Now(d) == Key(d.key.platform, BUCKET_PRIORITY, now)
<1>1. Started(t, backfill) = [t EXCEPT !.frontier = h]
  BY DEF Started
<1>2. cohort \subseteq Queued(old)
  OBVIOUS
<1> HIDE DEF h, home, old, cohort
<1>3. Started(t, backfill).frontier = h
  BY <1>1 DEF TableNames
<1>4. f.entries = old.entries
  <2> DEFINE stranded == cohort \ Queued(old)
             found == UNION {{p \in stranded : home[p] = pf} : pf \in Platform}
             add == {Entry(Key(home[p], BUCKET_PRIORITY, now), p, NEVER) : p \in found}
  <2>1. f.entries = old.entries \cup add
    BY DEF Reconciled
  <2>2. stranded = {}
    BY <1>2
  <2> HIDE DEF stranded
  <2>3. found = {}
    BY <2>2
  <2> HIDE DEF found
  <2>4. add = {}
    BY <2>3
  <2> HIDE DEF add
  <2> QED BY <2>1, <2>4
<1>5. e \in h.entries
  BY <1>3
<1>6. CASE backfill
  <2> DEFINE again == {Entry(Now(d), d.pid, DEEP_VISIT_MS) : d \in due}
  <2>1. h = BackfillReset(f, cohort, now)
    BY <1>6 DEF h
  <2> HIDE DEF f
  <2>2. h.entries = (old.entries \ due) \cup again
    BY <1>4, <2>1 DEF BackfillReset
  <2>3. CASE e \in old.entries \ due
    BY <2>3 DEF old, cohort
  <2>4. CASE e \in again
    <3>1. PICK d \in due : e = Entry(Now(d), d.pid, DEEP_VISIT_MS)
      BY <2>4
    <3>2. e.pid = d.pid /\ e.last_visit = DEEP_VISIT_MS /\ e.key = Now(d)
      BY <3>1 DEF Entry
    <3>3. Now(d).platform = d.key.platform /\ Now(d).bucket = BUCKET_PRIORITY
      BY DEF Key
    <3>4. d \in old.entries /\ d.pid \in cohort
      BY <3>1
    <3> HIDE DEF Now, due
    <3> QED BY <1>6, <3>2, <3>3, <3>4 DEF old, cohort
  <2> QED BY <1>5, <2>2, <2>3, <2>4
<1>7. CASE ~backfill
  BY <1>4, <1>5, <1>7 DEF h, old
<1> QED
  BY <1>6, <1>7

\* A clean restart finds all as it was left, and a backfill asks for members that are
\* queued only.
LEMMA RestartSettles ==
  ASSUME CrawlerInv, BackfillInv, NEW backfill \in BOOLEAN, Restart(backfill)
  PROVE  BackfillInv'
<1> DEFINE clean == \A pf \in Platform : At(pf, "off")
           u == Started(disk, backfill)
<1>1. TablesInv(db) /\ TablesInv(disk) /\ now \in Time /\ now \in Nat /\ DOMAIN db = TableNames
  BY Facts
<1>2. /\ restarts < MaxRestarts /\ db' = u /\ seen' = bitmap /\ now' = now /\ faults' = faults
      /\ loop' = [pf \in Platform |-> NextIteration(db', pf, FALSE)]
      /\ crashes' = crashes + IF clean THEN 0 ELSE 1
      /\ asked' = [p \in Player |->
                     IF \E e \in db'.frontier.entries : e.pid = p /\ e.last_visit = DEEP_VISIT_MS
                        /\ backfill
                     THEN now ELSE asked[p]]
      /\ clean => left' \subseteq left
  BY DEF Restart
<1>3. \A pf \in Platform : loop'[pf].at \in {"stop", "pop", "seed"}
  <2>1. \A pf \in Platform : NextIteration(db', pf, FALSE).at \in {"stop", "pop", "seed"}
    BY <1>1, NextPlace
  <2> QED BY <1>2, <2>1
<1>4. LastBitmapIsWhole'
  BY <1>3, SomeRegion DEF LastBitmapIsWhole, At
<1>5. \A pf \in Platform : VisitSettled(pf)'
  BY <1>3 DEF VisitSettled
<1>6. CASE ~clean
  <2>1. faults \in Nat /\ crashes \in Nat
    BY DEF BackfillInv
  <2> HIDE DEF clean
  <2>2. crashes' \in Nat /\ crashes' # 0 /\ faults' \in Nat
    BY <1>2, <1>6, <2>1
  <2> QED BY <1>4, <2>2 DEF BackfillInv
<1>7. CASE clean
  <2>1. disk = db /\ bitmap = seen
    BY <1>2, <1>7 DEF CrawlerInv, LastCommitIsWhole, BackfillInv, LastBitmapIsWhole
  <2>2. Visiting = {}
    BY <1>7 DEF Visiting, At
  <2>3. faults' = faults /\ crashes' = crashes /\ faults \in Nat /\ crashes \in Nat /\ left' \subseteq left
    <3>1. faults \in Nat /\ crashes \in Nat
      BY DEF BackfillInv
    <3>2. crashes' = crashes + 0
      BY <1>2, <1>7
    <3> QED BY <1>2, <1>7, <3>1, <3>2
  <2> HIDE DEF clean, u
  <2>4. TablesInv(u) /\ u.cohort = db.cohort
    BY <1>1, <2>1, StartedKeeps DEF u
  <2>5. Indexed(db'.frontier) /\ db'.cohort = db.cohort /\ db.frontier.entries \subseteq FrontierEntry
    BY <1>1, <1>2, <2>4 DEF TablesInv, CrawlerTables, FrontierTables
  <2>6. ASSUME faults = 0, crashes = 0
        PROVE  left = {} /\ AskedMembers' /\ \A e \in db'.frontier.entries : EntrySettled(e)'
    <3>1. left = {} /\ AskedMembers /\ \A e \in db.frontier.entries : EntrySettled(e)
      BY <2>6 DEF BackfillInv
    <3>2. db.cohort \subseteq Queued(db.frontier)
      BY <2>2, <3>1 DEF CrawlerInv, MembersStayInPlay
    <3>3. ASSUME NEW e \in db'.frontier.entries
          PROVE  \/ /\ e \in db.frontier.entries
                    /\ backfill => ~(e.key.bucket = BUCKET_PRIORITY /\ e.pid \in db.cohort)
                 \/ /\ backfill /\ e.last_visit = DEEP_VISIT_MS /\ e.key.bucket = BUCKET_PRIORITY
                    /\ e.pid \in Meets(e.key.platform) /\ e.pid \in db.cohort
      <4>1. e \in Started(db, backfill).frontier.entries
        BY <1>2, <2>1, <3>3 DEF u
      <4>2. \/ /\ e \in db.frontier.entries
               /\ backfill => ~(e.key.bucket = BUCKET_PRIORITY /\ e.pid \in db.cohort)
            \/ /\ backfill /\ e.last_visit = DEEP_VISIT_MS /\ e.key.bucket = BUCKET_PRIORITY
               /\ \E d \in db.frontier.entries :
                    /\ d.pid \in db.cohort /\ e.pid = d.pid
                    /\ e.key.platform = d.key.platform
        BY ONLY <1>1, <3>2, <4>1, StartedEntries, backfill \in BOOLEAN
      <4> QED BY <3>1, <4>2 DEF EntrySettled
    <3>4. ASSUME NEW e \in db'.frontier.entries, e.last_visit = DEEP_VISIT_MS PROVE e.pid \in db.cohort
      <4>1. e \in db.frontier.entries => EntrySettled(e)
        BY <3>1
      <4> QED BY <3>3, <3>4, <4>1 DEF EntrySettled
    <3>5. AskedMembers'
      <4>1. ASSUME NEW p \in Player, asked'[p] # None
            PROVE  asked'[p] \in Nat /\ asked'[p] <= now /\ p \in db.cohort
        <5>1. CASE \E e \in db'.frontier.entries : e.pid = p /\ e.last_visit = DEEP_VISIT_MS /\ backfill
          <6>1. asked'[p] = now
            BY <1>2, <5>1
          <6>2. p \in db.cohort
            BY <3>4, <5>1
          <6> QED BY <1>1, <6>1, <6>2
        <5>2. CASE ~ \E e \in db'.frontier.entries : e.pid = p /\ e.last_visit = DEEP_VISIT_MS /\ backfill
          <6>1. asked'[p] = asked[p]
            BY <1>2, <5>2
          <6> QED BY <3>1, <4>1, <6>1 DEF AskedMembers
        <5> QED BY <5>1, <5>2
      <4> QED BY <1>2, <2>5, <4>1 DEF AskedMembers
    <3>6. ASSUME NEW e \in db'.frontier.entries PROVE EntrySettled(e)'
      <4>1. CASE /\ e \in db.frontier.entries
                 /\ backfill => ~(e.key.bucket = BUCKET_PRIORITY /\ e.pid \in db.cohort)
        <5>1. EntrySettled(e) /\ e.pid \in Player
          BY <2>5, <3>1, <4>1 DEF FrontierEntry
        <5>2. ~(e.last_visit = DEEP_VISIT_MS /\ backfill)
          BY <4>1, <5>1 DEF EntrySettled
        <5>3. asked'[e.pid] = asked[e.pid]
          <6>1. ~ \E d \in db'.frontier.entries : d.pid = e.pid /\ d.last_visit = DEEP_VISIT_MS /\ backfill
            BY <2>5, <3>6, <5>2 DEF Indexed
          <6> QED BY <1>2, <5>1, <6>1
        <5>4. Caught(e.key.platform, e.pid)' <=> Caught(e.key.platform, e.pid)
          BY <1>2, <2>1, <5>3 DEF Caught, Backlog
        <5> QED BY <2>5, <5>1, <5>3, <5>4 DEF EntrySettled
      <4>2. CASE /\ backfill /\ e.last_visit = DEEP_VISIT_MS /\ e.key.bucket = BUCKET_PRIORITY
                 /\ e.pid \in Meets(e.key.platform) /\ e.pid \in db.cohort
        BY <2>5, <4>2 DEF EntrySettled
      <4> QED BY <3>3, <4>1, <4>2
    <3> QED BY <3>1, <3>5, <3>6
  <2> QED BY <1>4, <1>5, <2>3, <2>6 DEF BackfillInv
<1> QED
  BY <1>6, <1>7

LEMMA BackfillInitInv == CrawlerInit => BackfillInv
<1> SUFFICES ASSUME CrawlerInit PROVE BackfillInv
  OBVIOUS
<1> DEFINE key == Key(Regions[1], BUCKET_OTHER, 0)
<1>1. /\ faults = 0 /\ crashes = 0 /\ left = {} /\ seen = {} /\ bitmap = {}
      /\ \A p \in Player : asked[p] = None
      /\ loop = [pf \in Platform |-> Seeding] /\ db = Tables0
  BY DEF CrawlerInit
<1>2. \A pf \in Platform : loop[pf].at = "seed"
  BY <1>1 DEF Seeding
<1>3. db.frontier = PushBatch(EmptyFrontier, key, Legacy, NEVER)
  BY <1>1 DEF Tables0
<1>4. key.platform = Regions[1]
  BY DEF Key
<1> HIDE DEF key
<1>5. ASSUME NEW e \in db.frontier.entries PROVE EntrySettled(e)
  <2>1. e \notin EmptyFrontier.entries
    BY DEF EmptyFrontier
  <2>2. e.pid \in Legacy /\ e.key = key /\ e.last_visit = NEVER
    BY <1>3, <2>1, PushedEntries
  <2>3. e.pid \in Player /\ e.pid \in Meets(e.key.platform)
    BY <1>4, <2>2, CrawlerAssumption DEF Meets
  <2>4. NEVER # DEEP_VISIT_MS
    BY DEF NEVER, DEEP_VISIT_MS
  <2> QED BY <1>1, <2>2, <2>3, <2>4 DEF EntrySettled, Caught
<1>6. AskedMembers /\ \A pf \in Platform : VisitSettled(pf)
  BY <1>1, <1>2 DEF AskedMembers, VisitSettled
<1>7. LastBitmapIsWhole
  BY <1>1 DEF LastBitmapIsWhole
<1> QED
  BY <1>1, <1>5, <1>6, <1>7 DEF BackfillInv

LEMMA BackfillNextInv ==
  ASSUME Settled, ShortHistories
  PROVE  CrawlerInv /\ BackfillInv /\ [CrawlerNext]_cvars => BackfillInv'
<1> SUFFICES ASSUME CrawlerInv, BackfillInv, [CrawlerNext]_cvars PROVE BackfillInv'
  OBVIOUS
<1>1. ASSUME NEW pf \in Platform, SeedLeague(pf) PROVE BackfillInv'
  BY <1>1, SeedLeagueSettles
<1>2. ASSUME NEW pf \in Platform, SeedDone(pf) PROVE BackfillInv'
  BY <1>2, SeedDoneSettles
<1>3. ASSUME NEW pf \in Platform, Pop(pf) PROVE BackfillInv'
  BY <1>3, PopSettles
<1>4. ASSUME NEW pf \in Platform, ListMatches(pf) PROVE BackfillInv'
  BY <1>4, ListMatchesSettles
<1>5. ASSUME NEW pf \in Platform, NEW g \in Game, NEW roll \in BOOLEAN, FetchStored(pf, g, roll)
      PROVE  BackfillInv'
  BY <1>5, FetchStoredSettles
<1>6. ASSUME NEW pf \in Platform, NEW g \in Game, FetchSkipped(pf, g) \/ FetchDropped(pf, g)
      PROVE  BackfillInv'
  BY <1>6, FetchOtherSettles
<1>7. ASSUME NEW pf \in Platform, Reschedule(pf) PROVE BackfillInv'
  BY <1>7, RescheduleSettles
<1>8. ASSUME NEW pf \in Platform, ExpandPage(pf) PROVE BackfillInv'
  BY <1>8, ExpandPageSettles
<1>9. ASSUME NEW pf \in Platform, SetCursor(pf) PROVE BackfillInv'
  BY <1>9, SetCursorSettles
<1>10. ASSUME NEW pf \in Platform,
              RegionStops(pf) \/ \E commit \in BOOLEAN : EndIteration(pf, commit)
       PROVE  BackfillInv'
  BY <1>10, CommitSettles
<1>11. ASSUME NEW backfill \in BOOLEAN, Restart(backfill) PROVE BackfillInv'
  BY <1>11, RestartSettles
<1>12. CASE Checkpoint \/ Stop \/ Tick \/ UNCHANGED cvars
  BY <1>12, QuietSettles
<1>13. ASSUME NEW pf \in Platform, NEW g \in Game, NEW roll \in BOOLEAN, NEW marked \in BOOLEAN,
              FetchFailsLate(pf, g, roll, marked)
       PROVE  BackfillInv'
  BY <1>13, FetchFailsLateSettles
<1> QED
  BY <1>1, <1>2, <1>3, <1>4, <1>5, <1>6, <1>7, <1>8, <1>9, <1>10, <1>11, <1>12, <1>13 DEF CrawlerNext

\* If no region meets a player of another and no match list is longer than the depth
\* cap, a member that lost its marker without a fault or a crash has every match that
\* the backfill asked for, however often visits and shutdowns cut each other short.
THEOREM BackfillIsComplete ==
  ASSUME Settled, ShortHistories
  PROVE  CrawlerSpec => []BackfillCompletes
<1>1. BackfillInv => BackfillCompletes
  <2> SUFFICES ASSUME BackfillInv, faults = 0, crashes = 0, NEW e \in db.frontier.entries,
                      asked[e.pid] # None, e.last_visit # DEEP_VISIT_MS
               PROVE  {g \in Game : /\ g <= asked[e.pid]
                                    /\ e.pid \in PlayersOf[g]
                                    /\ PlatformOf[g] = e.key.platform} \subseteq seen
    BY DEF BackfillCompletes
  <2>1. EntrySettled(e)
    BY DEF BackfillInv
  <2>2. Backlog(e.key.platform, e.pid) \subseteq seen
    BY <2>1 DEF EntrySettled, Caught
  <2> QED BY <2>2 DEF Backlog
<1>2. CrawlerInv /\ BackfillInv /\ [CrawlerNext]_cvars => BackfillInv'
  BY BackfillNextInv
<1> QED
  BY <1>1, <1>2, BackfillInitInv, CrawlerInvariant, PTL DEF CrawlerSpec
=============================================================================
