----------------------------- MODULE StoreProofs -----------------------------
(***************************************************************************)
(* Proofs about Store, for any games, players and days and any number of   *)
(* crashes and failed writes.                                              *)
(*                                                                         *)
(* StoreInv is the inductive invariant.  Its parts: where the call that    *)
(* holds the store can be; whose ids the records carry, and that they are  *)
(* durable before a block is written; what is on disk of the games the     *)
(* bitmap claims and the index names, not counting a block that is not     *)
(* synced yet; and how the sightings in a table relate to its games.       *)
(***************************************************************************)
EXTENDS Store, FiniteSetTheorems, SequenceTheorems, TLAPS

\* The steps of store_match and commit, and what each has at hand.
Phases ==
  /\ op = "idle" => step = "none"
  /\ op = "store" => /\ step \in {"open", "append", "checkpoint", "write", "sync", "index"}
                     /\ rec \in Record
  /\ op = "commit" => step \in {"checkpoint", "write", "sync", "index", "bitmap"}
  /\ step \in {"write", "sync", "index"} => pending # <<>>
  /\ pending # <<>> \/ step = "append" => writer \in Date
  /\ step \in {"open", "bitmap"} => pending = <<>>
  /\ step = "sync" => segs[writer] # <<>>

\* The ids in r are those the table gives to the players of the match.
IdsIn(players, r) ==
  \A k \in DOMAIN r.ids :
    /\ PlayersOf[r.game][k] \in DOMAIN players
    /\ players[PlayersOf[r.game][k]] = r.ids[k]

Includes(players, old) ==
  /\ DOMAIN old \subseteq DOMAIN players
  /\ \A p \in DOMAIN old : players[p] = old[p]

Injective(players) == \A p, q \in DOMAIN players : players[p] = players[q] => p = q

\* Ids are given once, a segment holds durable ones only, and so does every record
\* that is about to be written.
Identity ==
  /\ Includes(db.players, disk.players)
  /\ \A p \in DOMAIN db.players : db.players[p] < next_player_id
  /\ Injective(db.players)
  /\ op = "store" => IdsIn(db.players, rec)
  /\ \A k \in DOMAIN pending : IdsIn(db.players, pending[k])
  /\ step \in {"write", "sync", "index"} =>
       \A k \in DOMAIN pending : IdsIn(disk.players, pending[k])
  /\ \A d \in Date : \A b \in DOMAIN segs[d] : \A m \in DOMAIN segs[d][b].recs :
       IdsIn(disk.players, segs[d][b].recs[m])

\* The segment of day d without a block that is not synced yet.
Synced(d) == IF step = "sync" /\ d = writer THEN SubSeq(segs[d], 1, Len(segs[d]) - 1) ELSE segs[d]

\* Game g is in block k of segment f.
InBlock(f, k, g) == \E m \in DOMAIN f[k].recs : f[k].recs[m].game = g

\* Game g can be read from a segment, whatever a crash does.
Backed(g) == \E d \in Date : \E k \in ReadableBlocks(Synced(d)) : InBlock(Synced(d), k, g)

\* A segment is intact but for a last block that a crash or an error spoilt.
FlawAtEnd(f) == \A k \in DOMAIN f : f[k].kind = "ok" \/ k = Len(f)
FlawsAtEnd == \A d \in Date : FlawAtEnd(segs[d])

\* The block just written holds the pending records, in an intact file.
LastIsPending ==
  step \in {"sync", "index"} =>
    /\ segs[writer] # <<>> /\ segs[writer][Len(segs[writer])].recs = pending
    /\ Intact(segs[writer])

BitmapBacked == \A g \in disk.bitmap \ Skip : Backed(g)
SeenBacked ==
  \A g \in seen \ Skip : Backed(g) \/ \E k \in DOMAIN pending : pending[k].game = g
EntriesBacked ==
  \A d \in Date : \A k \in ReadableEntries(idxs[d]) :
    /\ idxs[d][k].block \in ReadableBlocks(Synced(d))
    /\ InBlock(Synced(d), idxs[d][k].block, idxs[d][k].game)

Durability ==
  /\ db.bitmap = disk.bitmap
  /\ ~buried => FlawsAtEnd /\ LastIsPending /\ BitmapBacked /\ SeenBacked /\ EntriesBacked

\* The games in a table that count as a sighting of p.
Played(t, p) == {g \in t.progress \ Remake : \E k \in DOMAIN PlayersOf[g] : PlayersOf[g][k] = p}

Sightings(t, i) == IF i \in DOMAIN t.outsider THEN t.outsider[i] ELSE 0

\* The sightings of an outsider are the games; players of stored games have ids, and
\* nobody else is counted.
Counted(t) ==
  /\ IsFiniteSet(t.progress)
  /\ \A g \in t.progress : \A k \in DOMAIN PlayersOf[g] : PlayersOf[g][k] \in DOMAIN t.players
  /\ \A i \in DOMAIN t.outsider : \E p \in DOMAIN t.players : t.players[p] = i
  /\ \A p \in DOMAIN t.players :
       t.players[p] \notin t.cohort => Sightings(t, t.players[p]) = Cardinality(Played(t, p))

StoreInv ==
  /\ StoreTypeOK
  /\ Phases
  /\ Identity
  /\ Durability
  /\ Counted(db) /\ Counted(disk)

-----------------------------------------------------------------------------
(* Player ids *)

\* A set of numbers has a smallest.
LEMMA SetHasFirst ==
  ASSUME NEW S \in SUBSET Nat, S # {}
  PROVE  \E k \in S : \A l \in S : k <= l
<1>1. PICK x \in S : \A y \in S : ~(<<y, x>> \in OpToRel(<, Nat))
  BY NatLessThanWellFounded, WFMin
<1>2. \A y \in S : ~(y < x)
  BY <1>1 DEF OpToRel
<1> QED
  BY <1>2

\* A bounded one has a largest.
LEMMA BoundedSetHasLast ==
  ASSUME NEW S \in SUBSET Nat, S # {}, NEW b \in Nat, \A x \in S : x <= b
  PROVE  \E k \in S : \A l \in S : l <= k
<1> DEFINE T == {b - k : k \in S}
<1>1. T \in SUBSET Nat /\ T # {}
  <2>1. \A k \in S : b - k \in Nat
    OBVIOUS
  <2>2. PICK k \in S : TRUE
    OBVIOUS
  <2> QED
    BY <2>1, <2>2
<1>2. PICK x \in T : \A y \in T : x <= y
  <2> HIDE DEF T
  <2> QED
    BY <1>1, SetHasFirst
<1>3. PICK k \in S : x = b - k
  BY <1>2
<1>4. \A l \in S : b - k <= b - l
  BY <1>2, <1>3
<1> QED
  BY <1>3, <1>4

\* Store::open: the next id is above every id in the table.
LEMMA NextFreeIsAbove ==
  ASSUME NEW players, NEW b \in Nat,
         \A p \in DOMAIN players : players[p] \in Nat \ {0} /\ players[p] <= b
  PROVE  /\ NextFree(players) \in Nat \ {0}
         /\ \A p \in DOMAIN players : players[p] < NextFree(players)
<1> DEFINE ids == {players[p] : p \in DOMAIN players}
<1>1. ids \in SUBSET Nat /\ \A i \in ids : i <= b
  OBVIOUS
<1>2. CASE ids = {}
  BY <1>2 DEF NextFree
<1>3. CASE ids # {}
  <2> DEFINE top == CHOOSE i \in ids : \A k \in ids : k <= i
  <2>1. top \in ids /\ \A k \in ids : k <= top
    <3>1. \E i \in ids : \A k \in ids : k <= i
      <4> HIDE DEF ids
      <4> QED
        BY <1>1, <1>3, BoundedSetHasLast
    <3> QED
      BY <3>1
  <2>2. NextFree(players) = 1 + top
    BY <1>3 DEF NextFree
  <2>3. top \in Nat
    BY <1>1, <2>1
  <2> HIDE DEF top
  <2> QED
    BY <2>1, <2>2, <2>3
<1> QED
  BY <1>2, <1>3

\* assign_player_ids: known players keep their ids, new ones get the ids from next
\* on, one each.
LEMMA IdsAreNew ==
  ASSUME NEW players, DOMAIN players \subseteq Puuid,
         \A p \in DOMAIN players : players[p] \in Nat \ {0},
         NEW next \in Nat \ {0}, \A p \in DOMAIN players : players[p] < next,
         Injective(players),
         NEW ps \in Seq(Puuid), \A j, k \in DOMAIN ps : ps[j] = ps[k] => j = k
  PROVE  /\ DOMAIN WithIds(players, next, ps) = DOMAIN players \cup {ps[k] : k \in DOMAIN ps}
         /\ Includes(WithIds(players, next, ps), players)
         /\ next + Cardinality(New(players, ps)) \in Nat \ {0}
         /\ \A p \in DOMAIN WithIds(players, next, ps) :
              /\ WithIds(players, next, ps)[p] \in Nat \ {0}
              /\ WithIds(players, next, ps)[p] < next + Cardinality(New(players, ps))
              /\ p \notin DOMAIN players => WithIds(players, next, ps)[p] >= next
         /\ Injective(WithIds(players, next, ps))
<1> DEFINE N == New(players, ps)
           Before(k) == {j \in N : j < k}
           w == WithIds(players, next, ps)
<1>1. Len(ps) \in Nat /\ DOMAIN ps = 1 .. Len(ps) /\ \A k \in DOMAIN ps : ps[k] \in Puuid
  BY LenProperties
<1>2. N \in SUBSET (1 .. Len(ps)) /\ N \subseteq Nat
  BY <1>1 DEF New
<1>3. IsFiniteSet(N) /\ Cardinality(N) \in Nat
  BY <1>1, <1>2, FS_Interval, FS_Subset, FS_CardinalityType, 1 \in Int, Len(ps) \in Int
<1>4. ASSUME NEW k \in N
      PROVE  /\ IsFiniteSet(Before(k)) /\ Cardinality(Before(k)) \in Nat
             /\ Cardinality(Before(k)) < Cardinality(N)
  <2>1. Before(k) \in SUBSET N /\ k \notin Before(k)
    BY <1>2
  <2>2. /\ IsFiniteSet(Before(k)) /\ Cardinality(Before(k)) \in Nat
        /\ Cardinality(Before(k)) <= Cardinality(N)
        /\ Cardinality(N) = Cardinality(Before(k)) => N = Before(k)
    BY <1>3, <2>1, FS_Subset, FS_CardinalityType
  <2> QED
    BY <1>3, <2>1, <2>2
<1>5. ASSUME NEW j \in N, NEW k \in N, j < k
      PROVE  Cardinality(Before(j)) < Cardinality(Before(k))
  <2>1. Before(j) \in SUBSET Before(k) /\ j \in Before(k) /\ j \notin Before(j)
    BY <1>2, <1>5
  <2>2. /\ Cardinality(Before(j)) <= Cardinality(Before(k))
        /\ Cardinality(Before(k)) = Cardinality(Before(j)) => Before(k) = Before(j)
    BY <1>4, <2>1, FS_Subset
  <2>3. Cardinality(Before(j)) # Cardinality(Before(k))
    BY <2>1, <2>2
  <2> QED
    <3> HIDE DEF Before
    <3> QED
      BY <1>4, <2>2, <2>3
<1>6. DOMAIN w = DOMAIN players \cup {ps[k] : k \in DOMAIN ps}
  BY DEF WithIds
<1>7. Includes(w, players)
  BY DEF WithIds, Includes
<1>8. ASSUME NEW p \in DOMAIN w, p \notin DOMAIN players
      PROVE  /\ SlotOf(ps, p) \in N /\ ps[SlotOf(ps, p)] = p
             /\ w[p] = next + Cardinality(Before(SlotOf(ps, p)))
  <2>1. PICK slot \in DOMAIN ps : ps[slot] = p
    BY <1>6, <1>8
  <2>2. SlotOf(ps, p) \in DOMAIN ps /\ ps[SlotOf(ps, p)] = p
    BY <2>1 DEF SlotOf
  <2>3. SlotOf(ps, p) \in N
    BY <1>8, <2>2 DEF New
  <2>4. w[p] = next + Cardinality({k \in N : k < SlotOf(ps, p)})
    BY <1>6, <1>8 DEF WithIds
  <2> QED
    BY <2>2, <2>3, <2>4
<1> HIDE DEF w, N, Before
<1>9. ASSUME NEW p \in DOMAIN w
      PROVE  /\ w[p] \in Nat \ {0}
             /\ w[p] < next + Cardinality(N)
             /\ p \notin DOMAIN players => w[p] >= next
  <2>1. CASE p \in DOMAIN players
    BY <1>3, <1>7, <2>1 DEF Includes
  <2>2. CASE p \notin DOMAIN players
    <3> DEFINE c == Cardinality(Before(SlotOf(ps, p)))
    <3>1. c \in Nat /\ c < Cardinality(N) /\ w[p] = next + c
      BY <1>4, <1>8, <2>2
    <3> HIDE DEF c
    <3> QED
      BY <1>3, <3>1
  <2> QED
    BY <2>1, <2>2
<1>10. ASSUME NEW p \in DOMAIN w, NEW q \in DOMAIN w, w[p] = w[q]
       PROVE  p = q
  <2>1. CASE p \in DOMAIN players /\ q \in DOMAIN players
    BY <1>7, <1>10, <2>1 DEF Includes, Injective
  <2>2. CASE p \in DOMAIN players /\ q \notin DOMAIN players
    <3>1. w[p] < next /\ w[q] >= next /\ w[p] \in Nat /\ w[q] \in Nat
      BY <1>7, <1>9, <2>2 DEF Includes
    <3> QED
      BY <1>10, <3>1
  <2>3. CASE p \notin DOMAIN players /\ q \in DOMAIN players
    <3>1. w[q] < next /\ w[p] >= next /\ w[p] \in Nat /\ w[q] \in Nat
      BY <1>7, <1>9, <2>3 DEF Includes
    <3> QED
      BY <1>10, <3>1
  <2>4. CASE p \notin DOMAIN players /\ q \notin DOMAIN players
    <3> DEFINE j == SlotOf(ps, p)
               k == SlotOf(ps, q)
    <3>1. j \in N /\ k \in N /\ ps[j] = p /\ ps[k] = q
      BY <1>8, <2>4
    <3>2. w[p] = next + Cardinality(Before(j)) /\ w[q] = next + Cardinality(Before(k))
      BY <1>8, <2>4
    <3> HIDE DEF j, k
    <3>3. Cardinality(Before(j)) \in Nat /\ Cardinality(Before(k)) \in Nat
      BY <1>4, <3>1
    <3>4. Cardinality(Before(j)) = Cardinality(Before(k))
      <4> DEFINE cj == Cardinality(Before(j))
                 ck == Cardinality(Before(k))
      <4>1. next + cj = next + ck /\ cj \in Nat /\ ck \in Nat /\ next \in Nat
        BY <1>10, <3>2, <3>3
      <4> HIDE DEF cj, ck
      <4>2. cj = ck
        BY <4>1
      <4> QED
        BY <4>2 DEF cj, ck
    <3>5. ~(j < k) /\ ~(k < j)
      BY <1>5, <3>1, <3>3, <3>4
    <3>6. j \in Nat /\ k \in Nat
      BY <1>2, <3>1
    <3> QED
      BY <3>1, <3>5, <3>6
  <2> QED
    BY <2>1, <2>2, <2>3, <2>4
<1>11. next + Cardinality(N) \in Nat \ {0}
  BY <1>3
<1> QED
  BY <1>6, <1>7, <1>9, <1>10, <1>11 DEF w, N, Injective

-----------------------------------------------------------------------------
(* Segment files *)

BlockType == [kind : {"ok", "torn", "bad"}, recs : Seq(Record)]

\* What a reader finds in f it also finds in h, in the same place.
Keeps(f, h) == \A k \in ReadableBlocks(f) : k \in ReadableBlocks(h) /\ h[k] = f[k]

\* Appending a block to a file hides nothing.
LEMMA AppendKeeps ==
  ASSUME NEW f \in Seq(BlockType), NEW b \in BlockType
  PROVE  /\ Append(f, b) \in Seq(BlockType)
         /\ Keeps(f, Append(f, b))
<1>1. /\ Append(f, b) \in Seq(BlockType)
      /\ Len(Append(f, b)) = Len(f) + 1
      /\ \A i \in 1 .. Len(f) : Append(f, b)[i] = f[i]
  BY AppendProperties
<1>2. /\ Len(f) \in Nat /\ DOMAIN f = 1 .. Len(f)
      /\ DOMAIN Append(f, b) = 1 .. (Len(f) + 1)
  BY <1>1, LenProperties
<1> QED
  BY <1>1, <1>2 DEF Keeps, ReadableBlocks

\* A reader of a file that was cut off finds no more than before.
LEMMA PrefixKeeps ==
  ASSUME NEW f \in Seq(BlockType), NEW n \in 0 .. Len(f)
  PROVE  /\ SubSeq(f, 1, n) \in Seq(BlockType)
         /\ Len(SubSeq(f, 1, n)) = n
         /\ \A i \in 1 .. n : SubSeq(f, 1, n)[i] = f[i]
         /\ Keeps(SubSeq(f, 1, n), f)
<1>1. Len(f) \in Nat /\ DOMAIN f = 1 .. Len(f) /\ \A i \in 1 .. Len(f) : f[i] \in BlockType
  BY LenProperties
<1>2. n \in Int /\ 1 \in Int /\ \A i \in 1 .. n : f[i] \in BlockType
  BY <1>1
<1>3. /\ SubSeq(f, 1, n) \in Seq(BlockType)
      /\ Len(SubSeq(f, 1, n)) = n
      /\ \A i \in 1 .. n : SubSeq(f, 1, n)[i] = f[i]
  BY <1>1, <1>2, SubSeqProperties
<1>4. DOMAIN SubSeq(f, 1, n) = 1 .. n
  BY <1>3, LenProperties
<1> QED
  BY <1>1, <1>3, <1>4 DEF Keeps, ReadableBlocks

\* validate_segment: what can be read stays, and no record is made up; in a file whose
\* only flaw is in the last block no other block becomes flawed.
LEMMA ValidatedKeeps ==
  ASSUME NEW f \in Seq(BlockType), NEW h \in Validated(f)
  PROVE  /\ h \in Seq(BlockType)
         /\ Keeps(f, h)
         /\ \A b \in DOMAIN h : b \in DOMAIN f /\ h[b].recs = f[b].recs
         /\ FlawAtEnd(f) => FlawAtEnd(h)
<1> DEFINE torn == {k \in DOMAIN f : f[k].kind = "torn"}
           t == CHOOSE k \in torn : \A l \in torn : k <= l
           before == SubSeq(f, 1, t - 1)
<1>1. Len(f) \in Nat /\ DOMAIN f = 1 .. Len(f) /\ \A i \in 1 .. Len(f) : f[i] \in BlockType
  BY LenProperties
<1>2. CASE torn = {}
  <2>1. h = f
    BY <1>2 DEF Validated
  <2> QED
    BY <2>1 DEF Keeps
<1>3. CASE torn # {}
  <2>1. torn \subseteq Nat
    BY <1>1
  <2>4. t \in torn /\ \A l \in torn : t <= l
    <3> HIDE DEF torn
    <3>1. \E k \in torn : \A l \in torn : k <= l
      BY <1>3, <2>1, SetHasFirst
    <3> QED
      BY <3>1
  <2>5. h = before \/ (t < Len(f) /\ h = Append(before, Block("bad", f[t].recs)))
    BY <1>3 DEF Validated
  <2>6. t \in 1 .. Len(f) /\ f[t].kind = "torn" /\ f[t] \in BlockType
    BY <1>1, <2>4
  <2> HIDE DEF t, torn
  <2>7. t - 1 \in 0 .. Len(f)
    BY <1>1, <2>6
  <2>8. /\ before \in Seq(BlockType)
        /\ Len(before) = t - 1
        /\ \A i \in 1 .. (t - 1) : before[i] = f[i]
    BY <2>7, PrefixKeeps
  <2>9. DOMAIN before = 1 .. (t - 1)
    BY <2>8, LenProperties
  <2>10. ReadableBlocks(f) \subseteq 1 .. (t - 1)
    BY <1>1, <2>6 DEF ReadableBlocks
  <2> HIDE DEF before
  <2>11. Keeps(f, before)
    BY <1>1, <2>8, <2>9, <2>10 DEF Keeps, ReadableBlocks
  <2>12. CASE h = before
    <3>1. \A b \in DOMAIN h : b \in DOMAIN f /\ h[b] = f[b] /\ b # Len(f)
      BY <1>1, <2>6, <2>8, <2>9, <2>12
    <3>2. FlawAtEnd(f) => FlawAtEnd(h)
      BY <3>1 DEF FlawAtEnd
    <3> QED
      BY <2>8, <2>11, <2>12, <3>1, <3>2
  <2>13. CASE t < Len(f) /\ h = Append(before, Block("bad", f[t].recs))
    <3> DEFINE b == Block("bad", f[t].recs)
    <3>1. b \in BlockType /\ b.recs = f[t].recs
      BY <2>6 DEF BlockType, Block
    <3> HIDE DEF b
    <3>2. /\ h \in Seq(BlockType)
          /\ Keeps(before, h)
          /\ Len(h) = t
          /\ \A i \in 1 .. (t - 1) : h[i] = before[i]
          /\ h[t] = b
      <4>1. h = Append(before, b)
        BY <2>13 DEF b
      <4> QED
        BY <2>6, <2>8, <3>1, <4>1, AppendKeeps, AppendProperties
    <3>3. DOMAIN h = 1 .. t
      BY <3>2, LenProperties
    <3>4. Keeps(f, h)
      BY <2>11, <3>2 DEF Keeps
    <3>5. ASSUME NEW i \in DOMAIN h
          PROVE  i \in DOMAIN f /\ h[i].recs = f[i].recs
      <4>1. CASE i = t
        BY <1>1, <2>6, <3>1, <3>2, <4>1
      <4>2. CASE i # t
        BY <1>1, <2>6, <2>8, <3>2, <3>3, <4>2
      <4> QED
        BY <4>1, <4>2
    <3>6. ~FlawAtEnd(f)
      BY <1>1, <2>6, <2>13 DEF FlawAtEnd
    <3> QED
      BY <3>2, <3>4, <3>5, <3>6
  <2> QED
    BY <2>5, <2>12, <2>13
<1> QED
  BY <1>2, <1>3

-----------------------------------------------------------------------------
(* The tables *)

\* The sightings of every player once the players of g have their ids: a new one has
\* none, and played no stored game.
LEMMA CountedWithIds ==
  ASSUME Tables(db), Counted(db), Injective(db.players), next_player_id \in Nat \ {0},
         \A p \in DOMAIN db.players : db.players[p] < next_player_id,
         NEW ps \in Seq(Puuid), \A j, k \in DOMAIN ps : ps[j] = ps[k] => j = k,
         NEW w, w = WithIds(db.players, next_player_id, ps),
         NEW p \in DOMAIN w, w[p] \notin db.cohort
  PROVE  /\ Sightings(db, w[p]) = Cardinality(Played(db, p))
         /\ IsFiniteSet(Played(db, p))
         /\ Cardinality(Played(db, p)) \in Nat
<1>1. DOMAIN db.players \subseteq Puuid /\ \A q \in DOMAIN db.players : db.players[q] \in Nat \ {0}
  BY DEF Tables
<1>2. /\ Includes(w, db.players)
      /\ w[p] \in Nat
      /\ p \notin DOMAIN db.players => w[p] >= next_player_id
  BY <1>1, IdsAreNew
<1>3. IsFiniteSet(Played(db, p)) /\ Cardinality(Played(db, p)) \in Nat
  <2>1. Played(db, p) \in SUBSET db.progress /\ IsFiniteSet(db.progress)
    BY DEF Played, Counted
  <2> QED
    BY <2>1, FS_Subset, FS_CardinalityType
<1>4. CASE p \in DOMAIN db.players
  <2>1. w[p] = db.players[p]
    BY <1>2, <1>4 DEF Includes
  <2>2. Sightings(db, db.players[p]) = Cardinality(Played(db, p))
    BY <1>4, <2>1 DEF Counted
  <2> QED
    BY <1>3, <2>1, <2>2
<1>5. CASE p \notin DOMAIN db.players
  <2>1. Played(db, p) = {}
    BY <1>5 DEF Played, Counted
  <2>2. \A i \in DOMAIN db.outsider : i < next_player_id /\ i \in Nat
    BY <1>1 DEF Counted
  <2>3. w[p] \notin DOMAIN db.outsider
    BY <1>2, <1>5, <2>2
  <2> QED
    BY <1>3, <2>1, <2>3, FS_EmptySet DEF Sightings
<1> QED
  BY <1>4, <1>5

\* The transaction of store_match.
LEMMA MatchTablesKeep ==
  ASSUME Tables(db), Counted(db), Injective(db.players), next_player_id \in Nat \ {0},
         \A p \in DOMAIN db.players : db.players[p] < next_player_id,
         NEW g \in Game, NEW paused \in BOOLEAN
  PROVE  /\ Tables(MatchTables(g, paused))
         /\ MatchTables(g, paused).players = WithIds(db.players, next_player_id, PlayersOf[g])
         /\ MatchTables(g, paused).bitmap = db.bitmap
         /\ Counted(MatchTables(g, paused))
<1> DEFINE ps == PlayersOf[g]
           w == WithIds(db.players, next_player_id, ps)
           ids == {w[ps[k]] : k \in DOMAIN ps}
           stored == [db EXCEPT !.players = w, !.progress = db.progress \cup {g}]
<1>1. ps \in Seq(Puuid) /\ \A j, k \in DOMAIN ps : ps[j] = ps[k] => j = k
  BY StoreAssumption
<1>2. DOMAIN db.players \subseteq Puuid /\ \A q \in DOMAIN db.players : db.players[q] \in Nat \ {0}
  BY DEF Tables
<1>3. /\ DOMAIN w = DOMAIN db.players \cup {ps[k] : k \in DOMAIN ps}
      /\ Includes(w, db.players)
      /\ \A p \in DOMAIN w : w[p] \in Nat \ {0}
      /\ Injective(w)
  BY <1>1, <1>2, IdsAreNew
<1>4. \A p \in DOMAIN w : w[p] \notin db.cohort =>
        /\ Sightings(db, w[p]) = Cardinality(Played(db, p))
        /\ IsFiniteSet(Played(db, p))
        /\ Cardinality(Played(db, p)) \in Nat
  BY <1>1, CountedWithIds
<1>5. MatchTables(g, paused) =
        IF g \in db.progress \cup Remake THEN stored ELSE Sighted(stored, ids, paused)
  BY DEF MatchTables
<1>6. \A k \in DOMAIN ps : ps[k] \in Puuid
  BY <1>1, LenProperties
<1> HIDE DEF w, ps
<1>7. /\ DOMAIN stored = {"players", "progress", "cohort", "outsider", "bitmap"}
      /\ stored.players = w /\ stored.progress = db.progress \cup {g}
      /\ stored.cohort = db.cohort /\ stored.outsider = db.outsider /\ stored.bitmap = db.bitmap
  BY DEF Tables
<1> HIDE DEF stored
<1>8. Tables(stored)
  BY <1>2, <1>3, <1>6, <1>7 DEF Tables
<1>9. /\ IsFiniteSet(db.progress \cup {g})
      /\ \A h \in db.progress \cup {g} : \A k \in DOMAIN PlayersOf[h] : PlayersOf[h][k] \in DOMAIN w
      /\ \A i \in DOMAIN db.outsider : \E p \in DOMAIN w : w[p] = i
  <2>1. IsFiniteSet(db.progress \cup {g})
    BY FS_AddElement DEF Counted
  <2>2. \A h \in db.progress \cup {g} : \A k \in DOMAIN PlayersOf[h] : PlayersOf[h][k] \in DOMAIN w
    BY <1>3 DEF Counted, ps
  <2>3. \A i \in DOMAIN db.outsider : \E p \in DOMAIN w : w[p] = i
    BY <1>3 DEF Counted, Includes
  <2> QED
    BY <2>1, <2>2, <2>3
<1>10. CASE g \in db.progress \cup Remake
  <2>1. \A p : Played(stored, p) = Played(db, p)
    BY <1>7, <1>10 DEF Played
  <2>2. \A i : Sightings(stored, i) = Sightings(db, i)
    BY <1>7 DEF Sightings
  <2>3. Counted(stored)
    BY <1>4, <1>7, <1>9, <2>1, <2>2 DEF Counted
  <2> QED
    BY <1>5, <1>7, <1>8, <1>10, <2>3 DEF w, ps
<1>11. CASE g \notin db.progress \cup Remake
  <2> DEFINE out == ids \ db.cohort
             Count(i) == 1 + Sightings(db, i)
             joins == {i \in out : ~paused /\ Count(i) >= ADOPTION_THRESHOLD}
             outsider == [i \in (DOMAIN db.outsider \cup out) \ joins |->
                            IF i \in out THEN Count(i) ELSE db.outsider[i]]
             t == MatchTables(g, paused)
  <2>1. t = [stored EXCEPT !.cohort = db.cohort \cup joins, !.outsider = outsider]
    BY <1>5, <1>7, <1>11 DEF Sighted, Sightings
  <2>2. \A i \in ids : i \in Nat \ {0} /\ \E p \in DOMAIN w : w[p] = i
    BY <1>3
  <2>3. \A i \in DOMAIN db.outsider : i \in Nat \ {0} /\ db.outsider[i] \in Nat
    BY DEF Tables
  <2>4. \A i \in ids : Count(i) \in Nat
    BY <2>3 DEF Sightings
  <2> HIDE DEF ids, Count
  <2>5. /\ DOMAIN outsider \subseteq Nat \ {0}
        /\ \A i \in DOMAIN outsider : outsider[i] \in Nat
        /\ \A i \in DOMAIN outsider : \E p \in DOMAIN w : w[p] = i
        /\ db.cohort \cup joins \subseteq Nat \ {0}
    BY <1>9, <2>2, <2>3, <2>4 DEF Tables
  <2>6. \A i : i \notin db.cohort \cup joins =>
          /\ i \in out => i \in DOMAIN outsider /\ outsider[i] = Count(i)
          /\ i \notin out => /\ i \in DOMAIN outsider <=> i \in DOMAIN db.outsider
                             /\ i \in DOMAIN outsider => outsider[i] = db.outsider[i]
    OBVIOUS
  <2>7. \A i : i \notin db.cohort => (i \in out <=> i \in ids)
    OBVIOUS
  <2> HIDE DEF out, joins, outsider, t
  <2>8. /\ DOMAIN t = {"players", "progress", "cohort", "outsider", "bitmap"}
        /\ t.players = w /\ t.progress = db.progress \cup {g}
        /\ t.cohort = db.cohort \cup joins /\ t.outsider = outsider /\ t.bitmap = db.bitmap
    BY <1>7, <2>1
  <2>9. Tables(t)
    BY <1>8, <1>7, <2>5, <2>8 DEF Tables
  <2>10. ASSUME NEW p \in DOMAIN w, w[p] \notin t.cohort
         PROVE  Sightings(t, w[p]) = Cardinality(Played(t, p))
    <3>1. w[p] \notin db.cohort /\ w[p] \notin db.cohort \cup joins
      BY <2>8, <2>10
    <3>2. /\ Sightings(db, w[p]) = Cardinality(Played(db, p))
          /\ IsFiniteSet(Played(db, p))
          /\ Cardinality(Played(db, p)) \in Nat
      BY <1>4, <3>1
    <3>3. CASE w[p] \in ids
      <4>1. Sightings(t, w[p]) = 1 + Sightings(db, w[p])
        BY <2>6, <2>7, <2>8, <3>1, <3>3 DEF Sightings, Count
      <4>2. \E k \in DOMAIN ps : ps[k] = p
        BY <1>3, <3>3 DEF ids, Injective
      <4>3. Played(t, p) = Played(db, p) \cup {g} /\ g \notin Played(db, p)
        BY <1>11, <2>8, <4>2 DEF Played, ps
      <4>4. Cardinality(Played(t, p)) = Cardinality(Played(db, p)) + 1
        BY <3>2, <4>3, FS_AddElement
      <4> QED
        BY <3>2, <4>1, <4>4
    <3>4. CASE w[p] \notin ids
      <4>1. Sightings(t, w[p]) = Sightings(db, w[p])
        BY <2>6, <2>7, <2>8, <3>1, <3>4 DEF Sightings
      <4>2. ~ \E k \in DOMAIN ps : ps[k] = p
        BY <3>4 DEF ids
      <4>3. Played(t, p) = Played(db, p)
        BY <2>8, <4>2 DEF Played, ps
      <4> QED
        BY <3>2, <4>1, <4>3
    <3> QED
      BY <3>3, <3>4
  <2>11. Counted(t)
    BY <1>9, <2>5, <2>8, <2>10 DEF Counted
  <2> QED
    BY <2>8, <2>9, <2>11 DEF t, w, ps
<1> QED
  BY <1>10, <1>11

\* enroll of the crawler.
LEMMA EnrollTables ==
  ASSUME Tables(db), Counted(db), Injective(db.players), next_player_id \in Nat \ {0},
         \A p \in DOMAIN db.players : db.players[p] < next_player_id,
         NEW p \in League, Enroll(p)
  PROVE  /\ Tables(db')
         /\ db'.players = WithIds(db.players, next_player_id, <<p>>)
         /\ db'.bitmap = db.bitmap
         /\ Counted(db')
<1> DEFINE ps == <<p>>
           w == WithIds(db.players, next_player_id, ps)
           outsider == [i \in DOMAIN db.outsider \ {w[p]} |-> db.outsider[i]]
<1>1. p \in Puuid
  BY StoreAssumption
<1>2. ps \in Seq(Puuid) /\ DOMAIN ps = {1} /\ ps[1] = p
  BY <1>1
<1>3. \A j, k \in DOMAIN ps : ps[j] = ps[k] => j = k
  BY <1>2
<1>4. DOMAIN db.players \subseteq Puuid /\ \A q \in DOMAIN db.players : db.players[q] \in Nat \ {0}
  BY DEF Tables
<1>5. db' = [db EXCEPT !.players = w, !.cohort = db.cohort \cup {w[p]}, !.outsider = outsider]
  BY DEF Enroll
<1> HIDE DEF ps
<1>6. /\ DOMAIN w = DOMAIN db.players \cup {ps[k] : k \in DOMAIN ps}
      /\ Includes(w, db.players)
      /\ \A q \in DOMAIN w : w[q] \in Nat \ {0}
  BY ONLY <1>2, <1>3, <1>4, IdsAreNew, Injective(db.players), next_player_id \in Nat \ {0},
          \A q \in DOMAIN db.players : db.players[q] < next_player_id
<1>7. DOMAIN w = DOMAIN db.players \cup {p}
  BY <1>2, <1>6
<1>8. \A q \in DOMAIN w : w[q] \notin db.cohort =>
        Sightings(db, w[q]) = Cardinality(Played(db, q))
  BY <1>2, <1>3, CountedWithIds
<1> HIDE DEF w
<1>9. /\ DOMAIN db' = {"players", "progress", "cohort", "outsider", "bitmap"}
      /\ db'.players = w /\ db'.progress = db.progress /\ db'.bitmap = db.bitmap
      /\ db'.cohort = db.cohort \cup {w[p]} /\ db'.outsider = outsider
  BY <1>5 DEF Tables
<1>10. Tables(db')
  BY <1>1, <1>4, <1>6, <1>7, <1>9 DEF Tables
<1>11. /\ \A q : Played(db', q) = Played(db, q)
       /\ \A i : i # w[p] => Sightings(db', i) = Sightings(db, i)
  BY <1>9 DEF Played, Sightings
<1>12. /\ IsFiniteSet(db.progress)
       /\ \A g \in db.progress : \A k \in DOMAIN PlayersOf[g] : PlayersOf[g][k] \in DOMAIN w
       /\ \A i \in DOMAIN outsider : \E q \in DOMAIN w : w[q] = i
  BY <1>6 DEF Counted, Includes
<1>13. \A q \in DOMAIN w : w[q] \notin db'.cohort =>
         Sightings(db', w[q]) = Cardinality(Played(db', q))
  BY <1>8, <1>9, <1>11
<1>14. Counted(db')
  BY <1>9, <1>12, <1>13 DEF Counted
<1> QED
  BY <1>9, <1>10, <1>14 DEF w, ps

-----------------------------------------------------------------------------
(* What a step keeps *)

\* A step after which every file still shows what could be read keeps the games that
\* are backed.
LEMMA BackedKept ==
  ASSUME \A d \in Date : Keeps(Synced(d), Synced(d)'),
         NEW g, Backed(g)
  PROVE  Backed(g)'
<1>1. PICK d \in Date : \E k \in ReadableBlocks(Synced(d)) : InBlock(Synced(d), k, g)
  BY DEF Backed
<1>2. PICK k \in ReadableBlocks(Synced(d)) : InBlock(Synced(d), k, g)
  BY <1>1
<1>3. k \in ReadableBlocks(Synced(d)') /\ Synced(d)'[k] = Synced(d)[k]
  BY <1>2 DEF Keeps
<1>4. InBlock(Synced(d)', k, g)
  BY <1>2, <1>3 DEF InBlock
<1>5. \E l \in ReadableBlocks(Synced(d)') : InBlock(Synced(d)', l, g)
  BY <1>3, <1>4
<1>6. ReadableBlocks(Synced(d)') = ReadableBlocks(Synced(d))'
  BY DEF ReadableBlocks
<1>7. \A l : InBlock(Synced(d)', l, g) = InBlock(Synced(d), l, g)'
  BY DEF InBlock
<1> QED
  BY <1>5, <1>6, <1>7 DEF Backed

\* And so it does for an index entry that was there.
LEMMA EntryKept ==
  ASSUME NEW d \in Date, Keeps(Synced(d), Synced(d)'),
         EntriesBacked, NEW k \in ReadableEntries(idxs[d])
  PROVE  /\ idxs[d][k].block \in ReadableBlocks(Synced(d)')
         /\ InBlock(Synced(d)', idxs[d][k].block, idxs[d][k].game)
BY DEF Keeps, EntriesBacked, InBlock

\* Steps that leave the files and the writer alone.
LEMMA DurabilityKept ==
  ASSUME Durability,
         UNCHANGED <<segs, idxs, buried, writer, pending>>,
         step' = step \/ (step # "sync" /\ step' \notin {"sync", "index"}),
         disk'.bitmap = disk.bitmap, db'.bitmap = disk.bitmap,
         seen' \subseteq seen \cup Skip
  PROVE  Durability'
<1>1. \A d \in Date : Synced(d)' = Synced(d)
  BY DEF Synced
<1>2. \A d \in Date : Keeps(Synced(d), Synced(d)')
  BY <1>1 DEF Keeps
<1>3. ASSUME ~buried
      PROVE  (FlawsAtEnd /\ LastIsPending /\ BitmapBacked /\ SeenBacked /\ EntriesBacked)'
  <2>1. FlawsAtEnd /\ LastIsPending /\ BitmapBacked /\ SeenBacked /\ EntriesBacked
    BY <1>3 DEF Durability
  <2>2. FlawsAtEnd' /\ LastIsPending'
    BY <2>1 DEF FlawsAtEnd, LastIsPending
  <2>3. BitmapBacked'
    BY <1>2, <2>1, BackedKept DEF BitmapBacked
  <2>4. SeenBacked'
    BY <1>2, <2>1, BackedKept DEF SeenBacked
  <2>5. EntriesBacked'
    BY <1>1, <2>1 DEF EntriesBacked, ReadableEntries, ReadableBlocks, InBlock
  <2> QED
    BY <2>2, <2>3, <2>4, <2>5
<1> QED
  BY <1>3 DEF Durability

-----------------------------------------------------------------------------
(* The actions *)

LEMMA StoreTxnKeeps ==
  ASSUME StoreInv, NEW g \in Game, NEW paused \in BOOLEAN, StoreTxn(g, paused)
  PROVE  StoreInv'
<1> DEFINE ps == PlayersOf[g]
           w == WithIds(db.players, next_player_id, ps)
<1>1. /\ Tables(db) /\ Counted(db) /\ Injective(db.players) /\ next_player_id \in Nat \ {0}
      /\ \A p \in DOMAIN db.players : db.players[p] < next_player_id
  BY DEF StoreInv, StoreTypeOK, Identity
<1>2. db' = MatchTables(g, paused)
  BY DEF StoreTxn
<1>3. Tables(db') /\ db'.players = w /\ db'.bitmap = db.bitmap /\ Counted(db')
  BY <1>1, <1>2, MatchTablesKeep
<1>4. ps \in Seq(Puuid) /\ \A j, k \in DOMAIN ps : ps[j] = ps[k] => j = k
  BY StoreAssumption
<1>5. DOMAIN db.players \subseteq Puuid /\ \A q \in DOMAIN db.players : db.players[q] \in Nat \ {0}
  BY <1>1 DEF Tables
<1>6. /\ DOMAIN w = DOMAIN db.players \cup {ps[k] : k \in DOMAIN ps}
      /\ Includes(w, db.players)
      /\ next_player_id' \in Nat \ {0}
      /\ \A p \in DOMAIN w : w[p] \in Nat \ {0} /\ w[p] < next_player_id'
      /\ Injective(w)
  <2>1. next_player_id' = next_player_id + Cardinality(New(db.players, ps))
    BY DEF StoreTxn
  <2> QED
    BY <1>1, <1>4, <1>5, <2>1, IdsAreNew
<1>7. rec' \in Record /\ rec'.game = g /\ rec'.ids = [k \in DOMAIN ps |-> w[ps[k]]]
  <2> DEFINE ids == [k \in DOMAIN ps |-> w[ps[k]]]
  <2>1. rec' = [game |-> g, ids |-> ids]
    BY <1>3 DEF StoreTxn
  <2>2. Len(ps) \in Nat /\ DOMAIN ps = 1 .. Len(ps)
    BY <1>4, LenProperties
  <2> HIDE DEF w
  <2>3. ids \in [1 .. Len(ps) -> Nat \ {0}]
    BY <1>6, <2>2
  <2>4. ids \in Seq(Nat \ {0})
    BY <2>2, <2>3, SeqDef
  <2> HIDE DEF ids
  <2>5. rec'.game = g /\ rec'.ids = ids /\ rec' \in Record
    BY <2>1, <2>4 DEF Record
  <2> QED
    BY <2>5 DEF ids
<1> HIDE DEF w, ps
<1>8. step' \in {"open", "append", "checkpoint"}
  BY DEF StoreTxn
<1>9. StoreTypeOK'
  BY <1>3, <1>6, <1>7, <1>8 DEF StoreInv, StoreTypeOK, StoreTxn, files, bounds
<1>10. Phases'
  <2>1. step' = "append" => writer \in Date
    BY DEF StoreTxn, StoreInv, StoreTypeOK
  <2>2. step' = "open" => pending = <<>>
    BY StoreAssumption DEF StoreTxn, StoreInv, Phases
  <2> QED
    BY <1>7, <1>8, <2>1, <2>2 DEF StoreInv, Phases, StoreTxn
<1>11. Identity'
  <2>1. Includes(w, disk.players)
    BY <1>6 DEF StoreInv, Identity, Includes
  <2>2. IdsIn(w, rec')
    BY <1>6, <1>7 DEF IdsIn, ps
  <2>3. \A r : IdsIn(db.players, r) => IdsIn(w, r)
    BY <1>6 DEF IdsIn, Includes
  <2>4. /\ op' = "store" /\ UNCHANGED <<disk, pending, segs>>
    BY DEF StoreTxn, files
  <2>5. \A k \in DOMAIN pending : IdsIn(w, pending[k])
    BY <2>3 DEF StoreInv, Identity
  <2>6. \A d \in Date : \A b \in DOMAIN segs[d] : \A m \in DOMAIN segs[d][b].recs :
          IdsIn(disk.players, segs[d][b].recs[m])
    BY DEF StoreInv, Identity
  <2> QED
    BY <1>3, <1>6, <1>8, <2>1, <2>2, <2>4, <2>5, <2>6 DEF Identity
<1>12. Durability'
  BY <1>3, <1>8, DurabilityKept DEF StoreTxn, StoreInv, Phases, Durability, files, bounds
<1>13. Counted(db') /\ Counted(disk')
  BY <1>3 DEF StoreTxn, StoreInv
<1> QED
  BY <1>9, <1>10, <1>11, <1>12, <1>13 DEF StoreInv

\* What open_files makes of today's segment, if anything.
LEMMA Opened ==
  ASSUME StoreInv, step = "open", step' \in {"append", "none"},
         NEW h \in Validated(segs[today]) \cup {segs[today]},
         segs' = [segs EXCEPT ![today] = h],
         UNCHANGED <<db, disk, next_player_id, seen, pending, idxs, buried>>,
         op' = "store" => rec' = rec /\ op = "store"
  PROVE  /\ segs' \in [Date -> Seq(BlockType)]
         /\ Identity'
         /\ Durability'
<1>2. /\ today \in Date /\ segs \in [Date -> Seq(BlockType)] /\ segs[today] \in Seq(BlockType)
      /\ StoreTypeOK /\ Phases /\ Identity /\ Durability
  BY DEF StoreInv, StoreTypeOK, BlockType
<1>3. /\ h \in Seq(BlockType)
      /\ Keeps(segs[today], h)
      /\ \A b \in DOMAIN h : b \in DOMAIN segs[today] /\ h[b].recs = segs[today][b].recs
      /\ FlawAtEnd(segs[today]) => FlawAtEnd(h)
  <2>1. CASE h \in Validated(segs[today])
    BY <1>2, <2>1, ValidatedKeeps
  <2>2. CASE h = segs[today]
    BY <1>2, <2>2 DEF Keeps
  <2> QED
    BY <2>1, <2>2
<1>4. /\ segs' \in [Date -> Seq(BlockType)]
      /\ segs'[today] = h
      /\ \A d \in Date : d # today => segs'[d] = segs[d]
  BY <1>2, <1>3
<1>8. Identity'
  <2>1. ASSUME NEW d \in Date, NEW b \in DOMAIN segs'[d], NEW m \in DOMAIN segs'[d][b].recs
        PROVE  IdsIn(disk.players, segs'[d][b].recs[m])
    <3>1. b \in DOMAIN segs[d] /\ segs'[d][b].recs = segs[d][b].recs
      BY <1>3, <1>4, <2>1
    <3> QED
      BY <1>2, <3>1 DEF Identity
  <2> QED
    BY <1>2, <2>1 DEF Identity
<1>9. \A d \in Date : Keeps(Synced(d), Synced(d)')
  <2>1. \A d \in Date : Synced(d) = segs[d] /\ Synced(d)' = segs'[d]
    BY DEF Synced
  <2> QED
    BY <1>3, <1>4, <2>1 DEF Keeps
<1>10. ASSUME ~buried
       PROVE  (FlawsAtEnd /\ LastIsPending /\ BitmapBacked /\ SeenBacked /\ EntriesBacked)'
  <2>1. FlawsAtEnd /\ LastIsPending /\ BitmapBacked /\ SeenBacked /\ EntriesBacked
    BY <1>2, <1>10 DEF Durability
  <2>2. FlawsAtEnd'
    <3>1. \A d \in Date : FlawAtEnd(segs'[d])
      BY <1>2, <1>3, <1>4, <2>1 DEF FlawsAtEnd
    <3> QED
      BY <3>1 DEF FlawsAtEnd, FlawAtEnd
  <2>3. LastIsPending'
    BY DEF LastIsPending
  <2>4. BitmapBacked' /\ SeenBacked'
    BY <1>9, <2>1, BackedKept DEF BitmapBacked, SeenBacked
  <2>5. EntriesBacked'
    BY <1>9, <2>1, EntryKept DEF EntriesBacked
  <2> QED
    BY <2>2, <2>3, <2>4, <2>5
<1>11. Durability'
  BY <1>2, <1>10 DEF Durability
<1> QED
  BY <1>4, <1>8, <1>11

LEMMA OpenWriterKeeps ==
  ASSUME StoreInv, OpenWriter
  PROVE  StoreInv'
<1>1. PICK h \in Validated(segs[today]) : segs' = [segs EXCEPT ![today] = h]
  BY DEF OpenWriter
<1>2. today \in Date /\ StoreTypeOK /\ Phases
  BY DEF StoreInv, StoreTypeOK
<1>3. /\ op = "store" /\ step = "open" /\ step' = "append" /\ writer' = today
      /\ UNCHANGED <<db, disk, next_player_id, seen, dirty_bitmaps, pending, idxs, op, rec,
                     today, crashes, errors, buried>>
  BY DEF OpenWriter, bounds
<1>4. segs' \in [Date -> Seq(BlockType)] /\ Identity' /\ Durability'
  BY <1>1, <1>3, Opened
<1>5. StoreTypeOK'
  BY <1>2, <1>3, <1>4 DEF StoreTypeOK, BlockType
<1>6. Phases'
  BY <1>2, <1>3 DEF Phases
<1>7. Counted(db') /\ Counted(disk')
  BY <1>3 DEF StoreInv
<1> QED
  BY <1>4, <1>5, <1>6, <1>7 DEF StoreInv

LEMMA OpenFailsKeeps ==
  ASSUME StoreInv, OpenFails
  PROVE  StoreInv'
<1>1. PICK h \in Validated(segs[today]) \cup {segs[today]} : segs' = [segs EXCEPT ![today] = h]
  BY DEF OpenFails
<1>2. StoreTypeOK /\ Phases
  BY DEF StoreInv
<1>3. /\ step = "open" /\ step' = "none" /\ op' = "idle" /\ rec' = None /\ errors' = errors + 1
      /\ UNCHANGED <<db, disk, next_player_id, seen, dirty_bitmaps, writer, pending, idxs,
                     today, crashes, buried>>
  BY DEF OpenFails, ram
<1>4. segs' \in [Date -> Seq(BlockType)] /\ Identity' /\ Durability'
  BY <1>1, <1>3, Opened
<1>5. StoreTypeOK'
  <2>1. errors' \in Nat
    BY <1>2, <1>3 DEF StoreTypeOK
  <2> QED
    BY <1>2, <1>3, <1>4, <2>1 DEF StoreTypeOK, BlockType
<1>6. Phases'
  BY <1>2, <1>3 DEF Phases
<1>7. Counted(db') /\ Counted(disk')
  BY <1>3 DEF StoreInv
<1> QED
  BY <1>4, <1>5, <1>6, <1>7 DEF StoreInv

LEMMA AppendRecordKeeps ==
  ASSUME StoreInv, AppendRecord
  PROVE  StoreInv'
<1>1. /\ op = "store" /\ step = "append" /\ op' = "idle" /\ step' = "none" /\ rec' = None
      /\ pending' = Append(pending, rec)
      /\ seen' = seen \cup {rec.game} /\ dirty_bitmaps' = TRUE
      /\ UNCHANGED <<db, disk, next_player_id, writer, segs, idxs, today, crashes, errors, buried>>
  BY DEF AppendRecord, files, bounds
<1>2. /\ StoreTypeOK /\ Phases /\ Identity /\ Durability
      /\ rec \in Record /\ pending \in Seq(Record) /\ writer \in Date
  BY <1>1 DEF StoreInv, StoreTypeOK, Phases
<1>3. /\ pending' \in Seq(Record)
      /\ Len(pending) \in Nat /\ DOMAIN pending = 1 .. Len(pending)
      /\ DOMAIN pending' = 1 .. (Len(pending) + 1)
      /\ pending'[Len(pending) + 1] = rec
      /\ \A k \in DOMAIN pending : pending'[k] = pending[k]
  BY <1>1, <1>2, AppendProperties, LenProperties
<1>4. \A k \in DOMAIN pending' : k \in DOMAIN pending \/ k = Len(pending) + 1
  BY <1>3
<1>5. StoreTypeOK'
  <2>1. rec.game \in Game
    BY <1>2 DEF Record
  <2> QED
    BY <1>1, <1>2, <1>3, <2>1 DEF StoreTypeOK
<1>6. Phases'
  BY <1>1, <1>2 DEF Phases
<1>7. Identity'
  <2>1. \A k \in DOMAIN pending' : IdsIn(db.players, pending'[k])
    BY <1>1, <1>2, <1>3, <1>4 DEF Identity
  <2> QED
    BY <1>1, <1>2, <2>1 DEF Identity
<1>8. \A d \in Date : Synced(d)' = Synced(d)
  BY <1>1 DEF Synced
<1>9. \A d \in Date : Keeps(Synced(d), Synced(d)')
  BY <1>8 DEF Keeps
<1>10. ASSUME ~buried
       PROVE  (FlawsAtEnd /\ LastIsPending /\ BitmapBacked /\ SeenBacked /\ EntriesBacked)'
  <2>1. FlawsAtEnd /\ LastIsPending /\ BitmapBacked /\ SeenBacked /\ EntriesBacked
    BY <1>2, <1>10 DEF Durability
  <2>2. FlawsAtEnd' /\ LastIsPending'
    BY <1>1, <2>1 DEF FlawsAtEnd, LastIsPending
  <2>3. BitmapBacked'
    BY <1>1, <1>9, <2>1, BackedKept DEF BitmapBacked
  <2>4. ASSUME NEW g \in seen' \ Skip
        PROVE  Backed(g)' \/ \E k \in DOMAIN pending' : pending'[k].game = g
    <3>1. CASE g = rec.game
      BY <1>3, <3>1
    <3>2. CASE g \in seen \ Skip
      BY <1>3, <1>9, <2>1, <3>2, BackedKept DEF SeenBacked
    <3> QED
      BY <1>1, <2>4, <3>1, <3>2
  <2>5. EntriesBacked'
    BY <1>1, <1>9, <2>1, EntryKept DEF EntriesBacked
  <2> QED
    BY <2>2, <2>3, <2>4, <2>5 DEF SeenBacked
<1>11. Durability'
  BY <1>1, <1>2, <1>10 DEF Durability
<1>12. Counted(db') /\ Counted(disk')
  BY <1>1 DEF StoreInv
<1> QED
  BY <1>5, <1>6, <1>7, <1>11, <1>12 DEF StoreInv

\* The steps that only read, or only touch the tables and the seen bitmap.
LEMMA QuietKeeps ==
  ASSUME StoreInv, Commit \/ Midnight \/ NodeAdd \/ Checkpoint \/ \E g \in Game : MarkSeen(g)
  PROVE  StoreInv'
<1> USE DEF ram, files, bounds
<1>1. StoreTypeOK /\ Phases /\ Identity /\ Durability /\ Counted(db) /\ Counted(disk)
  BY DEF StoreInv
<1>2. \A r : IdsIn(disk.players, r) => IdsIn(db.players, r)
  BY <1>1 DEF Identity, IdsIn, Includes
<1>3. CASE Commit
  <2>1. StoreTypeOK' /\ Phases'
    BY <1>1, <1>3 DEF Commit, StoreTypeOK, Phases
  <2>2. Identity'
    BY <1>1, <1>3 DEF Commit, Identity
  <2>3. Durability'
    BY <1>1, <1>3, DurabilityKept DEF Commit, Phases, Durability
  <2> QED
    BY <1>1, <1>3, <2>1, <2>2, <2>3 DEF StoreInv, Commit
<1>4. CASE Midnight
  <2>1. StoreTypeOK' /\ Phases'
    BY <1>1, <1>4 DEF Midnight, StoreTypeOK, Phases
  <2>2. Identity'
    BY <1>1, <1>4 DEF Midnight, Identity
  <2>3. Durability'
    BY <1>1, <1>4, DurabilityKept DEF Midnight, Durability
  <2> QED
    BY <1>1, <1>4, <2>1, <2>2, <2>3 DEF StoreInv, Midnight
<1>5. CASE NodeAdd
  <2>1. StoreTypeOK' /\ Phases'
    BY <1>1, <1>5 DEF NodeAdd, StoreTypeOK, Phases
  <2>2. Identity'
    <3>1. \A d \in Date : \A b \in DOMAIN segs[d] : \A m \in DOMAIN segs[d][b].recs :
            IdsIn(db.players, segs[d][b].recs[m])
      BY <1>1, <1>2 DEF Identity
    <3>2. Includes(db.players, db.players)
      BY DEF Includes
    <3> QED
      BY <1>1, <1>5, <3>1, <3>2 DEF NodeAdd, Identity
  <2>3. Durability'
    BY <1>1, <1>5, DurabilityKept DEF NodeAdd, Durability
  <2> QED
    BY <1>1, <1>5, <2>1, <2>2, <2>3 DEF StoreInv, NodeAdd
<1>6. CASE Checkpoint
  <2>1. step' = IF pending = <<>> THEN AfterFlush ELSE "write"
    BY <1>6 DEF Checkpoint
  <2>2. StoreTypeOK' /\ Phases'
    BY <1>1, <1>6, <2>1 DEF Checkpoint, StoreTypeOK, Phases, AfterFlush
  <2>3. Identity'
    <3>1. \A d \in Date : \A b \in DOMAIN segs[d] : \A m \in DOMAIN segs[d][b].recs :
            IdsIn(db.players, segs[d][b].recs[m])
      BY <1>1, <1>2 DEF Identity
    <3>2. Includes(db.players, db.players)
      BY DEF Includes
    <3> QED
      BY <1>1, <1>6, <3>1, <3>2 DEF Checkpoint, Identity
  <2>4. Durability'
    <3>1. step # "sync" /\ step' \notin {"sync", "index"}
      BY <1>6, <2>1 DEF Checkpoint, AfterFlush
    <3> QED
      BY <1>1, <1>6, <3>1, DurabilityKept DEF Checkpoint, Durability
  <2> QED
    BY <1>1, <1>6, <2>2, <2>3, <2>4 DEF StoreInv, Checkpoint
<1>7. CASE \E g \in Game : MarkSeen(g)
  <2>1. PICK g \in Game : MarkSeen(g)
    BY <1>7
  <2>2. StoreTypeOK' /\ Phases'
    BY <1>1, <2>1 DEF MarkSeen, StoreTypeOK, Phases
  <2>3. Identity'
    BY <1>1, <2>1 DEF MarkSeen, Identity
  <2>4. Durability'
    BY <1>1, <2>1, DurabilityKept DEF MarkSeen, Durability
  <2> QED
    BY <1>1, <2>1, <2>2, <2>3, <2>4 DEF StoreInv, MarkSeen
<1> QED
  BY <1>3, <1>4, <1>5, <1>6, <1>7

LEMMA EnrollKeeps ==
  ASSUME StoreInv, NEW p \in League, Enroll(p)
  PROVE  StoreInv'
<1> DEFINE ps == <<p>>
           w == WithIds(db.players, next_player_id, ps)
<1>1. StoreTypeOK /\ Phases /\ Identity /\ Durability /\ Counted(db) /\ Counted(disk)
  BY DEF StoreInv
<1>2. /\ Tables(db) /\ Injective(db.players) /\ next_player_id \in Nat \ {0}
      /\ \A q \in DOMAIN db.players : db.players[q] < next_player_id
      /\ DOMAIN db.players \subseteq Puuid
      /\ \A q \in DOMAIN db.players : db.players[q] \in Nat \ {0}
  BY <1>1 DEF StoreTypeOK, Identity, Tables
<1>3. Tables(db') /\ db'.players = w /\ db'.bitmap = db.bitmap /\ Counted(db')
  BY <1>1, <1>2, EnrollTables
<1>4. ps \in Seq(Puuid) /\ \A j, k \in DOMAIN ps : ps[j] = ps[k] => j = k
  BY StoreAssumption
<1>5. /\ op = "idle" /\ next_player_id' = next_player_id + Cardinality(New(db.players, ps))
      /\ UNCHANGED <<disk, seen, dirty_bitmaps, writer, pending, segs, idxs, op, step, rec,
                     today, crashes, errors, buried>>
  BY DEF Enroll, files, bounds
<1>6. /\ Includes(w, db.players)
      /\ next_player_id' \in Nat \ {0}
      /\ \A q \in DOMAIN w : w[q] < next_player_id'
      /\ Injective(w)
  BY <1>2, <1>4, <1>5, IdsAreNew
<1> HIDE DEF w, ps
<1>7. StoreTypeOK' /\ Phases'
  BY <1>1, <1>3, <1>5, <1>6 DEF StoreTypeOK, Phases
<1>8. Identity'
  <2>1. Includes(w, disk.players)
    BY <1>1, <1>6 DEF Identity, Includes
  <2>2. \A r : IdsIn(db.players, r) => IdsIn(w, r)
    BY <1>6 DEF IdsIn, Includes
  <2>3. \A k \in DOMAIN pending : IdsIn(w, pending[k])
    BY <1>1, <2>2 DEF Identity
  <2> QED
    BY <1>1, <1>3, <1>5, <1>6, <2>1, <2>3 DEF Identity
<1>9. Durability'
  BY <1>1, <1>3, <1>5, DurabilityKept DEF Durability
<1> QED
  BY <1>1, <1>3, <1>5, <1>7, <1>8, <1>9 DEF StoreInv

\* write_all: the block carries the pending records, whose ids are durable by then.
LEMMA BlockWritten ==
  ASSUME StoreInv, step = "write", segs' = [segs EXCEPT ![writer] = Append(@, Block("ok", pending))]
  PROVE  LET f == segs[writer]
         IN  /\ writer \in Date /\ f \in Seq(BlockType) /\ Block("ok", pending) \in BlockType
             /\ segs' \in [Date -> Seq(BlockType)]
             /\ segs'[writer] = Append(f, Block("ok", pending))
             /\ \A d \in Date : d # writer => segs'[d] = segs[d]
             /\ DOMAIN segs'[writer] = 1 .. (Len(f) + 1)
             /\ Len(segs'[writer]) = Len(f) + 1
             /\ \A k \in 1 .. Len(f) : segs'[writer][k] = f[k]
             /\ segs'[writer][Len(f) + 1] = Block("ok", pending)
             /\ \A d \in Date : \A b \in DOMAIN segs'[d] : \A m \in DOMAIN segs'[d][b].recs :
                  IdsIn(disk.players, segs'[d][b].recs[m])
<1> DEFINE f == segs[writer]
           b == Block("ok", pending)
<1>1. /\ StoreTypeOK /\ Phases /\ Identity
      /\ segs \in [Date -> Seq(BlockType)] /\ pending \in Seq(Record)
  BY DEF StoreInv, StoreTypeOK, BlockType
<1>2. writer \in Date
  BY <1>1 DEF Phases
<1>3. f \in Seq(BlockType) /\ b \in BlockType
  BY <1>1, <1>2 DEF BlockType, Block
<1>4. /\ Append(f, b) \in Seq(BlockType) /\ Len(Append(f, b)) = Len(f) + 1
      /\ \A i \in 1 .. Len(f) : Append(f, b)[i] = f[i]
      /\ Append(f, b)[Len(f) + 1] = b
  BY <1>3, AppendProperties
<1>5. /\ Len(f) \in Nat /\ DOMAIN f = 1 .. Len(f)
      /\ DOMAIN Append(f, b) = 1 .. (Len(f) + 1)
  BY <1>3, <1>4, LenProperties
<1>6. /\ segs' \in [Date -> Seq(BlockType)]
      /\ segs'[writer] = Append(f, b)
      /\ \A d \in Date : d # writer => segs'[d] = segs[d]
  BY <1>1, <1>2, <1>4
<1>7. b.recs = pending
  BY DEF Block
<1> HIDE DEF f, b
<1>8. ASSUME NEW d \in Date, NEW c \in DOMAIN segs'[d], NEW m \in DOMAIN segs'[d][c].recs
      PROVE  IdsIn(disk.players, segs'[d][c].recs[m])
  <2>1. CASE d = writer /\ c = Len(f) + 1
    <3>1. segs'[d][c] = b
      BY <1>4, <1>6, <2>1
    <3> QED
      BY <1>1, <1>7, <1>8, <3>1 DEF Identity
  <2>2. CASE ~(d = writer /\ c = Len(f) + 1)
    <3>1. c \in DOMAIN segs[d] /\ segs'[d][c] = segs[d][c]
      BY <1>4, <1>5, <1>6, <1>8, <2>2 DEF f
    <3> QED
      BY <1>1, <1>8, <3>1 DEF Identity
  <2> QED
    BY <2>1, <2>2
<1> QED
  BY <1>2, <1>3, <1>4, <1>5, <1>6, <1>8 DEF f, b

LEMMA WriteBlockKeeps ==
  ASSUME StoreInv, WriteBlock
  PROVE  StoreInv'
<1> DEFINE f == segs[writer]
           b == Block("ok", pending)
<1>1. /\ StoreTypeOK /\ Phases /\ Identity /\ Durability /\ Counted(db) /\ Counted(disk)
      /\ segs \in [Date -> Seq(BlockType)]
  BY DEF StoreInv, StoreTypeOK, BlockType
<1>2. /\ step = "write" /\ step' = "sync" /\ segs' = [segs EXCEPT ![writer] = Append(@, b)]
      /\ buried' = (buried \/ ~Intact(segs[writer]))
      /\ UNCHANGED <<db, disk, next_player_id, seen, dirty_bitmaps, writer, pending, idxs, op, rec,
                     today, crashes, errors>>
  BY DEF WriteBlock, ram, bounds
<1>3. /\ writer \in Date /\ f \in Seq(BlockType) /\ b \in BlockType
      /\ segs' \in [Date -> Seq(BlockType)]
      /\ segs'[writer] = Append(f, b)
      /\ \A d \in Date : d # writer => segs'[d] = segs[d]
      /\ DOMAIN segs'[writer] = 1 .. (Len(f) + 1)
      /\ Len(segs'[writer]) = Len(f) + 1
      /\ \A k \in 1 .. Len(f) : segs'[writer][k] = f[k]
      /\ segs'[writer][Len(f) + 1] = b
      /\ \A d \in Date : \A c \in DOMAIN segs'[d] : \A m \in DOMAIN segs'[d][c].recs :
           IdsIn(disk.players, segs'[d][c].recs[m])
  BY <1>2, BlockWritten
<1>4. Len(f) \in Nat /\ DOMAIN f = 1 .. Len(f)
  BY <1>3, LenProperties
<1>5. b.kind = "ok" /\ b.recs = pending
  BY DEF Block
<1> HIDE DEF b
<1>6. StoreTypeOK'
  BY <1>1, <1>2, <1>3 DEF StoreTypeOK, BlockType
<1>7. Phases'
  <2>1. segs'[writer] # <<>>
    BY <1>3, <1>4
  <2> QED
    BY <1>1, <1>2, <2>1 DEF Phases
<1>8. Identity'
  BY <1>1, <1>2, <1>3 DEF Identity
<1>9. \A d \in Date : Synced(d)' = Synced(d)
  <2>1. SubSeq(Append(f, b), 1, Len(f)) = f
    <3>1. Append(f, b) \in Seq(BlockType)
      BY <1>3, AppendProperties
    <3>2. Len(f) \in 0 .. Len(Append(f, b))
      BY <1>3, <1>4
    <3>3. /\ SubSeq(Append(f, b), 1, Len(f)) \in Seq(BlockType)
          /\ Len(SubSeq(Append(f, b), 1, Len(f))) = Len(f)
          /\ \A i \in 1 .. Len(f) : SubSeq(Append(f, b), 1, Len(f))[i] = Append(f, b)[i]
      BY <3>1, <3>2, PrefixKeeps
    <3> QED
      BY <1>3, <3>3, SeqEqual
  <2>2. Len(segs'[writer]) - 1 = Len(f)
    BY <1>3, <1>4
  <2>3. Synced(writer)' = f
    BY <1>2, <1>3, <2>1, <2>2 DEF Synced
  <2>4. \A d \in Date : Synced(d) = segs[d]
    BY <1>2 DEF Synced
  <2>5. \A d \in Date : d # writer => Synced(d)' = segs[d]
    BY <1>2, <1>3 DEF Synced
  <2> QED
    BY <1>2, <2>3, <2>4, <2>5
<1>10. \A d \in Date : Keeps(Synced(d), Synced(d)')
  BY <1>9 DEF Keeps
<1>11. ASSUME ~buried'
       PROVE  (FlawsAtEnd /\ LastIsPending /\ BitmapBacked /\ SeenBacked /\ EntriesBacked)'
  <2>1. FlawsAtEnd /\ LastIsPending /\ BitmapBacked /\ SeenBacked /\ EntriesBacked
    BY <1>1, <1>2, <1>11 DEF Durability, StoreTypeOK
  <2>2. Intact(segs'[writer]) /\ FlawsAtEnd'
    <3>1. Intact(f)
      BY <1>2, <1>11
    <3>2. Intact(segs'[writer])
      BY <1>3, <1>4, <1>5, <3>1 DEF Intact
    <3>3. \A d \in Date : FlawAtEnd(segs'[d])
      BY <1>3, <2>1, <3>2 DEF FlawsAtEnd, FlawAtEnd, Intact
    <3>4. FlawsAtEnd'
      BY <3>3 DEF FlawsAtEnd, FlawAtEnd
    <3> QED
      BY <3>2, <3>4
  <2>3. LastIsPending'
    <3>1. segs'[writer] # <<>>
      BY <1>3, <1>4
    <3> QED
      BY <1>2, <1>3, <1>5, <2>2, <3>1 DEF LastIsPending, Intact
  <2>4. BitmapBacked' /\ SeenBacked'
    BY <1>2, <1>10, <2>1, BackedKept DEF BitmapBacked, SeenBacked
  <2>5. EntriesBacked'
    BY <1>2, <1>10, <2>1, EntryKept DEF EntriesBacked
  <2> QED
    BY <2>2, <2>3, <2>4, <2>5
<1>12. Durability'
  BY <1>1, <1>2, <1>11 DEF Durability
<1> QED
  BY <1>1, <1>2, <1>6, <1>7, <1>8, <1>12 DEF StoreInv

\* Where the elements of two joined sequences are.
LEMMA JoinedAt ==
  ASSUME NEW S, NEW s \in Seq(S), NEW t \in Seq(S)
  PROVE  /\ s \o t \in Seq(S)
         /\ DOMAIN (s \o t) = 1 .. (Len(s) + Len(t))
         /\ \A i \in DOMAIN (s \o t) : i <= Len(s) => (s \o t)[i] = s[i]
         /\ \A i \in DOMAIN (s \o t) : ~(i <= Len(s)) =>
              i - Len(s) \in 1 .. Len(t) /\ (s \o t)[i] = t[i - Len(s)]
<1>1. Len(s) \in Nat /\ Len(t) \in Nat
  BY LenProperties
<1>2. /\ s \o t \in Seq(S)
      /\ Len(s \o t) = Len(s) + Len(t)
      /\ \A i \in 1 .. (Len(s) + Len(t)) :
           (s \o t)[i] = IF i <= Len(s) THEN s[i] ELSE t[i - Len(s)]
  BY ConcatProperties
<1>3. DOMAIN (s \o t) = 1 .. (Len(s) + Len(t))
  BY <1>2, LenProperties
<1> QED
  BY <1>1, <1>2, <1>3

LEMMA SyncBlockKeeps ==
  ASSUME StoreInv, SyncBlock
  PROVE  StoreInv'
<1> DEFINE f == segs[writer]
           x == idxs[writer]
           es == Entries
           EntryType == [game : Game, block : Nat \ {0}] \cup {Junk}
<1>1. /\ StoreTypeOK /\ Phases /\ Identity /\ Durability /\ Counted(db) /\ Counted(disk)
      /\ segs \in [Date -> Seq(BlockType)] /\ pending \in Seq(Record)
      /\ idxs \in [Date -> Seq(EntryType)]
  BY DEF StoreInv, StoreTypeOK, BlockType
<1>2. /\ step = "sync" /\ step' = "index" /\ idxs' = [idxs EXCEPT ![writer] = @ \o es]
      /\ UNCHANGED <<db, disk, next_player_id, seen, dirty_bitmaps, writer, pending, segs, op, rec,
                     today, crashes, errors, buried>>
  BY DEF SyncBlock, ram, bounds
<1>3. writer \in Date /\ f \in Seq(BlockType) /\ x \in Seq(EntryType)
  BY <1>1, <1>2 DEF Phases
<1>4. /\ Len(f) \in Nat /\ DOMAIN f = 1 .. Len(f)
      /\ Len(x) \in Nat /\ DOMAIN x = 1 .. Len(x)
      /\ Len(pending) \in Nat /\ DOMAIN pending = 1 .. Len(pending)
      /\ \A k \in DOMAIN pending : pending[k] \in Record
  BY <1>1, <1>3, LenProperties
<1>5. \A k \in DOMAIN pending : pending[k].game \in Game
  BY <1>4 DEF Record
<1>6. /\ DOMAIN es = 1 .. Len(pending)
      /\ \A k \in 1 .. Len(pending) : es[k] = [game |-> pending[k].game, block |-> Len(f)]
  BY <1>4 DEF Entries
<1>7. Len(f) \in Nat \ {0}
  BY <1>1, <1>2, <1>3, <1>4 DEF Phases
<1>8. es \in Seq(EntryType) /\ Len(es) = Len(pending)
  <2>1. \A k \in 1 .. Len(pending) : es[k] \in EntryType
    BY <1>4, <1>5, <1>6, <1>7
  <2>2. es \in [1 .. Len(pending) -> EntryType]
    <3> HIDE DEF EntryType
    <3> QED
      BY <1>6, <2>1 DEF Entries
  <2> HIDE DEF es, EntryType
  <2> QED
    BY <1>4, <2>2, SeqDef, LenProperties
<1> HIDE DEF es, EntryType
<1>9. /\ x \o es \in Seq(EntryType)
      /\ DOMAIN (x \o es) = 1 .. (Len(x) + Len(pending))
      /\ \A i \in DOMAIN (x \o es) : i <= Len(x) => (x \o es)[i] = x[i]
      /\ \A i \in DOMAIN (x \o es) : ~(i <= Len(x)) =>
           i - Len(x) \in 1 .. Len(pending) /\ (x \o es)[i] = es[i - Len(x)]
  <2> HIDE DEF x
  <2>1. /\ x \o es \in Seq(EntryType)
        /\ DOMAIN (x \o es) = 1 .. (Len(x) + Len(es))
        /\ \A i \in DOMAIN (x \o es) : i <= Len(x) => (x \o es)[i] = x[i]
        /\ \A i \in DOMAIN (x \o es) : ~(i <= Len(x)) =>
             i - Len(x) \in 1 .. Len(es) /\ (x \o es)[i] = es[i - Len(x)]
    BY <1>3, <1>8, JoinedAt, Zenon
  <2> QED
    BY <1>8, <2>1, Zenon
<1>10. /\ idxs' \in [Date -> Seq(EntryType)]
       /\ idxs'[writer] = x \o es
       /\ \A d \in Date : d # writer => idxs'[d] = idxs[d]
  BY <1>1, <1>2, <1>3, <1>9
<1>11. StoreTypeOK'
  BY <1>1, <1>2, <1>10 DEF StoreTypeOK, EntryType
<1>12. Phases'
  BY <1>1, <1>2 DEF Phases
<1>13. Identity'
  BY <1>1, <1>2 DEF Identity
<1>14. \A d \in Date : Synced(d)' = segs[d]
  BY <1>2 DEF Synced
<1>15. \A d \in Date : Keeps(Synced(d), Synced(d)')
  <2>1. Len(f) - 1 \in 0 .. Len(f)
    BY <1>7
  <2>2. Keeps(SubSeq(f, 1, Len(f) - 1), f)
    BY <1>3, <2>1, PrefixKeeps
  <2>3. Synced(writer) = SubSeq(f, 1, Len(f) - 1)
    BY <1>2 DEF Synced
  <2>4. \A d \in Date : d # writer => Synced(d) = segs[d]
    BY DEF Synced
  <2>5. \A d \in Date : Keeps(segs[d], segs[d])
    BY DEF Keeps
  <2> QED
    BY <1>14, <2>2, <2>3, <2>4, <2>5
<1>16. ASSUME ~buried
       PROVE  (FlawsAtEnd /\ LastIsPending /\ BitmapBacked /\ SeenBacked /\ EntriesBacked)'
  <2>1. FlawsAtEnd /\ LastIsPending /\ BitmapBacked /\ SeenBacked /\ EntriesBacked
    BY <1>1, <1>16 DEF Durability
  <2>2. FlawsAtEnd' /\ LastIsPending'
    BY <1>2, <2>1 DEF FlawsAtEnd, LastIsPending
  <2>3. BitmapBacked' /\ SeenBacked'
    BY <1>2, <1>15, <2>1, BackedKept DEF BitmapBacked, SeenBacked
  <2>4. Len(f) \in ReadableBlocks(f) /\ f[Len(f)].recs = pending
    <3>1. \A k \in DOMAIN f : f[k].kind = "ok"
      BY <1>2, <2>1 DEF LastIsPending, Intact
    <3> QED
      BY <1>2, <1>4, <1>7, <2>1, <3>1 DEF ReadableBlocks, LastIsPending
  <2>5. ASSUME NEW d \in Date, NEW k \in ReadableEntries(idxs'[d])
        PROVE  /\ idxs'[d][k].block \in ReadableBlocks(segs[d])
               /\ InBlock(segs[d], idxs'[d][k].block, idxs'[d][k].game)
    <3>1. CASE d # writer
      <4>1. idxs'[d] = idxs[d]
        BY <1>10, <3>1
      <4> QED
        BY <1>14, <1>15, <2>1, <2>5, <4>1, EntryKept
    <3>2. CASE d = writer /\ k <= Len(x)
      <4>1. k \in DOMAIN idxs'[d] /\ \A l \in 1 .. k : idxs'[d][l] # Junk
        BY <2>5 DEF ReadableEntries
      <4>2. k \in 1 .. Len(x) /\ \A l \in 1 .. k : idxs'[d][l] = x[l]
        BY <1>4, <1>9, <1>10, <3>2, <4>1
      <4>3. k \in ReadableEntries(idxs[d]) /\ idxs'[d][k] = idxs[d][k]
        BY <1>4, <3>2, <4>1, <4>2 DEF ReadableEntries
      <4> QED
        BY <1>14, <1>15, <2>1, <4>3, EntryKept
    <3>3. CASE d = writer /\ ~(k <= Len(x))
      <4>1. k \in 1 .. (Len(x) + Len(pending))
        BY <1>9, <1>10, <2>5, <3>3 DEF ReadableEntries
      <4>2. k - Len(x) \in 1 .. Len(pending) /\ idxs'[d][k] = es[k - Len(x)]
        BY <1>4, <1>9, <1>10, <3>3, <4>1
      <4>3. /\ idxs'[d][k].block = Len(f)
            /\ idxs'[d][k].game = pending[k - Len(x)].game
        BY <1>6, <4>2
      <4>4. k - Len(x) \in DOMAIN f[Len(f)].recs
        BY <1>4, <2>4, <4>2
      <4> QED
        BY <2>4, <3>3, <4>3, <4>4 DEF InBlock
    <3> QED
      BY <3>1, <3>2, <3>3
  <2>6. EntriesBacked'
    BY <1>14, <2>5 DEF EntriesBacked
  <2> QED
    BY <2>2, <2>3, <2>6
<1>17. Durability'
  BY <1>1, <1>2, <1>16 DEF Durability
<1> QED
  BY <1>1, <1>2, <1>11, <1>12, <1>13, <1>17 DEF StoreInv

LEMMA SyncIndexKeeps ==
  ASSUME StoreInv, SyncIndex
  PROVE  StoreInv'
<1> DEFINE f == segs[writer]
<1>1. /\ StoreTypeOK /\ Phases /\ Identity /\ Durability /\ Counted(db) /\ Counted(disk)
      /\ segs \in [Date -> Seq(BlockType)]
  BY DEF StoreInv, StoreTypeOK, BlockType
<1>2. /\ step = "index" /\ step' = AfterFlush /\ pending' = <<>>
      /\ UNCHANGED <<db, disk, next_player_id, seen, dirty_bitmaps, writer, segs, idxs, op, rec,
                     today, crashes, errors, buried>>
  BY DEF SyncIndex, files, bounds
<1>3. writer \in Date /\ f \in Seq(BlockType) /\ Len(f) \in Nat /\ DOMAIN f = 1 .. Len(f)
  BY <1>1, <1>2, LenProperties DEF Phases
<1>4. step' \in {"open", "bitmap"} /\ DOMAIN pending' = {}
  BY <1>2 DEF AfterFlush
<1>5. StoreTypeOK'
  <2>1. <<>> \in Seq(Record)
    BY EmptySeq
  <2> QED
    BY <1>1, <1>2, <1>4, <2>1 DEF StoreTypeOK
<1>6. Phases'
  BY <1>1, <1>2 DEF Phases, AfterFlush
<1>7. Identity'
  BY <1>1, <1>2, <1>4 DEF Identity
<1>8. \A d \in Date : Synced(d)' = segs[d] /\ Synced(d) = segs[d]
  BY <1>2, <1>4 DEF Synced
<1>9. \A d \in Date : Keeps(Synced(d), Synced(d)')
  BY <1>8 DEF Keeps
<1>10. ASSUME ~buried
       PROVE  (FlawsAtEnd /\ LastIsPending /\ BitmapBacked /\ SeenBacked /\ EntriesBacked)'
  <2>1. FlawsAtEnd /\ LastIsPending /\ BitmapBacked /\ SeenBacked /\ EntriesBacked
    BY <1>1, <1>10 DEF Durability
  <2>2. FlawsAtEnd' /\ LastIsPending'
    BY <1>2, <1>4, <2>1 DEF FlawsAtEnd, LastIsPending
  <2>3. BitmapBacked'
    BY <1>2, <1>9, <2>1, BackedKept DEF BitmapBacked
  <2>4. Len(f) \in ReadableBlocks(f) /\ f[Len(f)].recs = pending
    <3>1. \A k \in DOMAIN f : f[k].kind = "ok"
      BY <1>2, <2>1 DEF LastIsPending, Intact
    <3>2. f # <<>> /\ f[Len(f)].recs = pending
      BY <1>2, <2>1 DEF LastIsPending
    <3>3. Len(f) \in 1 .. Len(f)
      BY <1>3, <3>2
    <3> QED
      BY <1>3, <3>1, <3>2, <3>3 DEF ReadableBlocks
  <2>5. ASSUME NEW k \in DOMAIN pending
        PROVE  Backed(pending[k].game)
    <3>1. InBlock(Synced(writer), Len(f), pending[k].game)
      BY <1>3, <1>8, <2>4, <2>5 DEF InBlock
    <3> QED
      BY <1>3, <1>8, <2>4, <3>1 DEF Backed
  <2>6. \A g \in seen \ Skip : Backed(g)
    BY <2>1, <2>5 DEF SeenBacked
  <2>7. SeenBacked'
    BY <1>2, <1>9, <2>6, BackedKept DEF SeenBacked
  <2>8. EntriesBacked'
    BY <1>2, <1>9, <2>1, EntryKept DEF EntriesBacked
  <2> QED
    BY <2>2, <2>3, <2>7, <2>8
<1>11. Durability'
  BY <1>1, <1>2, <1>10 DEF Durability
<1> QED
  BY <1>1, <1>2, <1>5, <1>6, <1>7, <1>11 DEF StoreInv

LEMMA CommitBitmapKeeps ==
  ASSUME StoreInv, CommitBitmap
  PROVE  StoreInv'
<1>1. StoreTypeOK /\ Phases /\ Identity /\ Durability /\ Counted(db) /\ Counted(disk)
  BY DEF StoreInv
<1>2. /\ step = "bitmap" /\ step' = "none" /\ op' = "idle" /\ dirty_bitmaps' = FALSE
      /\ UNCHANGED <<next_player_id, seen, writer, pending, segs, idxs, rec, today, crashes, errors, buried>>
  BY DEF CommitBitmap, files, bounds
<1>3. pending = <<>>
  BY <1>1, <1>2 DEF Phases
<1>4. Phases'
  BY <1>1, <1>2, <1>3 DEF Phases
<1>5. \A d \in Date : Synced(d)' = Synced(d)
  BY <1>2 DEF Synced
<1>6. \A d \in Date : Keeps(Synced(d), Synced(d)')
  BY <1>5 DEF Keeps
<1>7. CASE ~dirty_bitmaps
  <2>1. UNCHANGED <<db, disk>>
    BY <1>7 DEF CommitBitmap
  <2>2. StoreTypeOK'
    BY <1>1, <1>2, <2>1 DEF StoreTypeOK
  <2>3. Identity'
    BY <1>1, <1>2, <2>1 DEF Identity
  <2>4. Durability'
    BY <1>1, <1>2, <2>1, DurabilityKept DEF Durability
  <2> QED
    BY <1>1, <1>4, <2>1, <2>2, <2>3, <2>4 DEF StoreInv
<1>8. CASE dirty_bitmaps
  <2>1. db' = [db EXCEPT !.bitmap = seen] /\ disk' = db'
    BY <1>8 DEF CommitBitmap
  <2>2. /\ Tables(db) /\ seen \subseteq Game
        /\ DOMAIN db = {"players", "progress", "cohort", "outsider", "bitmap"}
    BY <1>1 DEF StoreTypeOK, Tables
  <2>3. /\ DOMAIN db' = DOMAIN db
        /\ db'.players = db.players /\ db'.progress = db.progress
        /\ db'.cohort = db.cohort /\ db'.outsider = db.outsider /\ db'.bitmap = seen
    BY <2>1, <2>2
  <2>4. Tables(db')
    BY <2>2, <2>3 DEF Tables
  <2>5. StoreTypeOK'
    BY <1>1, <1>2, <2>1, <2>4 DEF StoreTypeOK
  <2>6. Counted(db')
    BY <1>1, <2>3 DEF Counted, Sightings, Played
  <2>7. Identity'
    <3>1. \A r : IdsIn(disk.players, r) => IdsIn(db.players, r)
      BY <1>1 DEF Identity, IdsIn, Includes
    <3>2. \A d \in Date : \A b \in DOMAIN segs[d] : \A m \in DOMAIN segs[d][b].recs :
            IdsIn(db.players, segs[d][b].recs[m])
      BY <1>1, <3>1 DEF Identity
    <3>3. Includes(db.players, db.players)
      BY DEF Includes
    <3> QED
      BY <1>1, <1>2, <2>1, <2>3, <3>2, <3>3 DEF Identity
  <2>8. ASSUME ~buried
        PROVE  (FlawsAtEnd /\ LastIsPending /\ BitmapBacked /\ SeenBacked /\ EntriesBacked)'
    <3>1. FlawsAtEnd /\ LastIsPending /\ BitmapBacked /\ SeenBacked /\ EntriesBacked
      BY <1>1, <2>8 DEF Durability
    <3>2. FlawsAtEnd' /\ LastIsPending'
      BY <1>2, <3>1 DEF FlawsAtEnd, LastIsPending
    <3>3. \A g \in seen \ Skip : Backed(g)
      BY <1>3, <3>1 DEF SeenBacked
    <3>4. disk'.bitmap = seen
      BY <2>1, <2>3
    <3>5. BitmapBacked' /\ SeenBacked'
      BY <1>2, <1>6, <3>3, <3>4, BackedKept DEF BitmapBacked, SeenBacked
    <3>6. EntriesBacked'
      BY <1>2, <1>6, <3>1, EntryKept DEF EntriesBacked
    <3> QED
      BY <3>2, <3>5, <3>6
  <2>9. Durability'
    BY <1>2, <2>1, <2>8 DEF Durability
  <2> QED
    BY <1>4, <2>1, <2>5, <2>6, <2>7, <2>9 DEF StoreInv
<1> QED
  BY <1>1, <1>7, <1>8 DEF StoreTypeOK

\* A fault leaves what is synced; a block that is not may be whole, spoilt or gone.
LEMMA SegAfterFaultKeeps ==
  ASSUME NEW f \in Seq(BlockType), step = "sync" => f # <<>>, NEW h \in SegAfterFault(f)
  PROVE  /\ h \in Seq(BlockType)
         /\ step # "sync" => Keeps(f, h)
         /\ step = "sync" => Keeps(SubSeq(f, 1, Len(f) - 1), h)
         /\ \A b \in DOMAIN h : b \in DOMAIN f /\ h[b].recs = f[b].recs
         /\ step # "sync" => h = f
         /\ Intact(f) => FlawAtEnd(h)
<1>1. Len(f) \in Nat /\ DOMAIN f = 1 .. Len(f) /\ \A i \in 1 .. Len(f) : f[i] \in BlockType
  BY LenProperties
<1>2. CASE step # "sync"
  BY <1>2 DEF SegAfterFault, Keeps, Intact, FlawAtEnd
<1>3. CASE step = "sync"
  <2> DEFINE g == SubSeq(f, 1, Len(f) - 1)
             B(kind) == Block(kind, f[Len(f)].recs)
  <2>1. h \in {f, g} \/ \E kind \in {"torn", "bad"} : h = Append(g, B(kind))
    BY <1>3 DEF SegAfterFault
  <2>2. Len(f) \in 1 .. Len(f) /\ Len(f) - 1 \in 0 .. Len(f)
    BY <1>1, <1>3
  <2>3. /\ g \in Seq(BlockType) /\ Len(g) = Len(f) - 1
        /\ \A i \in 1 .. (Len(f) - 1) : g[i] = f[i]
        /\ Keeps(g, f)
    BY <2>2, PrefixKeeps
  <2>4. DOMAIN g = 1 .. (Len(f) - 1)
    BY <2>3, LenProperties
  <2>5. \A kind \in {"torn", "bad"} : B(kind) \in BlockType /\ B(kind).recs = f[Len(f)].recs
    BY <1>1, <2>2 DEF BlockType, Block
  <2> HIDE DEF g, B
  <2>6. CASE h = f
    BY <1>3, <2>3, <2>6 DEF g, Intact, FlawAtEnd
  <2>7. CASE h = g
    <3>1. Keeps(g, g)
      BY DEF Keeps
    <3>2. \A c \in DOMAIN h : c \in DOMAIN f /\ h[c] = f[c]
      BY <1>1, <2>3, <2>4, <2>7
    <3>3. Intact(f) => FlawAtEnd(h)
      BY <3>2 DEF Intact, FlawAtEnd
    <3> QED
      BY <1>3, <2>3, <2>7, <3>1, <3>2, <3>3 DEF g
  <2>8. ASSUME NEW kind \in {"torn", "bad"}, h = Append(g, B(kind))
        PROVE  /\ h \in Seq(BlockType) /\ Keeps(g, h)
               /\ \A b \in DOMAIN h : b \in DOMAIN f /\ h[b].recs = f[b].recs
               /\ Intact(f) => FlawAtEnd(h)
    <3> DEFINE b == B(kind)
    <3>0. b \in BlockType /\ b.recs = f[Len(f)].recs /\ h = Append(g, b)
      BY <2>5, <2>8
    <3> HIDE DEF b
    <3>1. h \in Seq(BlockType) /\ Keeps(g, h)
      BY <2>3, <3>0, AppendKeeps
    <3>2. /\ Len(h) = Len(f) /\ DOMAIN h = 1 .. Len(f)
          /\ \A i \in 1 .. (Len(f) - 1) : h[i] = f[i]
          /\ h[Len(f)] = b
      <4>1. Len(g) + 1 = Len(f)
        BY <1>1, <2>3
      <4> QED
        BY <2>3, <3>0, <3>1, <4>1, AppendProperties, LenProperties
    <3>3. \A c \in DOMAIN h : c = Len(f) \/ c \in 1 .. (Len(f) - 1)
      BY <1>1, <3>2
    <3>4. \A c \in DOMAIN h : c \in DOMAIN f /\ h[c].recs = f[c].recs
      BY <1>1, <3>0, <3>2, <3>3
    <3>5. Intact(f) => FlawAtEnd(h)
      BY <1>1, <3>2, <3>3 DEF Intact, FlawAtEnd
    <3> QED
      BY <3>1, <3>4, <3>5
  <2>9. Keeps(SubSeq(f, 1, Len(f) - 1), h) <=> Keeps(g, h)
    BY DEF g
  <2> QED
    BY <1>3, <2>1, <2>6, <2>7, <2>8, <2>9
<1> QED
  BY <1>2, <1>3

\* The entries a reader finds in the index after a fault were there before.
LEMMA IdxAfterFaultKeeps ==
  ASSUME NEW S, Junk \in S, NEW x \in Seq(S), pending \in Seq(Record), NEW y \in IdxAfterFault(x)
  PROVE  /\ y \in Seq(S)
         /\ \A k \in ReadableEntries(y) : k \in ReadableEntries(x) /\ y[k] = x[k]
<1>1. Len(x) \in Nat /\ DOMAIN x = 1 .. Len(x) /\ \A i \in 1 .. Len(x) : x[i] \in S
  BY LenProperties
<1>2. CASE step # "index"
  BY <1>2 DEF IdxAfterFault
<1>3. CASE step = "index"
  <2>1. Len(pending) \in Nat
    BY LenProperties
  <2>2. PICK m \in (Len(x) - Len(pending)) .. Len(x) :
          y = SubSeq(x, 1, m) \/ y = Append(SubSeq(x, 1, m), Junk)
    <3> DEFINE n == Len(x) - Len(pending)
    <3>1. y \in {SubSeq(x, 1, m) : m \in n .. Len(x)}
               \cup {Append(SubSeq(x, 1, m), Junk) : m \in n .. (Len(x) - 1)}
      BY <1>3 DEF IdxAfterFault
    <3>2. \A m \in n .. (Len(x) - 1) : m \in n .. Len(x)
      BY <1>1, <2>1
    <3> HIDE DEF n
    <3>3. \E m \in n .. Len(x) : y = SubSeq(x, 1, m) \/ y = Append(SubSeq(x, 1, m), Junk)
      BY <3>1, <3>2, Zenon
    <3> QED
      BY <3>3 DEF n
  <2> DEFINE p == SubSeq(x, 1, m)
  <2>3. m \in Int /\ m <= Len(x) /\ 1 \in Int
    BY <1>1, <2>1
  <2>4. \A i \in 1 .. m : x[i] \in S
    BY <1>1, <2>3
  <2>5. /\ p \in Seq(S)
        /\ Len(p) = IF 1 <= m THEN m - 1 + 1 ELSE 0
        /\ \A i \in 1 .. m : p[i] = x[1 + i - 1]
    BY <2>3, <2>4, SubSeqProperties
  <2> HIDE DEF p
  <2>6. /\ Len(p) \in Nat /\ DOMAIN p = 1 .. Len(p) /\ Len(p) <= Len(x)
        /\ \A i \in 1 .. Len(p) : p[i] = x[i]
    BY <1>1, <2>3, <2>5, LenProperties
  <2>7. CASE y = p
    BY <1>1, <2>5, <2>6, <2>7 DEF ReadableEntries
  <2>8. CASE y = Append(p, Junk)
    <3>1. /\ y \in Seq(S) /\ Len(y) = Len(p) + 1
          /\ \A i \in 1 .. Len(p) : y[i] = p[i]
          /\ y[Len(p) + 1] = Junk
      BY <2>5, <2>8, AppendProperties
    <3>2. DOMAIN y = 1 .. (Len(p) + 1)
      BY <3>1, LenProperties
    <3>3. ASSUME NEW k \in ReadableEntries(y)
          PROVE  k \in ReadableEntries(x) /\ y[k] = x[k]
      <4>1. k \in 1 .. (Len(p) + 1) /\ \A l \in 1 .. k : y[l] # Junk
        BY <3>2 DEF ReadableEntries
      <4>2. k # Len(p) + 1
        BY <2>6, <3>1, <4>1
      <4>3. k \in 1 .. Len(p)
        BY <2>6, <4>1, <4>2
      <4> QED
        BY <1>1, <2>6, <3>1, <4>1, <4>3 DEF ReadableEntries
    <3> QED
      BY <3>1, <3>3
  <2> QED
    BY <2>2, <2>7, <2>8 DEF p
<1> QED
  BY <1>2, <1>3

EntryType == [game : Game, block : Nat \ {0}] \cup {Junk}

\* What a fault leaves of the files: readers find what was synced, and no more.
LEMMA FilesKept ==
  ASSUME StoreInv, writer \in Date, FilesAfterFault
  PROVE  /\ segs' \in [Date -> Seq(BlockType)]
         /\ \A d \in Date : Keeps(Synced(d), segs'[d])
         /\ \A d \in Date : \A b \in DOMAIN segs'[d] :
              b \in DOMAIN segs[d] /\ segs'[d][b].recs = segs[d][b].recs
         /\ FlawsAtEnd /\ LastIsPending => \A d \in Date : FlawAtEnd(segs'[d])
         /\ idxs' \in [Date -> Seq(EntryType)]
         /\ \A d \in Date : \A k \in ReadableEntries(idxs'[d]) :
              k \in ReadableEntries(idxs[d]) /\ idxs'[d][k] = idxs[d][k]
<1>1. /\ StoreTypeOK /\ Phases
      /\ segs \in [Date -> Seq(BlockType)] /\ pending \in Seq(Record)
      /\ idxs \in [Date -> Seq(EntryType)] /\ Junk \in EntryType
      /\ segs[writer] \in Seq(BlockType) /\ idxs[writer] \in Seq(EntryType)
  BY DEF StoreInv, StoreTypeOK, BlockType, EntryType
<1>2. PICK h \in SegAfterFault(segs[writer]) : segs' = [segs EXCEPT ![writer] = h]
  BY DEF FilesAfterFault
<1>3. step = "sync" => segs[writer] # <<>>
  BY <1>1 DEF Phases
<1>4. /\ h \in Seq(BlockType)
      /\ step # "sync" => Keeps(segs[writer], h)
      /\ step = "sync" => Keeps(SubSeq(segs[writer], 1, Len(segs[writer]) - 1), h)
      /\ \A b \in DOMAIN h : b \in DOMAIN segs[writer] /\ h[b].recs = segs[writer][b].recs
      /\ step # "sync" => h = segs[writer]
      /\ Intact(segs[writer]) => FlawAtEnd(h)
  BY <1>1, <1>3, SegAfterFaultKeeps
<1>5. /\ segs' \in [Date -> Seq(BlockType)]
      /\ segs'[writer] = h
      /\ \A d \in Date : d # writer => segs'[d] = segs[d]
  BY <1>1, <1>2, <1>4
<1>6. \A d \in Date : Keeps(Synced(d), segs'[d])
  <2>1. Keeps(Synced(writer), h)
    BY <1>4 DEF Synced
  <2>2. \A d \in Date : d # writer => Keeps(Synced(d), segs[d])
    BY DEF Synced, Keeps
  <2> QED
    BY <1>5, <2>1, <2>2
<1>7. FlawsAtEnd /\ LastIsPending => \A d \in Date : FlawAtEnd(segs'[d])
  BY <1>4, <1>5 DEF FlawsAtEnd, LastIsPending
<1>8. PICK y \in IdxAfterFault(idxs[writer]) : idxs' = [idxs EXCEPT ![writer] = y]
  BY DEF FilesAfterFault
<1>9. /\ y \in Seq(EntryType)
      /\ \A k \in ReadableEntries(y) :
           k \in ReadableEntries(idxs[writer]) /\ y[k] = idxs[writer][k]
  BY <1>1, IdxAfterFaultKeeps
<1>10. /\ idxs' \in [Date -> Seq(EntryType)]
       /\ idxs'[writer] = y
       /\ \A d \in Date : d # writer => idxs'[d] = idxs[d]
  BY <1>1, <1>8, <1>9
<1>11. \A d \in Date : \A k \in ReadableEntries(idxs'[d]) :
         k \in ReadableEntries(idxs[d]) /\ idxs'[d][k] = idxs[d][k]
  BY <1>9, <1>10
<1> QED
  BY <1>4, <1>5, <1>6, <1>7, <1>10, <1>11

\* Nothing that was backed is lost with the files a fault leaves.
LEMMA DurabilityAfterFault ==
  ASSUME Durability, step' \notin {"sync", "index"}, buried' = buried,
         \A d \in Date : Keeps(Synced(d), segs'[d]),
         FlawsAtEnd /\ LastIsPending => \A d \in Date : FlawAtEnd(segs'[d]),
         \A d \in Date : \A k \in ReadableEntries(idxs'[d]) :
           k \in ReadableEntries(idxs[d]) /\ idxs'[d][k] = idxs[d][k],
         disk' = disk, db'.bitmap = disk.bitmap,
         seen' = disk.bitmap \/ (seen' = seen /\ pending' = pending)
  PROVE  Durability'
<1>9. \A d \in Date : Synced(d)' = segs'[d]
  BY DEF Synced
<1>10. \A d \in Date : Keeps(Synced(d), Synced(d)')
  BY <1>9
<1>11. ASSUME ~buried
       PROVE  (FlawsAtEnd /\ LastIsPending /\ BitmapBacked /\ SeenBacked /\ EntriesBacked)'
  <2>1. FlawsAtEnd /\ LastIsPending /\ BitmapBacked /\ SeenBacked /\ EntriesBacked
    BY <1>11 DEF Durability
  <2>2. FlawsAtEnd'
    <3>1. \A d \in Date : FlawAtEnd(segs'[d])
      BY <2>1
    <3> QED
      BY <3>1 DEF FlawsAtEnd, FlawAtEnd
  <2>3. LastIsPending'
    BY DEF LastIsPending
  <2>4. BitmapBacked'
    BY <1>10, <2>1, BackedKept DEF BitmapBacked
  <2>5. SeenBacked'
    <3>1. CASE seen' = disk.bitmap
      BY <1>10, <2>1, <3>1, BackedKept DEF BitmapBacked, SeenBacked
    <3>2. CASE seen' = seen /\ pending' = pending
      BY <1>10, <2>1, <3>2, BackedKept DEF SeenBacked
    <3> QED
      BY <3>1, <3>2
  <2>6. ASSUME NEW d \in Date, NEW k \in ReadableEntries(idxs'[d])
        PROVE  /\ idxs'[d][k].block \in ReadableBlocks(Synced(d)')
               /\ InBlock(Synced(d)', idxs'[d][k].block, idxs'[d][k].game)
    BY <1>10, <2>1, <2>6, EntryKept
  <2>7. EntriesBacked'
    BY <2>6 DEF EntriesBacked
  <2> QED
    BY <2>2, <2>3, <2>4, <2>5, <2>7
<1> QED
  BY <1>11 DEF Durability

LEMMA WriteFailsKeeps ==
  ASSUME StoreInv, WriteFails
  PROVE  StoreInv'
<1>1. /\ StoreTypeOK /\ Phases /\ Identity /\ Durability /\ Counted(db) /\ Counted(disk)
  BY DEF StoreInv
<1>2. /\ step \in {"sync", "index"} /\ step' = "none" /\ op' = "idle" /\ rec' = None
      /\ errors' = errors + 1 /\ FilesAfterFault
      /\ UNCHANGED <<db, disk, next_player_id, seen, dirty_bitmaps, writer, pending,
                     today, crashes, buried>>
  BY DEF WriteFails, ram
<1>3. writer \in Date
  BY <1>1, <1>2 DEF Phases
<1>4. /\ segs' \in [Date -> Seq(BlockType)]
      /\ \A d \in Date : Keeps(Synced(d), segs'[d])
      /\ \A d \in Date : \A b \in DOMAIN segs'[d] :
           b \in DOMAIN segs[d] /\ segs'[d][b].recs = segs[d][b].recs
      /\ FlawsAtEnd /\ LastIsPending => \A d \in Date : FlawAtEnd(segs'[d])
      /\ idxs' \in [Date -> Seq(EntryType)]
      /\ \A d \in Date : \A k \in ReadableEntries(idxs'[d]) :
           k \in ReadableEntries(idxs[d]) /\ idxs'[d][k] = idxs[d][k]
  BY <1>2, <1>3, FilesKept
<1>5. StoreTypeOK'
  <2>1. errors' \in Nat
    BY <1>1, <1>2 DEF StoreTypeOK
  <2>2. segs' \in [Date -> Seq(BlockType)] /\ idxs' \in [Date -> Seq(EntryType)]
    BY <1>4
  <2> QED
    BY <1>1, <1>2, <2>1, <2>2 DEF StoreTypeOK, BlockType, EntryType
<1>6. Phases'
  BY <1>1, <1>2, <1>3 DEF Phases
<1>7. Identity'
  <2>1. \A d \in Date : \A b \in DOMAIN segs'[d] : \A m \in DOMAIN segs'[d][b].recs :
          IdsIn(disk.players, segs'[d][b].recs[m])
    BY <1>1, <1>4 DEF Identity
  <2> QED
    BY <1>1, <1>2, <2>1 DEF Identity
<1>8. Durability'
  <2>1. db.bitmap = disk.bitmap
    BY <1>1 DEF Durability
  <2> QED
    BY <1>1, <1>2, <1>4, <2>1, DurabilityAfterFault
<1> QED
  BY <1>1, <1>2, <1>5, <1>6, <1>7, <1>8 DEF StoreInv

LEMMA CrashKeeps ==
  ASSUME StoreInv, Crash
  PROVE  StoreInv'
<1>1. /\ StoreTypeOK /\ Phases /\ Identity /\ Durability /\ Counted(db) /\ Counted(disk)
      /\ segs \in [Date -> Seq(BlockType)] /\ idxs \in [Date -> Seq(EntryType)]
      /\ None \notin Date /\ writer \in Date \cup {None}
  BY StoreAssumption DEF StoreInv, StoreTypeOK, BlockType, EntryType
<1>2. /\ db' = disk /\ UNCHANGED <<disk, today, errors, buried>> /\ crashes' = crashes + 1
      /\ next_player_id' = NextFree(disk.players) /\ seen' = disk.bitmap /\ dirty_bitmaps' = FALSE
      /\ writer' = None /\ pending' = <<>> /\ op' = "idle" /\ step' = "none" /\ rec' = None
  BY DEF Crash
<1>3. /\ segs' \in [Date -> Seq(BlockType)]
      /\ \A d \in Date : Keeps(Synced(d), segs'[d])
      /\ \A d \in Date : \A b \in DOMAIN segs'[d] :
           b \in DOMAIN segs[d] /\ segs'[d][b].recs = segs[d][b].recs
      /\ FlawsAtEnd /\ LastIsPending => \A d \in Date : FlawAtEnd(segs'[d])
      /\ idxs' \in [Date -> Seq(EntryType)]
      /\ \A d \in Date : \A k \in ReadableEntries(idxs'[d]) :
           k \in ReadableEntries(idxs[d]) /\ idxs'[d][k] = idxs[d][k]
  <2>1. CASE writer = None
    <3>1. segs' = segs /\ idxs' = idxs /\ \A d \in Date : Synced(d) = segs[d]
      BY <1>1, <2>1 DEF Crash, files, Synced
    <3> QED
      BY <1>1, <3>1 DEF Keeps, FlawsAtEnd
  <2>2. CASE writer # None
    <3>1. writer \in Date /\ FilesAfterFault
      BY <1>1, <2>2 DEF Crash
    <3> QED
      BY <3>1, FilesKept
  <2> QED
    BY <2>1, <2>2
<1>5. /\ NextFree(disk.players) \in Nat \ {0}
      /\ \A p \in DOMAIN disk.players : disk.players[p] < NextFree(disk.players)
  <2>1. \A p \in DOMAIN disk.players : disk.players[p] \in Nat \ {0}
    BY <1>1 DEF StoreTypeOK, Tables
  <2>2. next_player_id \in Nat
    BY <1>1 DEF StoreTypeOK
  <2>3. \A p \in DOMAIN disk.players : disk.players[p] < next_player_id
    BY <1>1 DEF Identity, Includes
  <2>4. \A p \in DOMAIN disk.players : disk.players[p] \in Nat \ {0} /\ disk.players[p] <= next_player_id
    BY <2>1, <2>2, <2>3
  <2> QED
    BY <2>2, <2>4, NextFreeIsAbove
<1>6. StoreTypeOK'
  <2>1. <<>> \in Seq(Record)
    BY EmptySeq
  <2>2. disk.bitmap \subseteq Game /\ crashes' \in Nat
    BY <1>1, <1>2 DEF StoreTypeOK, Tables
  <2>3. segs' \in [Date -> Seq(BlockType)] /\ idxs' \in [Date -> Seq(EntryType)]
    BY <1>3
  <2> QED
    BY <1>1, <1>2, <1>5, <2>1, <2>2, <2>3 DEF StoreTypeOK, BlockType, EntryType
<1>7. Phases'
  BY <1>2 DEF Phases
<1>8. Identity'
  <2>1. Includes(disk.players, disk.players) /\ Injective(disk.players)
    BY <1>1 DEF Identity, Includes, Injective
  <2>2. ASSUME NEW d \in Date, NEW b \in DOMAIN segs'[d], NEW m \in DOMAIN segs'[d][b].recs
        PROVE  IdsIn(disk.players, segs'[d][b].recs[m])
    BY <1>1, <1>3, <2>2 DEF Identity
  <2>3. DOMAIN pending' = {}
    BY <1>2
  <2> QED
    BY <1>2, <1>5, <2>1, <2>2, <2>3 DEF Identity
<1>12. Durability'
  BY <1>1, <1>2, <1>3, DurabilityAfterFault
<1> QED
  BY <1>1, <1>2, <1>6, <1>7, <1>8, <1>12 DEF StoreInv

-----------------------------------------------------------------------------
(* The theorems *)

LEMMA InitEstablishesStoreInv ==
  ASSUME StoreInit
  PROVE  StoreInv
<1> USE DEF StoreInit
<1>1. /\ DOMAIN NoTables = {"players", "progress", "cohort", "outsider", "bitmap"}
      /\ DOMAIN NoTables.players = {} /\ NoTables.progress = {} /\ NoTables.cohort = {}
      /\ DOMAIN NoTables.outsider = {} /\ NoTables.bitmap = {}
  BY DEF NoTables
<1>2. Tables(NoTables)
  BY <1>1 DEF Tables
<1>3. IsFiniteSet({})
  BY FS_EmptySet
<1>4. Counted(NoTables)
  BY <1>1, <1>3 DEF Counted
<1>5. \A d \in Date : DOMAIN segs[d] = {} /\ DOMAIN idxs[d] = {}
  OBVIOUS
<1>6. StoreTypeOK
  <2>1. 1 \in Date
    BY StoreAssumption DEF Date
  <2>2. pending \in Seq(Record) /\ segs \in [Date -> Seq(BlockType)]
    BY EmptySeq
  <2>3. idxs \in [Date -> Seq([game : Game, block : Nat \ {0}] \cup {Junk})]
    BY EmptySeq
  <2>4. next_player_id \in Nat \ {0} /\ crashes \in Nat /\ errors \in Nat
    OBVIOUS
  <2>5. /\ Tables(db) /\ Tables(disk) /\ seen \subseteq Game /\ dirty_bitmaps \in BOOLEAN
        /\ today \in Date /\ buried \in BOOLEAN
    BY <1>2, <2>1
  <2>6. writer = None /\ op = "idle" /\ step = "none" /\ rec = None
    OBVIOUS
  <2> HIDE DEF StoreInit
  <2> QED
    BY <2>2, <2>3, <2>4, <2>5, <2>6 DEF StoreTypeOK, BlockType
<1>7. Phases
  BY DEF Phases
<1>8. Identity
  BY <1>1, <1>5 DEF Identity, Includes, Injective
<1>9. Durability
  <2>1. FlawsAtEnd /\ LastIsPending /\ BitmapBacked /\ SeenBacked
    BY <1>1, <1>5 DEF FlawsAtEnd, FlawAtEnd, LastIsPending, BitmapBacked, SeenBacked
  <2>2. EntriesBacked
    BY <1>5 DEF EntriesBacked, ReadableEntries
  <2> QED
    BY <2>1, <2>2 DEF Durability
<1> QED
  BY <1>2, <1>4, <1>6, <1>7, <1>8, <1>9 DEF StoreInv

LEMMA NextKeepsStoreInv ==
  ASSUME StoreInv, [StoreNext]_svars
  PROVE  StoreInv'
<1>1. CASE UNCHANGED svars
  <2>1. /\ UNCHANGED <<db, disk, next_player_id, seen, dirty_bitmaps, writer, pending, segs, idxs>>
        /\ UNCHANGED <<op, step, rec, today, crashes, errors, buried>>
    BY <1>1 DEF svars, ram, files, bounds
  <2>2. StoreTypeOK' /\ Phases' /\ Identity'
    BY <2>1 DEF StoreInv, StoreTypeOK, Phases, Identity
  <2>3. Durability'
    BY <2>1, DurabilityKept DEF StoreInv, Durability
  <2> QED
    BY <2>1, <2>2, <2>3 DEF StoreInv
<1>2. CASE StoreNext
  <2>1. CASE Commit \/ Midnight \/ NodeAdd \/ Checkpoint \/ \E g \in Game : MarkSeen(g)
    BY <2>1, QuietKeeps
  <2>2. CASE \E g \in Game, paused \in BOOLEAN : StoreTxn(g, paused)
    BY <2>2, StoreTxnKeeps
  <2>3. CASE \E p \in League : Enroll(p)
    BY <2>3, EnrollKeeps
  <2>4. CASE \/ OpenWriter \/ OpenFails \/ AppendRecord \/ WriteBlock \/ WriteFails
             \/ SyncBlock \/ SyncIndex
    BY <2>4, OpenWriterKeeps, OpenFailsKeeps, AppendRecordKeeps, WriteBlockKeeps, WriteFailsKeeps,
       SyncBlockKeeps, SyncIndexKeeps
  <2>5. CASE CommitBitmap \/ Crash
    BY <2>5, CommitBitmapKeeps, CrashKeeps
  <2> QED
    BY <1>2, <2>1, <2>2, <2>3, <2>4, <2>5 DEF StoreNext
<1> QED
  BY <1>1, <1>2

\* Every state the store can reach, through any crashes and failed writes, satisfies
\* the inductive invariant.
THEOREM StoreInvariant == StoreSpec => []StoreInv
<1>1. StoreInit => StoreInv
  BY InitEstablishesStoreInv
<1>2. StoreInv /\ [StoreNext]_svars => StoreInv'
  BY NextKeepsStoreInv
<1> QED
  BY <1>1, <1>2, PTL DEF StoreSpec

\* Type correctness of the tables, the bitmap and the files.
THEOREM StoreTypeCorrect == StoreSpec => []StoreTypeOK
<1>1. StoreInv => StoreTypeOK
  BY DEF StoreInv
<1> QED
  BY <1>1, StoreInvariant, PTL

\* What is synced can be read.
LEMMA SyncedIsReadable ==
  ASSUME StoreInv, NEW d \in Date
  PROVE  Keeps(Synced(d), segs[d])
<1>1. CASE step = "sync" /\ d = writer
  <2>1. segs[d] \in Seq(BlockType) /\ segs[d] # <<>>
    BY <1>1 DEF StoreInv, StoreTypeOK, Phases, BlockType
  <2>2. Len(segs[d]) \in Nat \ {0}
    BY <2>1, EmptySeq
  <2>3. Len(segs[d]) - 1 \in 0 .. Len(segs[d])
    BY <2>2
  <2> QED
    BY <1>1, <2>1, <2>3, PrefixKeeps DEF Synced
<1>2. CASE ~(step = "sync" /\ d = writer)
  BY <1>2 DEF Synced, Keeps
<1> QED
  BY <1>1, <1>2

\* "Never leave a bitmap claiming unflushed bytes" (storage.rs): whenever the
\* process dies and whatever write fails, a game in the durable bitmap can be read
\* from a segment, as long as no block went behind one that is not intact.
THEOREM BitmapNeverLies == StoreSpec => []BitmapIsBackedUnlessBuried
<1>1. StoreInv => BitmapIsBackedUnlessBuried
  <2> SUFFICES ASSUME StoreInv, ~buried, NEW g \in disk.bitmap \ Skip
               PROVE  \E d \in Date : \E r \in ReadableRecords(segs[d]) : r.game = g
    BY DEF BitmapIsBackedUnlessBuried, BitmapIsBacked
  <2>1. Backed(g)
    BY DEF StoreInv, Durability, BitmapBacked
  <2>2. PICK d \in Date : \E k \in ReadableBlocks(Synced(d)) : InBlock(Synced(d), k, g)
    BY <2>1 DEF Backed
  <2> PICK k \in ReadableBlocks(Synced(d)) : InBlock(Synced(d), k, g)
    BY <2>2
  <2>3. Keeps(Synced(d), segs[d])
    BY SyncedIsReadable
  <2>4. k \in ReadableBlocks(segs[d]) /\ InBlock(segs[d], k, g)
    BY <2>3 DEF Keeps, InBlock
  <2>5. PICK m \in DOMAIN segs[d][k].recs : segs[d][k].recs[m].game = g
    BY <2>4 DEF InBlock
  <2>6. segs[d][k].recs[m] \in ReadableRecords(segs[d])
    BY <2>4, <2>5 DEF ReadableRecords
  <2> QED
    BY <2>5, <2>6
<1> QED
  BY <1>1, StoreInvariant, PTL

\* "Can never mis-map a player id" (docs/storage.md): the ids in a segment
\* are durable and are those of the players of the match, after any crash.
THEOREM SegmentsNeverMisMap == StoreSpec => []SegmentIdsAreDurable
<1>1. StoreInv => SegmentIdsAreDurable
  <2> SUFFICES ASSUME StoreInv
               PROVE  SegmentIdsAreDurable
    OBVIOUS
  <2>1. ASSUME NEW d \in Date, NEW r \in ReadableRecords(segs[d])
        PROVE  IdsIn(disk.players, r)
    <3>1. PICK k \in ReadableBlocks(segs[d]) : \E m \in DOMAIN segs[d][k].recs : r = segs[d][k].recs[m]
      BY DEF ReadableRecords
    <3>2. k \in DOMAIN segs[d]
      BY DEF ReadableBlocks
    <3> QED
      BY <3>1, <3>2 DEF StoreInv, Identity
  <2> QED
    BY <2>1 DEF SegmentIdsAreDurable, IdsIn, StoreInv, Identity, Injective
<1> QED
  BY <1>1, StoreInvariant, PTL

\* "Nothing is double-counted" (docs/storage.md): the sightings of an outsider are
\* the stored games that count and that it played, however often a crash made the
\* crawler store one again.
THEOREM SightingsAreExact == StoreSpec => []SightingsAreCountedOnce
<1>1. StoreInv => SightingsAreCountedOnce
  BY DEF StoreInv, Counted, Sightings, Played, SightingsAreCountedOnce
<1> QED
  BY <1>1, StoreInvariant, PTL

\* "Idx entries are written only after the seg block is fsynced" (storage.rs):
\* an index entry names a block that readers reach and that holds its game, after any
\* crash and any failed write of either file, as long as no block went behind one that
\* is not intact.
THEOREM IndexNeverDangles == StoreSpec => []IndexPointsToItsGame
<1>1. StoreInv => IndexPointsToItsGame
  <2> SUFFICES ASSUME StoreInv, ~buried, NEW d \in Date, NEW k \in ReadableEntries(idxs[d])
               PROVE  /\ idxs[d][k].block \in ReadableBlocks(segs[d])
                      /\ InBlock(segs[d], idxs[d][k].block, idxs[d][k].game)
    BY DEF IndexPointsToItsGame, InBlock
  <2>1. /\ idxs[d][k].block \in ReadableBlocks(Synced(d))
        /\ InBlock(Synced(d), idxs[d][k].block, idxs[d][k].game)
    BY DEF StoreInv, Durability, EntriesBacked
  <2>2. Keeps(Synced(d), segs[d])
    BY SyncedIsReadable
  <2> QED
    BY <2>1, <2>2 DEF Keeps, InBlock
<1> QED
  BY <1>1, StoreInvariant, PTL
=============================================================================
