-------------------------------- MODULE Store --------------------------------
(***************************************************************************)
(* The match store of one platform (crates/server/src/storage.rs): the     *)
(* redb tables behind it, the seen bitmap, the segment and index files,    *)
(* and what a crash at any moment leaves of them.                          *)
(*                                                                         *)
(* All callers share one mutex, so store_match and commit never overlap;   *)
(* but each is several disk operations, and the process may die between    *)
(* any two.  A fast redb transaction changes db only; a durable one copies *)
(* db to disk; a crash puts db back to disk.  A redb transaction that      *)
(* fails makes every later one fail, so it is a crash as well.  The caches *)
(* of players, cohort and outsider_seen are written through and are not    *)
(* distinguished from their tables.                                        *)
(***************************************************************************)
EXTENDS Integers, Sequences, FiniteSets

CONSTANTS
  Game,              \* game ids
  Puuid,             \* Riot's player ids
  League,            \* the players the league lists name
  PlayersOf,         \* PlayersOf[g]: the participants of g, in slot order
  Remake,            \* games shorter than REMAKE_MAX_DURATION_S
  Skip,              \* games that are 404, unparseable or of another queue
  ADOPTION_THRESHOLD,
  None,
  MaxDate,           \* bound: the days the model lives
  MaxFaults          \* bound: crashes and I/O errors

Date == 1 .. MaxDate

ASSUME StoreAssumption ==
  /\ PlayersOf \in [Game -> Seq(Puuid)]
  /\ \A g \in Game : \A j, k \in DOMAIN PlayersOf[g] :
       PlayersOf[g][j] = PlayersOf[g][k] => j = k
  /\ League \subseteq Puuid
  /\ Remake \subseteq Game
  /\ Skip \subseteq Game
  /\ ADOPTION_THRESHOLD \in Nat
  /\ MaxDate \in Nat \ {0}
  /\ None \notin Date
  /\ MaxFaults \in Nat

VARIABLES
  db,              \* the redb tables as the process sees them
  disk,            \* the redb tables as of the last durable commit
  next_player_id,
  seen,            \* the seen bitmap in memory
  dirty_bitmaps,
  writer,          \* date of the open segment writer, or None
  pending,         \* records appended and not yet flushed
  segs,            \* segs[d]: the blocks of d.seg
  idxs,            \* idxs[d]: the entries of d.idx
  op,              \* the call that holds the store: "idle", "store" or "commit"
  step,            \* and the disk operation it does next
  rec,             \* the record of the store_match under way
  today,
  crashes, errors, \* crashes and failed file operations so far
  buried           \* a block was written behind one that is not intact

ram == <<next_player_id, seen, dirty_bitmaps, writer, pending>>
files == <<segs, idxs>>
bounds == <<today, crashes, errors, buried>>
svars == <<db, disk, ram, files, op, step, rec, bounds>>

-----------------------------------------------------------------------------
(* State *)

\* T_PLAYERS, T_PROGRESS, T_COHORT, T_OUTSIDER and the bitmap in T_META.
Tables(t) ==
  /\ DOMAIN t = {"players", "progress", "cohort", "outsider", "bitmap"}
  /\ DOMAIN t.players \subseteq Puuid
  /\ \A p \in DOMAIN t.players : t.players[p] \in Nat \ {0}
  /\ t.progress \subseteq Game
  /\ t.cohort \subseteq Nat \ {0}
  /\ DOMAIN t.outsider \subseteq Nat \ {0}
  /\ \A i \in DOMAIN t.outsider : t.outsider[i] \in Nat
  /\ t.bitmap \subseteq Game

NoTables ==
  [players |-> [p \in {} |-> 0], progress |-> {}, cohort |-> {},
   outsider |-> [i \in {} |-> 0], bitmap |-> {}]

\* "torn" is shorter than its header says; "bad" has its length and not its crc.
Block(kind, recs) == [kind |-> kind, recs |-> recs]

\* What is left of an index entry that was written in part; entries behind it
\* are out of step.
Junk == [game |-> None, block |-> 0]

StoreInit ==
  /\ db = NoTables
  /\ disk = NoTables
  /\ next_player_id = 1
  /\ seen = {}
  /\ dirty_bitmaps = FALSE
  /\ writer = None
  /\ pending = <<>>
  /\ segs = [d \in Date |-> <<>>]
  /\ idxs = [d \in Date |-> <<>>]
  /\ op = "idle"
  /\ step = "none"
  /\ rec = None
  /\ today = 1
  /\ crashes = 0
  /\ errors = 0
  /\ buried = FALSE

-----------------------------------------------------------------------------
(* Segment files *)

\* The blocks a reader reaches: those before the first that is not intact.
ReadableBlocks(f) ==
  {k \in DOMAIN f : \A l \in 1 .. k : f[l].kind = "ok"}

\* The records read_segment_records returns.
ReadableRecords(f) == UNION {{f[k].recs[m] : m \in DOMAIN f[k].recs} : k \in ReadableBlocks(f)}

\* open_files: validate_segment walks the headers, and the file is cut where
\* they stop making sense.  A torn block at the end is cut off.  One with blocks
\* behind it may find in them the bytes it lacks: it then has the length its
\* header says and stays, since the crc is not looked at.
Validated(f) ==
  LET torn == {k \in DOMAIN f : f[k].kind = "torn"}
      t == CHOOSE k \in torn : \A l \in torn : k <= l
      before == SubSeq(f, 1, t - 1)
  IN  IF torn = {} THEN {f}
      ELSE {before} \cup
           IF t < Len(f) THEN {Append(before, Block("bad", f[t].recs))} ELSE {}

\* The index entries a reader can parse.
ReadableEntries(x) == {k \in DOMAIN x : \A l \in 1 .. k : x[l] # Junk}

-----------------------------------------------------------------------------
(* store_match *)

\* Where sequence ps holds p.
SlotOf(ps, p) == CHOOSE k \in DOMAIN ps : ps[k] = p

\* Faulty variant: ids start one too low.
WithIdsOffByOne(players, next, ps) ==
  [p \in DOMAIN players \cup {ps[k] : k \in DOMAIN ps} |->
     IF p \in DOMAIN players THEN players[p]
     ELSE next - 1 + Cardinality({k \in DOMAIN ps : ps[k] \notin DOMAIN players /\ k < SlotOf(ps, p)})]

\* Unknown puuids get ids next, next + 1, ... in the order of ps.
New(players, ps) == {k \in DOMAIN ps : ps[k] \notin DOMAIN players}
WithIds(players, next, ps) ==
  [p \in DOMAIN players \cup {ps[k] : k \in DOMAIN ps} |->
     IF p \in DOMAIN players THEN players[p]
     ELSE next + Cardinality({k \in New(players, ps) : k < SlotOf(ps, p)})]

\* Sightings of the players in ids: each outsider's count rises, and one that
\* reaches the threshold joins the cohort unless growth is paused.
Sighted(tables, ids, paused) ==
  LET out == ids \ tables.cohort
      Count(i) == 1 + IF i \in DOMAIN tables.outsider THEN tables.outsider[i] ELSE 0
      joins == {i \in out : ~paused /\ Count(i) >= ADOPTION_THRESHOLD}
  IN  [tables EXCEPT
         !.cohort = tables.cohort \cup joins,
         !.outsider = [i \in (DOMAIN tables.outsider \cup out) \ joins |->
                         IF i \in out THEN Count(i) ELSE tables.outsider[i]]]

\* Faulty variant: a match whose progress record exists is counted again.
MatchTablesUnguarded(g, paused) ==
  LET players == WithIds(db.players, next_player_id, PlayersOf[g])
      ids == {players[PlayersOf[g][k]] : k \in DOMAIN PlayersOf[g]}
  IN  Sighted([db EXCEPT !.players = players, !.progress = db.progress \cup {g}], ids, paused)

\* The transaction of store_match: ids for new players; progress and sightings
\* unless the match was stored before; no sightings for a remake.
MatchTables(g, paused) ==
  LET players == WithIds(db.players, next_player_id, PlayersOf[g])
      ids == {players[PlayersOf[g][k]] : k \in DOMAIN PlayersOf[g]}
      stored == [db EXCEPT !.players = players, !.progress = db.progress \cup {g}]
  IN  IF g \in db.progress \cup Remake THEN stored ELSE Sighted(stored, ids, paused)

\* A match is fetched only if it is not seen, and by one task at a time.
StoreTxn(g, paused) ==
  /\ op = "idle"
  /\ g \notin seen \cup Skip
  /\ op' = "store"
  /\ db' = MatchTables(g, paused)
  /\ next_player_id' = next_player_id + Cardinality(New(db.players, PlayersOf[g]))
  /\ rec' = [game |-> g,
             ids |-> [k \in DOMAIN PlayersOf[g] |-> db'.players[PlayersOf[g][k]]]]
  /\ step' = CASE writer = None -> "open"
               [] writer = today -> "append"
               [] OTHER -> "checkpoint"
  /\ UNCHANGED <<disk, seen, dirty_bitmaps, writer, pending, files, bounds>>

\* The writer switches to today's files, which are validated first.
OpenWriter ==
  /\ op = "store"
  /\ step = "open"
  /\ writer' = today
  /\ \E f \in Validated(segs[today]) : segs' = [segs EXCEPT ![today] = f]
  /\ step' = "append"
  /\ UNCHANGED <<db, disk, next_player_id, seen, dirty_bitmaps, pending, idxs, op, rec, bounds>>

\* A file cannot be opened or cut: the call returns the error, and the writer is
\* not switched.
OpenFails ==
  /\ op = "store"
  /\ step = "open"
  /\ crashes + errors < MaxFaults
  /\ errors' = errors + 1
  /\ \E f \in Validated(segs[today]) \cup {segs[today]} : segs' = [segs EXCEPT ![today] = f]
  /\ op' = "idle"
  /\ step' = "none"
  /\ rec' = None
  /\ UNCHANGED <<db, disk, ram, idxs, today, crashes, buried>>

AppendRecord ==
  /\ op = "store"
  /\ step = "append"
  /\ pending' = Append(pending, rec)
  /\ seen' = seen \cup {rec.game}
  /\ dirty_bitmaps' = TRUE
  /\ op' = "idle"
  /\ step' = "none"
  /\ rec' = None
  /\ UNCHANGED <<db, disk, next_player_id, writer, files, bounds>>

-----------------------------------------------------------------------------
(* commit, and the flush of a date roll *)

Commit ==
  /\ op = "idle"
  /\ op' = "commit"
  /\ step' = "checkpoint"
  /\ UNCHANGED <<db, disk, ram, files, rec, bounds>>

\* What a call does after its flush.
AfterFlush == IF op = "store" THEN "open" ELSE "bitmap"

\* Faulty variant: the segment is flushed before the tables are durable.
CheckpointSkipped ==
  /\ step = "checkpoint"
  /\ step' = IF pending = <<>> THEN AfterFlush ELSE "write"
  /\ UNCHANGED <<db, disk, ram, files, op, rec, bounds>>

\* Faulty variant: the bitmap is made durable with the tables.
CheckpointWithBitmap ==
  /\ step = "checkpoint"
  /\ disk' = [db EXCEPT !.bitmap = seen]
  /\ step' = IF pending = <<>> THEN AfterFlush ELSE "write"
  /\ UNCHANGED <<db, ram, files, op, rec, bounds>>

\* durable_checkpoint: every fast transaction so far becomes durable.
Checkpoint ==
  /\ step = "checkpoint"
  /\ disk' = db
  /\ step' = IF pending = <<>> THEN AfterFlush ELSE "write"
  /\ UNCHANGED <<db, ram, files, op, rec, bounds>>

\* Faulty variant: the index is written while the block is not.
WriteIndexFirst ==
  /\ step = "write"
  /\ idxs' = [idxs EXCEPT ![writer] =
                @ \o [k \in DOMAIN pending |->
                        [game |-> pending[k].game, block |-> Len(segs[writer]) + 1]]]
  /\ segs' = [segs EXCEPT ![writer] = Append(@, Block("ok", pending))]
  /\ step' = "sync"
  /\ UNCHANGED <<db, disk, ram, op, rec, bounds>>

Intact(f) == \A k \in DOMAIN f : f[k].kind = "ok"

WriteBlock ==
  /\ step = "write"
  /\ segs' = [segs EXCEPT ![writer] = Append(@, Block("ok", pending))]
  /\ buried' = (buried \/ ~Intact(segs[writer]))
  /\ step' = "sync"
  /\ UNCHANGED <<db, disk, ram, idxs, op, rec, today, crashes, errors>>

Entries == [k \in DOMAIN pending |-> [game |-> pending[k].game, block |-> Len(segs[writer])]]

\* The block is on disk; its index entries are written.
SyncBlock ==
  /\ step = "sync"
  /\ idxs' = [idxs EXCEPT ![writer] = @ \o Entries]
  /\ step' = "index"
  /\ UNCHANGED <<db, disk, ram, segs, op, rec, bounds>>

SyncIndex ==
  /\ step = "index"
  /\ pending' = <<>>
  /\ step' = AfterFlush
  /\ UNCHANGED <<db, disk, next_player_id, seen, dirty_bitmaps, writer, files, op, rec, bounds>>

\* What a crash or an error leaves of a segment whose last block is not synced yet:
\* the block may be whole, missing, short, or as long as it should be and not all
\* there.
SegAfterFault(f) ==
  IF step # "sync" THEN {f}
  ELSE LET g == SubSeq(f, 1, Len(f) - 1)
       IN  {f, g} \cup {Append(g, Block(kind, f[Len(f)].recs)) : kind \in {"torn", "bad"}}

\* And of an index whose last entries, one per pending record, are not.
IdxAfterFault(x) ==
  IF step # "index" THEN {x}
  ELSE LET n == Len(x) - Len(pending)
       IN  {SubSeq(x, 1, m) : m \in n .. Len(x)}
           \cup {Append(SubSeq(x, 1, m), Junk) : m \in n .. (Len(x) - 1)}

FilesAfterFault ==
  /\ \E f \in SegAfterFault(segs[writer]) : segs' = [segs EXCEPT ![writer] = f]
  /\ \E x \in IdxAfterFault(idxs[writer]) : idxs' = [idxs EXCEPT ![writer] = x]

\* write_all or sync_data of either file fails: what is in the files stays there, the
\* records stay pending, and the call returns the error.
WriteFails ==
  /\ step \in {"sync", "index"}
  /\ crashes + errors < MaxFaults
  /\ errors' = errors + 1
  /\ FilesAfterFault
  /\ op' = "idle"
  /\ step' = "none"
  /\ rec' = None
  /\ UNCHANGED <<db, disk, ram, today, crashes, buried>>

\* The bitmap goes to META in a durable transaction of its own, last.
CommitBitmap ==
  /\ step = "bitmap"
  /\ IF dirty_bitmaps
     THEN /\ db' = [db EXCEPT !.bitmap = seen]
          /\ disk' = db'
     ELSE UNCHANGED <<db, disk>>
  /\ dirty_bitmaps' = FALSE
  /\ op' = "idle"
  /\ step' = "none"
  /\ UNCHANGED <<next_player_id, seen, writer, pending, files, rec, bounds>>

-----------------------------------------------------------------------------
(* The other calls *)

\* mark_seen of a match that will never be stored.
MarkSeen(g) ==
  /\ op = "idle"
  /\ g \in Skip \ seen
  /\ seen' = seen \cup {g}
  /\ dirty_bitmaps' = TRUE
  /\ UNCHANGED <<db, disk, next_player_id, writer, pending, files, op, step, rec, bounds>>

\* enroll of the crawler, for one league entry: assign_player_ids and
\* cohort_add_batch, both fast.
Enroll(p) ==
  LET players == WithIds(db.players, next_player_id, <<p>>)
  IN  /\ op = "idle"
      /\ db' = [db EXCEPT
                  !.players = players,
                  !.cohort = db.cohort \cup {players[p]},
                  !.outsider = [i \in DOMAIN db.outsider \ {players[p]} |-> db.outsider[i]]]
      /\ next_player_id' = next_player_id + Cardinality(New(db.players, <<p>>))
      /\ UNCHANGED <<disk, seen, dirty_bitmaps, writer, pending, files, op, step, rec, bounds>>

\* node_add commits durably, and every earlier fast transaction with it.
NodeAdd ==
  /\ op = "idle"
  /\ disk' = db
  /\ UNCHANGED <<db, ram, files, op, step, rec, bounds>>

-----------------------------------------------------------------------------
(* The process and the clock *)

\* 1 + the largest id in the table.
NextFree(players) ==
  LET ids == {players[p] : p \in DOMAIN players}
  IN  IF ids = {} THEN 1 ELSE 1 + CHOOSE i \in ids : \A k \in ids : k <= i

\* The process dies and Store::open loads what is on disk.
Crash ==
  /\ crashes + errors < MaxFaults
  /\ crashes' = crashes + 1
  /\ db' = disk
  /\ next_player_id' = NextFree(disk.players)
  /\ seen' = disk.bitmap
  /\ dirty_bitmaps' = FALSE
  /\ writer' = None
  /\ pending' = <<>>
  /\ IF writer = None THEN UNCHANGED files ELSE FilesAfterFault
  /\ op' = "idle"
  /\ step' = "none"
  /\ rec' = None
  /\ UNCHANGED <<disk, today, errors, buried>>

Midnight ==
  /\ today + 1 \in Date
  /\ today' = today + 1
  /\ UNCHANGED <<db, disk, ram, files, op, step, rec, crashes, errors, buried>>

-----------------------------------------------------------------------------
StoreNext ==
  \/ \E g \in Game, paused \in BOOLEAN : StoreTxn(g, paused)
  \/ OpenWriter
  \/ OpenFails
  \/ AppendRecord
  \/ Commit
  \/ Checkpoint
  \/ WriteBlock
  \/ WriteFails
  \/ SyncBlock
  \/ SyncIndex
  \/ CommitBitmap
  \/ \E g \in Game : MarkSeen(g)
  \/ \E p \in League : Enroll(p)
  \/ NodeAdd
  \/ Crash
  \/ Midnight

StoreSpec == StoreInit /\ [][StoreNext]_svars

-----------------------------------------------------------------------------
(* Properties *)

Record == [game : Game, ids : Seq(Nat \ {0})]

\* Every variable has the shape of what it stands for.
StoreTypeOK ==
  /\ Tables(db) /\ Tables(disk)
  /\ next_player_id \in Nat \ {0}
  /\ seen \subseteq Game
  /\ dirty_bitmaps \in BOOLEAN
  /\ writer \in Date \cup {None}
  /\ pending \in Seq(Record)
  /\ segs \in [Date -> Seq([kind : {"ok", "torn", "bad"}, recs : Seq(Record)])]
  /\ idxs \in [Date -> Seq([game : Game, block : Nat \ {0}] \cup {Junk})]
  /\ op \in {"idle", "store", "commit"}
  /\ step \in {"none", "open", "append", "checkpoint", "write", "sync", "index", "bitmap"}
  /\ rec = None \/ rec \in Record
  /\ today \in Date
  /\ crashes \in Nat /\ errors \in Nat /\ buried \in BOOLEAN

\* "Never leave a bitmap claiming unflushed bytes": a game in the durable bitmap
\* can be read from a segment, whenever the process dies.
BitmapIsBacked ==
  \A g \in disk.bitmap \ Skip :
    \E d \in Date : \E r \in ReadableRecords(segs[d]) : r.game = g

\* It can, through crashes and failed writes anywhere, as long as no block went behind
\* one that is not intact.  There are two ways to that: a write that failed half way
\* is followed by the next flush (storage.rs:236), or a crash left a block with its
\* length and not its bytes, which validate_segment keeps (storage.rs:266).
BitmapIsBackedUnlessBuried == buried \/ BitmapIsBacked

\* "Can never mis-map a player id": the ids in a segment are durable, belong to
\* the players of the match, and no two players have the same.
SegmentIdsAreDurable ==
  /\ \A d \in Date : \A r \in ReadableRecords(segs[d]) : \A k \in DOMAIN r.ids :
       /\ PlayersOf[r.game][k] \in DOMAIN disk.players
       /\ disk.players[PlayersOf[r.game][k]] = r.ids[k]
  /\ \A p, q \in DOMAIN db.players : db.players[p] = db.players[q] => p = q

\* "Nothing is double-counted": an outsider's sightings are the stored games that
\* count and that it played, however often a crash made us store them.
SightingsAreCountedOnce ==
  \A p \in DOMAIN db.players :
    db.players[p] \notin db.cohort =>
      (IF db.players[p] \in DOMAIN db.outsider THEN db.outsider[db.players[p]] ELSE 0)
      = Cardinality({g \in db.progress \ Remake :
                       \E k \in DOMAIN PlayersOf[g] : PlayersOf[g][k] = p})

\* "Idx entries are written only after the seg block is fsynced": an entry that can
\* be parsed names a block that a reader reaches and that holds its game, through
\* crashes and failed writes of either file, as long as no block went behind one that
\* is not intact.
IndexPointsToItsGame ==
  ~buried => \A d \in Date : \A k \in ReadableEntries(idxs[d]) :
    LET e == idxs[d][k]
    IN  /\ e.block \in ReadableBlocks(segs[d])
        /\ \E m \in DOMAIN segs[d][e.block].recs : segs[d][e.block].recs[m].game = e.game
=============================================================================
