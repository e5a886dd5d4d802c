---------------------------- MODULE Recompaction ----------------------------
(***************************************************************************)
(* The segment files of one platform, the writer that appends to them and  *)
(* the hourly recompactor that rewrites closed days into columnar blocks   *)
(* (recompact_segment in crates/server/src/storage.rs, the cycle in        *)
(* main.rs).                                                               *)
(*                                                                         *)
(* The recompactor holds the store lock for one instant only, when it      *)
(* copies the dates the writers have open.  It reads, rewrites and renames *)
(* with the lock released, and the process may die between any two steps;  *)
(* a rename that is not yet synced may be undone by that.                  *)
(***************************************************************************)
EXTENDS Columnar, FiniteSets

CONSTANTS
  Game,                 \* game ids
  RecordOf,             \* RecordOf[g]: the match record of g
  RECORDS_PER_BLOCK,    \* COLUMNAR_RECOMPACT_RECORDS_PER_BLOCK
  MaxDate,              \* bound: the days the model lives
  MaxFaults             \* bound: faults of each kind

Date == 1 .. MaxDate

ASSUME RecompactionAssumption ==
  /\ RECORDS_PER_BLOCK \in Nat \ {0}
  /\ MaxDate \in Nat \ {0}
  /\ MaxFaults \in Nat

VARIABLES
  segs,      \* segs[d]: the blocks of d.seg, empty where there is no file
  idxs,      \* idxs[d]: the entries of d.idx
  writer,    \* the open SegmentWriter, or one with date 0
  today,
  fresh,     \* days whose .seg was modified less than an hour ago
  rc,        \* the recompactor
  stored,    \* <<d, g>> for every record flushed to day d, block and index
  straddled, \* a cycle copied the open dates before midnight and read the clock after
  buried,    \* days in whose segment a block was written behind a broken one
  faults     \* faults[k]: how often fault k has happened

disk == <<segs, idxs>>
rvars == <<disk, writer, today, fresh, rc, stored, straddled, buried, faults>>

-----------------------------------------------------------------------------
(* Segment and index files *)

\* state: "ok"; "torn", shorter than its header says; "bad", of the right length
\* and with a wrong crc.
Block(kind, state, recs) == [kind |-> kind, state |-> state, recs |-> recs]

\* Lengths in units of half a row record: a block has a header, and its records
\* take less room in columns.  Of a torn block the header is there.
Length(b) ==
  1 + IF b.state = "torn" THEN 0 ELSE Len(b.recs) * IF b.kind = "row" THEN 2 ELSE 1
Offset(f, k) ==
  LET off[j \in 1 .. Len(f) + 1] == IF j = 1 THEN 0 ELSE off[j - 1] + Length(f[j - 1])
  IN  off[k]

\* rec_off: a byte offset in a row block, an ordinal in a columnar one.
RecOff(b, m) == (m - 1) * IF b.kind = "row" THEN 2 ELSE 1

Entry(f, k, m) == [game |-> f[k].recs[m], block |-> Offset(f, k), rec |-> RecOff(f[k], m)]

\* An index file: its whole entries, and whether bytes of a part of one are among
\* them.  Then its length is no multiple of the entry length and it does not parse.
Index(entries, malformed) == [entries |-> entries, malformed |-> malformed]

\* The blocks in front of the first whose state is among states.
Before(f, states) ==
  LET broken == {k \in DOMAIN f : f[k].state \in states}
  IN  IF broken = {} THEN f ELSE SubSeq(f, 1, Min(broken) - 1)

\* read_segment_layout: the blocks up to the first that is not intact, ...
Intact(f) == Before(f, {"torn", "bad"})
\* ... their records, the index that belongs to them, and what else it reports.
Records(f) == FlattenSeq([k \in DOMAIN Intact(f) |-> f[k].recs])
IndexOf(f) ==
  Index(FlattenSeq([k \in DOMAIN Intact(f) |-> [m \in DOMAIN f[k].recs |-> Entry(f, k, m)]]), FALSE)
HasRowBlocks(f) == \E k \in DOMAIN Intact(f) : f[k].kind = "row"
HasTornTail(f) == Intact(f) # f

\* read_record_at: the game found where entry e points, none where that is an error.
Lookup(f, e) ==
  UNION {{f[k].recs[m] : m \in {i \in DOMAIN f[k].recs : RecOff(f[k], i) = e.rec}} :
           k \in {j \in DOMAIN f : f[j].state = "ok" /\ Offset(f, j) = e.block}}

\* open_files: the file is cut where the lengths stop making sense.  A torn block
\* with others behind it may find in them the bytes it lacks: it then stays, as a bad
\* one, since the crc is not looked at.
Validated(f) ==
  LET cut == Before(f, {"torn"})
      t == Len(cut) + 1
  IN  {cut} \cup
      IF t < Len(f) THEN {Append(cut, Block(f[t].kind, "bad", f[t].recs))} ELSE {}

-----------------------------------------------------------------------------
(* The writer *)

\* linked: the open .seg (.idx) is the file of that name; inode: the blocks of
\* the open .seg once it no longer is.
Writer(d) ==
  [date |-> d, pending |-> <<>>, seg_linked |-> TRUE, idx_linked |-> TRUE, inode |-> <<>>]
Closed == Writer(0)

\* flush of writer w, as far as it got: one row block in some state, then the first n
\* of the entries that point to it, and a part of the next.  What goes to a file that
\* has lost its name is lost with it.
Written(w, state, n, part) ==
  LET old == IF w.seg_linked THEN segs[w.date] ELSE w.inode
      new == Append(old, Block("row", state, w.pending))
      entries == [m \in 1 .. n |-> Entry(new, Len(new), m)]
  IN  [segs |-> IF w.seg_linked THEN [segs EXCEPT ![w.date] = new] ELSE segs,
       idxs |-> IF w.idx_linked
                  THEN [idxs EXCEPT ![w.date] = Index(@.entries \o entries, @.malformed \/ part)]
                  ELSE idxs,
       inode |-> IF w.seg_linked THEN <<>> ELSE new,
       fresh |-> IF w.seg_linked THEN {w.date} ELSE {},
       buried |-> IF w.seg_linked /\ HasTornTail(old) THEN {w.date} ELSE {}]

Flushed(w) == Written(w, "ok", Len(w.pending), FALSE)
FlushedRecords(w) == {<<w.date, w.pending[m]>> : m \in DOMAIN w.pending}

\* The process dies; a file operation of the writer or of the recompactor fails.
Fault == {"crash", "error"}
Happens(k) ==
  /\ faults[k] < MaxFaults
  /\ faults' = [faults EXCEPT ![k] = @ + 1]

NothingFlushed ==
  [segs |-> segs, idxs |-> idxs, inode |-> writer.inode, fresh |-> {}, buried |-> {}]

\* What is left of a flush that a crash or an error cuts short: nothing, a torn or a
\* bad block, the block without all of its index entries, or all of it, unsynced.
FlushRemains ==
  LET w == writer
  IN  {NothingFlushed} \cup
      IF w.pending = <<>> THEN {}
      ELSE {Written(w, state, 0, FALSE) : state \in {"torn", "bad"}}
           \cup {Written(w, "ok", n, FALSE) : n \in 0 .. Len(w.pending)}
           \cup {Written(w, "ok", n, TRUE) : n \in 0 .. Len(w.pending) - 1}

\* A segment modified after a cycle read the clock is not old to that cycle.
Touched(days) ==
  /\ fresh' = fresh \cup days
  /\ rc' = [rc EXCEPT !.todo = @ \ days]

\* store_match, from the date roll on: a writer of an earlier day is flushed and
\* today's files are opened, then the record is appended.
StoreMatch(g) ==
  LET rolls == writer # Closed /\ writer.date # today
      flushes == rolls /\ writer.pending # <<>>
      fl == IF flushes THEN Flushed(writer) ELSE NothingFlushed
      opens == writer.date # today
  IN  /\ g \notin {p[2] : p \in stored}
      /\ \A m \in DOMAIN writer.pending : writer.pending[m] # g
      /\ \E f \in IF opens THEN Validated(segs[today]) ELSE {segs[today]} :
           /\ segs' = [fl.segs EXCEPT ![today] = f]
           /\ Touched(fl.fresh \cup IF f # segs[today] THEN {today} ELSE {})
      /\ idxs' = fl.idxs
      /\ writer' = IF opens THEN [Writer(today) EXCEPT !.pending = <<g>>]
                   ELSE [writer EXCEPT !.pending = Append(@, g)]
      /\ stored' = stored \cup IF flushes THEN FlushedRecords(writer) ELSE {}
      /\ buried' = buried \cup fl.buried
      /\ UNCHANGED <<today, straddled, faults>>

\* commit: the pending records are flushed; the writer keeps its date.  A roll whose
\* files cannot be opened after the flush ends like this, too.
Commit ==
  LET fl == Flushed(writer)
  IN  /\ writer.pending # <<>>
      /\ segs' = fl.segs
      /\ idxs' = fl.idxs
      /\ writer' = [writer EXCEPT !.pending = <<>>, !.inode = fl.inode]
      /\ Touched(fl.fresh)
      /\ stored' = stored \cup FlushedRecords(writer)
      /\ buried' = buried \cup fl.buried
      /\ UNCHANGED <<today, straddled, faults>>

\* The flush of a commit or of a roll fails: the records stay pending, and what is in
\* the files stays there.
FlushFails ==
  /\ writer.pending # <<>>
  /\ Happens("error")
  /\ \E left \in FlushRemains :
       /\ segs' = left.segs
       /\ idxs' = left.idxs
       /\ writer' = [writer EXCEPT !.inode = left.inode]
       /\ Touched(left.fresh)
       /\ buried' = buried \cup left.buried
  /\ UNCHANGED <<today, stored, straddled>>

-----------------------------------------------------------------------------
(* The recompactor *)

\* pc: the step it does next; open: the dates it copied, on day copied; todo: the
\* days left to look at; date: the day it works on; recs: the records it read;
\* seg_was, idx_was: the files its renames replaced.
Idle ==
  [pc |-> "idle", open |-> {}, copied |-> 0, todo |-> {}, date |-> 0,
   recs |-> <<>>, seg_was |-> <<>>, idx_was |-> Index(<<>>, FALSE)]

\* The days left, and none under way.
Scan(todo) == [Idle EXCEPT !.pc = "scan", !.todo = todo]

\* open_writer_dates, under the store lock.
CopyOpenDates ==
  /\ rc.pc = "idle"
  /\ rc' = [rc EXCEPT !.pc = "clock", !.copied = today,
                      !.open = IF writer = Closed THEN {} ELSE {writer.date}]
  /\ UNCHANGED <<disk, writer, today, fresh, stored, straddled, buried, faults>>

\* Faulty variant: days that are over count as closed.
EligibleByDate(d) ==
  /\ d < today
  /\ d \notin fresh

\* Faulty variant: today counts as over.
EligibleToday(d) ==
  /\ d <= today
  /\ d \notin rc.open
  /\ d \notin fresh

\* A day that is over, held by no writer and an hour old.
Eligible(d) ==
  /\ d < today
  /\ d \notin rc.open
  /\ d \notin fresh

\* today and now, read once for the cycle.
ReadClock ==
  /\ rc.pc = "clock"
  /\ rc' = Scan({d \in Date : Eligible(d)})
  /\ straddled' = (straddled \/ rc.copied # today)
  /\ UNCHANGED <<disk, writer, today, fresh, stored, buried, faults>>

\* ensure_torn_tail_unindexed: an index that does not parse, or points at the
\* tail or behind it, forbids to drop the tail.
TailMayGo(d) ==
  /\ ~idxs[d].malformed
  /\ \A m \in DOMAIN idxs[d].entries :
       idxs[d].entries[m].block < Offset(segs[d], Len(Intact(segs[d])) + 1)

\* encode_block for every list of games a block can hold: the ones that survive it.
Transformable ==
  {s \in UNION {[1 .. n -> Game] : n \in 0 .. RECORDS_PER_BLOCK} :
     EncodeBlock([m \in DOMAIN s |-> RecordOf[s[m]]]) # {}}

\* The columnar blocks of records recs.
Columns(recs) ==
  [k \in 1 .. ((Len(recs) + RECORDS_PER_BLOCK - 1) \div RECORDS_PER_BLOCK) |->
     Block("col", "ok", SubSeq(recs, (k - 1) * RECORDS_PER_BLOCK + 1,
                               Min({k * RECORDS_PER_BLOCK, Len(recs)})))]

\* The segments are taken by date.
NextDate == Min(rc.todo)

EndCycle ==
  /\ rc.pc = "scan"
  /\ rc.todo = {}
  /\ rc' = Idle
  /\ UNCHANGED <<disk, writer, today, fresh, stored, straddled, buried, faults>>

\* The tail may not be dropped: an error, and the day is left as it is.
Refuse ==
  /\ rc.pc = "scan"
  /\ rc.todo # {}
  /\ HasTornTail(segs[NextDate])
  /\ ~TailMayGo(NextDate)
  /\ rc' = Scan(rc.todo \ {NextDate})
  /\ UNCHANGED <<disk, writer, today, fresh, stored, straddled, buried, faults>>

\* The segment is read.  If it has row blocks its records are written to the
\* temporary files and verified; else it only has its tail cut and its index
\* checked.  A block that does not survive the transform is an error.
ReadLayout ==
  LET f == segs[NextDate]
      work == [Scan(rc.todo \ {NextDate}) EXCEPT !.date = NextDate]
  IN  /\ rc.pc = "scan"
      /\ rc.todo # {}
      /\ HasTornTail(f) => TailMayGo(NextDate)
      /\ rc' = IF ~HasRowBlocks(f) THEN [work EXCEPT !.pc = "truncate"]
               ELSE IF \A k \in DOMAIN Columns(Records(f)) :
                         Columns(Records(f))[k].recs \in Transformable
                 THEN [work EXCEPT !.pc = "rename_seg", !.recs = Records(f)]
                 ELSE Scan(work.todo)
      /\ UNCHANGED <<disk, writer, today, fresh, stored, straddled, buried, faults>>

\* truncate_segment_tail of a compacted segment.
TruncateTail ==
  LET d == rc.date
  IN  /\ rc.pc = "truncate"
      /\ segs' = [segs EXCEPT ![d] = Intact(@)]
      /\ fresh' = IF HasTornTail(segs[d]) THEN fresh \cup {d} ELSE fresh
      /\ rc' = [rc EXCEPT !.pc = "check_idx"]
      /\ UNCHANGED <<idxs, writer, today, stored, straddled, buried, faults>>

\* The index file of day d gets a new inode.
Unlink(d, flag) == IF writer.date = d THEN [writer EXCEPT ![flag] = FALSE] ELSE writer

\* ensure_idx_consistent_or_rebuild: an index that differs is replaced.
RebuildIdx ==
  LET d == rc.date
  IN  /\ rc.pc = "check_idx"
      /\ IF idxs[d] = IndexOf(segs[d]) THEN UNCHANGED <<idxs, writer>>
         ELSE /\ idxs' = [idxs EXCEPT ![d] = IndexOf(segs[d])]
              /\ writer' = Unlink(d, "idx_linked")
      /\ rc' = Scan(rc.todo)
      /\ UNCHANGED <<segs, today, fresh, stored, straddled, buried, faults>>

\* Faulty variant: the index is renamed before the segment.
RenameIdxFirst ==
  LET d == rc.date
  IN  /\ rc.pc = "rename_seg"
      /\ idxs' = [idxs EXCEPT ![d] = IndexOf(Columns(rc.recs))]
      /\ rc' = [rc EXCEPT !.pc = "rename_idx", !.seg_was = segs[d]]
      /\ UNCHANGED <<segs, writer, today, fresh, stored, straddled, buried, faults>>

\* The temporary segment takes the place of the segment ...
RenameSeg ==
  LET d == rc.date
  IN  /\ rc.pc = "rename_seg"
      /\ segs' = [segs EXCEPT ![d] = Columns(rc.recs)]
      /\ fresh' = fresh \cup {d}
      /\ writer' = IF writer.date = d /\ writer.seg_linked
                     THEN [Unlink(d, "seg_linked") EXCEPT !.inode = segs[d]] ELSE writer
      /\ rc' = [rc EXCEPT !.pc = "rename_idx", !.seg_was = segs[d]]
      /\ UNCHANGED <<idxs, today, stored, straddled, buried, faults>>

\* ... and the temporary index that of the index.
RenameIdx ==
  LET d == rc.date
  IN  /\ rc.pc = "rename_idx"
      /\ idxs' = [idxs EXCEPT ![d] = IndexOf(Columns(rc.recs))]
      /\ writer' = Unlink(d, "idx_linked")
      /\ rc' = [rc EXCEPT !.pc = "sync", !.idx_was = idxs[d]]
      /\ UNCHANGED <<segs, today, fresh, stored, straddled, buried, faults>>

SyncDir ==
  /\ rc.pc = "sync"
  /\ rc' = Scan(rc.todo)
  /\ UNCHANGED <<disk, writer, today, fresh, stored, straddled, buried, faults>>

\* A file operation fails: the temporary files go, the day is left as it is.
IoError ==
  /\ Happens("error")
  /\ rc.pc \in {"truncate", "check_idx", "rename_seg", "rename_idx", "sync"}
  /\ rc' = Scan(rc.todo)
  /\ UNCHANGED <<disk, writer, today, fresh, stored, straddled, buried>>

-----------------------------------------------------------------------------
(* Crash, restart and time *)

\* Renames not yet synced may be undone, the last first (left out where a writer
\* may have gone on in the replaced file).
Undone(left) ==
  LET d == rc.date
      seg_back == [left EXCEPT !.segs[d] = rc.seg_was]
      idx_back == [left EXCEPT !.idxs[d] = rc.idx_was]
  IN  {left} \cup
      IF straddled THEN {}
      ELSE CASE rc.pc = "rename_idx" -> {seg_back}
             [] rc.pc = "sync" -> {idx_back, [idx_back EXCEPT !.segs[d] = rc.seg_was]}
             [] OTHER -> {}

\* The process dies and starts again, without a writer.
Crash ==
  /\ Happens("crash")
  /\ \E flush \in FlushRemains : \E left \in Undone(flush) :
       /\ segs' = left.segs
       /\ idxs' = left.idxs
       /\ fresh' = fresh \cup left.fresh
       /\ buried' = buried \cup left.buried
  /\ writer' = Closed
  /\ rc' = Idle
  /\ UNCHANGED <<today, stored, straddled>>

Midnight ==
  /\ today < MaxDate
  /\ today' = today + 1
  /\ UNCHANGED <<disk, writer, fresh, rc, stored, straddled, buried, faults>>

\* An hour passes in which no segment is modified.
QuietHour ==
  /\ fresh # {}
  /\ fresh' = {}
  /\ UNCHANGED <<disk, writer, today, rc, stored, straddled, buried, faults>>

-----------------------------------------------------------------------------
RecompactionInit ==
  /\ segs = [d \in Date |-> <<>>]
  /\ idxs = [d \in Date |-> Index(<<>>, FALSE)]
  /\ writer = Closed
  /\ today = 1
  /\ fresh = {}
  /\ rc = Idle
  /\ stored = {}
  /\ straddled = FALSE
  /\ buried = {}
  /\ faults = [k \in Fault |-> 0]

Recompact ==
  \/ CopyOpenDates \/ ReadClock \/ EndCycle \/ Refuse \/ ReadLayout
  \/ TruncateTail \/ RebuildIdx \/ RenameSeg \/ RenameIdx \/ SyncDir

RecompactionNext ==
  \/ \E g \in Game : StoreMatch(g)
  \/ Commit
  \/ FlushFails
  \/ Recompact
  \/ IoError
  \/ Crash
  \/ Midnight
  \/ QuietHour

\* The recompactor's loop never ends, and time passes.
RecompactionSpec ==
  /\ RecompactionInit
  /\ [][RecompactionNext]_rvars
  /\ WF_rvars(Recompact)
  /\ WF_rvars(QuietHour)
  /\ WF_rvars(Midnight)

-----------------------------------------------------------------------------
(* Properties *)

\* Files, writer and recompactor have their types; the writer works on no day to
\* come, the recompactor on days that are over.
RecompactionTypeOK ==
  /\ \A d \in Date : \A k \in DOMAIN segs[d] :
       /\ segs[d][k].kind \in {"row", "col"}
       /\ segs[d][k].state \in {"ok", "bad", "torn"}
       /\ segs[d][k].recs \in Seq(Game)
  /\ \A d \in Date : \A m \in DOMAIN idxs[d].entries : idxs[d].entries[m].game \in Game
  /\ writer.date \in 0 .. today
  /\ writer.pending \in Seq(Game)
  /\ today \in Date
  /\ fresh \subseteq Date
  /\ rc.pc \in {"idle", "clock", "scan", "truncate", "check_idx", "rename_seg", "rename_idx", "sync"}
  /\ rc.date \in 0 .. today - 1
  /\ stored \subseteq (1 .. today) \X Game

\* A record whose flush succeeded can be read from the segment of its day ever after,
\* through rewriting, truncation, errors and crashes: neither the rename nor the
\* dropped tail takes one away.  It is lost to readers in two ways.  A block went
\* behind a broken one, which a failed flush or a crash had left there, so that readers
\* do not reach it and the next open may cut it off (storage.rs:236, storage.rs:266).
\* Or a cycle copied the open dates just before midnight and read the clock just after
\* (main.rs:74-75), so that it renames a file the writer still appends to.
FlushedRecordsKept ==
  straddled \/ \A p \in stored : p[1] \in buried \/ p[2] \in Range(Records(segs[p[1]]))

\* An index that parses finds the game it names.  Only a segment that has just
\* been rewritten may have an index that misses or finds another game, because
\* segment and index are renamed one after the other; it is then free of row
\* blocks and of a torn tail, so the next cycle rebuilds the index.  The exception is
\* again a day with a block behind a broken one.
StaleIndexIsRepairable ==
  \A d \in Date \ buried :
    \/ idxs[d].malformed
    \/ \A m \in DOMAIN idxs[d].entries :
         Lookup(segs[d], idxs[d].entries[m]) = {idxs[d].entries[m].game}
    \/ ~HasRowBlocks(segs[d]) /\ ~HasTornTail(segs[d])

\* A segment that recompaction refuses for good: behind a block that broke in a
\* crash the writer went on, or an index entry broke before a block did.
Refused(d) == HasTornTail(segs[d]) /\ ~TailMayGo(d)

\* Every day that is over and released by the writer ends up, whatever crashes
\* and errors happened, in columnar blocks with the index that belongs to them,
\* unless its torn tail may not be dropped.
ClosedDaysGetCompacted ==
  <>[](\A d \in Date :
         \/ d >= today
         \/ d = writer.date
         \/ Refused(d)
         \/ ~HasRowBlocks(segs[d]) /\ ~HasTornTail(segs[d]) /\ idxs[d] = IndexOf(segs[d]))
=============================================================================
