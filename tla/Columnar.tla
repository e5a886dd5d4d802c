------------------------------ MODULE Columnar ------------------------------
(***************************************************************************)
(* The columnar block transform (crates/server/src/columnar.rs): a block of *)
(* match records is taken apart into one stream per field, and put together *)
(* again from the streams alone.                                            *)
(*                                                                          *)
(* A stream is a sequence of numbers; varints, zigzag and the protobuf      *)
(* framing, which carry one number each, are left out, and so is the zstd   *)
(* layer around the payload.  Of the fields that are coded alike one is     *)
(* kept: queue for the plain numbers, plat for the strings, gold for the    *)
(* four series of a frame, kills for the three lists of timed events.       *)
(* What remains is what makes the transform delicate: deltas that run       *)
(* through the block, through the frames of a game and through its events;  *)
(* lists whose lengths travel in a stream of their own; and runes and stats *)
(* that go to one stream per slot, so that a short list leaves no mark in   *)
(* the streams of the slots it lacks.                                       *)
(***************************************************************************)
EXTENDS Integers, Sequences, SequencesExt

\* FIXED_NAMES: the streams every block has.
FixedStream ==
  {"queue", "game_id_d", "plat_len", "plat", "start_d", "n_parts", "p_player",
   "p_runes_n", "p_stats_n", "tl_present", "n_frames", "f_minute", "f_gold_n",
   "f_gold", "n_kills", "k_t", "k_killer", "bans_n", "bans"}

LOCAL Map(Op(_), s) == [k \in DOMAIN s |-> Op(s[k])]
LOCAL Flat(Op(_), s) == FlattenSeq(Map(Op, s))
LOCAL UpTo(n) == [k \in 1 .. n |-> k]

\* Differences to the element before, the first one to 0.
Deltas(s) == [k \in DOMAIN s |-> s[k] - IF k = 1 THEN 0 ELSE s[k - 1]]

\* A frame's gold per slot against the frame before; a slot that frame lacks
\* counts as 0.
GoldDeltas(frames) ==
  [k \in DOMAIN frames |->
     [slot \in DOMAIN frames[k].gold |->
        frames[k].gold[slot] -
          IF k > 1 /\ slot \in DOMAIN frames[k - 1].gold THEN frames[k - 1].gold[slot] ELSE 0]]

\* encode_timeline, stream by stream, of the timelines tls of a block.
EncodeTimelines(tls) ==
  LET frames == Flat(LAMBDA t : t.frames, tls)
      kills == Flat(LAMBDA t : t.kills, tls)
  IN  [n_frames |-> Map(LAMBDA t : Len(t.frames), tls),
       f_minute |-> Map(LAMBDA f : f.minute, frames),
       f_gold_n |-> Map(LAMBDA f : Len(f.gold), frames),
       f_gold |-> Flat(LAMBDA t : FlattenSeq(GoldDeltas(t.frames)), tls),
       n_kills |-> Map(LAMBDA t : Len(t.kills), tls),
       k_t |-> Flat(LAMBDA t : Deltas(Map(LAMBDA x : x.t, t.kills)), tls),
       k_killer |-> Map(LAMBDA x : x.killer, kills)]


\* Faulty variant: lists that are too short leave a 0 in the streams they lack.
SlotsPadded(ls) ==
  LET width == Max({0} \cup {Len(ls[k]) : k \in DOMAIN ls})
  IN  [i \in 1 .. width |-> Map(LAMBDA l : IF i <= Len(l) THEN l[i] ELSE 0, ls)]

\* One stream per slot of the lists in ls: what the lists long enough hold there.
Slots(ls) ==
  LET width == Max({0} \cup {Len(ls[k]) : k \in DOMAIN ls})
  IN  [i \in 1 .. width |-> Flat(LAMBDA l : IF i <= Len(l) THEN <<l[i]>> ELSE <<>>, ls)]

\* encode_record of every record, and the manifest: a record of streams.
EncodeStreams(recs) ==
  LET parts == Flat(LAMBDA r : r.parts, recs)
      tls == Flat(LAMBDA r : r.timeline, recs)
      own == [queue |-> Map(LAMBDA r : r.queue, recs),
              game_id_d |-> Deltas(Map(LAMBDA r : r.game_id, recs)),
              plat_len |-> Map(LAMBDA r : Len(r.plat), recs),
              plat |-> Flat(LAMBDA r : r.plat, recs),
              start_d |-> Deltas(Map(LAMBDA r : r.start, recs)),
              n_parts |-> Map(LAMBDA r : Len(r.parts), recs),
              p_player |-> Map(LAMBDA p : p.player, parts),
              p_runes_n |-> Map(LAMBDA p : Len(p.runes), parts),
              p_stats_n |-> Map(LAMBDA p : Len(p.stats), parts),
              tl_present |-> Map(LAMBDA r : Len(r.timeline), recs),
              bans_n |-> Map(LAMBDA r : Len(r.bans), recs),
              bans |-> Flat(LAMBDA r : r.bans, recs)]
  IN  [records |-> Len(recs),
       fixed |-> own @@ EncodeTimelines(tls),
       stat |-> Slots(Map(LAMBDA p : p.stats, parts)),
       rune |-> Slots(Map(LAMBDA p : p.runes, parts))]

-----------------------------------------------------------------------------
(* Decoding: every read takes the first element of a stream.  A reader yields *)
(* the value v and the streams c that are left.                               *)

Value(v, c) == [v |-> v, c |-> c]

Read(c, name) ==
  Value(Head(c.fixed[name]), [c EXCEPT !.fixed[name] = Tail(@)])

\* n reads in a row, the values in order.
LOCAL Many(Reader(_), n, c) ==
  FoldLeft(LAMBDA acc, k : LET x == Reader(acc.c) IN Value(Append(acc.v, x.v), x.c),
           Value(<<>>, c), UpTo(n))

\* A list whose length is in stream count.
LOCAL List(Reader(_), count, c) ==
  LET n == Read(c, count) IN Many(Reader, n.v, n.c)

\* A list with one stream per slot, its length in stream count.
ListBySlot(kind, count, c) ==
  LET n == Read(c, count)
  IN  Value([i \in 1 .. n.v |-> Head(n.c[kind][i])],
            [n.c EXCEPT ![kind] = [i \in DOMAIN @ |-> IF i <= n.v THEN Tail(@[i]) ELSE @[i]]])

\* Deltas back to values.
Sums(ds) == FoldLeft(LAMBDA acc, d : Append(acc, d + IF acc = <<>> THEN 0 ELSE Last(acc)), <<>>, ds)

ReadParticipant(c) ==
  LET player == Read(c, "p_player")
      runes == ListBySlot("rune", "p_runes_n", player.c)
      stats == ListBySlot("stat", "p_stats_n", runes.c)
  IN  Value([player |-> player.v, runes |-> runes.v, stats |-> stats.v], stats.c)

\* A frame with its gold still as deltas, and the frames with it as values.
ReadFrame(c) ==
  LET minute == Read(c, "f_minute")
      gold == List(LAMBDA d : Read(d, "f_gold"), "f_gold_n", minute.c)
  IN  Value([minute |-> minute.v, gold |-> gold.v], gold.c)
WithGold(frames) ==
  FoldLeft(LAMBDA acc, f :
             Append(acc, [f EXCEPT !.gold =
               [slot \in DOMAIN @ |->
                  @[slot] + IF acc # <<>> /\ slot \in DOMAIN Last(acc).gold
                              THEN Last(acc).gold[slot] ELSE 0]]),
           <<>>, frames)

ReadKill(c) ==
  LET t == Read(c, "k_t")
      killer == Read(t.c, "k_killer")
  IN  Value([t |-> t.v, killer |-> killer.v], killer.c)
WithTimes(kills) ==
  LET times == Sums(Map(LAMBDA x : x.t, kills))
  IN  [k \in DOMAIN kills |-> [kills[k] EXCEPT !.t = times[k]]]

\* decode_timeline
ReadTimeline(c) ==
  LET frames == List(ReadFrame, "n_frames", c)
      kills == List(ReadKill, "n_kills", frames.c)
  IN  Value([frames |-> WithGold(frames.v), kills |-> WithTimes(kills.v)], kills.c)

\* decode_record, with game id and start still as deltas.
ReadRecord(c) ==
  LET queue == Read(c, "queue")
      gid == Read(queue.c, "game_id_d")
      plat == List(LAMBDA d : Read(d, "plat"), "plat_len", gid.c)
      start == Read(plat.c, "start_d")
      parts == List(ReadParticipant, "n_parts", start.c)
      tl == List(ReadTimeline, "tl_present", parts.c)
      bans == List(LAMBDA d : Read(d, "bans"), "bans_n", tl.c)
  IN  Value([queue |-> queue.v, game_id |-> gid.v, plat |-> plat.v, start |-> start.v,
             parts |-> parts.v, timeline |-> tl.v, bans |-> bans.v], bans.c)

\* ensure_done: nothing may be left in any stream.
Consumed(c) ==
  /\ \A name \in FixedStream : c.fixed[name] = <<>>
  /\ \A i \in DOMAIN c.stat : c.stat[i] = <<>>
  /\ \A i \in DOMAIN c.rune : c.rune[i] = <<>>

\* decode_block: the records, or the empty set where it is an error.
DecodeBlock(payload) ==
  LET read == Many(ReadRecord, payload.records, payload)
      gids == Sums(Map(LAMBDA r : r.game_id, read.v))
      starts == Sums(Map(LAMBDA r : r.start, read.v))
  IN  IF Consumed(read.c)
        THEN {[k \in DOMAIN read.v |->
                 [read.v[k] EXCEPT !.game_id = gids[k], !.start = starts[k]]]}
        ELSE {}

\* encode_block: the payload, or the empty set if it does not decode to its input.
EncodeBlock(recs) ==
  LET payload == EncodeStreams(recs)
  IN  IF DecodeBlock(payload) = {recs} THEN {payload} ELSE {}
=============================================================================
