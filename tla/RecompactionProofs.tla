------------------------- MODULE RecompactionProofs -------------------------
(***************************************************************************)
(* Proofs about Recompaction, for any games and records, any block size    *)
(* and any number of days, crashes and I/O errors.                         *)
(*                                                                         *)
(* RecompactionInv is the inductive invariant.  Two arguments meet in it.  *)
(* As long as no cycle straddled midnight, the recompactor and the writer  *)
(* are on different days, so that what the recompactor read is still what  *)
(* it replaces.  And a flush that fails or a crash leaves one broken block *)
(* at the end of a file, where opening it or dropping its tail takes no    *)
(* record away and no block the index names; only a block written behind   *)
(* it (the day is then buried) puts an end to that.                        *)
(***************************************************************************)
EXTENDS Recompaction, FiniteSetTheorems, SequenceTheorems, WellFoundedInduction, TLAPS

RecompactionSafety == RecompactionInit /\ [][RecompactionNext]_rvars

Blocks == [kind : {"row", "col"}, state : {"ok", "bad", "torn"}, recs : Seq(Game)]
Entries == [game : Game, block : Nat, rec : Nat]
Indexes == [entries : Seq(Entries), malformed : BOOLEAN]

Files ==
  /\ segs \in [Date -> Seq(Blocks)]
  /\ idxs \in [Date -> Indexes]

\* Writers and recompactors on day t.
Writers(t) ==
  [date : 0 .. t, pending : Seq(Game), seg_linked : BOOLEAN, idx_linked : BOOLEAN,
   inode : Seq(Blocks)]
Recompactors(t) ==
  [pc : {"idle", "clock", "scan", "truncate", "check_idx", "rename_seg", "rename_idx", "sync"},
   open : SUBSET Date, copied : 0 .. t, todo : SUBSET (1 .. t - 1), date : 0 .. t - 1,
   recs : Seq(Game), seg_was : Seq(Blocks), idx_was : Indexes]

Types ==
  /\ Files
  /\ writer \in Writers(today)
  /\ rc \in Recompactors(today)
  /\ today \in Date
  /\ fresh \subseteq Date
  /\ stored \subseteq (1 .. today) \X Game
  /\ straddled \in BOOLEAN
  /\ buried \subseteq Date
  /\ faults \in [Fault -> Nat]

Working == {"truncate", "check_idx", "rename_seg", "rename_idx", "sync"}

\* A writer without a day is no writer, one of today has its files; the recompactor
\* works on a day.
Shapes ==
  /\ writer.date = 0 => writer = Closed
  /\ writer.date = today => writer.seg_linked /\ writer.idx_linked
  /\ rc.pc \in Working => rc.date # 0

\* Recompactor and writer are on different days.
Apart ==
  /\ rc.pc = "clock" => writer.date \in rc.open \cup {0} \/ writer.date >= rc.copied
  /\ ~straddled =>
       /\ writer.seg_linked /\ writer.idx_linked
       /\ rc.pc \notin {"idle", "clock"} => writer.date \notin rc.todo
       /\ rc.pc \in Working => writer.date # rc.date

\* Only the last block of a file is broken, if any: nothing is behind it.
BrokenLast(f) == \A k \in DOMAIN f : f[k].state = "ok" \/ k = Len(f)
Broken ==
  /\ \A d \in Date : d \notin buried => BrokenLast(segs[d])
  /\ rc.pc \in {"rename_idx", "sync"} /\ rc.date \notin buried => BrokenLast(rc.seg_was)

\* Game g is in one of the intact blocks of f up to the n-th.
Among(f, n, g) ==
  \E k \in 1 .. n : f[k].state = "ok" /\ \E m \in DOMAIN f[k].recs : f[k].recs[m] = g

\* How many leading blocks of f are intact, and what readers find in them.
Sound(f) == Len(Intact(f))
Found(f, g) == Among(f, Sound(f), g)

Kept == ~straddled => \A p \in stored : p[1] \in buried \/ Found(segs[p[1]], p[2])

\* What the recompactor is about to write has the records of its day, and so has what
\* it has replaced.
WorkKept ==
  ~straddled /\ rc.pc \in Working /\ rc.date \notin buried =>
    \A p \in stored : p[1] = rc.date =>
      /\ rc.pc = "rename_seg" => \E j \in DOMAIN rc.recs : rc.recs[j] = p[2]
      /\ rc.pc \in {"rename_idx", "sync"} => Found(rc.seg_was, p[2])

\* Entry e names a record of an intact block of f by its place.
Right(f, e) ==
  \E k \in DOMAIN f : \E m \in DOMAIN f[k].recs :
    f[k].state = "ok" /\ e = Entry(f, k, m)
RightIndex(f, i) == i.malformed \/ \A m \in DOMAIN i.entries : Right(f, i.entries[m])
Compacted(f) == ~HasRowBlocks(f) /\ ~HasTornTail(f)
Repairable(f, i) == RightIndex(f, i) \/ Compacted(f)

\* The index of a file that may still grow is right.
Indexed ==
  /\ \A d \in Date : d \notin buried => Repairable(segs[d], idxs[d])
  /\ \A d \in Date : d \notin buried /\ d >= today => RightIndex(segs[d], idxs[d])
  /\ \A d \in Date : d \notin buried /\ writer.date = d /\ writer.seg_linked /\ writer.pending # <<>> =>
       RightIndex(segs[d], idxs[d])
  /\ \A d \in Date : writer.date = d /\ ~writer.seg_linked => Compacted(segs[d])

\* The recompactor between two steps of its work.
Midway ==
  /\ rc.pc = "rename_idx" =>
       /\ segs[rc.date] = Columns(rc.recs)
       /\ ~straddled /\ rc.date \notin buried => Repairable(rc.seg_was, idxs[rc.date])
  /\ rc.pc = "sync" /\ ~straddled =>
       /\ Compacted(segs[rc.date])
       /\ rc.date \notin buried => Repairable(rc.seg_was, rc.idx_was)
  /\ rc.pc \in {"rename_idx", "sync"} /\ writer.date = rc.date => ~writer.seg_linked

RecompactionInv ==
  Types /\ Shapes /\ Apart /\ Broken /\ Kept /\ WorkKept /\ Indexed /\ Midway

-----------------------------------------------------------------------------
(* Recursion: what a definition by recursion over positions computes *)

\* A set of numbers has a smallest.
LEMMA SetHasFirst ==
  ASSUME NEW S \in SUBSET Nat, S # {}
  PROVE  \E k \in S : \A l \in S : k <= l
<1>1. PICK x \in S : \A y \in S : ~(<<y, x>> \in OpToRel(<, Nat))
  BY NatLessThanWellFounded, WFMin
<1>2. \A y \in S : ~(y < x)
  BY <1>1 DEF OpToRel
<1> QED
  BY <1>2

\* A set of numbers that has 0, and with n its successor, has all.
LEMMA Climb ==
  ASSUME NEW T \in SUBSET Nat, 0 \in T, \A n \in T : n + 1 \in T
  PROVE  T = Nat
<1> SUFFICES ASSUME Nat \ T # {} PROVE FALSE
  OBVIOUS
<1>1. PICK n \in Nat \ T : \A m \in Nat \ T : n <= m
  BY SetHasFirst
<1>2. n # 0 /\ n - 1 \in Nat /\ ~ (n <= n - 1)
  OBVIOUS
<1>3. n - 1 \in T
  BY <1>1, <1>2
<1>4. (n - 1) + 1 \in T /\ (n - 1) + 1 = n
  BY <1>3
<1> QED
  BY <1>4

Runs(S, x0, step, n) ==
  {g \in [0 .. n -> S] : g[0] = x0 /\ \A i \in 0 .. n - 1 : g[i + 1] = step[<<i, g[i]>>]}

Iterates(S, x0, step, f) ==
  f \in [Nat -> S] /\ f[0] = x0 /\ \A n \in Nat : f[n + 1] = step[<<n, f[n]>>]

\* From a first value and a step a function on the numbers.
LEMMA Iterate ==
  ASSUME NEW S, NEW x0 \in S, NEW step \in [Nat \X S -> S]
  PROVE  \E f : Iterates(S, x0, step, f)
<1> DEFINE R(n) == Runs(S, x0, step, n)
           T == {n \in Nat : R(n) # {}}
           U == {i \in Nat : \A n, m \in Nat : n >= i /\ m >= i =>
                               \A g \in R(n), h \in R(m) : g[i] = h[i]}
<1>1. T = Nat
  <2>1. 0 \in T
    <3>1. [i \in 0 .. 0 |-> x0] \in R(0)
      BY DEF Runs
    <3> QED BY <3>1
  <2>2. ASSUME NEW n \in T PROVE n + 1 \in T
    <3>1. PICK g \in R(n) : TRUE
      BY <2>2
    <3> DEFINE y == step[<<n, g[n]>>]
               h == [i \in 0 .. n + 1 |-> IF i = n + 1 THEN y ELSE g[i]]
    <3>2. g \in [0 .. n -> S] /\ g[0] = x0 /\ \A i \in 0 .. n - 1 : g[i + 1] = step[<<i, g[i]>>]
      BY <3>1 DEF Runs
    <3>3. g[n] \in S /\ y \in S
      BY <3>2
    <3>4. h \in [0 .. n + 1 -> S] /\ h[0] = x0
      BY <3>2, <3>3
    <3>5. ASSUME NEW i \in 0 .. (n + 1) - 1 PROVE h[i + 1] = step[<<i, h[i]>>]
      <4>1. i \in 0 .. n /\ h[i] = g[i]
        OBVIOUS
      <4>2. CASE i = n
        <5>1. h[i + 1] = y /\ y = step[<<i, g[i]>>]
          BY <4>2
        <5> QED BY <5>1, <4>1
      <4>3. CASE i # n
        BY <4>1, <4>3, <3>2
      <4> QED BY <4>2, <4>3
    <3>6. h \in R(n + 1)
      BY <3>4, <3>5 DEF Runs
    <3> QED BY <3>6
  <2> HIDE DEF T
  <2>3. T \in SUBSET Nat
    BY DEF T
  <2> QED BY <2>1, <2>2, <2>3, Climb
<1>2. U = Nat
  <2>1. 0 \in U
    BY DEF Runs
  <2>2. ASSUME NEW i \in U PROVE i + 1 \in U
    <3> SUFFICES ASSUME NEW n \in Nat, NEW m \in Nat, n >= i + 1, m >= i + 1,
                        NEW g \in R(n), NEW h \in R(m)
                 PROVE  g[i + 1] = h[i + 1]
      OBVIOUS
    <3>1. i \in Nat /\ n >= i /\ m >= i
      OBVIOUS
    <3>2. g[i] = h[i]
      BY <3>1
    <3>3. g[i + 1] = step[<<i, g[i]>>] /\ h[i + 1] = step[<<i, h[i]>>]
      BY <3>1 DEF Runs
    <3> QED BY <3>2, <3>3
  <2> HIDE DEF U
  <2>3. U \in SUBSET Nat
    BY DEF U
  <2> QED BY <2>1, <2>2, <2>3, Climb
<1> DEFINE run(n) == CHOOSE g \in R(n) : TRUE
           f == [n \in Nat |-> run(n)[n]]
<1>3. ASSUME NEW n \in Nat PROVE run(n) \in R(n)
  BY <1>1
<1> HIDE DEF run
<1>4. f \in [Nat -> S]
  <2>1. ASSUME NEW n \in Nat PROVE run(n)[n] \in S
    BY <1>3 DEF Runs
  <2> QED BY <2>1
<1>5. f[0] = x0
  BY <1>3 DEF Runs
<1>6. ASSUME NEW n \in Nat PROVE f[n + 1] = step[<<n, f[n]>>]
  <2>1. run(n + 1) \in R(n + 1) /\ run(n) \in R(n)
    BY <1>3
  <2>2. run(n + 1)[n + 1] = step[<<n, run(n + 1)[n]>>]
    BY <2>1 DEF Runs
  <2>3. n \in U
    BY <1>2
  <2>4. run(n + 1)[n] = run(n)[n]
    BY <2>1, <2>3
  <2> QED BY <2>2, <2>4
<1>7. Iterates(S, x0, step, f)
  BY <1>4, <1>5, <1>6 DEF Iterates
<1> QED BY <1>7

-----------------------------------------------------------------------------
(* Offsets *)

LEMMA LengthIsNat ==
  ASSUME NEW b \in Blocks
  PROVE  Length(b) \in Nat /\ Length(b) >= 1
<1> DEFINE l == Len(b.recs)
<1>1. l \in Nat
  BY DEF Blocks
<1>2. Length(b) = 1 + 0 \/ Length(b) = 1 + l * 2 \/ Length(b) = 1 + l * 1
  BY DEF Length
<1> HIDE DEF l
<1> QED
  BY <1>1, <1>2

\* The recursion that defines Offset.
LEMMA OffsetSteps ==
  ASSUME NEW f \in Seq(Blocks)
  PROVE  /\ \A k \in 1 .. Len(f) + 1 : Offset(f, k) \in Nat
         /\ Offset(f, 1) = 0
         /\ \A k \in 1 .. Len(f) : Offset(f, k + 1) = Offset(f, k) + Length(f[k])
<1> DEFINE n == Len(f)
           OK(g) == g = [j \in 1 .. n + 1 |-> IF j = 1 THEN 0 ELSE g[j - 1] + Length(f[j - 1])]
           off == CHOOSE g : OK(g)
           more == [p \in Nat \X Nat |-> p[2] + IF p[1] + 1 \in 1 .. n THEN Length(f[p[1] + 1]) ELSE 0]
<1>1. n \in Nat /\ \A k \in 1 .. n : f[k] \in Blocks /\ Length(f[k]) \in Nat
  BY LengthIsNat
<1> HIDE DEF n
<1>2. more \in [Nat \X Nat -> Nat]
  BY <1>1
<1>3. PICK F \in [Nat -> Nat] : F[0] = 0 /\ \A i \in Nat : F[i + 1] = more[<<i, F[i]>>]
  <2> HIDE DEF more
  <2>1. \E F : Iterates(Nat, 0, more, F)
    BY <1>2, Iterate
  <2> QED BY <2>1 DEF Iterates
<1>4. \A i \in Nat : i + 1 \in 1 .. n => F[i + 1] = F[i] + Length(f[i + 1])
  BY <1>1, <1>3
<1> DEFINE w == [j \in 1 .. n + 1 |-> F[j - 1]]
<1>5. OK(w)
  <2>1. ASSUME NEW j \in 1 .. n + 1 PROVE w[j] = IF j = 1 THEN 0 ELSE w[j - 1] + Length(f[j - 1])
    <3>1. CASE j = 1
      BY <3>1, <1>3, <1>1
    <3>2. CASE j # 1
      <4>1. j - 2 \in Nat /\ (j - 2) + 1 = j - 1 /\ j - 1 \in 1 .. n /\ j - 1 \in 1 .. n + 1
        BY <3>2, <1>1
      <4>2. F[j - 1] = F[j - 2] + Length(f[j - 1])
        BY <4>1, <1>4
      <4>3. w[j] = F[j - 1] /\ w[j - 1] = F[j - 2]
        BY <4>1
      <4> QED BY <3>2, <4>2, <4>3
    <3> QED BY <3>1, <3>2
  <2> QED BY <2>1
<1> HIDE DEF w
<1>6. OK(off)
  <2> HIDE DEF OK
  <2> QED BY <1>5
<1>7. \A k : Offset(f, k) = off[k]
  BY DEF Offset, n
<1> HIDE DEF off
<1>8. off[1] = 0 /\ \A k \in 1 .. n : off[k + 1] = off[k] + Length(f[k])
  <2>1. off = [j \in 1 .. n + 1 |-> IF j = 1 THEN 0 ELSE off[j - 1] + Length(f[j - 1])]
    BY <1>6
  <2> HIDE DEF OK
  <2>2. off[1] = 0
    BY <2>1, <1>1
  <2>3. ASSUME NEW k \in 1 .. n PROVE off[k + 1] = off[k] + Length(f[k])
    <3>1. k + 1 \in 1 .. n + 1 /\ k + 1 # 1 /\ (k + 1) - 1 = k
      BY <1>1
    <3> QED BY <2>1, <3>1
  <2> QED BY <2>2, <2>3
<1>9. \A k \in 1 .. n + 1 : off[k] \in Nat
  <2> DEFINE T == {i \in Nat : i + 1 \in 1 .. n + 1 => off[i + 1] \in Nat}
  <2>1. 0 \in T
    BY <1>8
  <2>2. ASSUME NEW i \in T PROVE i + 1 \in T
    <3>1. CASE i + 1 \in 1 .. n
      <4>1. off[i + 1] \in Nat /\ Length(f[i + 1]) \in Nat
        BY <3>1, <1>1
      <4>2. off[(i + 1) + 1] = off[i + 1] + Length(f[i + 1])
        BY <3>1, <1>8
      <4> DEFINE a == off[i + 1]
                 b == Length(f[i + 1])
      <4> HIDE DEF a, b, T
      <4>3. off[(i + 1) + 1] \in Nat
        <5>1. a \in Nat /\ b \in Nat /\ off[(i + 1) + 1] = a + b
          BY <4>1, <4>2 DEF a, b
        <5> QED BY ONLY <5>1
      <4> USE DEF T
      <4> QED BY <4>3
    <3>2. CASE i + 1 \notin 1 .. n
      BY <3>2, <1>1
    <3> QED BY <3>1, <3>2
  <2>3. T = Nat
    <3>1. T \in SUBSET Nat
      OBVIOUS
    <3> HIDE DEF T
    <3> QED BY <3>1, <2>1, <2>2, Climb
  <2>4. ASSUME NEW k \in 1 .. n + 1 PROVE off[k] \in Nat
    <3>1. k - 1 \in Nat /\ (k - 1) + 1 = k
      BY <1>1
    <3>2. k - 1 \in T
      BY <2>3, <3>1
    <3> QED BY <3>1, <3>2
  <2> QED BY <2>4
<1> QED
  BY <1>7, <1>8, <1>9 DEF n

\* Later blocks are further behind, so that an offset names one block.
LEMMA OffsetGrows ==
  ASSUME NEW f \in Seq(Blocks), NEW j \in 1 .. Len(f) + 1, NEW k \in 1 .. Len(f) + 1, j < k
  PROVE  Offset(f, j) < Offset(f, k)
<1> DEFINE n == Len(f)
           T == {i \in Nat : j + i + 1 \in 1 .. n + 1 => Offset(f, j) < Offset(f, j + i + 1)}
<1>1. n \in Nat /\ \A i \in 1 .. n : f[i] \in Blocks
  OBVIOUS
<1>2. /\ \A i \in 1 .. n + 1 : Offset(f, i) \in Nat
      /\ \A i \in 1 .. n : Offset(f, i + 1) = Offset(f, i) + Length(f[i])
  BY OffsetSteps
<1>3. j \in 1 .. n + 1 /\ k \in 1 .. n + 1
  OBVIOUS
<1> HIDE DEF n
<1>4. \A i \in 1 .. n : Offset(f, i) < Offset(f, i + 1)
  <2> SUFFICES ASSUME NEW i \in 1 .. n PROVE Offset(f, i) < Offset(f, i + 1)
    OBVIOUS
  <2>1. i \in 1 .. n + 1 /\ Offset(f, i) \in Nat
    BY <1>1, <1>2
  <2>2. Length(f[i]) \in Nat /\ Length(f[i]) >= 1
    BY <1>1, LengthIsNat
  <2> QED BY <2>1, <2>2, <1>2
<1>5. 0 \in T
  BY <1>1, <1>3, <1>4
<1>6. ASSUME NEW i \in T PROVE i + 1 \in T
  <2> SUFFICES ASSUME j + (i + 1) + 1 \in 1 .. n + 1
               PROVE  Offset(f, j) < Offset(f, j + (i + 1) + 1)
    OBVIOUS
  <2>1. i \in Nat /\ j \in Nat /\ j + i + 1 \in 1 .. n /\ j + i + 1 \in 1 .. n + 1
    BY <1>1, <1>3
  <2>2. Offset(f, j) < Offset(f, j + i + 1)
    BY <2>1
  <2>3. Offset(f, j + i + 1) < Offset(f, j + i + 1 + 1)
    BY <2>1, <1>4
  <2>4. j + i + 1 + 1 = j + (i + 1) + 1
    BY <2>1
  <2>5. Offset(f, j) \in Nat /\ Offset(f, j + i + 1) \in Nat /\ Offset(f, j + (i + 1) + 1) \in Nat
    BY <1>2, <1>3, <2>1
  <2> QED BY <2>2, <2>3, <2>4, <2>5
<1>7. T = Nat
  <2>1. T \in SUBSET Nat
    OBVIOUS
  <2> HIDE DEF T
  <2> QED BY <2>1, <1>5, <1>6, Climb
<1>8. k - j - 1 \in T /\ j + (k - j - 1) + 1 = k
  <2>1. k - j - 1 \in Nat /\ j + (k - j - 1) + 1 = k
    BY <1>1, <1>3
  <2> HIDE DEF T
  <2> QED BY <2>1, <1>7
<1> QED
  BY <1>3, <1>8

\* Where a block is depends on the blocks in front of it only.
LEMMA OffsetIsLocal ==
  ASSUME NEW f \in Seq(Blocks), NEW g \in Seq(Blocks), NEW n \in Nat,
         n <= Len(f), n <= Len(g), \A i \in 1 .. n : f[i] = g[i],
         NEW k \in 1 .. n + 1
  PROVE  Offset(f, k) = Offset(g, k)
<1> DEFINE T == {i \in Nat : i + 1 \in 1 .. n + 1 => Offset(f, i + 1) = Offset(g, i + 1)}
<1>1. /\ Offset(f, 1) = 0 /\ Offset(g, 1) = 0
      /\ \A i \in 1 .. Len(f) : Offset(f, i + 1) = Offset(f, i) + Length(f[i])
      /\ \A i \in 1 .. Len(g) : Offset(g, i + 1) = Offset(g, i) + Length(g[i])
  BY OffsetSteps
<1>2. 0 \in T
  BY <1>1
<1>3. ASSUME NEW i \in T PROVE i + 1 \in T
  <2> SUFFICES ASSUME (i + 1) + 1 \in 1 .. n + 1
               PROVE  Offset(f, (i + 1) + 1) = Offset(g, (i + 1) + 1)
    OBVIOUS
  <2>1. i + 1 \in 1 .. n /\ i + 1 \in 1 .. n + 1 /\ i + 1 \in 1 .. Len(f) /\ i + 1 \in 1 .. Len(g)
    OBVIOUS
  <2>2. Offset(f, i + 1) = Offset(g, i + 1) /\ f[i + 1] = g[i + 1]
    BY <2>1
  <2> QED BY <2>1, <2>2, <1>1
<1>4. T = Nat
  <2>1. T \in SUBSET Nat
    OBVIOUS
  <2> HIDE DEF T
  <2> QED BY <2>1, <1>2, <1>3, Climb
<1>5. k - 1 \in T /\ (k - 1) + 1 = k
  <2>1. k - 1 \in Nat /\ (k - 1) + 1 = k
    OBVIOUS
  <2> HIDE DEF T
  <2> QED BY <2>1, <1>4
<1> QED
  BY <1>5

-----------------------------------------------------------------------------
(* Concatenation *)

Has(s, x) == \E j \in DOMAIN s : s[j] = x

LEMMA HasEither ==
  ASSUME NEW S, NEW s \in Seq(S), NEW t \in Seq(S)
  PROVE  s \o t \in Seq(S) /\ \A x : Has(s \o t, x) <=> Has(s, x) \/ Has(t, x)
<1> DEFINE u == s \o t
<1>1. u \in Seq(S) /\ Len(u) = Len(s) + Len(t)
  OBVIOUS
<1>2. /\ \A j \in 1 .. Len(s) : u[j] = s[j]
      /\ \A j \in 1 .. Len(t) : u[Len(s) + j] = t[j]
  OBVIOUS
<1>3. /\ Len(s) \in Nat /\ Len(t) \in Nat
      /\ DOMAIN u = 1 .. Len(s) + Len(t) /\ DOMAIN s = 1 .. Len(s) /\ DOMAIN t = 1 .. Len(t)
  BY <1>1
<1> HIDE DEF u
<1>4. ASSUME NEW x, Has(u, x) PROVE Has(s, x) \/ Has(t, x)
  <2>1. PICK j \in 1 .. Len(s) + Len(t) : u[j] = x
    BY <1>3, <1>4 DEF Has
  <2>2. CASE j <= Len(s)
    BY <2>1, <2>2, <1>2, <1>3 DEF Has
  <2>3. CASE ~(j <= Len(s))
    <3>1. j - Len(s) \in 1 .. Len(t) /\ Len(s) + (j - Len(s)) = j
      BY <2>3, <1>3
    <3>2. t[j - Len(s)] = x
      BY <3>1, <2>1, <1>2
    <3> QED BY <3>1, <3>2, <1>3 DEF Has
  <2> QED BY <2>2, <2>3
<1>5. ASSUME NEW x, Has(s, x) PROVE Has(u, x)
  <2>1. PICK j \in 1 .. Len(s) : s[j] = x
    BY <1>3, <1>5 DEF Has
  <2>2. j \in DOMAIN u
    BY <1>3
  <2> QED BY <2>1, <2>2, <1>2 DEF Has
<1>6. ASSUME NEW x, Has(t, x) PROVE Has(u, x)
  <2>1. PICK j \in 1 .. Len(t) : t[j] = x
    BY <1>3, <1>6 DEF Has
  <2>2. Len(s) + j \in DOMAIN u
    BY <1>3
  <2> QED BY <2>1, <2>2, <1>2 DEF Has
<1> QED
  BY <1>1, <1>4, <1>5, <1>6 DEF u

\* A list of lists made one has what is in any of them, and nothing else.
LEMMA Flattened ==
  ASSUME NEW S, NEW ss \in Seq(Seq(S))
  PROVE  /\ FlattenSeq(ss) \in Seq(S)
         /\ \A x : Has(FlattenSeq(ss), x) <=> \E k \in DOMAIN ss : Has(ss[k], x)
<1> DEFINE n == Len(ss)
           OK(g) == g = [i \in 1 .. n |-> IF i = 1 THEN ss[i] ELSE g[i - 1] \o ss[i]]
           fl == CHOOSE g : OK(g)
<1>1. n \in Nat /\ DOMAIN ss = 1 .. n /\ \A k \in 1 .. n : ss[k] \in Seq(S)
  OBVIOUS
<1>2. CASE n = 0
  <2>1. FlattenSeq(ss) = ss /\ ss = <<>>
    BY <1>2 DEF FlattenSeq
  <2>2. <<>> \in Seq(S) /\ \A x : ~ Has(<<>>, x)
    BY DEF Has
  <2>3. \A k \in DOMAIN ss : FALSE
    BY <1>1, <1>2
  <2> QED BY <2>1, <2>2, <2>3, Zenon
<1>3. CASE n # 0
  <2> DEFINE next(i) == IF i + 2 \in 1 .. n THEN ss[i + 2] ELSE <<>>
             more == [p \in Nat \X Seq(S) |-> p[2] \o next(p[1])]
  <2>1. more \in [Nat \X Seq(S) -> Seq(S)]
    <3>1. \A i \in Nat : next(i) \in Seq(S)
      BY <1>1
    <3> HIDE DEF next
    <3>2. \A s, t \in Seq(S) : s \o t \in Seq(S)
      BY HasEither
    <3>3. \A p \in Nat \X Seq(S) : p[1] \in Nat /\ p[2] \in Seq(S)
      OBVIOUS
    <3>4. \A p \in Nat \X Seq(S) : p[2] \o next(p[1]) \in Seq(S)
      BY <3>1, <3>2, <3>3
    <3> QED BY <3>4
  <2>2. ss[1] \in Seq(S)
    BY <1>1, <1>3
  <2>3. PICK F : Iterates(Seq(S), ss[1], more, F)
    <3> HIDE DEF more
    <3> QED BY <2>1, <2>2, Iterate
  <2>4. /\ F[0] = ss[1] /\ \A i \in Nat : F[i] \in Seq(S)
        /\ \A i \in Nat : i + 2 \in 1 .. n => F[i + 1] = F[i] \o ss[i + 2]
    <3>1. F \in [Nat -> Seq(S)] /\ F[0] = ss[1] /\ \A i \in Nat : F[i + 1] = more[<<i, F[i]>>]
      BY <2>3 DEF Iterates
    <3>2. ASSUME NEW i \in Nat, i + 2 \in 1 .. n PROVE F[i + 1] = F[i] \o ss[i + 2]
      <4>1. F[i] \in Seq(S)
        BY <3>1
      <4>2. more[<<i, F[i]>>] = F[i] \o next(i) /\ next(i) = ss[i + 2]
        BY <4>1, <3>2
      <4> HIDE DEF more, next
      <4> QED BY <4>2, <3>1
    <3> QED BY <3>1, <3>2
  <2> DEFINE w == [i \in 1 .. n |-> F[i - 1]]
  <2>5. OK(w)
    <3>1. ASSUME NEW i \in 1 .. n PROVE w[i] = IF i = 1 THEN ss[i] ELSE w[i - 1] \o ss[i]
      <4>1. CASE i = 1
        BY <4>1, <2>4
      <4>2. CASE i # 1
        <5>1. i - 2 \in Nat /\ (i - 2) + 1 = i - 1 /\ (i - 2) + 2 = i /\ i - 1 \in 1 .. n
          BY <4>2, <1>1
        <5>2. F[i - 1] = F[i - 2] \o ss[i]
          BY <5>1, <2>4
        <5>3. w[i] = F[i - 1] /\ w[i - 1] = F[i - 2]
          BY <5>1
        <5> QED BY <4>2, <5>2, <5>3
      <4> QED BY <4>1, <4>2
    <3> QED BY <3>1
  <2> HIDE DEF w
  <2>6. OK(fl)
    <3> HIDE DEF OK
    <3> QED BY <2>5
  <2>7. FlattenSeq(ss) = fl[n]
    BY <1>3 DEF FlattenSeq
  <2> HIDE DEF fl
  <2>8. fl[1] = ss[1] /\ \A i \in 1 .. n : i + 1 \in 1 .. n => fl[i + 1] = fl[i] \o ss[i + 1]
    <3>1. fl = [i \in 1 .. n |-> IF i = 1 THEN ss[i] ELSE fl[i - 1] \o ss[i]]
      BY <2>6
    <3> HIDE DEF OK
    <3>2. fl[1] = ss[1]
      BY <3>1, <1>1, <1>3
    <3>3. ASSUME NEW i \in 1 .. n, i + 1 \in 1 .. n PROVE fl[i + 1] = fl[i] \o ss[i + 1]
      <4>1. i + 1 # 1 /\ (i + 1) - 1 = i
        BY <1>1
      <4> QED BY <3>1, <3>3, <4>1
    <3> QED BY <3>2, <3>3
  <2> DEFINE Good(i) == fl[i] \in Seq(S) /\ \A x : Has(fl[i], x) <=> \E k \in 1 .. i : Has(ss[k], x)
             T == {i \in Nat : i + 1 \in 1 .. n => Good(i + 1)}
  <2> HIDE DEF n, OK
  <2>9. 0 \in T
    <3>1. 0 + 1 = 1 /\ \A k \in 1 .. 1 : k = 1
      OBVIOUS
    <3>2. Good(1)
      BY <2>2, <2>8, <3>1
    <3> HIDE DEF Good
    <3> QED BY <3>1, <3>2
  <2>10. ASSUME NEW i \in T PROVE i + 1 \in T
    <3> SUFFICES ASSUME (i + 1) + 1 \in 1 .. n PROVE Good((i + 1) + 1)
      OBVIOUS
    <3> DEFINE j == i + 1
    <3>1. j \in 1 .. n /\ j + 1 \in 1 .. n
      BY <1>1
    <3>2. Good(j)
      BY <3>1
    <3> HIDE DEF j, T
    <3>3. fl[j + 1] = fl[j] \o ss[j + 1] /\ ss[j + 1] \in Seq(S)
      BY <3>1, <2>8, <1>1
    <3>4. /\ fl[j] \o ss[j + 1] \in Seq(S)
          /\ \A x : Has(fl[j] \o ss[j + 1], x) <=> Has(fl[j], x) \/ Has(ss[j + 1], x)
      BY <3>2, <3>3, HasEither
    <3>5. \A k : k \in 1 .. j + 1 <=> k \in 1 .. j \/ k = j + 1
      BY <3>1, <1>1
    <3>6. ASSUME NEW x PROVE Has(fl[j + 1], x) <=> \E k \in 1 .. j + 1 : Has(ss[k], x)
      <4>1. Has(fl[j + 1], x) <=> (\E k \in 1 .. j : Has(ss[k], x)) \/ Has(ss[j + 1], x)
        BY <3>2, <3>3, <3>4
      <4> QED BY <4>1, <3>5
    <3>7. Good(j + 1)
      BY <3>3, <3>4, <3>6
    <3> QED BY <3>7 DEF j
  <2>11. T = Nat
    <3>1. T \in SUBSET Nat
      OBVIOUS
    <3> HIDE DEF T
    <3> QED BY <3>1, <2>9, <2>10, Climb
  <2>12. n - 1 \in Nat /\ (n - 1) + 1 = n /\ n \in 1 .. n
    BY <1>1, <1>3
  <2>13. Good(n)
    <3>1. n - 1 \in T
      BY <2>11, <2>12
    <3> HIDE DEF Good
    <3> QED BY <3>1, <2>12
  <2> QED
    BY <2>7, <2>13, <1>1
<1> QED
  BY <1>2, <1>3

-----------------------------------------------------------------------------
(* Parts of a segment file *)

LEMMA Smallest ==
  ASSUME NEW S \in SUBSET Nat, S # {}
  PROVE  Min(S) \in S /\ \A x \in S : Min(S) <= x
<1>1. \E k \in S : \A l \in S : k <= l
  BY SetHasFirst
<1> QED
  BY <1>1 DEF Min

\* The part in front of the first block with one of the states.
LEMMA BeforeFacts ==
  ASSUME NEW f \in Seq(Blocks), NEW states
  PROVE  LET n == Len(Before(f, states))
         IN  /\ Before(f, states) \in Seq(Blocks)
             /\ n \in 0 .. Len(f)
             /\ \A k \in 1 .. n : Before(f, states)[k] = f[k] /\ f[k].state \notin states
             /\ n < Len(f) => f[n + 1].state \in states
             /\ Before(f, states) = f <=> n = Len(f)
<1> DEFINE broken == {k \in DOMAIN f : f[k].state \in states}
           g == Before(f, states)
<1>1. Len(f) \in Nat /\ DOMAIN f = 1 .. Len(f)
  OBVIOUS
<1>2. CASE broken = {}
  <2>1. g = f
    BY <1>2 DEF Before
  <2>2. \A k \in 1 .. Len(f) : f[k].state \notin states
    BY <1>1, <1>2
  <2> HIDE DEF g, broken
  <2>3. Before(f, states) = f
    BY <2>1 DEF g
  <2> QED BY <1>1, <2>2, <2>3
<1>3. CASE broken # {}
  <2> DEFINE m == Min(broken)
  <2>1. broken \in SUBSET Nat
    BY <1>1
  <2>2. m \in broken /\ \A x \in broken : m <= x
    <3> HIDE DEF broken
    <3> QED BY <1>3, <2>1, Smallest
  <2>3. g = SubSeq(f, 1, m - 1)
    BY <1>3 DEF Before
  <2>4. m \in 1 .. Len(f) /\ f[m].state \in states
    BY <2>2, <1>1
  <2>5. \A k \in 1 .. m - 1 : f[k].state \notin states
    <3> SUFFICES ASSUME NEW k \in 1 .. m - 1, f[k].state \in states PROVE FALSE
      OBVIOUS
    <3> HIDE DEF m
    <3>1. k \in DOMAIN f /\ k < m
      BY <2>4, <1>1
    <3>2. k \in broken
      BY <3>1
    <3> QED BY <3>1, <3>2, <2>2, <2>4
  <2> HIDE DEF m, broken
  <2>6. g \in Seq(Blocks) /\ Len(g) = m - 1 /\ \A k \in 1 .. m - 1 : g[k] = f[k]
    BY <2>3, <2>4
  <2> HIDE DEF g
  <2>7. m - 1 \in 0 .. Len(f) /\ (m - 1) + 1 = m /\ m - 1 # Len(f)
    BY <2>4, <1>1
  <2>8. g # f
    BY <2>6, <2>7
  <2> QED BY <2>4, <2>5, <2>6, <2>7, <2>8 DEF g
<1> QED
  BY <1>2, <1>3

LEMMA IntactFacts ==
  ASSUME NEW f \in Seq(Blocks)
  PROVE  /\ Intact(f) \in Seq(Blocks)
         /\ DOMAIN Intact(f) = 1 .. Sound(f)
         /\ Sound(f) \in 0 .. Len(f)
         /\ \A k \in 1 .. Sound(f) : Intact(f)[k] = f[k] /\ f[k].state = "ok"
         /\ Sound(f) < Len(f) => f[Sound(f) + 1].state # "ok"
         /\ HasTornTail(f) <=> Sound(f) # Len(f)
         /\ HasRowBlocks(f) <=> \E k \in 1 .. Sound(f) : f[k].kind = "row"
<1> DEFINE g == Intact(f)
           n == Len(g)
<1>1. /\ g \in Seq(Blocks)
      /\ n \in 0 .. Len(f)
      /\ \A k \in 1 .. n : g[k] = f[k] /\ f[k].state \notin {"torn", "bad"}
      /\ n < Len(f) => f[n + 1].state \in {"torn", "bad"}
      /\ g = f <=> n = Len(f)
  BY BeforeFacts DEF Intact
<1>2. Sound(f) = n /\ Intact(f) = g
  BY DEF Sound
<1>3. \A k \in 1 .. Len(f) : f[k].state \in {"ok", "bad", "torn"}
  <2>1. \A k \in 1 .. Len(f) : f[k] \in Blocks
    OBVIOUS
  <2> QED BY <2>1 DEF Blocks
<1>4. DOMAIN g = 1 .. n
  BY <1>1
<1> HIDE DEF g
<1>5. n \in Nat /\ Len(f) \in Nat
  BY <1>1
<1> HIDE DEF n
<1>6. \A k \in 1 .. n : g[k] = f[k] /\ f[k].state = "ok"
  <2> SUFFICES ASSUME NEW k \in 1 .. n PROVE g[k] = f[k] /\ f[k].state = "ok"
    OBVIOUS
  <2>1. k \in 1 .. Len(f)
    BY <1>1
  <2> QED BY <2>1, <1>1, <1>3
<1>7. n < Len(f) => f[n + 1].state # "ok"
  BY <1>1
<1>8. HasTornTail(f) <=> n # Len(f)
  BY <1>1, <1>2 DEF HasTornTail
<1>9. HasRowBlocks(f) <=> \E k \in 1 .. n : f[k].kind = "row"
  BY <1>2, <1>4 DEF HasRowBlocks
<1> QED
  BY <1>1, <1>2, <1>4, <1>6, <1>7, <1>8, <1>9

\* n leading blocks are intact, and the next one is not or there is none.
LEMMA SoundIs ==
  ASSUME NEW f \in Seq(Blocks), NEW n \in 0 .. Len(f),
         \A k \in 1 .. n : f[k].state = "ok",
         n = Len(f) \/ f[n + 1].state # "ok"
  PROVE  Sound(f) = n
<1> DEFINE s == Sound(f)
<1>1. /\ s \in 0 .. Len(f) /\ Len(f) \in Nat
      /\ \A k \in 1 .. s : f[k].state = "ok"
      /\ s < Len(f) => f[s + 1].state # "ok"
  BY IntactFacts
<1> HIDE DEF s
<1>2. CASE s < n
  <2>1. s + 1 \in 1 .. n /\ s < Len(f)
    BY <1>1, <1>2
  <2> QED BY <2>1, <1>1
<1>3. CASE n < s
  <2>1. n + 1 \in 1 .. s /\ n # Len(f)
    BY <1>1, <1>3
  <2> QED BY <2>1, <1>1
<1>4. s = n
  BY <1>1, <1>2, <1>3
<1> QED
  BY <1>4 DEF s

\* What one more block at the end changes.
LEMMA SoundAppend ==
  ASSUME NEW f \in Seq(Blocks), NEW b \in Blocks
  PROVE  LET g == Append(f, b)
         IN  /\ g \in Seq(Blocks) /\ Len(g) = Len(f) + 1 /\ g[Len(f) + 1] = b
             /\ \A k \in 1 .. Len(f) : g[k] = f[k]
             /\ Sound(f) # Len(f) => Sound(g) = Sound(f)
             /\ Sound(f) = Len(f) => Sound(g) = IF b.state = "ok" THEN Len(f) + 1 ELSE Len(f)
<1> DEFINE g == Append(f, b)
           l == Len(f)
           s == Sound(f)
<1>1. g \in Seq(Blocks) /\ Len(g) = l + 1 /\ g[l + 1] = b /\ \A k \in 1 .. l : g[k] = f[k]
  OBVIOUS
<1>2. /\ s \in 0 .. l /\ l \in Nat
      /\ \A k \in 1 .. s : f[k].state = "ok"
      /\ s < l => f[s + 1].state # "ok"
  BY IntactFacts
<1> HIDE DEF g, l, s
<1>3. CASE s # l
  <2>1. s \in 0 .. l + 1 /\ s + 1 \in 1 .. l /\ s < l
    BY <1>2, <1>3
  <2>2. \A k \in 1 .. s : k \in 1 .. l /\ g[k].state = "ok"
    BY <1>1, <1>2
  <2>3. g[s + 1].state # "ok"
    BY <2>1, <1>1, <1>2
  <2>4. Sound(g) = s
    BY <1>1, <2>1, <2>2, <2>3, SoundIs
  <2> QED BY <2>4, <1>1, <1>3 DEF g, l, s
<1>4. CASE s = l
  <2>1. \A k \in 1 .. l : g[k].state = "ok"
    BY <1>1, <1>2, <1>4
  <2>2. CASE b.state = "ok"
    <3>1. \A k \in 1 .. l + 1 : g[k].state = "ok"
      <4> SUFFICES ASSUME NEW k \in 1 .. l + 1 PROVE g[k].state = "ok"
        OBVIOUS
      <4>1. k \in 1 .. l \/ k = l + 1
        BY <1>2
      <4> QED BY <4>1, <2>1, <2>2, <1>1
    <3>2. l + 1 \in 0 .. Len(g) /\ l + 1 = Len(g)
      BY <1>1, <1>2
    <3>3. Sound(g) = l + 1
      BY <1>1, <3>1, <3>2, SoundIs
    <3> QED BY <2>2, <3>3, <1>1, <1>4 DEF g, l, s
  <2>3. CASE b.state # "ok"
    <3>1. l \in 0 .. Len(g) /\ g[l + 1].state # "ok"
      BY <1>1, <1>2, <2>3
    <3>2. Sound(g) = l
      BY <1>1, <2>1, <3>1, SoundIs
    <3> QED BY <2>3, <3>2, <1>1, <1>4 DEF g, l, s
  <2> QED BY <2>2, <2>3
<1> QED
  BY <1>3, <1>4

\* What has been cut behind the intact blocks is intact.
LEMMA SoundIntact ==
  ASSUME NEW f \in Seq(Blocks)
  PROVE  /\ Len(Intact(f)) = Sound(f) /\ Sound(Intact(f)) = Sound(f)
         /\ ~HasTornTail(Intact(f)) /\ (HasRowBlocks(Intact(f)) <=> HasRowBlocks(f))
<1> DEFINE g == Intact(f)
           s == Sound(f)
<1>1. /\ g \in Seq(Blocks) /\ Len(g) = s /\ s \in Nat
      /\ \A k \in 1 .. s : g[k] = f[k] /\ f[k].state = "ok"
      /\ HasRowBlocks(f) <=> \E k \in 1 .. s : f[k].kind = "row"
  BY IntactFacts DEF Sound
<1> HIDE DEF g, s
<1>2. Sound(g) = s
  <2>1. s \in 0 .. Len(g) /\ s = Len(g) /\ \A k \in 1 .. s : g[k].state = "ok"
    BY <1>1
  <2> QED BY <1>1, <2>1, SoundIs
<1>3. ~HasTornTail(g) /\ (HasRowBlocks(g) <=> \E k \in 1 .. s : g[k].kind = "row")
  BY <1>1, <1>2, IntactFacts
<1>4. HasRowBlocks(g) <=> HasRowBlocks(f)
  BY <1>1, <1>3
<1> QED
  BY <1>1, <1>2, <1>3, <1>4 DEF g, s

-----------------------------------------------------------------------------
(* Entries of an index *)

LEMMA RecOffFacts ==
  ASSUME NEW b \in Blocks
  PROVE  /\ \A m \in DOMAIN b.recs : RecOff(b, m) \in Nat
         /\ \A m, i \in DOMAIN b.recs : RecOff(b, m) = RecOff(b, i) => m = i
<1>1. DOMAIN b.recs = 1 .. Len(b.recs) /\ Len(b.recs) \in Nat
  BY DEF Blocks
<1>2. CASE b.kind = "row"
  BY <1>1, <1>2 DEF RecOff
<1>3. CASE b.kind # "row"
  BY <1>1, <1>3 DEF RecOff
<1> QED
  BY <1>2, <1>3

LEMMA EntryTyped ==
  ASSUME NEW f \in Seq(Blocks), NEW k \in 1 .. Len(f), NEW m \in DOMAIN f[k].recs
  PROVE  /\ Entry(f, k, m) \in Entries
         /\ Entry(f, k, m).game = f[k].recs[m]
         /\ Entry(f, k, m).block = Offset(f, k)
         /\ Entry(f, k, m).rec = RecOff(f[k], m)
<1>1. f[k] \in Blocks
  OBVIOUS
<1>2. f[k].recs \in Seq(Game) /\ f[k].recs[m] \in Game
  BY <1>1 DEF Blocks
<1>3. Offset(f, k) \in Nat
  <2>1. k \in 1 .. Len(f) + 1
    OBVIOUS
  <2> QED BY <2>1, OffsetSteps
<1>4. RecOff(f[k], m) \in Nat
  BY <1>1, RecOffFacts
<1> QED
  BY <1>2, <1>3, <1>4 DEF Entry, Entries

\* An entry that is right finds the game it names, and no other.
LEMMA RightFinds ==
  ASSUME NEW f \in Seq(Blocks), NEW e, Right(f, e)
  PROVE  Lookup(f, e) = {e.game}
<1>1. DOMAIN f = 1 .. Len(f) /\ Len(f) \in Nat
  OBVIOUS
<1>2. PICK k \in DOMAIN f : \E m \in DOMAIN f[k].recs : f[k].state = "ok" /\ e = Entry(f, k, m)
  BY DEF Right
<1>3. PICK m \in DOMAIN f[k].recs : f[k].state = "ok" /\ e = Entry(f, k, m)
  BY <1>2
<1>4. e.game = f[k].recs[m] /\ e.block = Offset(f, k) /\ e.rec = RecOff(f[k], m)
  BY <1>1, <1>3, EntryTyped
<1>5. ASSUME NEW j \in DOMAIN f, Offset(f, j) = e.block PROVE j = k
  <2>1. j \in 1 .. Len(f) + 1 /\ k \in 1 .. Len(f) + 1 /\ Offset(f, j) \in Nat /\ Offset(f, k) \in Nat
    BY <1>1, OffsetSteps
  <2>2. ~ (j < k)
    BY <2>1, <1>4, <1>5, OffsetGrows
  <2>3. ~ (k < j)
    BY <2>1, <1>4, <1>5, OffsetGrows
  <2> QED BY <2>1, <2>2, <2>3
<1>6. ASSUME NEW i \in DOMAIN f[k].recs, RecOff(f[k], i) = e.rec PROVE i = m
  <2>1. f[k] \in Blocks
    BY <1>1
  <2> QED BY <2>1, <1>4, <1>6, RecOffFacts
<1>7. \A x : x \in Lookup(f, e) <=>
         \E j \in DOMAIN f : /\ f[j].state = "ok" /\ Offset(f, j) = e.block
                             /\ \E i \in DOMAIN f[j].recs : RecOff(f[j], i) = e.rec /\ x = f[j].recs[i]
  BY DEF Lookup
<1>8. \A x : x \in Lookup(f, e) => x = e.game
  BY <1>4, <1>5, <1>6, <1>7
<1>9. e.game \in Lookup(f, e)
  BY <1>3, <1>4, <1>7
<1> QED
  BY <1>8, <1>9

\* An entry stays right in a file that has the same blocks that far.
LEMMA RightStays ==
  ASSUME NEW f \in Seq(Blocks), NEW g \in Seq(Blocks), NEW n \in Nat,
         n <= Len(f), n <= Len(g), \A i \in 1 .. n : f[i] = g[i],
         NEW k \in 1 .. n, NEW m \in DOMAIN f[k].recs, f[k].state = "ok"
  PROVE  Right(g, Entry(f, k, m))
<1>1. k \in 1 .. n + 1 /\ k \in DOMAIN g /\ f[k] = g[k]
  OBVIOUS
<1>2. Offset(f, k) = Offset(g, k)
  BY <1>1, OffsetIsLocal
<1>3. Entry(f, k, m) = Entry(g, k, m)
  BY <1>1, <1>2 DEF Entry
<1> QED
  BY <1>1, <1>3 DEF Right

\* Another block behind does not change what is right.
LEMMA RightGrows ==
  ASSUME NEW f \in Seq(Blocks), NEW b \in Blocks, NEW e, Right(f, e)
  PROVE  Right(Append(f, b), e)
<1> DEFINE g == Append(f, b)
<1>1. g \in Seq(Blocks) /\ Len(f) <= Len(g) /\ Len(f) \in Nat /\ \A i \in 1 .. Len(f) : f[i] = g[i]
  OBVIOUS
<1>2. PICK k \in 1 .. Len(f) : \E m \in DOMAIN f[k].recs : f[k].state = "ok" /\ e = Entry(f, k, m)
  BY DEF Right
<1>3. PICK m \in DOMAIN f[k].recs : f[k].state = "ok" /\ e = Entry(f, k, m)
  BY <1>2
<1> HIDE DEF g
<1>4. Right(g, Entry(f, k, m))
  BY <1>1, <1>3, RightStays
<1> QED
  BY <1>3, <1>4 DEF g

\* The index made from a file is right.
LEMMA IndexOfIsRight ==
  ASSUME NEW f \in Seq(Blocks)
  PROVE  IndexOf(f) \in Indexes /\ RightIndex(f, IndexOf(f))
<1> DEFINE s == Sound(f)
           ss == [k \in DOMAIN Intact(f) |-> [m \in DOMAIN f[k].recs |-> Entry(f, k, m)]]
           es == FlattenSeq(ss)
<1>1. /\ DOMAIN Intact(f) = 1 .. s /\ s \in 0 .. Len(f) /\ Len(f) \in Nat
      /\ \A k \in 1 .. s : f[k].state = "ok"
  BY IntactFacts
<1>2. IndexOf(f) = [entries |-> es, malformed |-> FALSE]
  BY DEF IndexOf, Index
<1> HIDE DEF s
<1>3. ASSUME NEW k \in 1 .. s
      PROVE  /\ k \in 1 .. Len(f)
             /\ [m \in DOMAIN f[k].recs |-> Entry(f, k, m)] \in Seq(Entries)
  <2>1. k \in 1 .. Len(f)
    BY <1>1
  <2>2. f[k].recs \in Seq(Game)
    <3>1. f[k] \in Blocks
      BY <2>1
    <3> QED BY <3>1 DEF Blocks
  <2>3. DOMAIN f[k].recs = 1 .. Len(f[k].recs) /\ Len(f[k].recs) \in Nat
    BY <2>2
  <2>4. \A m \in DOMAIN f[k].recs : Entry(f, k, m) \in Entries
    BY <2>1, EntryTyped
  <2> QED BY <2>1, <2>3, <2>4
<1>4. ss \in Seq(Seq(Entries))
  <2>1. s \in Nat
    BY <1>1
  <2> QED BY <2>1, <1>1, <1>3
<1>5. DOMAIN ss = 1 .. s /\ \A k \in 1 .. s : ss[k] = [m \in DOMAIN f[k].recs |-> Entry(f, k, m)]
  BY <1>1
<1> HIDE DEF ss
<1>6. es \in Seq(Entries) /\ \A x : Has(es, x) <=> \E k \in DOMAIN ss : Has(ss[k], x)
  BY <1>4, Flattened
<1> HIDE DEF es
<1>7. ASSUME NEW j \in DOMAIN es PROVE Right(f, es[j])
  <2>1. Has(es, es[j])
    BY DEF Has
  <2>2. PICK k \in 1 .. s : Has(ss[k], es[j])
    BY <2>1, <1>5, <1>6
  <2>3. PICK m \in DOMAIN f[k].recs : es[j] = Entry(f, k, m)
    BY <2>2, <1>5 DEF Has
  <2>4. k \in DOMAIN f /\ f[k].state = "ok"
    BY <1>1
  <2> QED BY <2>3, <2>4 DEF Right
<1> QED
  BY <1>2, <1>6, <1>7 DEF Indexes, RightIndex

-----------------------------------------------------------------------------
(* The records of a file, and the columnar blocks made from them *)

LEMMA RecordsKept ==
  ASSUME NEW f \in Seq(Blocks)
  PROVE  Records(f) \in Seq(Game) /\ \A g : Among(f, Sound(f), g) => Has(Records(f), g)
<1> DEFINE s == Sound(f)
           ss == [k \in DOMAIN Intact(f) |-> f[k].recs]
<1>1. DOMAIN Intact(f) = 1 .. s /\ s \in 0 .. Len(f) /\ Len(f) \in Nat
  BY IntactFacts
<1> HIDE DEF s
<1>2. \A k \in 1 .. s : f[k].recs \in Seq(Game)
  <2>1. \A k \in 1 .. s : f[k] \in Blocks
    BY <1>1
  <2> QED BY <2>1 DEF Blocks
<1>3. ss \in Seq(Seq(Game)) /\ DOMAIN ss = 1 .. s /\ \A k \in 1 .. s : ss[k] = f[k].recs
  BY <1>1, <1>2
<1>4. Records(f) = FlattenSeq(ss)
  BY DEF Records
<1> HIDE DEF ss
<1>5. Records(f) \in Seq(Game) /\ \A g : Has(Records(f), g) <=> \E k \in DOMAIN ss : Has(ss[k], g)
  BY <1>3, <1>4, Flattened
<1>6. ASSUME NEW g, Among(f, s, g) PROVE Has(Records(f), g)
  <2>1. PICK k \in 1 .. s : \E m \in DOMAIN f[k].recs : f[k].recs[m] = g
    BY <1>6 DEF Among
  <2>2. k \in DOMAIN ss /\ Has(ss[k], g)
    BY <2>1, <1>3 DEF Has
  <2> QED BY <2>2, <1>5
<1> QED
  BY <1>5, <1>6 DEF s

LEMMA Divided ==
  ASSUME NEW a \in Nat, NEW b \in Nat \ {0}
  PROVE  a \div b \in Nat /\ (a \div b) * b <= a /\ a < (a \div b) * b + b
OBVIOUS

LEMMA TimesGrows ==
  ASSUME NEW a \in Nat, NEW b \in Nat, NEW c \in Nat, a <= b
  PROVE  a * c <= b * c
<1>1. PICK e \in Nat : b = a + e
  <2>1. b - a \in Nat /\ b = a + (b - a)
    OBVIOUS
  <2> QED BY <2>1
<1>2. e * c \in Nat /\ a * c \in Nat
  OBVIOUS
<1>3. (a + e) * c = a * c + e * c
  OBVIOUS
<1> QED
  BY <1>1, <1>2, <1>3

LEMMA SmallerOfTwo ==
  ASSUME NEW a \in Nat, NEW b \in Nat
  PROVE  LET m == Min({a, b}) IN m \in Nat /\ m <= a /\ m <= b /\ (m = a \/ m = b)
<1>1. {a, b} \in SUBSET Nat /\ {a, b} # {}
  OBVIOUS
<1> QED
  BY <1>1, Smallest

\* The columnar blocks hold all the records they are made from and need no further work.
LEMMA ColumnsFacts ==
  ASSUME NEW recs \in Seq(Game)
  PROVE  /\ Columns(recs) \in Seq(Blocks)
         /\ BrokenLast(Columns(recs)) /\ Compacted(Columns(recs))
         /\ Sound(Columns(recs)) = Len(Columns(recs))
         /\ \A g : Has(recs, g) => Among(Columns(recs), Sound(Columns(recs)), g)
<1> DEFINE B == RECORDS_PER_BLOCK
           l == Len(recs)
           n == (l + B - 1) \div B
           lo(k) == (k - 1) * B + 1
           hi(k) == Min({k * B, l})
           b(k) == Block("col", "ok", SubSeq(recs, lo(k), hi(k)))
           f == Columns(recs)
<1>1. B \in Nat \ {0} /\ l \in Nat
  BY RecompactionAssumption
<1>2. f = [k \in 1 .. n |-> b(k)]
  BY DEF Columns
<1>3. n \in Nat /\ (l + B - 1) < n * B + B
  <2>1. l + B - 1 \in Nat
    BY <1>1
  <2> DEFINE a == l + B - 1
  <2> HIDE DEF a, B
  <2>2. a \div B \in Nat /\ a < (a \div B) * B + B
    BY <2>1, <1>1, Divided DEF a
  <2> QED BY <2>2 DEF a
<1> HIDE DEF n, B
<1>4. ASSUME NEW k \in 1 .. n
      PROVE  /\ lo(k) \in Nat /\ lo(k) >= 1
             /\ hi(k) \in Nat /\ hi(k) <= l /\ hi(k) <= k * B /\ (hi(k) = k * B \/ hi(k) = l)
  <2>1. k \in Nat /\ k - 1 \in Nat
    BY <1>3
  <2>2. k * B \in Nat /\ (k - 1) * B \in Nat
    BY <2>1, <1>1
  <2>3. lo(k) \in Nat /\ lo(k) >= 1
    BY <2>2
  <2> DEFINE a == k * B
  <2>4. a \in Nat
    BY <2>2
  <2> HIDE DEF a, l, lo
  <2>5. hi(k) = Min({a, l})
    BY DEF a
  <2>6. hi(k) \in Nat /\ hi(k) <= l /\ hi(k) <= a /\ (hi(k) = a \/ hi(k) = l)
    BY <2>4, <2>5, <1>1, SmallerOfTwo
  <2> QED BY <2>3, <2>6 DEF a
<1>5. ASSUME NEW k \in 1 .. n
      PROVE  b(k) \in Blocks /\ b(k).kind = "col" /\ b(k).state = "ok"
             /\ b(k).recs = SubSeq(recs, lo(k), hi(k))
  <2> HIDE DEF lo, hi
  <2>1. SubSeq(recs, lo(k), hi(k)) \in Seq(Game)
    BY <1>4
  <2> QED BY <2>1 DEF Block, Blocks
<1> HIDE DEF b
<1>6. f \in Seq(Blocks) /\ Len(f) = n /\ DOMAIN f = 1 .. n /\ \A k \in 1 .. n : f[k] = b(k)
  <2>1. \A k \in 1 .. n : b(k) \in Blocks
    BY <1>5
  <2> QED BY ONLY <1>2, <1>3, <2>1
<1> HIDE DEF f
<1>7. Sound(f) = n
  <2>1. \A k \in 1 .. n : f[k].state = "ok"
    BY <1>5, <1>6
  <2>2. n \in 0 .. Len(f)
    BY <1>3, <1>6
  <2> QED BY <2>1, <2>2, <1>6, SoundIs
<1>8. BrokenLast(f) /\ Compacted(f)
  <2>1. \A k \in 1 .. n : f[k].kind = "col" /\ f[k].state = "ok"
    BY <1>5, <1>6
  <2>2. BrokenLast(f)
    BY <2>1, <1>6 DEF BrokenLast
  <2>3. ~HasRowBlocks(f) /\ ~HasTornTail(f)
    BY <2>1, <1>6, <1>7, IntactFacts
  <2> QED BY <2>2, <2>3 DEF Compacted
<1>9. ASSUME NEW g, Has(recs, g) PROVE Among(f, n, g)
  <2>1. PICK j \in 1 .. l : recs[j] = g
    BY <1>9 DEF Has
  <2> DEFINE q == (j - 1) \div B
             k == q + 1
             m == j - q * B
  <2>2. j - 1 \in Nat
    BY <1>1
  <2>3. q \in Nat /\ q * B <= j - 1 /\ j - 1 < q * B + B
    <3> DEFINE a == j - 1
    <3> HIDE DEF a
    <3>1. a \div B \in Nat /\ (a \div B) * B <= a /\ a < (a \div B) * B + B
      BY <2>2, <1>1, Divided DEF a
    <3> QED BY <3>1 DEF a
  <2> HIDE DEF q, l
  <2>4. q < n
    <3> SUFFICES ASSUME n <= q PROVE FALSE
      BY <2>3, <1>3
    <3>1. n * B <= q * B
      BY <2>3, <1>1, <1>3, TimesGrows
    <3>2. n * B \in Nat /\ q * B \in Nat
      BY <2>3, <1>1, <1>3
    <3> DEFINE nb == n * B
               qb == q * B
    <3>3. nb \in Nat /\ qb \in Nat /\ nb <= qb /\ qb <= j - 1 /\ l + B - 1 < nb + B
      BY <3>1, <3>2, <2>3, <1>3
    <3> HIDE DEF nb, qb
    <3> QED BY <3>3, <1>1
  <2>5. k \in 1 .. n /\ k - 1 = q
    BY <2>3, <2>4, <1>3
  <2>6. q * B \in Nat /\ k * B = q * B + B
    BY <2>3, <1>1
  <2>7. lo(k) = q * B + 1
    BY <2>5
  <2>8. /\ hi(k) \in Nat /\ hi(k) <= l /\ (hi(k) = k * B \/ hi(k) = l) /\ lo(k) \in Nat /\ lo(k) >= 1
    BY <1>4, <2>5
  <2> HIDE DEF lo, hi, k
  <2> DEFINE qb == q * B
  <2>9. qb \in Nat /\ lo(k) = qb + 1 /\ qb <= j - 1 /\ j - 1 < qb + B /\ (hi(k) = qb + B \/ hi(k) = l)
        /\ m = j - qb
    BY <2>3, <2>6, <2>7, <2>8
  <2> HIDE DEF qb, m
  <2>10. m \in 1 .. hi(k) - lo(k) + 1 /\ lo(k) + m - 1 = j
    BY <2>8, <2>9, <1>1
  <2>11. /\ m \in DOMAIN SubSeq(recs, lo(k), hi(k))
         /\ SubSeq(recs, lo(k), hi(k))[m] = recs[j]
    BY <2>8, <2>10 DEF l
  <2>12. f[k].state = "ok" /\ f[k].recs = SubSeq(recs, lo(k), hi(k))
    BY <2>5, <1>5, <1>6
  <2> QED BY <2>1, <2>5, <2>11, <2>12 DEF Among
<1> QED
  BY <1>6, <1>7, <1>8, <1>9 DEF f

-----------------------------------------------------------------------------
(* What the steps do to one file and its index *)

LEMMA AmongSame ==
  ASSUME NEW f, NEW g, NEW n \in Nat, NEW m \in Nat, n <= m, \A k \in 1 .. n : f[k] = g[k],
         NEW x, Among(f, n, x)
  PROVE  Among(g, m, x)
<1>1. PICK k \in 1 .. n : f[k].state = "ok" /\ \E j \in DOMAIN f[k].recs : f[k].recs[j] = x
  BY DEF Among
<1>2. k \in 1 .. m /\ g[k] = f[k]
  OBVIOUS
<1> QED
  BY <1>1, <1>2 DEF Among

\* In a file whose last block alone can be broken every intact block can be reached.
LEMMA AllReached ==
  ASSUME NEW f \in Seq(Blocks), BrokenLast(f), NEW k \in 1 .. Len(f), f[k].state = "ok"
  PROVE  k <= Sound(f)
<1> DEFINE s == Sound(f)
           l == Len(f)
<1>1. s \in 0 .. l /\ l \in Nat /\ (s < l => f[s + 1].state # "ok") /\ DOMAIN f = 1 .. l
  BY IntactFacts
<1> HIDE DEF s, l
<1> SUFFICES ASSUME s < k PROVE FALSE
  BY <1>1 DEF s, l
<1>2. k \in 1 .. l
  BY DEF l
<1>3. s < l /\ s + 1 \in DOMAIN f
  BY <1>1, <1>2
<1>4. s + 1 = l
  BY <1>1, <1>3 DEF BrokenLast, l
<1>5. k = s + 1
  BY <1>1, <1>2, <1>4
<1> QED
  BY <1>1, <1>3, <1>5

\* A file that loses blocks at its end, none of them intact.
LEMMA Shortened ==
  ASSUME NEW f \in Seq(Blocks), NEW g \in Seq(Blocks), BrokenLast(f),
         Sound(f) <= Len(g), Len(g) <= Len(f), \A k \in 1 .. Len(g) : g[k] = f[k]
  PROVE  /\ BrokenLast(g) /\ Sound(g) = Sound(f)
         /\ \A x : Found(f, x) => Found(g, x)
         /\ \A i : RightIndex(f, i) => RightIndex(g, i)
<1> DEFINE s == Sound(f)
           n == Len(g)
           l == Len(f)
<1>1. /\ s \in 0 .. l /\ l \in Nat /\ n \in Nat /\ DOMAIN f = 1 .. l /\ DOMAIN g = 1 .. n
      /\ \A k \in 1 .. s : f[k].state = "ok"
      /\ s < l => f[s + 1].state # "ok"
  BY IntactFacts
<1>2. s <= n /\ n <= l /\ \A k \in 1 .. n : g[k] = f[k]
  OBVIOUS
<1> HIDE DEF s, n, l
<1>3. Sound(g) = s
  <2>1. s \in 0 .. Len(g) /\ \A k \in 1 .. s : g[k].state = "ok"
    BY <1>1, <1>2 DEF n
  <2>2. s = Len(g) \/ g[s + 1].state # "ok"
    <3> SUFFICES ASSUME s # n PROVE g[s + 1].state # "ok"
      BY DEF n
    <3>1. s + 1 \in 1 .. n /\ s < l
      BY <1>1, <1>2
    <3> QED BY <3>1, <1>1, <1>2
  <2> QED BY <2>1, <2>2, SoundIs
<1>4. BrokenLast(g)
  <2> SUFFICES ASSUME NEW k \in 1 .. n, k # n PROVE g[k].state = "ok"
    BY <1>1 DEF BrokenLast, n
  <2>1. k \in DOMAIN f /\ k # l
    BY <1>1, <1>2
  <2> QED BY <2>1, <1>2 DEF BrokenLast, l
<1>5. ASSUME NEW x, Found(f, x) PROVE Found(g, x)
  <2>1. s \in Nat /\ s <= s /\ \A k \in 1 .. s : f[k] = g[k]
    BY <1>1, <1>2
  <2>2. Among(f, s, x)
    BY <1>5 DEF Found, s
  <2>3. Among(g, s, x)
    BY <2>1, <2>2, AmongSame
  <2> QED BY <2>3, <1>3 DEF Found
<1>6. ASSUME NEW e, Right(f, e) PROVE Right(g, e)
  <2>1. PICK k \in 1 .. l : \E m \in DOMAIN f[k].recs : f[k].state = "ok" /\ e = Entry(f, k, m)
    BY <1>1, <1>6 DEF Right
  <2>2. PICK m \in DOMAIN f[k].recs : f[k].state = "ok" /\ e = Entry(f, k, m)
    BY <2>1
  <2>3. k <= s
    BY <2>1, <2>2, AllReached DEF s, l
  <2>4. k \in 1 .. n /\ n <= Len(f) /\ n <= Len(g) /\ \A j \in 1 .. n : f[j] = g[j]
    BY <2>3, <1>1, <1>2 DEF n, l
  <2>5. Right(g, Entry(f, k, m))
    BY <2>2, <2>4, <1>1, RightStays
  <2> QED BY <2>2, <2>5
<1>7. ASSUME NEW i, RightIndex(f, i) PROVE RightIndex(g, i)
  BY <1>6, <1>7 DEF RightIndex
<1> QED
  BY <1>3, <1>4, <1>5, <1>7 DEF s

\* A file as its writer opens it has lost at most what is broken at its end.
LEMMA ValidatedFacts ==
  ASSUME NEW f \in Seq(Blocks), NEW g \in Validated(f)
  PROVE  /\ g \in Seq(Blocks)
         /\ BrokenLast(f) => /\ BrokenLast(g)
                             /\ \A x : Found(f, x) => Found(g, x)
                             /\ \A i : RightIndex(f, i) => RightIndex(g, i)
<1> DEFINE cut == Before(f, {"torn"})
           n == Len(cut)
           t == n + 1
           b == Block(f[t].kind, "bad", f[t].recs)
<1>1. /\ cut \in Seq(Blocks)
      /\ n \in 0 .. Len(f) /\ Len(f) \in Nat /\ DOMAIN f = 1 .. Len(f)
      /\ \A k \in 1 .. n : cut[k] = f[k]
      /\ n < Len(f) => f[n + 1].state \in {"torn"}
  BY BeforeFacts
<1>2. g = cut \/ (t < Len(f) /\ g = Append(cut, b))
  BY DEF Validated
<1> HIDE DEF cut, b
<1>3. CASE g = cut
  <2>1. ASSUME BrokenLast(f) PROVE Sound(f) <= n
    <3>1. Sound(f) \in 0 .. Len(f) /\ \A k \in 1 .. Sound(f) : f[k].state = "ok"
      BY IntactFacts
    <3> DEFINE s == Sound(f)
    <3> HIDE DEF s, n
    <3> SUFFICES ASSUME n < s PROVE FALSE
      BY <3>1, <1>1 DEF s
    <3>2. n + 1 \in 1 .. s /\ n < Len(f)
      BY <3>1, <1>1 DEF s
    <3> QED BY <3>1, <3>2, <1>1 DEF s
  <2>2. n <= Len(f) /\ \A k \in 1 .. Len(g) : g[k] = f[k]
    BY <1>1, <1>3
  <2> QED BY <2>1, <2>2, <1>1, <1>3, Shortened
<1>4. CASE t < Len(f) /\ g = Append(cut, b)
  <2>1. t \in DOMAIN f /\ f[t].state = "torn" /\ t # Len(f) /\ f[t] \in Blocks
    <3>1. n \in 0 .. Len(f) /\ Len(f) \in Nat /\ n + 1 < Len(f)
      BY <1>1, <1>4
    <3>2. (n < Len(f) => f[n + 1].state \in {"torn"}) /\ DOMAIN f = 1 .. Len(f)
      BY <1>1
    <3> DEFINE l == Len(f)
    <3> HIDE DEF n, l
    <3>3. n < l /\ n + 1 \in 1 .. l /\ n + 1 # l
      BY <3>1 DEF l
    <3>4. f[n + 1].state = "torn" /\ n + 1 \in DOMAIN f /\ n + 1 # Len(f)
      BY <3>2, <3>3 DEF l
    <3>5. f[n + 1] \in Blocks
      BY <3>4
    <3> QED BY <3>4, <3>5
  <2>2. ~BrokenLast(f)
    BY <2>1 DEF BrokenLast
  <2>3. b \in Blocks
    BY <2>1 DEF b, Block, Blocks
  <2>4. g \in Seq(Blocks)
    BY <2>3, <1>1, <1>4
  <2> QED BY <2>2, <2>4
<1> QED
  BY <1>2, <1>3, <1>4

\* A file whose tail is cut.
LEMMA IntactCut ==
  ASSUME NEW f \in Seq(Blocks)
  PROVE  /\ Intact(f) \in Seq(Blocks)
         /\ BrokenLast(f) => /\ BrokenLast(Intact(f))
                             /\ \A x : Found(f, x) => Found(Intact(f), x)
                             /\ \A i : RightIndex(f, i) => RightIndex(Intact(f), i)
<1> DEFINE g == Intact(f)
<1>1. /\ g \in Seq(Blocks) /\ Len(g) = Sound(f) /\ Sound(f) \in 0 .. Len(f) /\ Len(f) \in Nat
      /\ \A k \in 1 .. Len(g) : g[k] = f[k]
  BY IntactFacts, SoundIntact
<1>2. Sound(f) <= Len(g) /\ Len(g) <= Len(f)
  BY <1>1
<1> HIDE DEF g
<1>3. ASSUME BrokenLast(f)
      PROVE  /\ BrokenLast(g)
             /\ \A x : Found(f, x) => Found(g, x)
             /\ \A i : RightIndex(f, i) => RightIndex(g, i)
  BY <1>1, <1>2, <1>3, Shortened
<1> QED
  BY <1>1, <1>3 DEF g

\* An intact file gets a block.
LEMMA Grown ==
  ASSUME NEW f \in Seq(Blocks), NEW b \in Blocks, ~HasTornTail(f)
  PROVE  LET g == Append(f, b)
         IN  /\ BrokenLast(g)
             /\ \A x : Found(f, x) => Found(g, x)
             /\ b.state = "ok" => \A x : Has(b.recs, x) => Found(g, x)
<1> DEFINE g == Append(f, b)
           l == Len(f)
<1>1. Sound(f) = l /\ l \in Nat /\ \A k \in 1 .. l : f[k].state = "ok"
  BY IntactFacts
<1>2. /\ g \in Seq(Blocks) /\ Len(g) = l + 1 /\ g[l + 1] = b
      /\ \A k \in 1 .. l : g[k] = f[k]
      /\ Sound(g) = IF b.state = "ok" THEN l + 1 ELSE l
  BY <1>1, SoundAppend
<1>3. DOMAIN g = 1 .. l + 1
  BY <1>2
<1> HIDE DEF g, l
<1>4. BrokenLast(g)
  <2> SUFFICES ASSUME NEW k \in 1 .. l + 1, k # l + 1 PROVE g[k].state = "ok"
    BY <1>2, <1>3 DEF BrokenLast
  <2>1. k \in 1 .. l
    BY <1>1
  <2> QED BY <2>1, <1>1, <1>2
<1>5. ASSUME NEW x, Found(f, x) PROVE Found(g, x)
  <2>1. Among(f, l, x)
    BY <1>1, <1>5 DEF Found
  <2>2. Sound(g) \in Nat /\ l <= Sound(g) /\ \A k \in 1 .. l : f[k] = g[k]
    BY <1>1, <1>2
  <2>3. Among(g, Sound(g), x)
    BY <2>1, <2>2, <1>1, AmongSame
  <2> QED BY <2>3 DEF Found
<1>6. ASSUME b.state = "ok", NEW x, Has(b.recs, x) PROVE Found(g, x)
  <2>1. Sound(g) = l + 1 /\ l + 1 \in 1 .. l + 1
    BY <1>1, <1>2, <1>6
  <2>2. Among(g, l + 1, x)
    BY <2>1, <1>2, <1>6 DEF Among, Has
  <2> QED BY <2>1, <2>2 DEF Found
<1> QED
  BY <1>4, <1>5, <1>6 DEF g

\* The entries that a flush writes: the first n of block b, at the end of file f.
New(f, b, n) == [m \in 1 .. n |-> Entry(Append(f, b), Len(Append(f, b)), m)]

LEMMA NewEntries ==
  ASSUME NEW f \in Seq(Blocks), NEW b \in Blocks, NEW n \in 0 .. Len(b.recs)
  PROVE  /\ New(f, b, n) \in Seq(Entries)
         /\ b.state = "ok" => \A x : Has(New(f, b, n), x) => Right(Append(f, b), x)
<1> DEFINE g == Append(f, b)
           l == Len(f)
<1>1. g \in Seq(Blocks) /\ Len(g) = l + 1 /\ l \in Nat /\ g[l + 1] = b
  OBVIOUS
<1>2. DOMAIN b.recs = 1 .. Len(b.recs) /\ Len(b.recs) \in Nat
  BY DEF Blocks
<1>3. New(f, b, n) = [m \in 1 .. n |-> Entry(g, l + 1, m)]
  BY <1>1 DEF New
<1> HIDE DEF g, l
<1>4. n \in Nat /\ \A m \in 1 .. n : m \in DOMAIN b.recs
  BY <1>2
<1>5. l + 1 \in 1 .. Len(g) /\ l + 1 \in DOMAIN g
  BY <1>1
<1>6. \A m \in 1 .. n : Entry(g, l + 1, m) \in Entries
  BY <1>1, <1>4, <1>5, EntryTyped
<1>7. New(f, b, n) \in Seq(Entries)
  BY <1>3, <1>4, <1>6
<1>8. ASSUME b.state = "ok", NEW x, Has(New(f, b, n), x) PROVE Right(g, x)
  <2>1. PICK m \in 1 .. n : x = Entry(g, l + 1, m)
    BY <1>3, <1>8 DEF Has
  <2> QED BY <2>1, <1>1, <1>4, <1>5, <1>8 DEF Right
<1> QED
  BY <1>7, <1>8 DEF g

\* The index after that, if what it says of an old one is right.
LEMMA GrownIndex ==
  ASSUME NEW f \in Seq(Blocks), NEW b \in Blocks, NEW n \in 0 .. Len(b.recs), b.state # "ok" => n = 0,
         NEW i \in Indexes, NEW part \in BOOLEAN
  PROVE  LET j == Index(i.entries \o New(f, b, n), i.malformed \/ part)
         IN  j \in Indexes /\ (RightIndex(f, i) => RightIndex(Append(f, b), j))
<1> DEFINE g == Append(f, b)
           es == New(f, b, n)
           u == i.entries \o es
           m == i.malformed \/ part
           j == Index(u, m)
<1>1. i.entries \in Seq(Entries) /\ i.malformed \in BOOLEAN
  BY DEF Indexes
<1>2. es \in Seq(Entries) /\ (b.state = "ok" => \A x : Has(es, x) => Right(g, x))
  BY NewEntries
<1>3. n = 0 => \A x : ~Has(es, x)
  BY DEF Has, New
<1> HIDE DEF es
<1>4. u \in Seq(Entries) /\ \A x : Has(u, x) <=> Has(i.entries, x) \/ Has(es, x)
  BY <1>1, <1>2, HasEither
<1> HIDE DEF u
<1>5. j \in Indexes /\ j.entries = u /\ j.malformed = m
  BY <1>1, <1>4 DEF Index, Indexes
<1>6. ASSUME RightIndex(f, i), ~m PROVE \A q \in DOMAIN u : Right(g, u[q])
  <2>1. ASSUME NEW x, Has(i.entries, x) PROVE Right(g, x)
    <3>1. Right(f, x)
      BY <1>6, <2>1 DEF RightIndex, Has
    <3> QED BY <3>1, RightGrows
  <2>2. ASSUME NEW x, Has(es, x) PROVE Right(g, x)
    BY <2>2, <1>2, <1>3
  <2>3. \A q \in DOMAIN u : Has(u, u[q])
    BY DEF Has
  <2> QED BY <2>1, <2>2, <2>3, <1>4
<1> HIDE DEF j, g
<1>7. RightIndex(f, i) => RightIndex(g, j)
  BY <1>5, <1>6 DEF RightIndex
<1> QED
  BY <1>5, <1>7 DEF j, u, es, g

LEMMA IndexGrows ==
  ASSUME NEW f \in Seq(Blocks), NEW b \in Blocks, NEW i, RightIndex(f, i)
  PROVE  RightIndex(Append(f, b), i)
BY RightGrows DEF RightIndex

-----------------------------------------------------------------------------
(* Steps that leave the files alone *)

LEMMA DateFacts ==
  ASSUME today \in Date
  PROVE  today \in Nat /\ today >= 1 /\ MaxDate \in Nat /\ 1 .. today \subseteq Date
BY RecompactionAssumption DEF Date

LEMMA RcFields ==
  ASSUME Types
  PROVE  /\ rc.pc \in {"idle", "clock", "scan"} \cup Working
         /\ rc.open \in SUBSET Date /\ rc.copied \in 0 .. today
         /\ rc.todo \in SUBSET (1 .. today - 1) /\ rc.date \in 0 .. today - 1
         /\ rc.recs \in Seq(Game) /\ rc.seg_was \in Seq(Blocks) /\ rc.idx_was \in Indexes
BY DEF Types, Recompactors, Working

LEMMA WriterFields ==
  ASSUME Types
  PROVE  /\ writer.date \in 0 .. today /\ writer.pending \in Seq(Game)
         /\ writer.seg_linked \in BOOLEAN /\ writer.idx_linked \in BOOLEAN
         /\ writer.inode \in Seq(Blocks)
BY DEF Types, Writers

LEMMA FileFields ==
  ASSUME Types, NEW d \in Date
  PROVE  segs[d] \in Seq(Blocks) /\ idxs[d] \in Indexes
BY DEF Types, Files

LEMMA NoBlocks == <<>> \in Seq(Blocks) /\ BrokenLast(<<>>)
BY DEF BrokenLast

LEMMA NoIndex == Index(<<>>, FALSE) \in Indexes
BY DEF Index, Indexes

\* The recompactor between two days, or between two cycles.
LEMMA ScanFields ==
  ASSUME today \in Date, NEW todo \in SUBSET (1 .. today - 1),
         NEW r, r = Scan(todo) \/ r = Idle
  PROVE  /\ r \in Recompactors(today)
         /\ r.pc \in {"idle", "scan"} /\ r.seg_was = <<>>
         /\ r.pc = "scan" => r.todo = todo
<1> DEFINE none == <<>>
           i == Index(<<>>, FALSE)
<1>1. Idle = [pc |-> "idle", open |-> {}, copied |-> 0, todo |-> {}, date |-> 0,
              recs |-> none, seg_was |-> none, idx_was |-> i]
  BY DEF Idle
<1>2. none \in Seq(Game) /\ none \in Seq(Blocks) /\ i \in Indexes
  <2>1. none \in Seq(Game) /\ none \in Seq(Blocks)
    OBVIOUS
  <2>2. i \in Indexes
    BY NoIndex
  <2> QED BY <2>1, <2>2
<1>3. 0 \in 0 .. today /\ 0 \in 0 .. today - 1
  BY DateFacts
<1> HIDE DEF none, i
<1>4. Idle \in Recompactors(today) /\ Idle.pc = "idle" /\ Idle.seg_was = none
  BY <1>1, <1>2, <1>3 DEF Recompactors
<1>5. Scan(todo) = [Idle EXCEPT !.pc = "scan", !.todo = todo]
  BY DEF Scan
<1>6. /\ Scan(todo) \in Recompactors(today)
      /\ Scan(todo).pc = "scan" /\ Scan(todo).todo = todo /\ Scan(todo).seg_was = none
  BY <1>4, <1>5 DEF Recompactors
<1> QED
  BY <1>4, <1>6 DEF none

LEMMA ScanKeeps ==
  ASSUME RecompactionInv, UNCHANGED <<segs, idxs, writer, today, stored, buried>>, fresh' \subseteq Date,
         straddled' \in BOOLEAN, straddled => straddled', faults' \in [Fault -> Nat],
         NEW todo \in SUBSET (1 .. today - 1),
         ~straddled' => writer.date \notin todo,
         rc' = Scan(todo) \/ rc' = Idle
  PROVE  RecompactionInv'
<1>1. Types /\ Shapes /\ Apart /\ Broken /\ Kept /\ WorkKept /\ Indexed /\ Midway
  BY DEF RecompactionInv
<1>2. /\ rc' \in Recompactors(today) /\ rc'.pc \in {"idle", "scan"} /\ rc'.seg_was = <<>>
      /\ rc'.pc = "scan" => rc'.todo = todo
  <2>1. today \in Date
    BY <1>1 DEF Types
  <2> QED BY <2>1, ScanFields
<1>3. rc'.pc \notin Working /\ rc'.pc # "clock"
  BY <1>2 DEF Working
<1>4. Types'
  BY <1>1, <1>2 DEF Types, Files
<1>5. Shapes'
  BY <1>1, <1>3 DEF Shapes
<1>6. Apart'
  BY <1>1, <1>2, <1>3 DEF Apart
<1>7. Broken'
  BY <1>1, <1>2 DEF Broken
<1>8. Kept'
  BY <1>1 DEF Kept
<1>9. WorkKept'
  BY <1>3 DEF WorkKept
<1>10. Indexed'
  BY <1>1 DEF Indexed
<1>11. Midway'
  BY <1>2 DEF Midway
<1> QED
  BY <1>4, <1>5, <1>6, <1>7, <1>8, <1>9, <1>10, <1>11 DEF RecompactionInv

LEMMA CopyOpenDatesKeeps ==
  ASSUME RecompactionInv, CopyOpenDates
  PROVE  RecompactionInv'
<1>1. Types /\ Shapes /\ Apart /\ Broken /\ Kept /\ WorkKept /\ Indexed /\ Midway
  BY DEF RecompactionInv
<1> DEFINE o == IF writer = Closed THEN {} ELSE {writer.date}
<1>2. /\ UNCHANGED <<segs, idxs, writer, today, fresh, stored, straddled, buried, faults>>
      /\ rc' = [rc EXCEPT !.pc = "clock", !.copied = today, !.open = o]
  BY DEF CopyOpenDates, disk
<1>3. today \in Nat /\ 1 .. today \subseteq Date
  BY <1>1, DateFacts DEF Types
<1>4. o \in SUBSET Date /\ writer.date \in o \cup {0}
  <2>1. writer.date \in 0 .. today
    BY <1>1, WriterFields
  <2>2. CASE writer = Closed
    BY <2>2 DEF Closed, Writer
  <2>3. CASE writer # Closed
    <3>1. writer.date # 0
      BY <2>3, <1>1 DEF Shapes
    <3>2. writer.date \in 1 .. today
      BY <3>1, <2>1, <1>3
    <3> QED BY <3>2, <2>3, <1>3
  <2> QED BY <2>2, <2>3
<1> HIDE DEF o
<1>5. /\ rc' \in Recompactors(today) /\ rc'.pc = "clock" /\ rc'.open = o /\ rc'.seg_was = rc.seg_was
  <2>1. today \in 0 .. today
    BY <1>3
  <2> QED BY <1>1, <1>2, <1>4, <2>1 DEF Types, Recompactors
<1>6. rc'.pc \notin Working
  BY <1>5 DEF Working
<1>7. Types'
  BY <1>1, <1>2, <1>5 DEF Types, Files
<1>8. Shapes'
  BY <1>1, <1>2, <1>6 DEF Shapes
<1>9. Apart'
  BY <1>1, <1>2, <1>4, <1>5, <1>6 DEF Apart
<1>10. Broken'
  BY <1>1, <1>2, <1>5 DEF Broken
<1>11. Kept' /\ WorkKept'
  BY <1>1, <1>2, <1>6 DEF Kept, WorkKept
<1>12. Indexed'
  BY <1>1, <1>2 DEF Indexed
<1>13. Midway'
  BY <1>5 DEF Midway
<1> QED
  BY <1>7, <1>8, <1>9, <1>10, <1>11, <1>12, <1>13 DEF RecompactionInv

LEMMA ReadClockKeeps ==
  ASSUME RecompactionInv, ReadClock
  PROVE  RecompactionInv'
<1>1. Types /\ Apart
  BY DEF RecompactionInv
<1> DEFINE todo == {d \in Date : Eligible(d)}
<1>2. /\ UNCHANGED <<segs, idxs, writer, today, fresh, stored, buried, faults>>
      /\ rc.pc = "clock" /\ rc' = Scan(todo) /\ straddled' = (straddled \/ rc.copied # today)
  BY DEF ReadClock, disk
<1>3. todo \in SUBSET (1 .. today - 1)
  <2>1. today \in Nat /\ MaxDate \in Nat
    BY <1>1, DateFacts DEF Types
  <2> QED BY <2>1 DEF Eligible, Date
<1>4. ASSUME ~straddled' PROVE writer.date \notin todo
  <2>1. rc.copied = today
    BY <1>2, <1>4
  <2>2. writer.date \in rc.open \cup {0} \/ writer.date >= today
    BY <1>1, <1>2, <2>1 DEF Apart
  <2>3. writer.date \in 0 .. today /\ today \in Nat
    BY <1>1, WriterFields, DateFacts DEF Types
  <2> SUFFICES ASSUME writer.date \in todo PROVE FALSE
    OBVIOUS
  <2>4. writer.date \in Date /\ writer.date < today /\ writer.date \notin rc.open
    BY DEF Eligible
  <2>5. writer.date # 0
    BY <2>4, RecompactionAssumption DEF Date
  <2> QED BY <2>2, <2>3, <2>4, <2>5
<1> HIDE DEF todo
<1>5. straddled' \in BOOLEAN /\ (straddled => straddled') /\ faults' \in [Fault -> Nat] /\ fresh' \subseteq Date
  BY <1>1, <1>2 DEF Types
<1> QED
  BY <1>2, <1>3, <1>4, <1>5, ScanKeeps

LEMMA LessToScan ==
  ASSUME RecompactionInv, NEW todo \in SUBSET rc.todo, rc.pc \notin {"idle", "clock"},
         UNCHANGED <<segs, idxs, writer, today, fresh, stored, straddled, buried>>, faults' \in [Fault -> Nat],
         rc' = Scan(todo) \/ rc' = Idle
  PROVE  RecompactionInv'
<1>1. Types /\ Apart
  BY DEF RecompactionInv
<1>2. todo \in SUBSET (1 .. today - 1)
  BY <1>1, RcFields
<1>3. ~straddled' => writer.date \notin todo
  BY <1>1 DEF Apart
<1>4. straddled' \in BOOLEAN /\ (straddled => straddled') /\ fresh' \subseteq Date
  BY <1>1 DEF Types
<1> QED
  BY <1>2, <1>3, <1>4, ScanKeeps

LEMMA EasyKeeps ==
  ASSUME RecompactionInv, EndCycle \/ Refuse \/ SyncDir \/ IoError
  PROVE  RecompactionInv'
<1>1. faults \in [Fault -> Nat]
  BY DEF RecompactionInv, Types
<1>2. CASE EndCycle
  BY <1>1, <1>2, LessToScan DEF EndCycle, disk
<1>3. CASE Refuse
  BY <1>1, <1>3, LessToScan DEF Refuse, disk
<1>4. CASE SyncDir
  BY <1>1, <1>4, LessToScan DEF SyncDir, disk
<1>5. CASE IoError
  <2>1. /\ faults' \in [Fault -> Nat] /\ rc' = Scan(rc.todo) /\ rc.pc \notin {"idle", "clock"}
        /\ UNCHANGED <<segs, idxs, writer, today, fresh, stored, straddled, buried>>
    BY <1>1, <1>5 DEF IoError, Happens, Fault, disk
  <2> QED BY <2>1, LessToScan
<1> QED
  BY <1>2, <1>3, <1>4, <1>5

LEMMA QuietHourKeeps ==
  ASSUME RecompactionInv, QuietHour
  PROVE  RecompactionInv'
<1>1. Types /\ Shapes /\ Apart /\ Broken /\ Kept /\ WorkKept /\ Indexed /\ Midway
  BY DEF RecompactionInv
<1>2. UNCHANGED <<segs, idxs, writer, today, rc, stored, straddled, buried, faults>> /\ fresh' = {}
  BY DEF QuietHour, disk
<1>3. Types' /\ Shapes'
  BY <1>1, <1>2 DEF Types, Files, Shapes
<1>4. Apart' /\ Broken'
  BY <1>1, <1>2 DEF Apart, Broken
<1>5. Kept' /\ WorkKept'
  BY <1>1, <1>2 DEF Kept, WorkKept
<1>6. Indexed'
  BY <1>1, <1>2 DEF Indexed
<1>7. Midway'
  BY <1>1, <1>2 DEF Midway
<1> QED
  BY <1>3, <1>4, <1>5, <1>6, <1>7 DEF RecompactionInv

LEMMA MidnightKeeps ==
  ASSUME RecompactionInv, Midnight
  PROVE  RecompactionInv'
<1>1. Types /\ Shapes /\ Apart /\ Broken /\ Kept /\ WorkKept /\ Indexed /\ Midway
  BY DEF RecompactionInv
<1>2. /\ UNCHANGED <<segs, idxs, writer, rc, fresh, stored, straddled, buried, faults>>
      /\ today < MaxDate /\ today' = today + 1
  BY DEF Midnight, disk
<1>3. today \in Nat /\ today >= 1 /\ MaxDate \in Nat
  BY <1>1, DateFacts DEF Types
<1>4. /\ today' \in Date
      /\ 0 .. today \subseteq 0 .. today' /\ 1 .. today \subseteq 1 .. today'
      /\ 0 .. today - 1 \subseteq 0 .. today' - 1 /\ 1 .. today - 1 \subseteq 1 .. today' - 1
  BY <1>2, <1>3 DEF Date
<1>5. Types'
  <2>1. writer \in Writers(today')
    BY <1>1, <1>4 DEF Types, Writers
  <2>2. rc \in Recompactors(today')
    BY <1>1, <1>4 DEF Types, Recompactors
  <2>3. stored \subseteq (1 .. today') \X Game
    BY <1>1, <1>4 DEF Types
  <2> QED BY <1>1, <1>2, <1>4, <2>1, <2>2, <2>3 DEF Types, Files
<1>6. Shapes'
  <2>1. writer.date # today'
    BY <1>1, <1>2, <1>3, WriterFields
  <2> QED BY <1>1, <1>2, <2>1 DEF Shapes
<1>7. Apart' /\ Broken'
  BY <1>1, <1>2 DEF Apart, Broken
<1>8. Kept' /\ WorkKept'
  BY <1>1, <1>2 DEF Kept, WorkKept
<1>9. Indexed'
  <2>1. \A d \in Date : d >= today' => d >= today
    BY <1>2, <1>3 DEF Date
  <2> QED BY <1>1, <1>2, <2>1 DEF Indexed
<1>10. Midway'
  BY <1>1, <1>2 DEF Midway
<1> QED
  BY <1>5, <1>6, <1>7, <1>8, <1>9, <1>10 DEF RecompactionInv

-----------------------------------------------------------------------------
(* The recompactor's work on a day *)

\* The day it works on is over.
LEMMA WorkDay ==
  ASSUME Types, Shapes, rc.pc \in Working
  PROVE  /\ rc.date \in Date /\ rc.date \in Nat /\ rc.date >= 1 /\ rc.date < today /\ today \in Nat
         /\ segs[rc.date] \in Seq(Blocks) /\ idxs[rc.date] \in Indexes
<1>1. today \in Nat /\ 1 .. today \subseteq Date
  BY DateFacts DEF Types
<1>2. rc.date \in 0 .. today - 1 /\ rc.date # 0
  BY RcFields DEF Shapes
<1>3. rc.date \in 1 .. today /\ rc.date \in Nat /\ rc.date >= 1 /\ rc.date < today
  BY <1>1, <1>2
<1>4. rc.date \in Date
  BY <1>1, <1>3
<1> QED
  BY <1>1, <1>3, <1>4, FileFields

\* The days are taken from those left.
LEMMA NextDateIsLeft ==
  ASSUME Types, rc.todo # {}
  PROVE  /\ NextDate \in rc.todo /\ NextDate \in Date /\ NextDate \in 1 .. today - 1
         /\ segs[NextDate] \in Seq(Blocks) /\ idxs[NextDate] \in Indexes
<1>1. today \in Nat /\ 1 .. today \subseteq Date
  BY DateFacts DEF Types
<1>2. rc.todo \in SUBSET (1 .. today - 1)
  BY RcFields
<1>3. rc.todo \in SUBSET Nat
  BY <1>2
<1>4. NextDate \in rc.todo
  BY <1>3, Smallest DEF NextDate
<1>5. NextDate \in 1 .. today - 1
  BY <1>2, <1>4
<1>6. NextDate \in Date
  BY <1>1, <1>5
<1> QED
  BY <1>4, <1>5, <1>6, FileFields

LEMMA ReadLayoutKeeps ==
  ASSUME RecompactionInv, ReadLayout
  PROVE  RecompactionInv'
<1>1. Types /\ Shapes /\ Apart /\ Broken /\ Kept /\ WorkKept /\ Indexed /\ Midway
  BY DEF RecompactionInv
<1> DEFINE d == NextDate
           f == segs[d]
           less == rc.todo \ {d}
           work == [Scan(less) EXCEPT !.date = d]
<1>2. /\ rc.pc = "scan" /\ rc.todo # {}
      /\ UNCHANGED <<segs, idxs, writer, today, fresh, stored, straddled, buried, faults>>
      /\ \/ rc' = [work EXCEPT !.pc = "truncate"]
         \/ rc' = [work EXCEPT !.pc = "rename_seg", !.recs = Records(f)]
         \/ rc' = Scan(work.todo)
  BY DEF ReadLayout, disk
<1>3. /\ d \in rc.todo /\ d \in Date /\ d \in 1 .. today - 1
      /\ segs[d] \in Seq(Blocks) /\ idxs[d] \in Indexes
  BY <1>1, <1>2, NextDateIsLeft
<1>4. today \in Date /\ today \in Nat
  BY <1>1, DateFacts DEF Types
<1>5. rc.todo \in SUBSET (1 .. today - 1)
  BY <1>1, RcFields
<1>6. /\ Scan(less) \in Recompactors(today)
      /\ Scan(less).pc = "scan" /\ Scan(less).seg_was = <<>> /\ Scan(less).todo = less
  <2>1. less \in SUBSET (1 .. today - 1)
    BY <1>5
  <2>2. Scan(less).pc = "scan"
    BY DEF Scan, Idle
  <2> HIDE DEF less
  <2> QED BY <2>1, <2>2, <1>4, ScanFields
<1> DEFINE none == <<>>
<1>7. Scan(less).seg_was = none
  BY <1>6
<1>8. d \in 0 .. today - 1 /\ d # 0
  BY <1>3
<1> HIDE DEF d, less, none
<1>10. /\ work \in Recompactors(today) /\ work.date = d /\ work.todo = less
       /\ work.seg_was = none
  BY <1>6, <1>7, <1>8 DEF Recompactors
<1> HIDE DEF work
<1>11. ~straddled => writer.date \notin rc.todo /\ writer.seg_linked /\ writer.idx_linked
  BY <1>1, <1>2 DEF Apart
<1>12. ASSUME ~straddled, d \notin buried, NEW p \in stored, p[1] = d PROVE Has(Records(f), p[2])
  <2>1. Among(f, Sound(f), p[2])
    BY <1>1, <1>12 DEF Kept, Found
  <2> QED BY <2>1, <1>3, RecordsKept
<1>13. CASE rc' = Scan(work.todo)
  <2>1. less \in SUBSET rc.todo /\ rc' = Scan(less)
    BY <1>10, <1>13 DEF less
  <2>2. faults' \in [Fault -> Nat]
    BY <1>1, <1>2 DEF Types
  <2> QED BY <2>1, <2>2, <1>2, LessToScan
<1>14. ASSUME /\ rc' \in Recompactors(today) /\ rc'.date = d /\ rc'.todo = less /\ rc'.seg_was = none
              /\ \/ rc'.pc = "truncate"
                 \/ rc'.pc = "rename_seg" /\ rc'.recs = Records(f)
       PROVE  RecompactionInv'
  <2>1. Types'
    BY <1>1, <1>2, <1>14 DEF Types, Files
  <2>2. Shapes'
    BY <1>1, <1>2, <1>8, <1>14 DEF Shapes
  <2>3. Apart'
    <3>1. ~straddled => writer.date \notin less /\ writer.date # d
      BY <1>3, <1>11 DEF less
    <3>2. rc'.pc # "clock"
      BY <1>14
    <3> QED BY <1>2, <1>11, <1>14, <3>1, <3>2 DEF Apart
  <2>4. Broken'
    BY <1>1, <1>2, <1>14 DEF Broken
  <2>5. Kept'
    BY <1>1, <1>2 DEF Kept
  <2>6. WorkKept'
    <3>1. rc'.pc \notin {"rename_idx", "sync"}
      BY <1>14
    <3>2. ASSUME ~straddled, d \notin buried, NEW p \in stored, p[1] = d, rc'.pc = "rename_seg"
          PROVE  \E j \in DOMAIN rc'.recs : rc'.recs[j] = p[2]
      <4>1. Has(Records(f), p[2])
        BY <1>12, <3>2
      <4>2. rc'.recs = Records(f)
        BY <1>14, <3>2
      <4> QED BY <4>1, <4>2 DEF Has
    <3> QED BY <1>2, <1>14, <3>1, <3>2 DEF WorkKept
  <2>7. Indexed'
    BY <1>1, <1>2 DEF Indexed
  <2>8. Midway'
    <3>1. rc'.pc \notin {"rename_idx", "sync"}
      BY <1>14
    <3> QED BY <3>1 DEF Midway
  <2> QED BY <2>1, <2>2, <2>3, <2>4, <2>5, <2>6, <2>7, <2>8 DEF RecompactionInv
<1>15. CASE rc' = [work EXCEPT !.pc = "truncate"]
  <2>1. /\ rc' \in Recompactors(today) /\ rc'.date = d /\ rc'.todo = less /\ rc'.seg_was = none
        /\ rc'.pc = "truncate"
    BY <1>10, <1>15 DEF Recompactors
  <2> QED BY <2>1, <1>14
<1>16. CASE rc' = [work EXCEPT !.pc = "rename_seg", !.recs = Records(f)]
  <2>1. Records(f) \in Seq(Game)
    BY <1>3, RecordsKept
  <2>2. /\ rc' \in Recompactors(today) /\ rc'.date = d /\ rc'.todo = less /\ rc'.seg_was = none
        /\ rc'.pc = "rename_seg" /\ rc'.recs = Records(f)
    BY <1>10, <1>16, <2>1 DEF Recompactors
  <2> QED BY <2>2, <1>14
<1> QED
  BY <1>2, <1>13, <1>15, <1>16

LEMMA TruncateTailKeeps ==
  ASSUME RecompactionInv, TruncateTail
  PROVE  RecompactionInv'
<1>1. Types /\ Shapes /\ Apart /\ Broken /\ Kept /\ WorkKept /\ Indexed /\ Midway
  BY DEF RecompactionInv
<1> DEFINE d == rc.date
           f == segs[d]
           i == idxs[d]
<1>2. /\ UNCHANGED <<idxs, writer, today, stored, straddled, buried, faults>>
      /\ rc.pc = "truncate" /\ rc' = [rc EXCEPT !.pc = "check_idx"]
      /\ segs' = [segs EXCEPT ![d] = Intact(f)]
      /\ fresh' = IF HasTornTail(f) THEN fresh \cup {d} ELSE fresh
  BY DEF TruncateTail
<1>3. rc.pc \in Working
  BY <1>2 DEF Working
<1>4. /\ d \in Date /\ d < today /\ d # 0 /\ f \in Seq(Blocks) /\ i \in Indexes
      /\ today \in Nat
  BY <1>1, <1>3, WorkDay
<1>5. /\ rc' \in Recompactors(today) /\ rc'.pc = "check_idx" /\ rc'.date = d
      /\ rc'.todo = rc.todo /\ rc'.seg_was = rc.seg_was
  BY <1>1, <1>2 DEF Types, Recompactors
<1>6. rc'.pc \in Working
  BY <1>5 DEF Working
<1>7. segs \in [Date -> Seq(Blocks)] /\ idxs \in [Date -> Indexes]
  BY <1>1 DEF Types, Files
<1>8. Intact(f) \in Seq(Blocks)
  BY <1>4, IntactFacts
<1> HIDE DEF d
<1>9. /\ segs' \in [Date -> Seq(Blocks)] /\ segs'[d] = Intact(f)
      /\ \A e \in Date : e # d => segs'[e] = segs[e]
  BY <1>2, <1>4, <1>7, <1>8
<1>10. Types'
  BY <1>1, <1>2, <1>4, <1>5, <1>9 DEF Types, Files
<1>11. Shapes'
  BY <1>1, <1>2, <1>4, <1>5 DEF Shapes
<1>12. Apart'
  BY <1>1, <1>2, <1>3, <1>5, <1>6 DEF Apart, d
<1>13. /\ d \notin buried => BrokenLast(f)
       /\ BrokenLast(f) => /\ BrokenLast(Intact(f))
                           /\ \A x : Found(f, x) => Found(Intact(f), x)
                           /\ \A k : RightIndex(f, k) => RightIndex(Intact(f), k)
  BY <1>1, <1>4, IntactCut DEF Broken
<1>14. Broken'
  <2>1. ASSUME NEW e \in Date, e \notin buried PROVE BrokenLast(segs'[e])
    BY <2>1, <1>1, <1>9, <1>13 DEF Broken
  <2> QED BY <2>1, <1>2, <1>5 DEF Broken
<1>15. Kept'
  <2> SUFFICES ASSUME ~straddled, NEW p \in stored, p[1] \notin buried PROVE Found(segs'[p[1]], p[2])
    BY <1>2 DEF Kept
  <2>1. Found(segs[p[1]], p[2]) /\ p[1] \in Date
    BY <1>1, DateFacts DEF Types, Kept
  <2>2. CASE p[1] = d
    BY <2>1, <2>2, <1>9, <1>13
  <2>3. CASE p[1] # d
    BY <2>1, <2>3, <1>9
  <2> QED BY <2>2, <2>3
<1>16. WorkKept'
  BY <1>5 DEF WorkKept
<1>17. Indexed'
  <2>1. ASSUME d \notin buried PROVE Repairable(Intact(f), i)
    <3>1. Repairable(f, i)
      BY <1>1, <1>4, <2>1 DEF Indexed
    <3>2. CASE Compacted(f)
      BY <3>1, <3>2 DEF Compacted, HasTornTail
    <3>3. CASE RightIndex(f, i)
      BY <3>3, <2>1, <1>13 DEF Repairable
    <3> QED BY <3>1, <3>2, <3>3 DEF Repairable
  <2>2. ASSUME d \notin buried, writer.date = d, writer.seg_linked, writer.pending # <<>>
        PROVE  RightIndex(Intact(f), i)
    <3>1. RightIndex(f, i)
      BY <2>2, <1>1, <1>4 DEF Indexed
    <3> QED BY <3>1, <2>2, <1>13
  <2>3. ASSUME writer.date = d, ~writer.seg_linked PROVE Compacted(Intact(f))
    <3>1. Compacted(f)
      BY <2>3, <1>1, <1>4 DEF Indexed
    <3>2. Intact(f) = f
      BY <3>1 DEF Compacted, HasTornTail
    <3> QED BY <3>1, <3>2
  <2>4. ~ (d >= today)
    BY <1>4 DEF Date
  <2>5. ASSUME NEW e \in Date
        PROVE  /\ e \notin buried => Repairable(segs'[e], idxs[e])
               /\ e \notin buried /\ e >= today => RightIndex(segs'[e], idxs[e])
               /\ e \notin buried /\ writer.date = e /\ writer.seg_linked /\ writer.pending # <<>> =>
                    RightIndex(segs'[e], idxs[e])
               /\ writer.date = e /\ ~writer.seg_linked => Compacted(segs'[e])
    <3>1. CASE e = d
      BY <3>1, <2>1, <2>2, <2>3, <2>4, <1>9
    <3>2. CASE e # d
      BY <3>2, <1>1, <1>9 DEF Indexed
    <3> QED BY <3>1, <3>2
  <2> QED BY <2>5, <1>2 DEF Indexed
<1>18. Midway'
  BY <1>5 DEF Midway
<1> QED
  BY <1>10, <1>11, <1>12, <1>14, <1>15, <1>16, <1>17, <1>18 DEF RecompactionInv

\* The writer of day d after its file got another inode.
LEMMA UnlinkFacts ==
  ASSUME Types, NEW d
  PROVE  LET w == Unlink(d, "idx_linked")
         IN  /\ w \in Writers(today)
             /\ w.date = writer.date /\ w.pending = writer.pending
             /\ w.seg_linked = writer.seg_linked
             /\ writer.date # d => w = writer
BY DEF Types, Writers, Unlink

\* A new index that is right, in the place of an old one.
LEMMA NewIdxKeeps ==
  ASSUME RecompactionInv, rc.pc \in {"check_idx", "rename_idx"},
         UNCHANGED <<segs, today, fresh, stored, straddled, buried, faults>>,
         idxs' = [idxs EXCEPT ![rc.date] = IndexOf(segs[rc.date])],
         writer' = Unlink(rc.date, "idx_linked")
  PROVE  /\ rc.date \in Date /\ idxs[rc.date] \in Indexes
         /\ Files' /\ writer' \in Writers(today)
         /\ writer'.date = writer.date /\ writer'.seg_linked = writer.seg_linked
         /\ writer'.pending = writer.pending
         /\ (writer.date = 0 => writer' = Closed)
         /\ (writer.date = today => writer'.seg_linked /\ writer'.idx_linked)
         /\ (~straddled => writer' = writer)
         /\ Kept' /\ Indexed'
<1>1. Types /\ Shapes /\ Apart /\ Broken /\ Kept /\ WorkKept /\ Indexed /\ Midway
  BY DEF RecompactionInv
<1> DEFINE d == rc.date
           f == segs[d]
<1>2. rc.pc \in Working
  BY DEF Working
<1>3. /\ d \in Date /\ d < today /\ d # 0 /\ f \in Seq(Blocks) /\ idxs[d] \in Indexes /\ today \in Nat
      /\ d \in Nat
  BY <1>1, <1>2, WorkDay
<1>4. IndexOf(f) \in Indexes /\ RightIndex(f, IndexOf(f))
  BY <1>3, IndexOfIsRight
<1>5. segs \in [Date -> Seq(Blocks)] /\ idxs \in [Date -> Indexes]
  BY <1>1 DEF Types, Files
<1> HIDE DEF d
<1>6. /\ idxs' \in [Date -> Indexes] /\ idxs'[d] = IndexOf(f)
      /\ \A e \in Date : e # d => idxs'[e] = idxs[e]
  BY <1>3, <1>4, <1>5 DEF d
<1>7. /\ writer' \in Writers(today) /\ writer'.date = writer.date /\ writer'.pending = writer.pending
      /\ writer'.seg_linked = writer.seg_linked /\ (writer.date # d => writer' = writer)
  BY <1>1, UnlinkFacts DEF d
<1>8. Files'
  BY <1>5, <1>6 DEF Files
<1>9. /\ (writer.date = 0 => writer' = Closed)
      /\ (writer.date = today => writer'.seg_linked /\ writer'.idx_linked)
      /\ (~straddled => writer' = writer)
  BY <1>1, <1>2, <1>3, <1>7 DEF Shapes, Apart, d
<1>10. Kept'
  BY <1>1 DEF Kept
<1>11. Indexed'
  <2>1. ASSUME NEW e \in Date
        PROVE  /\ e \notin buried => Repairable(segs[e], idxs'[e])
               /\ e \notin buried /\ e >= today => RightIndex(segs[e], idxs'[e])
               /\ e \notin buried /\ writer.date = e /\ writer.seg_linked /\ writer.pending # <<>> =>
                    RightIndex(segs[e], idxs'[e])
               /\ writer.date = e /\ ~writer.seg_linked => Compacted(segs[e])
    <3>1. CASE e = d
      BY <3>1, <1>1, <1>4, <1>6 DEF Indexed, Repairable
    <3>2. CASE e # d
      BY <3>2, <1>1, <1>6 DEF Indexed
    <3> QED BY <3>1, <3>2
  <2> QED BY <2>1, <1>7 DEF Indexed
<1> QED
  BY <1>3, <1>7, <1>8, <1>9, <1>10, <1>11 DEF d

LEMMA RebuildIdxKeeps ==
  ASSUME RecompactionInv, RebuildIdx
  PROVE  RecompactionInv'
<1>1. Types /\ Shapes /\ Apart /\ Broken /\ Kept /\ WorkKept /\ Indexed /\ Midway
  BY DEF RecompactionInv
<1>2. /\ rc.pc = "check_idx" /\ rc' = Scan(rc.todo)
      /\ UNCHANGED <<segs, today, fresh, stored, straddled, buried, faults>>
      /\ \/ UNCHANGED <<idxs, writer>>
         \/ /\ idxs' = [idxs EXCEPT ![rc.date] = IndexOf(segs[rc.date])]
            /\ writer' = Unlink(rc.date, "idx_linked")
  BY DEF RebuildIdx
<1>3. CASE UNCHANGED <<idxs, writer>>
  <2>1. faults' \in [Fault -> Nat] /\ rc.todo \in SUBSET rc.todo /\ rc.pc \notin {"idle", "clock"}
    BY <1>1, <1>2 DEF Types
  <2> QED BY <2>1, <1>2, <1>3, LessToScan
<1>4. CASE /\ idxs' = [idxs EXCEPT ![rc.date] = IndexOf(segs[rc.date])]
           /\ writer' = Unlink(rc.date, "idx_linked")
  <2>1. /\ Files' /\ writer' \in Writers(today)
        /\ writer'.date = writer.date /\ writer'.seg_linked = writer.seg_linked
        /\ (writer.date = 0 => writer' = Closed)
        /\ (writer.date = today => writer'.seg_linked /\ writer'.idx_linked)
        /\ (~straddled => writer' = writer)
        /\ Kept' /\ Indexed'
    BY <1>2, <1>4, NewIdxKeeps
  <2>2. rc.todo \in SUBSET (1 .. today - 1) /\ today \in Date
    BY <1>1, RcFields DEF Types
  <2>3. Scan(rc.todo).pc = "scan"
    BY DEF Scan, Idle
  <2>4. rc' \in Recompactors(today) /\ rc'.pc = "scan" /\ rc'.seg_was = <<>> /\ rc'.todo = rc.todo
    BY <1>2, <2>2, <2>3, ScanFields
  <2>5. rc'.pc \notin Working
    BY <2>4 DEF Working
  <2>6. Types'
    BY <1>1, <1>2, <2>1, <2>4 DEF Types
  <2>7. Shapes'
    BY <1>2, <2>1, <2>5 DEF Shapes
  <2>8. Apart'
    BY <1>1, <1>2, <2>1, <2>4, <2>5 DEF Apart
  <2>9. Broken'
    BY <1>1, <1>2, <2>4 DEF Broken
  <2>10. WorkKept'
    BY <2>5 DEF WorkKept
  <2>11. Midway'
    BY <2>4 DEF Midway
  <2> QED
    BY <2>1, <2>6, <2>7, <2>8, <2>9, <2>10, <2>11 DEF RecompactionInv
<1> QED
  BY <1>2, <1>3, <1>4

LEMMA RenameIdxKeeps ==
  ASSUME RecompactionInv, RenameIdx
  PROVE  RecompactionInv'
<1>1. Types /\ Shapes /\ Apart /\ Broken /\ Kept /\ WorkKept /\ Indexed /\ Midway
  BY DEF RecompactionInv
<1> DEFINE d == rc.date
<1>2. /\ rc.pc = "rename_idx" /\ rc' = [rc EXCEPT !.pc = "sync", !.idx_was = idxs[d]]
      /\ UNCHANGED <<segs, today, fresh, stored, straddled, buried, faults>>
      /\ idxs' = [idxs EXCEPT ![d] = IndexOf(Columns(rc.recs))]
      /\ writer' = Unlink(d, "idx_linked")
  BY DEF RenameIdx
<1>3. segs[d] = Columns(rc.recs)
  BY <1>1, <1>2 DEF Midway
<1>4. rc.recs \in Seq(Game)
  BY <1>1, RcFields
<1>5. Compacted(segs[d])
  BY <1>3, <1>4, ColumnsFacts
<1>6. /\ d \in Date /\ idxs[d] \in Indexes
      /\ Files' /\ writer' \in Writers(today)
      /\ writer'.date = writer.date /\ writer'.seg_linked = writer.seg_linked
      /\ (writer.date = 0 => writer' = Closed)
      /\ (writer.date = today => writer'.seg_linked /\ writer'.idx_linked)
      /\ (~straddled => writer' = writer)
      /\ Kept' /\ Indexed'
  BY <1>2, <1>3, NewIdxKeeps
<1>7. /\ rc' \in Recompactors(today) /\ rc'.pc = "sync" /\ rc'.date = d /\ rc'.todo = rc.todo
      /\ rc'.seg_was = rc.seg_was /\ rc'.idx_was = idxs[d]
  BY <1>1, <1>2, <1>6 DEF Types, Recompactors
<1>8. rc.pc \in Working /\ rc'.pc \in Working
  BY <1>2, <1>7 DEF Working
<1>9. Types'
  BY <1>1, <1>2, <1>6, <1>7 DEF Types
<1>10. Shapes'
  BY <1>1, <1>2, <1>6, <1>7, <1>8 DEF Shapes
<1>11. Apart'
  BY <1>1, <1>2, <1>6, <1>7, <1>8 DEF Apart
<1>12. Broken'
  BY <1>1, <1>2, <1>7 DEF Broken
<1>13. WorkKept'
  BY <1>1, <1>2, <1>7, <1>8 DEF WorkKept
<1>14. Midway'
  <2>1. ~straddled /\ d \notin buried => Repairable(rc.seg_was, idxs[d])
    BY <1>1, <1>2 DEF Midway
  <2>2. writer.date = d => ~writer.seg_linked
    BY <1>1, <1>2 DEF Midway
  <2> QED BY <2>1, <2>2, <1>2, <1>5, <1>6, <1>7 DEF Midway
<1> QED
  BY <1>6, <1>9, <1>10, <1>11, <1>12, <1>13, <1>14 DEF RecompactionInv

LEMMA RenameSegKeeps ==
  ASSUME RecompactionInv, RenameSeg
  PROVE  RecompactionInv'
<1>1. Types /\ Shapes /\ Apart /\ Broken /\ Kept /\ WorkKept /\ Indexed /\ Midway
  BY DEF RecompactionInv
<1> DEFINE d == rc.date
           f == segs[d]
           g == Columns(rc.recs)
<1>2. /\ rc.pc = "rename_seg" /\ rc' = [rc EXCEPT !.pc = "rename_idx", !.seg_was = f]
      /\ UNCHANGED <<idxs, today, stored, straddled, buried, faults>>
      /\ segs' = [segs EXCEPT ![d] = g]
      /\ fresh' = fresh \cup {d}
      /\ writer' = IF writer.date = d /\ writer.seg_linked
                     THEN [Unlink(d, "seg_linked") EXCEPT !.inode = f] ELSE writer
  BY DEF RenameSeg
<1>3. rc.pc \in Working
  BY <1>2 DEF Working
<1>4. d \in Date /\ d < today /\ d # 0 /\ f \in Seq(Blocks) /\ idxs[d] \in Indexes /\ today \in Nat
  BY <1>1, <1>3, WorkDay
<1>5. rc.recs \in Seq(Game)
  BY <1>1, RcFields
<1>6. /\ g \in Seq(Blocks) /\ BrokenLast(g) /\ Compacted(g)
      /\ \A x : Has(rc.recs, x) => Found(g, x)
  BY <1>5, ColumnsFacts DEF Found
<1> HIDE DEF g
<1>7. /\ writer' \in Writers(today) /\ writer'.date = writer.date /\ writer'.pending = writer.pending
      /\ (writer.date = d => ~writer'.seg_linked) /\ (writer.date # d => writer' = writer)
      /\ writer'.idx_linked = writer.idx_linked
  <2>1. CASE writer.date = d /\ writer.seg_linked
    <3>1. Unlink(d, "seg_linked") = [writer EXCEPT !.seg_linked = FALSE]
      BY <2>1 DEF Unlink
    <3>2. writer' = [[writer EXCEPT !.seg_linked = FALSE] EXCEPT !.inode = f]
      BY <1>2, <2>1, <3>1
    <3> QED BY <2>1, <3>2, <1>1, <1>4 DEF Types, Writers
  <2>2. CASE ~ (writer.date = d /\ writer.seg_linked)
    BY <2>2, <1>1, <1>2 DEF Types
  <2> QED BY <2>1, <2>2
<1>8. /\ rc' \in Recompactors(today) /\ rc'.pc = "rename_idx" /\ rc'.date = d /\ rc'.todo = rc.todo
      /\ rc'.seg_was = f /\ rc'.recs = rc.recs
  BY <1>1, <1>2, <1>4 DEF Types, Recompactors
<1>9. rc'.pc \in Working
  BY <1>8 DEF Working
<1>10. segs \in [Date -> Seq(Blocks)] /\ idxs \in [Date -> Indexes]
  BY <1>1 DEF Types, Files
<1> HIDE DEF d
<1>11. /\ segs' \in [Date -> Seq(Blocks)] /\ segs'[d] = g
       /\ \A e \in Date : e # d => segs'[e] = segs[e]
  BY <1>2, <1>4, <1>6, <1>10
<1>12. Types'
  BY <1>1, <1>2, <1>4, <1>7, <1>8, <1>10, <1>11 DEF Types, Files
<1>13. Shapes'
  BY <1>1, <1>2, <1>4, <1>7, <1>8 DEF Shapes
<1>14. Apart'
  <2>1. ~straddled => writer.date # d
    BY <1>1, <1>3 DEF Apart, d
  <2> QED BY <2>1, <1>1, <1>2, <1>7, <1>8, <1>9 DEF Apart
<1>15. Broken'
  <2>1. d \notin buried => BrokenLast(f)
    BY <1>1, <1>4 DEF Broken
  <2>2. ASSUME NEW e \in Date, e \notin buried PROVE BrokenLast(segs'[e])
    BY <2>2, <1>1, <1>6, <1>11 DEF Broken
  <2> QED BY <2>1, <2>2, <1>2, <1>8 DEF Broken
<1>16. ASSUME ~straddled, NEW p \in stored, p[1] = d, d \notin buried
       PROVE  Found(g, p[2]) /\ Found(f, p[2])
  <2>1. Has(rc.recs, p[2])
    BY <1>1, <1>2, <1>3, <1>16 DEF WorkKept, d, Has
  <2>2. Found(f, p[2])
    BY <1>1, <1>16 DEF Kept
  <2> QED BY <2>1, <2>2, <1>6
<1>17. Kept'
  <2> SUFFICES ASSUME ~straddled, NEW p \in stored, p[1] \notin buried PROVE Found(segs'[p[1]], p[2])
    BY <1>2 DEF Kept
  <2>1. CASE p[1] = d
    BY <2>1, <1>11, <1>16
  <2>2. CASE p[1] # d
    <3>1. p[1] \in Date
      BY <1>1, DateFacts DEF Types
    <3> QED BY <2>2, <3>1, <1>1, <1>11 DEF Kept
  <2> QED BY <2>1, <2>2
<1>18. WorkKept'
  BY <1>2, <1>8, <1>16 DEF WorkKept
<1>19. Indexed'
  <2>1. ASSUME NEW e \in Date
        PROVE  /\ e \notin buried => Repairable(segs'[e], idxs[e])
               /\ e \notin buried /\ e >= today => RightIndex(segs'[e], idxs[e])
               /\ e \notin buried /\ writer'.date = e /\ writer'.seg_linked /\ writer'.pending # <<>> =>
                    RightIndex(segs'[e], idxs[e])
               /\ writer'.date = e /\ ~writer'.seg_linked => Compacted(segs'[e])
    <3>1. CASE e = d
      <4>1. ~ (e >= today)
        BY <3>1, <1>4 DEF Date
      <4> QED BY <3>1, <4>1, <1>6, <1>7, <1>11 DEF Repairable
    <3>2. CASE e # d
      BY <3>2, <1>1, <1>7, <1>11 DEF Indexed
    <3> QED BY <3>1, <3>2
  <2> QED BY <2>1, <1>2 DEF Indexed
<1>20. Midway'
  <2>1. d \notin buried => Repairable(f, idxs[d])
    BY <1>1, <1>4 DEF Indexed
  <2> QED BY <2>1, <1>2, <1>7, <1>8, <1>11 DEF Midway, g
<1> QED
  BY <1>12, <1>13, <1>14, <1>15, <1>17, <1>18, <1>19, <1>20 DEF RecompactionInv

-----------------------------------------------------------------------------
(* The writer *)

\* What must hold of the files for any actors, with records P stored and days B buried.
DiskFacts(S, I, P, B) ==
  /\ S \in [Date -> Seq(Blocks)] /\ I \in [Date -> Indexes]
  /\ \A d \in Date : d \notin B =>
       /\ BrokenLast(S[d]) /\ Repairable(S[d], I[d])
       /\ d >= today => RightIndex(S[d], I[d])
  /\ ~straddled => \A p \in P : p[1] \in B \/ Found(S[p[1]], p[2])

LEMMA DiskNow ==
  ASSUME RecompactionInv
  PROVE  DiskFacts(segs, idxs, stored, buried)
BY DEF RecompactionInv, Types, Files, Broken, Indexed, Kept, DiskFacts

\* What the writer's flush has written to the files of its day, r, with records P stored.
WroteFacts(r, P) ==
  LET d == writer.date
      f == r.segs[d]
  IN  /\ r.segs \in [Date -> Seq(Blocks)] /\ r.idxs \in [Date -> Indexes]
      /\ r.inode \in Seq(Blocks) /\ r.fresh \subseteq {d} /\ r.buried \subseteq {d}
      /\ P \subseteq stored \cup ({d} \X Game)
      /\ \A e \in Date : e # d => r.segs[e] = segs[e] /\ r.idxs[e] = idxs[e]
      /\ ~writer.seg_linked => f = segs[d] /\ Compacted(f)
      /\ d \notin buried \cup r.buried =>
           /\ BrokenLast(f)
           /\ writer.seg_linked => RightIndex(f, r.idxs[d])
           /\ ~straddled => \A p \in P : p[1] = d => Found(f, p[2])

LEMMA WriterDay ==
  ASSUME Types, Shapes, writer.pending # <<>>
  PROVE  /\ writer.date \in Date /\ writer.date \in 1 .. today /\ writer.date # 0
         /\ today \in Nat /\ 1 .. today \subseteq Date
<1>1. writer.date \in 0 .. today /\ today \in Nat /\ 1 .. today \subseteq Date
  BY WriterFields, DateFacts DEF Types
<1>2. writer.date # 0
  BY DEF Shapes, Closed, Writer
<1>3. writer.date \in 1 .. today
  BY <1>1, <1>2
<1> QED
  BY <1>1, <1>2, <1>3

LEMMA WriteWorks ==
  ASSUME RecompactionInv, writer.pending # <<>>, NEW state \in {"ok", "bad", "torn"},
         NEW n \in 0 .. Len(writer.pending), NEW part \in BOOLEAN, state # "ok" => n = 0,
         NEW P, P = stored \/ (state = "ok" /\ P = stored \cup FlushedRecords(writer))
  PROVE  WroteFacts(Written(writer, state, n, part), P)
<1>1. Types /\ Shapes /\ Apart /\ Broken /\ Kept /\ Indexed
  BY DEF RecompactionInv
<1> DEFINE d == writer.date
           recs == writer.pending
           b == Block("row", state, recs)
           f == segs[d]
           i == idxs[d]
           old == IF writer.seg_linked THEN f ELSE writer.inode
           new == Append(old, b)
           es == [m \in 1 .. n |-> Entry(new, Len(new), m)]
           j == Index(i.entries \o es, i.malformed \/ part)
           r == Written(writer, state, n, part)
<1>2. /\ r.segs = IF writer.seg_linked THEN [segs EXCEPT ![d] = new] ELSE segs
      /\ r.idxs = IF writer.idx_linked
                    THEN [idxs EXCEPT ![d] = Index(@.entries \o es, @.malformed \/ part)] ELSE idxs
      /\ r.inode = IF writer.seg_linked THEN <<>> ELSE new
      /\ r.fresh = IF writer.seg_linked THEN {d} ELSE {}
      /\ r.buried = IF writer.seg_linked /\ HasTornTail(old) THEN {d} ELSE {}
  BY DEF Written
<1>3. d \in Date
  BY <1>1, WriterDay
<1>4. /\ f \in Seq(Blocks) /\ i \in Indexes
      /\ segs \in [Date -> Seq(Blocks)] /\ idxs \in [Date -> Indexes]
  BY <1>1, <1>3, FileFields DEF Types, Files
<1>5. recs \in Seq(Game) /\ writer.seg_linked \in BOOLEAN /\ writer.idx_linked \in BOOLEAN
      /\ writer.inode \in Seq(Blocks)
  BY <1>1, WriterFields
<1>6. b \in Blocks /\ b.state = state /\ b.recs = recs
  BY <1>5 DEF Block, Blocks
<1>7. P \subseteq stored \cup ({d} \X Game)
  <2>1. FlushedRecords(writer) \subseteq {d} \X Game
    BY <1>5 DEF FlushedRecords
  <2> QED BY <2>1
<1>8. ASSUME NEW p \in P, p \notin stored PROVE state = "ok" /\ p[1] = d /\ Has(recs, p[2])
  <2>1. state = "ok" /\ p \in FlushedRecords(writer)
    BY <1>8
  <2>2. PICK m \in DOMAIN recs : p = <<d, recs[m]>>
    BY <2>1 DEF FlushedRecords
  <2> QED BY <2>1, <2>2 DEF Has
<1> HIDE DEF d, recs, b, r
<1>9. old \in Seq(Blocks) /\ (writer.seg_linked => old = f /\ new = Append(f, b))
  BY <1>4, <1>5
<1>10. es = New(old, b, n) /\ n \in 0 .. Len(b.recs)
  BY <1>6 DEF New, recs
<1> HIDE DEF old, es
<1>11. new \in Seq(Blocks)
  BY <1>6, <1>9
<1>12. j \in Indexes /\ (RightIndex(old, i) => RightIndex(new, j))
  BY <1>4, <1>6, <1>9, <1>10, GrownIndex
<1> HIDE DEF new
<1>13. /\ r.segs \in [Date -> Seq(Blocks)]
       /\ r.segs[d] = (IF writer.seg_linked THEN new ELSE f)
       /\ \A e \in Date : e # d => r.segs[e] = segs[e]
  BY <1>2, <1>3, <1>4, <1>11
<1>14. /\ r.idxs \in [Date -> Indexes]
       /\ r.idxs[d] = (IF writer.idx_linked THEN j ELSE i)
       /\ \A e \in Date : e # d => r.idxs[e] = idxs[e]
  <2>1. r.idxs = IF writer.idx_linked THEN [idxs EXCEPT ![d] = j] ELSE idxs
    BY <1>2
  <2> HIDE DEF j
  <2> QED BY ONLY <2>1, <1>3, <1>4, <1>12
<1>15. r.inode \in Seq(Blocks) /\ r.fresh \subseteq {d} /\ r.buried \subseteq {d}
  BY <1>2, <1>11, NoBlocks
<1> HIDE DEF j
<1>16. CASE writer.seg_linked
  <2>1. r.segs[d] = new /\ new = Append(f, b) /\ old = f
    BY <1>9, <1>13, <1>16
  <2>2. ASSUME d \notin buried \cup r.buried
        PROVE  /\ BrokenLast(new) /\ RightIndex(new, r.idxs[d])
               /\ ~straddled => \A p \in P : p[1] = d => Found(new, p[2])
    <3>1. ~HasTornTail(f) /\ d \notin buried
      BY <2>1, <2>2, <1>2, <1>16
    <3>2. /\ BrokenLast(new) /\ \A x : Found(f, x) => Found(new, x)
          /\ state = "ok" => \A x : Has(recs, x) => Found(new, x)
      BY <3>1, <2>1, <1>4, <1>6, Grown
    <3>3. RightIndex(f, i)
      BY <3>1, <1>1, <1>3, <1>16 DEF Indexed, d
    <3>4. RightIndex(new, r.idxs[d])
      <4>1. RightIndex(new, i) /\ RightIndex(new, j)
        BY <3>3, <2>1, <1>4, <1>6, <1>12, IndexGrows
      <4> QED BY <4>1, <1>14
    <3>5. ASSUME ~straddled, NEW p \in P, p[1] = d PROVE Found(new, p[2])
      <4>1. CASE p \in stored
        BY <4>1, <3>1, <3>2, <3>5, <1>1 DEF Kept
      <4>2. CASE p \notin stored
        BY <4>2, <3>2, <1>8
      <4> QED BY <4>1, <4>2
    <3> QED BY <3>2, <3>4, <3>5
  <2> QED
    BY <2>1, <2>2, <1>7, <1>13, <1>14, <1>15, <1>16 DEF WroteFacts, d, r
<1>17. CASE ~writer.seg_linked
  <2>1. r.segs[d] = f
    BY <1>13, <1>17
  <2>2. Compacted(f) /\ (d \notin buried => BrokenLast(f))
    BY <1>1, <1>3, <1>17 DEF Broken, Indexed, d
  <2>3. straddled
    BY <1>1, <1>17 DEF Apart
  <2> QED
    BY <2>1, <2>2, <2>3, <1>7, <1>13, <1>14, <1>15, <1>17 DEF WroteFacts, d, r
<1> QED
  BY <1>5, <1>16, <1>17

LEMMA FlushWorks ==
  ASSUME RecompactionInv, writer.pending # <<>>
  PROVE  WroteFacts(Flushed(writer), stored \cup FlushedRecords(writer))
<1>1. Len(writer.pending) \in 0 .. Len(writer.pending)
  <2>1. Len(writer.pending) \in Nat
    BY WriterFields DEF RecompactionInv
  <2> QED BY <2>1
<1> QED
  BY <1>1, WriteWorks DEF Flushed

\* What is left of a flush that was cut short.
LEMMA RemainsFacts ==
  ASSUME RecompactionInv, NEW left \in FlushRemains
  PROVE  /\ writer.pending # <<>> => WroteFacts(left, stored)
         /\ writer.pending = <<>> => left = NothingFlushed
         /\ left = [segs |-> left.segs, idxs |-> left.idxs, inode |-> left.inode,
                    fresh |-> left.fresh, buried |-> left.buried]
<1>1. Types /\ Shapes /\ Apart /\ Broken /\ Kept /\ Indexed
  BY DEF RecompactionInv
<1>2. \/ left = NothingFlushed
      \/ /\ writer.pending # <<>>
         /\ \/ \E state \in {"torn", "bad"} : left = Written(writer, state, 0, FALSE)
            \/ \E n \in 0 .. Len(writer.pending) : left = Written(writer, "ok", n, FALSE)
            \/ \E n \in 0 .. Len(writer.pending) - 1 : left = Written(writer, "ok", n, TRUE)
  BY DEF FlushRemains
<1>3. CASE left = NothingFlushed
  <2>1. /\ left.segs = segs /\ left.idxs = idxs /\ left.inode = writer.inode
        /\ left.fresh = {} /\ left.buried = {}
        /\ left = [segs |-> left.segs, idxs |-> left.idxs, inode |-> left.inode,
                   fresh |-> left.fresh, buried |-> left.buried]
    BY <1>3 DEF NothingFlushed
  <2>2. ASSUME writer.pending # <<>> PROVE WroteFacts(left, stored)
    <3> DEFINE d == writer.date
    <3>1. d \in Date
      BY <2>2, <1>1, WriterDay
    <3>2. segs \in [Date -> Seq(Blocks)] /\ idxs \in [Date -> Indexes] /\ writer.inode \in Seq(Blocks)
      BY <1>1, WriterFields DEF Types, Files
    <3>3. ~writer.seg_linked => Compacted(segs[d])
      BY <3>1, <1>1 DEF Indexed
    <3>4. d \notin buried =>
            /\ BrokenLast(segs[d])
            /\ writer.seg_linked => RightIndex(segs[d], idxs[d])
            /\ ~straddled => \A p \in stored : p[1] = d => Found(segs[d], p[2])
      BY <2>2, <3>1, <1>1 DEF Indexed, Broken, Kept
    <3> QED BY <2>1, <3>2, <3>3, <3>4 DEF WroteFacts
  <2> QED BY <2>1, <2>2, <1>3
<1>4. CASE writer.pending # <<>> /\ left # NothingFlushed
  <2>1. Len(writer.pending) \in Nat
    BY <1>1, WriterFields
  <2>2. PICK state \in {"ok", "bad", "torn"}, n \in 0 .. Len(writer.pending), part \in BOOLEAN :
          (state # "ok" => n = 0) /\ left = Written(writer, state, n, part)
    <3> DEFINE l == Len(writer.pending)
    <3> HIDE DEF l
    <3>1. 0 \in 0 .. l /\ \A n \in 0 .. l - 1 : n \in 0 .. l
      BY <2>1 DEF l
    <3> QED BY <3>1, <1>2, <1>4 DEF l
  <2>3. WroteFacts(left, stored)
    BY <2>2, <1>4, WriteWorks
  <2>4. left = [segs |-> left.segs, idxs |-> left.idxs, inode |-> left.inode,
                fresh |-> left.fresh, buried |-> left.buried]
    BY <2>2 DEF Written
  <2> QED BY <2>3, <2>4, <1>4
<1> QED
  BY <1>2, <1>3, <1>4

LEMMA WroteDisk ==
  ASSUME RecompactionInv, writer.pending # <<>>, NEW r, NEW P, WroteFacts(r, P)
  PROVE  /\ DiskFacts(r.segs, r.idxs, P, buried \cup r.buried)
         /\ P \subseteq (1 .. today) \X Game
         /\ r.fresh \subseteq Date /\ buried \cup r.buried \subseteq Date
         /\ r.segs \in [Date -> Seq(Blocks)] /\ r.idxs \in [Date -> Indexes]
<1>1. Types /\ Shapes /\ Apart /\ Broken /\ Kept /\ Indexed
  BY DEF RecompactionInv
<1> DEFINE d == writer.date
           B == buried \cup r.buried
<1>2. d \in Date /\ d \in 1 .. today /\ today \in Nat /\ 1 .. today \subseteq Date
  BY <1>1, WriterDay
<1>3. /\ r.segs \in [Date -> Seq(Blocks)] /\ r.idxs \in [Date -> Indexes]
      /\ r.fresh \subseteq {d} /\ r.buried \subseteq {d} /\ P \subseteq stored \cup ({d} \X Game)
      /\ \A e \in Date : e # d => r.segs[e] = segs[e] /\ r.idxs[e] = idxs[e]
      /\ ~writer.seg_linked => Compacted(r.segs[d])
      /\ d \notin B => /\ BrokenLast(r.segs[d])
                       /\ writer.seg_linked => RightIndex(r.segs[d], r.idxs[d])
                       /\ ~straddled => \A p \in P : p[1] = d => Found(r.segs[d], p[2])
  BY DEF WroteFacts
<1>4. P \subseteq (1 .. today) \X Game /\ r.fresh \subseteq Date /\ B \subseteq Date
  BY <1>1, <1>2, <1>3 DEF Types
<1>5. writer.date = today => writer.seg_linked
  BY <1>1 DEF Shapes
<1> HIDE DEF d
<1>6. ASSUME NEW e \in Date, e \notin B
      PROVE  /\ BrokenLast(r.segs[e]) /\ Repairable(r.segs[e], r.idxs[e])
             /\ e >= today => RightIndex(r.segs[e], r.idxs[e])
  <2>1. CASE e = d
    <3>1. e >= today => writer.seg_linked
      BY <2>1, <1>2, <1>5 DEF d
    <3> QED BY <2>1, <3>1, <1>3, <1>6 DEF Repairable
  <2>2. CASE e # d
    BY <2>2, <1>1, <1>3, <1>6 DEF Broken, Indexed
  <2> QED BY <2>1, <2>2
<1>7. ASSUME ~straddled, NEW p \in P, p[1] \notin B PROVE Found(r.segs[p[1]], p[2])
  <2>1. CASE p[1] = d
    BY <2>1, <1>3, <1>7
  <2>2. CASE p[1] # d
    <3>1. p \in stored /\ p[1] \in Date
      BY <2>2, <1>2, <1>3, <1>4
    <3> QED BY <2>2, <3>1, <1>1, <1>3, <1>7 DEF Kept
  <2> QED BY <2>1, <2>2
<1> HIDE DEF B
<1>8. DiskFacts(r.segs, r.idxs, P, B)
  BY <1>3, <1>6, <1>7 DEF DiskFacts
<1> QED
  BY <1>3, <1>4, <1>8 DEF B

LEMMA TouchedFields ==
  ASSUME Types, NEW days, days \subseteq Date, Touched(days)
  PROVE  /\ fresh' \subseteq Date /\ rc' \in Recompactors(today)
         /\ rc'.pc = rc.pc /\ rc'.date = rc.date /\ rc'.open = rc.open /\ rc'.copied = rc.copied
         /\ rc'.recs = rc.recs /\ rc'.seg_was = rc.seg_was /\ rc'.idx_was = rc.idx_was
         /\ rc'.todo \subseteq rc.todo
<1>1. fresh \subseteq Date /\ rc \in Recompactors(today)
  BY DEF Types
<1>2. fresh' = fresh \cup days /\ rc' = [rc EXCEPT !.todo = @ \ days]
  BY DEF Touched
<1> QED
  BY <1>1, <1>2 DEF Recompactors

\* The flush of a writer that stays, to its end or not.
LEMMA WroteKeeps ==
  ASSUME RecompactionInv, writer.pending # <<>>, NEW r, NEW P, WroteFacts(r, P),
         segs' = r.segs, idxs' = r.idxs, stored' = P, buried' = buried \cup r.buried,
         Touched(r.fresh), UNCHANGED <<today, straddled>>, faults' \in [Fault -> Nat],
         writer' \in Writers(today), writer'.date = writer.date,
         writer'.seg_linked = writer.seg_linked, writer'.idx_linked = writer.idx_linked
  PROVE  RecompactionInv'
<1>1. Types /\ Shapes /\ Apart /\ Broken /\ Kept /\ WorkKept /\ Indexed /\ Midway
  BY DEF RecompactionInv
<1> DEFINE d == writer.date
           B == buried \cup r.buried
<1>2. /\ DiskFacts(r.segs, r.idxs, P, B)
      /\ P \subseteq (1 .. today) \X Game
      /\ r.fresh \subseteq Date /\ B \subseteq Date
      /\ r.segs \in [Date -> Seq(Blocks)] /\ r.idxs \in [Date -> Indexes]
  BY WroteDisk
<1>3. /\ P \subseteq stored \cup ({d} \X Game)
      /\ \A e \in Date : e # d => r.segs[e] = segs[e] /\ r.idxs[e] = idxs[e]
      /\ ~writer.seg_linked => r.segs[d] = segs[d] /\ Compacted(r.segs[d])
      /\ d \notin B => (writer.seg_linked => RightIndex(r.segs[d], r.idxs[d]))
  BY DEF WroteFacts
<1>4. /\ fresh' \subseteq Date /\ rc' \in Recompactors(today)
      /\ rc'.pc = rc.pc /\ rc'.date = rc.date /\ rc'.open = rc.open /\ rc'.copied = rc.copied
      /\ rc'.recs = rc.recs /\ rc'.seg_was = rc.seg_was /\ rc'.idx_was = rc.idx_was
      /\ rc'.todo \subseteq rc.todo
  BY <1>1, <1>2, TouchedFields
<1>5. d \in Date /\ d # 0
  BY <1>1, WriterDay
<1>6. buried' = B /\ buried \subseteq B
  OBVIOUS
<1> HIDE DEF d, B
<1>7. Types'
  BY <1>1, <1>2, <1>4, <1>6 DEF Types, Files
<1>8. Shapes'
  BY <1>1, <1>4, <1>5 DEF Shapes, d
<1>9. Apart'
  BY <1>1, <1>4 DEF Apart
<1>10. ASSUME NEW e \in Date, e \notin B
       PROVE  /\ BrokenLast(r.segs[e]) /\ Repairable(r.segs[e], r.idxs[e])
              /\ e >= today => RightIndex(r.segs[e], r.idxs[e])
  BY <1>2, <1>10 DEF DiskFacts
<1>11. Broken'
  <2>1. rc.pc \in {"rename_idx", "sync"} /\ rc.date \notin B => BrokenLast(rc.seg_was)
    BY <1>1, <1>6 DEF Broken
  <2> QED BY <2>1, <1>4, <1>6, <1>10 DEF Broken
<1>12. Kept'
  <2>1. ~straddled => \A p \in P : p[1] \in B \/ Found(r.segs[p[1]], p[2])
    BY <1>2 DEF DiskFacts
  <2> QED BY <2>1, <1>6 DEF Kept
<1>13. Indexed'
  <2>1. ASSUME NEW e \in Date
        PROVE  /\ e \notin B /\ d = e /\ writer.seg_linked => RightIndex(r.segs[e], r.idxs[e])
               /\ d = e /\ ~writer.seg_linked => Compacted(r.segs[e])
    BY <1>3
  <2> QED BY <2>1, <1>6, <1>10 DEF Indexed, d
<1>14. rc.pc \in Working => rc.date \in Date
  BY <1>1, WorkDay
<1>15. WorkKept'
  <2> SUFFICES ASSUME ~straddled, rc.pc \in Working, rc.date \notin B, NEW p \in P, p[1] = rc.date
               PROVE  /\ rc.pc = "rename_seg" => \E k \in DOMAIN rc.recs : rc.recs[k] = p[2]
                      /\ rc.pc \in {"rename_idx", "sync"} => Found(rc.seg_was, p[2])
    BY <1>4, <1>6 DEF WorkKept
  <2>1. rc.date # d
    BY <1>1 DEF Apart, d
  <2>2. p \in stored /\ rc.date \notin buried
    BY <2>1, <1>3, <1>6
  <2> QED BY <2>2, <1>1 DEF WorkKept
<1>16. Midway'
  <2>1. CASE rc.pc \notin {"rename_idx", "sync"}
    BY <2>1, <1>4 DEF Midway
  <2>2. CASE rc.pc \in {"rename_idx", "sync"} /\ rc.date # d
    <3>1. rc.pc \in Working
      BY <2>2 DEF Working
    <3>2. r.segs[rc.date] = segs[rc.date] /\ r.idxs[rc.date] = idxs[rc.date]
      BY <2>2, <3>1, <1>3, <1>14
    <3> QED BY <2>2, <3>2, <1>1, <1>4, <1>6 DEF Midway, d
  <2>3. CASE rc.pc \in {"rename_idx", "sync"} /\ rc.date = d
    <3>1. straddled
      BY <2>3, <1>1 DEF Apart, Working, d
    <3>2. ~writer.seg_linked
      BY <2>3, <1>1 DEF Midway, d
    <3>3. rc.pc = "rename_idx" => r.segs[d] = Columns(rc.recs)
      BY <2>3, <3>2, <1>1, <1>3 DEF Midway
    <3> QED BY <2>3, <3>1, <3>2, <3>3, <1>4 DEF Midway, d
  <2> QED BY <2>1, <2>2, <2>3
<1> QED
  BY <1>7, <1>8, <1>9, <1>11, <1>12, <1>13, <1>15, <1>16 DEF RecompactionInv

LEMMA CommitKeeps ==
  ASSUME RecompactionInv, Commit
  PROVE  RecompactionInv'
<1>1. Types
  BY DEF RecompactionInv
<1> DEFINE fl == Flushed(writer)
           P == stored \cup FlushedRecords(writer)
<1>2. /\ writer.pending # <<>> /\ segs' = fl.segs /\ idxs' = fl.idxs
      /\ writer' = [writer EXCEPT !.pending = <<>>, !.inode = fl.inode]
      /\ Touched(fl.fresh) /\ stored' = P /\ buried' = buried \cup fl.buried
      /\ UNCHANGED <<today, straddled, faults>>
  BY DEF Commit
<1>3. WroteFacts(fl, P)
  BY <1>2, FlushWorks
<1> HIDE DEF fl, P
<1>4. fl.inode \in Seq(Blocks)
  BY <1>3 DEF WroteFacts
<1>5. /\ writer' \in Writers(today) /\ writer'.date = writer.date
      /\ writer'.seg_linked = writer.seg_linked /\ writer'.idx_linked = writer.idx_linked
  <2> DEFINE none == <<>>
  <2>1. none \in Seq(Game)
    OBVIOUS
  <2>2. writer' = [writer EXCEPT !.pending = none, !.inode = fl.inode]
    BY <1>2
  <2> HIDE DEF none
  <2> QED BY <2>1, <2>2, <1>1, <1>4 DEF Types, Writers
<1>6. faults' \in [Fault -> Nat]
  BY <1>1, <1>2 DEF Types
<1> QED
  BY <1>2, <1>3, <1>5, <1>6, WroteKeeps

LEMMA FlushFailsKeeps ==
  ASSUME RecompactionInv, FlushFails
  PROVE  RecompactionInv'
<1>1. Types
  BY DEF RecompactionInv
<1>2. PICK left \in FlushRemains :
        /\ segs' = left.segs /\ idxs' = left.idxs
        /\ writer' = [writer EXCEPT !.inode = left.inode]
        /\ Touched(left.fresh) /\ buried' = buried \cup left.buried
  BY DEF FlushFails
<1>3. writer.pending # <<>> /\ UNCHANGED <<today, stored, straddled>>
  BY DEF FlushFails
<1>4. WroteFacts(left, stored)
  BY <1>3, RemainsFacts
<1>5. left.inode \in Seq(Blocks)
  BY <1>4 DEF WroteFacts
<1>6. /\ writer' \in Writers(today) /\ writer'.date = writer.date
      /\ writer'.seg_linked = writer.seg_linked /\ writer'.idx_linked = writer.idx_linked
  BY <1>1, <1>2, <1>5 DEF Types, Writers
<1>7. faults' \in [Fault -> Nat]
  BY <1>1 DEF FlushFails, Happens, Types, Fault
<1> QED
  BY <1>2, <1>3, <1>4, <1>6, <1>7, WroteKeeps

\* The flush of a writer whose day is over, or none, with records P stored after it.
RollFacts(fl, P) ==
  /\ DiskFacts(fl.segs, fl.idxs, P, buried \cup fl.buried)
  /\ fl.fresh \subseteq Date /\ fl.buried \subseteq {writer.date} /\ buried \cup fl.buried \subseteq Date
  /\ P \subseteq (1 .. today) \X Game
  /\ \A d \in Date : d # writer.date => fl.segs[d] = segs[d] /\ fl.idxs[d] = idxs[d]
  /\ rc.pc = "rename_idx" => fl.segs[rc.date] = Columns(rc.recs)
  /\ ~straddled /\ rc.pc \in Working => \A p \in P : p[1] = rc.date => p \in stored

LEMMA NoRoll ==
  ASSUME RecompactionInv
  PROVE  RollFacts(NothingFlushed, stored)
<1>1. Types /\ Midway
  BY DEF RecompactionInv
<1>2. /\ NothingFlushed.segs = segs /\ NothingFlushed.idxs = idxs
      /\ NothingFlushed.fresh = {} /\ NothingFlushed.buried = {}
  BY DEF NothingFlushed
<1>3. buried \cup NothingFlushed.buried = buried
  BY <1>2
<1>4. rc.pc = "rename_idx" => segs[rc.date] = Columns(rc.recs)
  BY <1>1 DEF Midway
<1>5. stored \subseteq (1 .. today) \X Game /\ buried \subseteq Date
  BY <1>1 DEF Types
<1> QED
  BY <1>2, <1>3, <1>4, <1>5, DiskNow DEF RollFacts

LEMMA Roll ==
  ASSUME RecompactionInv, writer.pending # <<>>
  PROVE  RollFacts(Flushed(writer), stored \cup FlushedRecords(writer))
<1>1. Types /\ Shapes /\ Apart /\ Midway
  BY DEF RecompactionInv
<1> DEFINE fl == Flushed(writer)
           P == stored \cup FlushedRecords(writer)
           d == writer.date
<1>2. WroteFacts(fl, P)
  BY FlushWorks
<1> HIDE DEF fl, P
<1>3. /\ DiskFacts(fl.segs, fl.idxs, P, buried \cup fl.buried)
      /\ P \subseteq (1 .. today) \X Game
      /\ fl.fresh \subseteq Date /\ buried \cup fl.buried \subseteq Date
  BY <1>2, WroteDisk
<1>4. /\ P \subseteq stored \cup ({d} \X Game) /\ fl.buried \subseteq {d}
      /\ \A e \in Date : e # d => fl.segs[e] = segs[e] /\ fl.idxs[e] = idxs[e]
      /\ ~writer.seg_linked => fl.segs[d] = segs[d]
  BY <1>2 DEF WroteFacts
<1>5. rc.pc = "rename_idx" => fl.segs[rc.date] = Columns(rc.recs)
  <2> SUFFICES ASSUME rc.pc = "rename_idx" PROVE fl.segs[rc.date] = Columns(rc.recs)
    OBVIOUS
  <2>1. segs[rc.date] = Columns(rc.recs) /\ (d = rc.date => ~writer.seg_linked)
    BY <1>1 DEF Midway
  <2>2. rc.date \in Date
    BY <1>1, WorkDay DEF Working
  <2> HIDE DEF d
  <2>3. CASE rc.date = d
    BY <2>1, <2>3, <1>4
  <2>4. CASE rc.date # d
    BY <2>1, <2>2, <2>4, <1>4
  <2> QED BY <2>3, <2>4
<1>6. ASSUME ~straddled, rc.pc \in Working, NEW p \in P, p[1] = rc.date PROVE p \in stored
  <2>1. rc.date # d
    BY <1>1, <1>6 DEF Apart
  <2> QED BY <2>1, <1>4, <1>6
<1> QED
  BY <1>3, <1>4, <1>5, <1>6 DEF RollFacts, fl, P, d

LEMMA NewWriter ==
  ASSUME today \in Date, NEW pending \in Seq(Game)
  PROVE  /\ [Writer(today) EXCEPT !.pending = pending] \in Writers(today)
         /\ [Writer(today) EXCEPT !.pending = pending].date = today
         /\ [Writer(today) EXCEPT !.pending = pending].pending = pending
         /\ [Writer(today) EXCEPT !.pending = pending].seg_linked
         /\ [Writer(today) EXCEPT !.pending = pending].idx_linked
<1> DEFINE none == <<>>
<1>1. none \in Seq(Game) /\ none \in Seq(Blocks)
  OBVIOUS
<1>2. today \in 0 .. today
  BY DateFacts
<1>3. Writer(today) = [date |-> today, pending |-> none, seg_linked |-> TRUE, idx_linked |-> TRUE,
                       inode |-> none]
  BY DEF Writer
<1> HIDE DEF none
<1> DEFINE w == Writer(today)
<1>4. w \in Writers(today) /\ w.date = today /\ w.seg_linked = TRUE /\ w.idx_linked = TRUE
  BY <1>1, <1>2, <1>3 DEF Writers
<1> HIDE DEF w
<1> DEFINE v == [w EXCEPT !.pending = pending]
<1>5. v \in Writers(today) /\ v.date = today /\ v.pending = pending
  BY <1>4 DEF Writers
<1>6. v.seg_linked = w.seg_linked /\ v.idx_linked = w.idx_linked
  BY <1>4 DEF Writers
<1> QED
  BY <1>4, <1>5, <1>6 DEF w

LEMMA StoreMatchKeeps ==
  ASSUME RecompactionInv, NEW g \in Game, StoreMatch(g)
  PROVE  RecompactionInv'
<1>1. Types /\ Shapes /\ Apart /\ Broken /\ Kept /\ WorkKept /\ Indexed /\ Midway
  BY DEF RecompactionInv
<1> DEFINE t == today
           rolls == writer # Closed /\ writer.date # t
           flushes == rolls /\ writer.pending # <<>>
           fl == IF flushes THEN Flushed(writer) ELSE NothingFlushed
           P == stored \cup IF flushes THEN FlushedRecords(writer) ELSE {}
           opens == writer.date # t
           B == buried \cup fl.buried
<1>2. PICK v \in IF opens THEN Validated(segs[t]) ELSE {segs[t]} :
        /\ segs' = [fl.segs EXCEPT ![t] = v]
        /\ Touched(fl.fresh \cup IF v # segs[t] THEN {t} ELSE {})
  BY DEF StoreMatch
<1>3. /\ idxs' = fl.idxs
      /\ writer' = IF opens THEN [Writer(t) EXCEPT !.pending = <<g>>]
                   ELSE [writer EXCEPT !.pending = Append(@, g)]
      /\ stored' = P /\ buried' = B
      /\ UNCHANGED <<today, straddled, faults>>
  BY DEF StoreMatch
<1>4. t \in Date /\ t \in Nat /\ 1 .. t \subseteq Date
  BY <1>1, DateFacts DEF Types
<1>5. RollFacts(fl, P)
  <2>1. CASE flushes
    BY <2>1, Roll
  <2>2. CASE ~flushes
    <3>1. P = stored /\ fl = NothingFlushed
      BY <2>2
    <3> HIDE DEF P, fl
    <3> QED BY <3>1, NoRoll
  <2> QED BY <2>1, <2>2
<1>6. ~opens => fl = NothingFlushed /\ P = stored
  OBVIOUS
<1> HIDE DEF fl, P
<1>7. /\ DiskFacts(fl.segs, fl.idxs, P, B)
      /\ fl.fresh \subseteq Date /\ B \subseteq Date /\ fl.buried \subseteq {writer.date}
      /\ P \subseteq (1 .. t) \X Game
      /\ \A d \in Date : d # writer.date => fl.segs[d] = segs[d] /\ fl.idxs[d] = idxs[d]
  BY <1>5 DEF RollFacts
<1> DEFINE days == fl.fresh \cup IF v # segs[t] THEN {t} ELSE {}
<1>8. days \subseteq Date /\ Touched(days)
  BY <1>2, <1>4, <1>7
<1> HIDE DEF days
<1>9. /\ fresh' \subseteq Date /\ rc' \in Recompactors(t)
      /\ rc'.pc = rc.pc /\ rc'.date = rc.date /\ rc'.open = rc.open /\ rc'.copied = rc.copied
      /\ rc'.recs = rc.recs /\ rc'.seg_was = rc.seg_was /\ rc'.idx_was = rc.idx_was
      /\ rc'.todo \subseteq rc.todo
  BY <1>1, <1>8, TouchedFields
<1>10. /\ rc.todo \subseteq 1 .. t - 1 /\ rc.copied \in 0 .. t
       /\ (rc.pc \in Working => rc.date \in Date /\ rc.date # t /\ rc.date # 0)
  <2>1. rc.pc \in Working => rc.date \in Date /\ rc.date < today /\ rc.date \in Nat /\ rc.date # 0
    BY <1>1, WorkDay
  <2> QED BY <2>1, <1>1, <1>4, RcFields
<1>11. buried \subseteq B
  OBVIOUS
<1>12. CASE opens
  <2>1. fl.segs[t] = segs[t] /\ fl.idxs[t] = idxs[t] /\ (t \in B => t \in buried)
    BY <1>4, <1>7, <1>12
  <2>2. segs[t] \in Seq(Blocks) /\ v \in Validated(segs[t])
    BY <1>1, <1>2, <1>4, <1>12, FileFields
  <2>3. /\ v \in Seq(Blocks)
        /\ BrokenLast(segs[t]) => /\ BrokenLast(v)
                                  /\ \A x : Found(segs[t], x) => Found(v, x)
                                  /\ \A i : RightIndex(segs[t], i) => RightIndex(v, i)
    BY <2>2, ValidatedFacts
  <2>4. t \notin B =>
          /\ BrokenLast(v) /\ RightIndex(v, idxs[t])
          /\ \A x : Found(segs[t], x) => Found(v, x)
    <3> SUFFICES ASSUME t \notin B PROVE BrokenLast(segs[t]) /\ RightIndex(segs[t], idxs[t])
      BY <2>3
    <3>1. t >= t /\ t \notin buried
      BY <1>4, <1>11
    <3> QED BY <3>1, <1>1, <1>4 DEF Broken, Indexed
  <2>5. fl.segs \in [Date -> Seq(Blocks)] /\ idxs' \in [Date -> Indexes]
    BY <1>3, <1>7 DEF DiskFacts
  <2>6. /\ segs' \in [Date -> Seq(Blocks)] /\ segs'[t] = v
        /\ \A e \in Date : e # t => segs'[e] = fl.segs[e]
    BY <1>2, <1>4, <2>3, <2>5
  <2>7. /\ writer' \in Writers(t) /\ writer'.date = t /\ writer'.seg_linked /\ writer'.idx_linked
    <3>1. <<g>> \in Seq(Game)
      OBVIOUS
    <3> QED BY <3>1, <1>3, <1>4, <1>12, NewWriter
  <2> HIDE DEF B
  <2>8. Types'
    BY <1>1, <1>3, <1>7, <1>9, <2>5, <2>6, <2>7 DEF Types, Files
  <2>9. Shapes'
    BY <1>1, <1>3, <1>4, <1>9, <2>7 DEF Shapes, Date
  <2>10. Apart'
    <3>1. t \notin rc.todo /\ t >= rc.copied
      BY <1>4, <1>10
    <3> QED BY <3>1, <1>3, <1>9, <1>10, <2>7 DEF Apart
  <2>11. ASSUME NEW e \in Date, e \notin B
         PROVE  /\ BrokenLast(segs'[e]) /\ Repairable(segs'[e], fl.idxs[e])
                /\ e >= t => RightIndex(segs'[e], fl.idxs[e])
    <3>1. CASE e = t
      BY <3>1, <2>1, <2>4, <2>6, <2>11 DEF Repairable
    <3>2. CASE e # t
      BY <3>2, <2>6, <2>11, <1>7 DEF DiskFacts
    <3> QED BY <3>1, <3>2
  <2>12. Broken'
    <3>1. rc.pc \in {"rename_idx", "sync"} /\ rc.date \notin B => BrokenLast(rc.seg_was)
      BY <1>1, <1>11 DEF Broken
    <3> QED BY <3>1, <2>11, <1>3, <1>9 DEF Broken
  <2>13. Kept'
    <3> SUFFICES ASSUME ~straddled, NEW p \in P, p[1] \notin B PROVE Found(segs'[p[1]], p[2])
      BY <1>3 DEF Kept
    <3>1. Found(fl.segs[p[1]], p[2]) /\ p[1] \in Date
      BY <1>4, <1>7 DEF DiskFacts
    <3>2. CASE p[1] = t
      BY <3>1, <3>2, <2>1, <2>4, <2>6
    <3>3. CASE p[1] # t
      BY <3>1, <3>3, <2>6
    <3> QED BY <3>2, <3>3
  <2>14. Indexed'
    <3>1. t >= t
      BY <1>4
    <3> QED BY <3>1, <2>11, <1>3, <1>4, <2>7 DEF Indexed
  <2>15. ASSUME rc.pc \in Working
         PROVE  segs'[rc.date] = fl.segs[rc.date] /\ writer'.date # rc.date
    BY <2>15, <2>6, <2>7, <1>10
  <2>16. WorkKept'
    <3> SUFFICES ASSUME ~straddled, rc.pc \in Working, rc.date \notin B, NEW p \in P, p[1] = rc.date
                 PROVE  /\ rc.pc = "rename_seg" => \E j \in DOMAIN rc.recs : rc.recs[j] = p[2]
                        /\ rc.pc \in {"rename_idx", "sync"} => Found(rc.seg_was, p[2])
      BY <1>3, <1>9 DEF WorkKept
    <3>1. p \in stored /\ rc.date \notin buried
      BY <1>5, <1>11 DEF RollFacts
    <3> QED BY <3>1, <1>1 DEF WorkKept
  <2>17. Midway'
    <3>1. CASE rc.pc \in {"rename_idx", "sync"}
      <4>1. rc.pc \in Working
        BY <3>1 DEF Working
      <4>2. segs'[rc.date] = fl.segs[rc.date] /\ writer'.date # rc.date
        BY <4>1, <2>15
      <4>3. ~straddled => segs'[rc.date] = segs[rc.date] /\ idxs'[rc.date] = idxs[rc.date]
        <5> SUFFICES ASSUME ~straddled PROVE fl.segs[rc.date] = segs[rc.date] /\ fl.idxs[rc.date] = idxs[rc.date]
          BY <4>2, <1>3
        <5>1. writer.date # rc.date
          BY <4>1, <1>1 DEF Apart
        <5> QED BY <5>1, <4>1, <1>7, <1>10
      <4>4. rc.pc = "rename_idx" => segs'[rc.date] = Columns(rc.recs)
        BY <4>2, <1>5 DEF RollFacts
      <4>5. ~straddled => /\ rc.pc = "rename_idx" /\ rc.date \notin B => Repairable(rc.seg_was, idxs'[rc.date])
                          /\ rc.pc = "sync" => Compacted(segs'[rc.date])
                          /\ rc.pc = "sync" /\ rc.date \notin B => Repairable(rc.seg_was, rc.idx_was)
        BY <4>3, <1>1, <1>11 DEF Midway
      <4> QED BY <4>2, <4>4, <4>5, <1>3, <1>9 DEF Midway
    <3>2. CASE rc.pc \notin {"rename_idx", "sync"}
      BY <3>2, <1>9 DEF Midway
    <3> QED BY <3>1, <3>2
  <2> QED
    BY <2>8, <2>9, <2>10, <2>12, <2>13, <2>14, <2>16, <2>17 DEF RecompactionInv
<1>13. CASE ~opens
  <2>1. writer.date = t /\ fl.segs = segs /\ fl.idxs = idxs /\ fl.buried = {} /\ P = stored
    BY <1>6, <1>13 DEF NothingFlushed
  <2>2. segs \in [Date -> Seq(Blocks)] /\ v = segs[t]
    BY <1>1, <1>2, <1>13 DEF Types, Files
  <2>3. /\ segs' = segs /\ idxs' = idxs /\ stored' = stored /\ buried' = buried
        /\ writer' = [writer EXCEPT !.pending = Append(@, g)]
    <3>1. segs' = [segs EXCEPT ![t] = segs[t]]
      BY <1>2, <2>1, <2>2
    <3>2. segs' = segs
      BY <3>1, <2>2, <1>4
    <3> QED BY <3>2, <2>1, <1>3, <1>13
  <2>4. /\ writer' \in Writers(t) /\ writer'.date = t
        /\ writer'.seg_linked = writer.seg_linked /\ writer'.idx_linked = writer.idx_linked
    <3> DEFINE more == Append(writer.pending, g)
    <3>1. more \in Seq(Game)
      BY <1>1, WriterFields
    <3>2. writer' = [writer EXCEPT !.pending = more]
      BY <2>3
    <3> HIDE DEF more
    <3> QED BY <3>1, <3>2, <2>1, <1>1 DEF Types, Writers
  <2>5. writer.seg_linked /\ writer.idx_linked
    BY <2>1, <1>1 DEF Shapes
  <2>6. Types'
    BY <1>1, <1>3, <1>9, <2>3, <2>4 DEF Types, Files
  <2>7. Shapes'
    <3>1. writer'.date # 0
      BY <1>4, <2>4, RecompactionAssumption DEF Date
    <3>2. writer'.seg_linked /\ writer'.idx_linked
      BY <2>4, <2>5
    <3>3. rc'.pc \in Working => rc'.date # 0
      BY <1>9, <1>10
    <3> QED BY <3>1, <3>2, <3>3 DEF Shapes
  <2>8. Apart'
    BY <1>1, <1>3, <1>9, <2>1, <2>4 DEF Apart
  <2>9. Broken' /\ Kept'
    BY <1>1, <1>3, <1>9, <2>3 DEF Broken, Kept
  <2>10. Indexed'
    <3>1. t >= t
      BY <1>4
    <3> QED BY <3>1, <1>1, <1>3, <1>4, <2>3, <2>4, <2>5 DEF Indexed
  <2>11. WorkKept'
    BY <1>1, <1>3, <1>9, <2>3 DEF WorkKept
  <2>12. Midway'
    <3>1. rc.pc \in {"rename_idx", "sync"} => writer'.date # rc.date
      BY <1>10, <2>4 DEF Working
    <3> QED BY <3>1, <1>1, <1>3, <1>9, <2>3 DEF Midway
  <2> QED
    BY <2>6, <2>7, <2>8, <2>9, <2>10, <2>11, <2>12 DEF RecompactionInv
<1> QED
  BY <1>12, <1>13

-----------------------------------------------------------------------------
(* Crashes *)

LEMMA RemainsDisk ==
  ASSUME RecompactionInv, NEW left \in FlushRemains
  PROVE  /\ DiskFacts(left.segs, left.idxs, stored, buried \cup left.buried)
         /\ left.fresh \subseteq Date /\ buried \cup left.buried \subseteq Date
         /\ \A e \in Date : e # writer.date => left.segs[e] = segs[e] /\ left.idxs[e] = idxs[e]
         /\ left = [segs |-> left.segs, idxs |-> left.idxs, inode |-> left.inode,
                    fresh |-> left.fresh, buried |-> left.buried]
<1>1. left = [segs |-> left.segs, idxs |-> left.idxs, inode |-> left.inode,
              fresh |-> left.fresh, buried |-> left.buried]
  BY RemainsFacts
<1>2. CASE writer.pending # <<>>
  <2>1. WroteFacts(left, stored)
    BY <1>2, RemainsFacts
  <2>2. \A e \in Date : e # writer.date => left.segs[e] = segs[e] /\ left.idxs[e] = idxs[e]
    BY <2>1 DEF WroteFacts
  <2>3. /\ DiskFacts(left.segs, left.idxs, stored, buried \cup left.buried)
        /\ left.fresh \subseteq Date /\ buried \cup left.buried \subseteq Date
    BY <2>1, <1>2, WroteDisk
  <2> QED BY <2>2, <2>3, <1>1
<1>3. CASE writer.pending = <<>>
  <2>1. left = NothingFlushed
    BY <1>3, RemainsFacts
  <2>2. left.segs = segs /\ left.idxs = idxs /\ left.fresh = {} /\ left.buried = {}
    BY <2>1 DEF NothingFlushed
  <2>3. buried \cup left.buried = buried /\ buried \subseteq Date
    BY <2>2 DEF RecompactionInv, Types
  <2> QED BY <2>2, <2>3, <1>1, DiskNow
<1> QED
  BY <1>2, <1>3

\* The files of a day that is over are others, and as good.
LEMMA OtherDay ==
  ASSUME today \in Date, NEW S, NEW I, NEW P, NEW B, DiskFacts(S, I, P, B), NEW d \in Date, ~ (d >= today),
         NEW f \in Seq(Blocks), NEW i \in Indexes,
         d \notin B => BrokenLast(f) /\ Repairable(f, i),
         \A p \in P : p[1] = d => d \in B \/ Found(f, p[2]),
         NEW T, T = [S EXCEPT ![d] = f], NEW J, J = [I EXCEPT ![d] = i]
  PROVE  DiskFacts(T, J, P, B)
<1>1. S \in [Date -> Seq(Blocks)] /\ I \in [Date -> Indexes]
  BY DEF DiskFacts
<1>2. T \in [Date -> Seq(Blocks)] /\ J \in [Date -> Indexes] /\ T[d] = f /\ J[d] = i
  BY <1>1
<1>3. \A e \in Date : e # d => T[e] = S[e] /\ J[e] = I[e]
  BY <1>1
<1>4. \A e : e \notin Date => T[e] = S[e] /\ J[e] = I[e]
  BY <1>1
<1>5. ASSUME NEW e \in Date, e \notin B
      PROVE  /\ BrokenLast(T[e]) /\ Repairable(T[e], J[e])
             /\ e >= today => RightIndex(T[e], J[e])
  <2>1. CASE e = d
    BY <2>1, <1>2, <1>5
  <2>2. CASE e # d
    BY <2>2, <1>3, <1>5 DEF DiskFacts
  <2> QED BY <2>1, <2>2
<1>6. ASSUME ~straddled, NEW p \in P, p[1] \notin B
      PROVE  Found(T[p[1]], p[2])
  <2>1. CASE p[1] = d
    BY <2>1, <1>2, <1>6
  <2>2. CASE p[1] # d
    <3>1. T[p[1]] = S[p[1]]
      BY <2>2, <1>3, <1>4
    <3> QED BY <3>1, <1>6 DEF DiskFacts
  <2> QED BY <2>1, <2>2
<1> QED
  BY <1>2, <1>5, <1>6 DEF DiskFacts

\* A crash that undoes renames leaves a segment with all its records, and an index
\* that fits it or is rebuilt.
LEMMA UndoneFacts ==
  ASSUME RecompactionInv, NEW flush \in FlushRemains, NEW left \in Undone(flush)
  PROVE  /\ DiskFacts(left.segs, left.idxs, stored, buried \cup left.buried)
         /\ left.fresh \subseteq Date /\ buried \cup left.buried \subseteq Date
<1>1. Types /\ Shapes /\ Apart /\ Broken /\ Kept /\ WorkKept /\ Indexed /\ Midway
  BY DEF RecompactionInv
<1>2. /\ DiskFacts(flush.segs, flush.idxs, stored, buried \cup flush.buried)
      /\ flush.fresh \subseteq Date /\ buried \cup flush.buried \subseteq Date
      /\ \A e \in Date : e # writer.date => flush.segs[e] = segs[e] /\ flush.idxs[e] = idxs[e]
      /\ flush = [segs |-> flush.segs, idxs |-> flush.idxs, inode |-> flush.inode,
                  fresh |-> flush.fresh, buried |-> flush.buried]
  BY RemainsDisk
<1> DEFINE d == rc.date
           S == flush.segs
           I == flush.idxs
           N == flush.inode
           D == flush.fresh
           C == flush.buried
           B == buried \cup flush.buried
           seg_back == [flush EXCEPT !.segs[d] = rc.seg_was]
           idx_back == [flush EXCEPT !.idxs[d] = rc.idx_was]
           both_back == [idx_back EXCEPT !.segs[d] = rc.seg_was]
<1>3. \/ left = flush
      \/ ~straddled /\ rc.pc = "rename_idx" /\ left = seg_back
      \/ ~straddled /\ rc.pc = "sync" /\ left = idx_back
      \/ ~straddled /\ rc.pc = "sync" /\ left = both_back
  BY DEF Undone
<1>4. CASE left = flush
  BY <1>2, <1>4
<1>5. CASE /\ ~straddled /\ rc.pc \in {"rename_idx", "sync"}
           /\ \/ rc.pc = "rename_idx" /\ left = seg_back
              \/ rc.pc = "sync" /\ left = idx_back
              \/ rc.pc = "sync" /\ left = both_back
  <2>1. rc.pc \in Working
    BY <1>5 DEF Working
  <2>2. /\ d \in Date /\ ~ (d >= today) /\ segs[d] \in Seq(Blocks) /\ idxs[d] \in Indexes
        /\ rc.seg_was \in Seq(Blocks) /\ rc.idx_was \in Indexes /\ today \in Date
    <3>1. d \in Date /\ d \in Nat /\ d < today /\ today \in Nat
          /\ segs[d] \in Seq(Blocks) /\ idxs[d] \in Indexes
      BY <1>1, <2>1, WorkDay
    <3>2. rc.seg_was \in Seq(Blocks) /\ rc.idx_was \in Indexes /\ today \in Date
      BY <1>1, RcFields DEF Types
    <3>3. ~ (d >= today)
      BY <3>1
    <3> QED BY <3>1, <3>2, <3>3
  <2>3. S[d] = segs[d] /\ I[d] = idxs[d]
    BY <1>1, <1>2, <1>5, <2>1, <2>2 DEF Apart
  <2>4. S \in [Date -> Seq(Blocks)] /\ I \in [Date -> Indexes]
    BY <1>2 DEF DiskFacts
  <2>5. d \notin B => BrokenLast(rc.seg_was) /\ BrokenLast(segs[d])
    BY <1>1, <1>5, <2>2 DEF Broken
  <2>6. \A p \in stored : p[1] = d => d \in B \/ (Found(segs[d], p[2]) /\ Found(rc.seg_was, p[2]))
    BY <1>1, <1>5, <2>1 DEF Kept, WorkKept
  <2>7. CASE rc.pc = "rename_idx" /\ left = seg_back
    <3> DEFINE T == [S EXCEPT ![d] = rc.seg_was]
    <3>1. left.segs = T /\ left.idxs = I /\ left.fresh = D /\ left.buried = C
      <4>1. left = [[segs |-> S, idxs |-> I, inode |-> N, fresh |-> D, buried |-> C] EXCEPT !.segs = [@ EXCEPT ![d] = rc.seg_was]]
        BY <1>2, <2>7
      <4> QED BY ONLY <4>1
    <3>2. I = [I EXCEPT ![d] = idxs[d]]
      BY <2>2, <2>3, <2>4
    <3>3. d \notin B => Repairable(rc.seg_was, idxs[d])
      BY <1>1, <1>5, <2>7 DEF Midway
    <3> HIDE DEF S, I, D, N, C, B, d
    <3>4. DiskFacts(S, I, stored, B) /\ T = [S EXCEPT ![d] = rc.seg_was]
      BY <1>2 DEF S, I, B
    <3>5. \A p \in stored : p[1] = d => d \in B \/ Found(rc.seg_was, p[2])
      BY <2>6
    <3> HIDE DEF T
    <3>6. DiskFacts(T, I, stored, B)
      BY <3>2, <3>3, <3>4, <3>5, <2>2, <2>5, OtherDay
    <3> QED BY <3>1, <3>6, <1>2 DEF D, C, B
  <2>8. CASE rc.pc = "sync" /\ left = idx_back
    <3> DEFINE J == [I EXCEPT ![d] = rc.idx_was]
    <3>1. left.segs = S /\ left.idxs = J /\ left.fresh = D /\ left.buried = C
      <4>1. left = [[segs |-> S, idxs |-> I, inode |-> N, fresh |-> D, buried |-> C] EXCEPT !.idxs = [@ EXCEPT ![d] = rc.idx_was]]
        BY <1>2, <2>8
      <4> QED BY ONLY <4>1
    <3>2. S = [S EXCEPT ![d] = segs[d]]
      BY <2>2, <2>3, <2>4
    <3>3. d \notin B => Repairable(segs[d], rc.idx_was)
      BY <1>1, <1>5, <2>8 DEF Midway, Repairable
    <3> HIDE DEF S, I, D, N, C, B, d
    <3>4. DiskFacts(S, I, stored, B) /\ J = [I EXCEPT ![d] = rc.idx_was]
      BY <1>2 DEF S, I, B
    <3>5. \A p \in stored : p[1] = d => d \in B \/ Found(segs[d], p[2])
      BY <2>6
    <3> HIDE DEF J
    <3>6. DiskFacts(S, J, stored, B)
      BY <3>2, <3>3, <3>4, <3>5, <2>2, <2>5, OtherDay
    <3> QED BY <3>1, <3>6, <1>2 DEF D, C, B
  <2>9. CASE rc.pc = "sync" /\ left = both_back
    <3> DEFINE T == [S EXCEPT ![d] = rc.seg_was]
               J == [I EXCEPT ![d] = rc.idx_was]
    <3>1. left.segs = T /\ left.idxs = J /\ left.fresh = D /\ left.buried = C
      <4>1. idx_back = [[segs |-> S, idxs |-> I, inode |-> N, fresh |-> D, buried |-> C] EXCEPT !.idxs = [@ EXCEPT ![d] = rc.idx_was]]
        BY <1>2
      <4> HIDE DEF idx_back
      <4>2. idx_back = [segs |-> S, idxs |-> J, inode |-> N, fresh |-> D, buried |-> C]
        BY ONLY <4>1
      <4>3. left = [[segs |-> S, idxs |-> J, inode |-> N, fresh |-> D, buried |-> C] EXCEPT !.segs = [@ EXCEPT ![d] = rc.seg_was]]
        BY <2>9, <4>2
      <4> QED BY ONLY <4>3
    <3>2. d \notin B => Repairable(rc.seg_was, rc.idx_was)
      BY <1>1, <1>5, <2>9 DEF Midway
    <3> HIDE DEF S, I, D, N, C, B, d
    <3>3. /\ DiskFacts(S, I, stored, B) /\ T = [S EXCEPT ![d] = rc.seg_was]
          /\ J = [I EXCEPT ![d] = rc.idx_was]
      BY <1>2 DEF S, I, B
    <3>4. \A p \in stored : p[1] = d => d \in B \/ Found(rc.seg_was, p[2])
      BY <2>6
    <3> HIDE DEF T, J
    <3>5. DiskFacts(T, J, stored, B)
      BY <3>2, <3>3, <3>4, <2>2, <2>5, OtherDay
    <3> QED BY <3>1, <3>5, <1>2 DEF D, C, B
  <2> QED BY <1>5, <2>7, <2>8, <2>9
<1> QED
  BY <1>3, <1>4, <1>5

\* A process without a writer and with an idle recompactor has only its files to
\* answer for.
Restarted ==
  /\ DiskFacts(segs, idxs, stored, buried)
  /\ writer = Closed /\ rc = Idle
  /\ today \in Date /\ fresh \subseteq Date /\ stored \subseteq (1 .. today) \X Game
  /\ straddled \in BOOLEAN /\ buried \subseteq Date /\ faults \in [Fault -> Nat]

LEMMA RestartedInv == Restarted => RecompactionInv
<1> SUFFICES ASSUME Restarted PROVE RecompactionInv
  OBVIOUS
<1>1. /\ DiskFacts(segs, idxs, stored, buried) /\ writer = Closed /\ rc = Idle
      /\ today \in Date /\ today \in Nat /\ today >= 1 /\ straddled \in BOOLEAN
      /\ stored \subseteq (1 .. today) \X Game /\ fresh \subseteq Date /\ buried \subseteq Date
      /\ faults \in [Fault -> Nat]
  BY DateFacts DEF Restarted
<1>2. rc \in Recompactors(today) /\ rc.pc = "idle" /\ rc.seg_was = <<>>
  <2>1. {} \in SUBSET (1 .. today - 1) /\ rc.pc = "idle"
    BY <1>1 DEF Idle
  <2> QED BY <2>1, <1>1, ScanFields
<1>3. /\ writer \in Writers(today) /\ writer.date = 0
      /\ writer.seg_linked = TRUE /\ writer.idx_linked = TRUE
  <2> DEFINE none == <<>>
  <2>1. none \in Seq(Game) /\ none \in Seq(Blocks)
    OBVIOUS
  <2>2. writer = [date |-> 0, pending |-> none, seg_linked |-> TRUE, idx_linked |-> TRUE, inode |-> none]
    BY <1>1 DEF Closed, Writer
  <2>3. 0 \in 0 .. today
    BY <1>1
  <2> HIDE DEF none
  <2> QED BY <2>1, <2>2, <2>3 DEF Writers
<1>4. 0 \notin Date /\ rc.pc \notin Working
  BY <1>2 DEF Working, Date
<1>5. Types
  BY <1>1, <1>2, <1>3 DEF Types, Files, DiskFacts
<1>6. Shapes
  BY <1>1, <1>3, <1>4 DEF Shapes
<1>7. Apart
  BY <1>2, <1>3, <1>4 DEF Apart
<1>8. Broken
  BY <1>1, <1>2 DEF Broken, DiskFacts
<1>9. Kept
  BY <1>1 DEF Kept, DiskFacts
<1>10. WorkKept /\ Midway
  BY <1>2, <1>4 DEF WorkKept, Midway
<1>11. Indexed
  BY <1>1, <1>3, <1>4 DEF Indexed, DiskFacts
<1> QED
  BY <1>5, <1>6, <1>7, <1>8, <1>9, <1>10, <1>11 DEF RecompactionInv

LEMMA CrashKeeps ==
  ASSUME RecompactionInv, Crash
  PROVE  RecompactionInv'
<1>1. Types
  BY DEF RecompactionInv
<1>2. PICK flush \in FlushRemains : \E left \in Undone(flush) :
        /\ segs' = left.segs /\ idxs' = left.idxs
        /\ fresh' = fresh \cup left.fresh /\ buried' = buried \cup left.buried
  BY DEF Crash
<1>3. PICK left \in Undone(flush) :
        /\ segs' = left.segs /\ idxs' = left.idxs
        /\ fresh' = fresh \cup left.fresh /\ buried' = buried \cup left.buried
  BY <1>2
<1>4. /\ DiskFacts(left.segs, left.idxs, stored, buried \cup left.buried)
      /\ left.fresh \subseteq Date /\ buried \cup left.buried \subseteq Date
  BY UndoneFacts
<1>5. UNCHANGED <<today, stored, straddled>> /\ writer' = Closed /\ rc' = Idle /\ Happens("crash")
  BY DEF Crash
<1>6. faults' \in [Fault -> Nat] /\ fresh' \subseteq Date /\ buried' \subseteq Date
  BY <1>1, <1>3, <1>4, <1>5 DEF Types, Happens, Fault
<1>7. Restarted'
  <2>1. DiskFacts(segs, idxs, stored, buried)'
    BY <1>3, <1>4, <1>5 DEF DiskFacts
  <2> QED BY <2>1, <1>1, <1>5, <1>6 DEF Restarted, Types
<1> QED
  BY <1>7, RestartedInv, PTL

-----------------------------------------------------------------------------
(* The invariant *)

LEMMA InitInv == RecompactionInit => RecompactionInv
<1> SUFFICES ASSUME RecompactionInit PROVE RecompactionInv
  OBVIOUS
<1>1. /\ segs = [d \in Date |-> <<>>] /\ idxs = [d \in Date |-> Index(<<>>, FALSE)]
      /\ writer = Closed /\ today = 1 /\ fresh = {} /\ rc = Idle /\ stored = {}
      /\ straddled = FALSE /\ buried = {} /\ faults = [k \in Fault |-> 0]
  BY DEF RecompactionInit
<1> DEFINE none == <<>>
           i == Index(<<>>, FALSE)
<1>2. none \in Seq(Blocks) /\ BrokenLast(none) /\ i \in Indexes
  BY NoBlocks, NoIndex
<1>3. RightIndex(none, i)
  <2>1. i.entries = none /\ DOMAIN none = {}
    BY DEF Index
  <2> HIDE DEF none, i
  <2> QED BY <2>1 DEF RightIndex
<1>4. segs = [d \in Date |-> none] /\ idxs = [d \in Date |-> i]
  BY <1>1
<1> HIDE DEF none, i
<1>5. segs \in [Date -> Seq(Blocks)] /\ idxs \in [Date -> Indexes]
  BY <1>2, <1>4
<1>6. \A d \in Date : segs[d] = none /\ idxs[d] = i
  BY <1>4
<1>7. DiskFacts(segs, idxs, stored, buried)
  BY <1>1, <1>2, <1>3, <1>5, <1>6 DEF DiskFacts, Repairable
<1>8. 1 \in Date
  BY RecompactionAssumption DEF Date
<1>9. Restarted
  BY <1>1, <1>7, <1>8 DEF Restarted
<1> QED
  BY <1>9, RestartedInv

LEMMA NextInv == RecompactionInv /\ [RecompactionNext]_rvars => RecompactionInv'
<1> SUFFICES ASSUME RecompactionInv, [RecompactionNext]_rvars PROVE RecompactionInv'
  OBVIOUS
<1>1. CASE \E g \in Game : StoreMatch(g)
  BY <1>1, StoreMatchKeeps
<1>2. CASE Commit
  BY <1>2, CommitKeeps
<1>9. CASE FlushFails
  BY <1>9, FlushFailsKeeps
<1>3. CASE Recompact
  <2>1. CASE CopyOpenDates
    BY <2>1, CopyOpenDatesKeeps
  <2>2. CASE ReadClock
    BY <2>2, ReadClockKeeps
  <2>3. CASE EndCycle \/ Refuse \/ SyncDir
    BY <2>3, EasyKeeps
  <2>4. CASE ReadLayout
    BY <2>4, ReadLayoutKeeps
  <2>5. CASE TruncateTail
    BY <2>5, TruncateTailKeeps
  <2>6. CASE RebuildIdx
    BY <2>6, RebuildIdxKeeps
  <2>7. CASE RenameSeg
    BY <2>7, RenameSegKeeps
  <2>8. CASE RenameIdx
    BY <2>8, RenameIdxKeeps
  <2> QED BY <1>3, <2>1, <2>2, <2>3, <2>4, <2>5, <2>6, <2>7, <2>8 DEF Recompact
<1>4. CASE IoError
  BY <1>4, EasyKeeps
<1>5. CASE Crash
  BY <1>5, CrashKeeps
<1>6. CASE Midnight
  BY <1>6, MidnightKeeps
<1>7. CASE QuietHour
  BY <1>7, QuietHourKeeps
<1>8. CASE UNCHANGED rvars
  <2>1. /\ segs' = segs /\ idxs' = idxs /\ writer' = writer /\ today' = today /\ fresh' = fresh
        /\ rc' = rc /\ stored' = stored /\ straddled' = straddled /\ buried' = buried
        /\ faults' = faults
    BY <1>8 DEF rvars, disk
  <2>2. Types' /\ Shapes' /\ Apart'
    BY <2>1 DEF RecompactionInv, Types, Files, Shapes, Apart
  <2>3. Broken' /\ Kept' /\ WorkKept'
    BY <2>1 DEF RecompactionInv, Broken, Kept, WorkKept
  <2>4. Indexed' /\ Midway'
    BY <2>1 DEF RecompactionInv, Indexed, Midway
  <2> QED BY <2>2, <2>3, <2>4 DEF RecompactionInv
<1> QED
  BY <1>1, <1>2, <1>3, <1>4, <1>5, <1>6, <1>7, <1>8, <1>9 DEF RecompactionNext

\* Whatever the writer, the recompactor, errors of either and crashes do
\* (recompact_segment and SegmentWriter in storage.rs, the cycle in main.rs), the writer
\* and the recompactor stay on different days unless a cycle straddled midnight, what the
\* recompactor replaces is what it read, and until a block is written behind a broken one
\* only the end of a segment is broken, its records are found and its index can be used
\* or rebuilt.
THEOREM RecompactionInvariant == RecompactionSafety => []RecompactionInv
<1>1. RecompactionInit => RecompactionInv
  BY InitInv
<1>2. RecompactionInv /\ [RecompactionNext]_rvars => RecompactionInv'
  BY NextInv
<1> QED
  BY <1>1, <1>2, PTL DEF RecompactionSafety

\* Segments, indexes, writer and recompactor keep their types: SegmentWriter is never
\* open on a day to come, and recompact_segment only works on days that are over.
THEOREM RecompactionTypeCorrect == RecompactionSafety => []RecompactionTypeOK
<1>1. RecompactionInv => RecompactionTypeOK
  <2> SUFFICES ASSUME RecompactionInv PROVE RecompactionTypeOK
    OBVIOUS
  <2>1. Types /\ Files
    BY DEF RecompactionInv, Types
  <2>2. ASSUME NEW d \in Date, NEW k \in DOMAIN segs[d]
        PROVE  /\ segs[d][k].kind \in {"row", "col"}
               /\ segs[d][k].state \in {"ok", "bad", "torn"}
               /\ segs[d][k].recs \in Seq(Game)
    <3>1. segs[d] \in Seq(Blocks)
      BY <2>1 DEF Files
    <3>2. segs[d][k] \in Blocks
      BY <3>1
    <3> QED BY <3>2 DEF Blocks
  <2>3. ASSUME NEW d \in Date, NEW m \in DOMAIN idxs[d].entries
        PROVE  idxs[d].entries[m].game \in Game
    <3>1. idxs[d] \in Indexes
      BY <2>1 DEF Files
    <3>2. idxs[d].entries \in Seq(Entries)
      BY <3>1 DEF Indexes
    <3>3. idxs[d].entries[m] \in Entries
      BY <3>2
    <3> QED BY <3>3 DEF Entries
  <2>4. writer.date \in 0 .. today /\ writer.pending \in Seq(Game)
    BY <2>1 DEF Types, Writers
  <2>5. rc.pc \in {"idle", "clock", "scan", "truncate", "check_idx", "rename_seg", "rename_idx", "sync"}
        /\ rc.date \in 0 .. today - 1
    BY <2>1 DEF Types, Recompactors
  <2>6. today \in Date /\ fresh \subseteq Date /\ stored \subseteq (1 .. today) \X Game
    BY <2>1 DEF Types
  <2> QED BY <2>2, <2>3, <2>4, <2>5, <2>6 DEF RecompactionTypeOK
<1> QED
  BY <1>1, RecompactionInvariant, PTL

\* A record that SegmentWriter flushed without an error is found by readers of its day
\* ever after: the two renames of recompact_segment, the tail that it truncates or that
\* open_files cuts, a failing flush and a crash between any two steps take none away,
\* unless a block was written behind a broken one, or a cycle copied the open dates
\* before midnight and read the clock after it (main.rs).
THEOREM RecordsAreKept == RecompactionSafety => []FlushedRecordsKept
<1>1. RecompactionInv => FlushedRecordsKept
  <2> SUFFICES ASSUME RecompactionInv, ~straddled, NEW p \in stored, p[1] \notin buried
               PROVE  p[2] \in Range(Records(segs[p[1]]))
    BY DEF FlushedRecordsKept
  <2>1. p[1] \in Date /\ Found(segs[p[1]], p[2])
    BY DateFacts DEF RecompactionInv, Types, Kept
  <2> DEFINE f == segs[p[1]]
  <2>2. f \in Seq(Blocks)
    BY <2>1 DEF RecompactionInv, Types, Files
  <2> HIDE DEF f
  <2>3. Has(Records(f), p[2])
    BY <2>1, <2>2, RecordsKept DEF Found, f
  <2> QED BY <2>3 DEF Has, Range, f
<1> QED
  BY <1>1, RecompactionInvariant, PTL

\* An index that parses finds the game it names, or its segment was just rewritten
\* and the next cycle rebuilds the index (ensure_idx_consistent_or_rebuild): segment
\* and index are renamed one after the other, a crash may undo one rename and keep the
\* other, and a flush may fail at any point, but no order of these leaves a wrong index
\* that stays, unless a block was written behind a broken one.
THEOREM IndexIsRepairable == RecompactionSafety => []StaleIndexIsRepairable
<1>1. RecompactionInv => StaleIndexIsRepairable
  <2> SUFFICES ASSUME RecompactionInv, NEW d \in Date, d \notin buried
               PROVE  \/ idxs[d].malformed
                      \/ \A m \in DOMAIN idxs[d].entries :
                           Lookup(segs[d], idxs[d].entries[m]) = {idxs[d].entries[m].game}
                      \/ ~HasRowBlocks(segs[d]) /\ ~HasTornTail(segs[d])
    BY DEF StaleIndexIsRepairable
  <2>1. Repairable(segs[d], idxs[d]) /\ segs[d] \in Seq(Blocks)
    BY DEF RecompactionInv, Indexed, Types, Files
  <2>2. \A m \in DOMAIN idxs[d].entries : Right(segs[d], idxs[d].entries[m]) =>
          Lookup(segs[d], idxs[d].entries[m]) = {idxs[d].entries[m].game}
    BY <2>1, RightFinds
  <2> QED BY <2>1, <2>2 DEF Repairable, RightIndex, Compacted
<1> QED
  BY <1>1, RecompactionInvariant, PTL
=============================================================================
