----------------------------- MODULE Leaderboard -----------------------------
(***************************************************************************)
(* The contribution counters of one node (NodeStats in                     *)
(* crates/server/src/stats.rs) as a record and the operators on it.        *)
(* Requests stand for both counters of a Bucket.  Time is in minutes; an   *)
(* hour is named by its index.                                             *)
(***************************************************************************)
EXTENDS Integers, FiniteSets, FiniteSetsExt, Functions

CONSTANTS
  MINUTES,        \* minutes of an hour, and slots of the minute ring
  RETAIN_HOURS    \* hour buckets kept in RAM

ASSUME LeaderboardAssumption == MINUTES \in Nat \ {0} /\ RETAIN_HOURS \in Nat \ {0}

HourOf(minute) == minute \div MINUTES

\* The sum of the counts f[x] for x in S.
SumOver(f, S) == MapThenSumSet(LAMBDA x : f[x], S \cap DOMAIN f)

\* total: all-time; minutes: the ring, with its head at minute head; hours: hour
\* to count; dirty: hours touched since the last flush.
NewNodeStats ==
  [total |-> 0, minutes |-> [s \in 0 .. MINUTES - 1 |-> 0], head |-> 0,
   hours |-> [h \in {} |-> 0], dirty |-> {}]

\* Faulty variant: only the slot the head arrives at is emptied.
AdvanceOneSlot(ns, minute) ==
  IF minute <= ns.head THEN ns
  ELSE [ns EXCEPT !.minutes[minute % MINUTES] = 0, !.head = minute]

\* advance: the head moves on and the slots it passes are emptied.
Advance(ns, minute) ==
  LET steps == Min({minute - ns.head, MINUTES})
      passed == {(ns.head + i) % MINUTES : i \in 1 .. steps}
  IN  IF minute <= ns.head THEN ns
      ELSE [ns EXCEPT !.minutes = [s \in DOMAIN ns.minutes |->
                                     IF s \in passed THEN 0 ELSE ns.minutes[s]],
                      !.head = minute]

\* record: one completed request.  Old hours are dropped when there are too many.
Recorded(ns, minute) ==
  LET a == Advance(ns, minute)
      hour == HourOf(minute)
      hours == [h \in DOMAIN a.hours \cup {hour} |->
                  SumOver(a.hours, {h}) + IF h = hour THEN 1 ELSE 0]
      young == {h \in DOMAIN hours : h >= hour - RETAIN_HOURS}
  IN  [a EXCEPT !.minutes[a.head % MINUTES] = @ + 1,
                !.hours = IF Cardinality(DOMAIN hours) > RETAIN_HOURS
                            THEN Restrict(hours, young) ELSE hours,
                !.dirty = @ \cup {hour},
                !.total = @ + 1]

\* window_m60 and window_hours
WindowM60(ns) == SumOver(ns.minutes, DOMAIN ns.minutes)
WindowHours(ns, minute, n) ==
  SumOver(ns.hours, {h \in DOMAIN ns.hours : h >= HourOf(minute) - (n - 1)})

\* load: rows is the hour to count function of a node on disk.
Load(rows, minute) ==
  IF rows = NewNodeStats.hours THEN NewNodeStats
  ELSE [NewNodeStats EXCEPT
          !.total = SumOver(rows, DOMAIN rows),
          !.hours = Restrict(rows, {h \in DOMAIN rows : h >= HourOf(minute) - RETAIN_HOURS}),
          !.head = minute]

\* take_dirty: the rows to write, with absolute counts, ...
DirtyRows(ns) == Restrict(ns.hours, ns.dirty \cap DOMAIN ns.hours)
\* ... and what is left.
Taken(ns) == [ns EXCEPT !.dirty = {}]

\* node_stats_upsert of rows into the rows there are.
Upserted(old, rows) ==
  [h \in DOMAIN old \cup DOMAIN rows |-> IF h \in DOMAIN rows THEN rows[h] ELSE old[h]]
=============================================================================
