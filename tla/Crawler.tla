------------------------------- MODULE Crawler -------------------------------
(***************************************************************************)
(* The region crawlers (crates/server/src/crawler.rs) over the frontier,   *)
(* cohort and progress tables of the store: seeding from the apex leagues, *)
(* ladder expansion, the budget brake, player visits with paging, match    *)
(* fetches and adoption, commits, shutdown, crashes and the reconciliation *)
(* and backfill of the next start.                                         *)
(*                                                                         *)
(* Time counts the games played: game g starts at time g.  One action is   *)
(* what a region's task does between two awaits, under one store lock.     *)
(***************************************************************************)
EXTENDS Frontier, Progress, Sequences

CONSTANTS
  Start,              \* the time of the first start: so many games were played before
  MaxTime,            \* bound: the games that get played
  Num,                \* Num[g]: the numeric part of g's match id
  HostOf,             \* HostOf[platform]: the routing host of its match lists
  Apex,               \* Apex[pf]: the apex leagues of pf, best first
  Ladder,             \* Ladder[pf]: its ladder bands, each a sequence of pages
  Legacy,             \* players an older version left in BUCKET_OTHER of Regions[1]
  Unusable,           \* games that are 404, unparseable or of another queue
  PAGE,               \* ids in a full page of a match list
  MATCHLIST_MAX_DEPTH, MAX_MATCH_AGE, SEED_INTERVAL, RETRY_DELAY,
  Revisit,            \* the delays rescheduling by activity can give
  BRAKE_OVERDUE_GRACE, BRAKE_ON_COUNT, BRAKE_OFF_COUNT, ADOPTION_THRESHOLD,
  None,
  MaxFaults,          \* bound: fetches and stores that fail
  MaxRestarts         \* bound: restarts, clean or by a crash

Time == Start .. MaxTime
Game == 1 .. MaxTime

ASSUME CrawlerAssumption ==
  /\ Regions # <<>> /\ Regions \in Seq(Platform)
  /\ Start \in Nat /\ Start > DEEP_VISIT_MS /\ MaxTime \in Nat /\ Start <= MaxTime
  /\ \A g \in Game : PlayersOf[g] \subseteq Player
  /\ Apex \in [Platform -> Seq(SUBSET Player)]
  /\ Ladder \in [Platform -> Seq(Seq(SUBSET Player))]
  /\ Legacy \subseteq Player
  /\ Unusable \subseteq Game
  /\ PAGE \in Nat \ {0}
  /\ MATCHLIST_MAX_DEPTH \in Nat
  /\ RETRY_DELAY \in Nat
  /\ BRAKE_OFF_COUNT < BRAKE_ON_COUNT
  /\ HISTORY_REQUIRED \in Nat \ {0}
  /\ Revisit \subseteq Nat \ {0}
  /\ None \notin Time \cup Platform

VARIABLES
  db,          \* the redb tables as the process sees them
  disk,        \* and as of the last durable commit
  seen,        \* the seen bitmaps in memory
  bitmap,      \* and in the last commit
  loop,        \* loop[pf]: where the task of region pf is, with its locals
  braked,      \* braked[pf]
  stop,
  now,
  faults, restarts,
  crashes,     \* restarts that were not clean
  asked,       \* asked[p]: when a backfill last asked for p's whole history
  left         \* members that a crash or a failed store left out of the queue

bounds == <<faults, restarts>>
history == <<crashes, asked, left>>
cvars == <<db, disk, seen, bitmap, loop, braked, stop, now, bounds, history>>

-----------------------------------------------------------------------------
(* State *)

\* loop[pf]: seed, pop, visit (a task is popped), fetch (its
\* matches are being downloaded), expand, cursor (a page is enrolled), end (before
\* the commit test), stop (before the last commit), off.
At(pf, where) == loop[pf].at = where
Goto(where) == [at |-> where]

\* The top of the while loop: it ends on the stop flag, and seeds when the last seed is
\* SEED_INTERVAL old.
Seeding == [at |-> "seed", league |-> 1, since |-> now]
NextIteration(tables, pf, stopped) ==
  CASE stopped -> Goto("stop")
    [] ~stopped /\ tables.seeded[pf] # None /\ now - tables.seeded[pf] < SEED_INTERVAL -> Goto("pop")
    [] OTHER -> Seeding

Tables0 ==
  [frontier |-> PushBatch(EmptyFrontier, Key(Regions[1], BUCKET_OTHER, 0), Legacy, NEVER),
   cohort |-> {},
   outsider |-> [p \in Player |-> 0],
   progress |-> [g \in {} |-> 0],
   samples |-> 0,
   seeded |-> [pf \in Platform |-> None],
   cursor |-> [pf \in Platform |-> <<1, 1>>]]

CrawlerInit ==
  /\ db = Tables0
  /\ disk = Tables0
  /\ seen = {}
  /\ bitmap = {}
  /\ braked = [pf \in Platform |-> FALSE]
  /\ stop = FALSE
  /\ now = Start
  /\ loop = [pf \in Platform |-> Seeding]
  /\ faults = 0 /\ restarts = 0 /\ crashes = 0
  /\ asked = [p \in Player |-> None]
  /\ left = {}

\* The tables become durable.  Only Restart reads disk: behind the last one the bound
\* allows, it is not kept up.
Durable(tables) == disk' = IF restarts < MaxRestarts THEN tables ELSE disk

\* commit: the tables, then the bitmaps.
Commit == Durable(db) /\ bitmap' = IF restarts < MaxRestarts THEN seen ELSE bitmap

Move(pf, place) == loop' = [loop EXCEPT ![pf] = place]

Fault == faults < MaxFaults /\ faults' = faults + 1

-----------------------------------------------------------------------------
(* The brake, and enrolment *)

\* update_brake
BrakeAfter(pf) ==
  LET overdue == OverdueCount(db.frontier, pf, now, BRAKE_OVERDUE_GRACE, 2 * BRAKE_ON_COUNT)
  IN  IF braked[pf] THEN overdue > BRAKE_OFF_COUNT ELSE overdue >= BRAKE_ON_COUNT

UpdateBrake(pf) == braked' = [braked EXCEPT ![pf] = BrakeAfter(pf)]

\* enroll: cohort_add_batch and frontier_push_batch under one lock.
Enrolled(pf, ps) ==
  [db EXCEPT
     !.cohort = db.cohort \cup ps,
     !.outsider = [p \in Player |-> IF p \in ps THEN 0 ELSE db.outsider[p]],
     !.frontier = PushBatch(db.frontier, Key(pf, BUCKET_PRIORITY, now), ps, NEVER)]

-----------------------------------------------------------------------------
(* The loop of a region: seeding *)

\* maybe_seed, one league: it is skipped, with the ones below it, while braked.
SeedLeague(pf) ==
  LET i == loop[pf].league
  IN  /\ At(pf, "seed")
      /\ ~stop
      /\ i <= Len(Apex[pf])
      /\ UpdateBrake(pf)
      /\ IF braked'[pf] /\ i > 1
         THEN /\ Move(pf, [loop[pf] EXCEPT !.league = Len(Apex[pf]) + 1])
              /\ UNCHANGED <<db, faults>>
         ELSE \/ /\ db' = Enrolled(pf, Apex[pf][i])
                 /\ Move(pf, [loop[pf] EXCEPT !.league = i + 1])
                 /\ UNCHANGED faults
              \/ /\ Fault
                 /\ Move(pf, NextIteration(db, pf, FALSE))
                 /\ UNCHANGED db
      /\ UNCHANGED <<disk, seen, bitmap, stop, now, restarts, history>>

\* Seeding ends: the time it began is saved, unless the process is stopping.  Then the
\* loop goes on to pop, or ends if the fetch of a league was under way and failed.
SeedDone(pf) ==
  /\ At(pf, "seed")
  /\ stop \/ loop[pf].league > Len(Apex[pf])
  /\ db' = IF loop[pf].league > Len(Apex[pf])
           THEN [db EXCEPT !.seeded[pf] = loop[pf].since] ELSE db
  /\ \/ Move(pf, Goto("pop"))
     \/ /\ loop[pf].league <= Len(Apex[pf])
        /\ Move(pf, Goto("stop"))
  /\ UNCHANGED <<disk, seen, bitmap, braked, stop, now, bounds, history>>

-----------------------------------------------------------------------------
(* A visit *)

\* Nothing due: expand.  A player who is not in the cohort is dropped.
Pop(pf) ==
  LET found == Poppable(db.frontier, pf, now)
  IN  /\ At(pf, "pop")
      /\ \/ /\ found = {}
            /\ Move(pf, Goto("expand"))
            /\ UNCHANGED db
         \/ \E e \in found :
              /\ db' = [db EXCEPT !.frontier = Popped(db.frontier, e)]
              /\ Move(pf, IF e.pid \in db.cohort
                          THEN [at |-> "visit", pid |-> e.pid, last_visit |-> e.last_visit]
                          ELSE NextIteration(db, pf, stop))
      /\ UNCHANGED <<disk, seen, bitmap, braked, stop, now, bounds, history>>

\* The match list of p on pf's routing host, newest first, as page numbers from 0: a
\* normal visit asks for the age window, a deep one for everything.
Listed(pf, p, deep) ==
  {g \in Game :
     /\ g <= now
     /\ p \in PlayersOf[g]
     /\ HostOf[PlatformOf[g]] = HostOf[pf]
     /\ deep \/ now - g < MAX_MATCH_AGE}

PageOf(list, g) == Cardinality({h \in list : h > g}) \div PAGE
PageIds(list, k) == {g \in list : PageOf(list, g) = k}

\* Page k is followed by the next: it is full, below the depth cap and, on a normal
\* visit, holds no match seen before.
GoesOn(list, k, deep) ==
  /\ Cardinality(PageIds(list, k)) = PAGE
  /\ (k + 1) * PAGE < MATCHLIST_MAX_DEPTH
  /\ ~stop
  /\ deep \/ PageIds(list, k) \cap seen = {}

\* The matches a visit downloads: the pages it reads, less other shards and seen ones.
NewIds(pf, p, deep) ==
  LET list == Listed(pf, p, deep)
      read == {k \in 0 .. Cardinality(list) : \A j \in 0 .. (k - 1) : GoesOn(list, j, deep)}
  IN  {g \in UNION {PageIds(list, k) : k \in read} : PlatformOf[g] = pf /\ g \notin seen}

\* process_player up to the downloads.  If a page cannot be fetched the task goes back
\* into the queue an hour later as it was.
ListMatches(pf) ==
  LET v == loop[pf]
      deep == v.last_visit = DEEP_VISIT_MS
  IN  /\ At(pf, "visit")
      /\ UpdateBrake(pf)
      /\ \/ /\ Move(pf, [at |-> "fetch", pid |-> v.pid, last_visit |-> v.last_visit,
                         todo |-> NewIds(pf, v.pid, deep), listed |-> now,
                         whole |-> TRUE])
            /\ UNCHANGED <<db, faults>>
         \/ /\ IF stop THEN UNCHANGED faults ELSE Fault
            /\ db' = [db EXCEPT !.frontier =
                        Push(@, Key(pf, BUCKET_PRIORITY, now + RETRY_DELAY), v.pid, v.last_visit)]
            /\ Move(pf, Goto("end"))
      /\ UNCHANGED <<disk, seen, bitmap, stop, now, restarts, history>>

\* Faulty variant: adoption does not look at the brake.
AdoptedUnbraked(g, paused) ==
  {p \in PlayersOf[g] \ db.cohort :
     g \notin DOMAIN db.progress /\ db.outsider[p] + 1 >= ADOPTION_THRESHOLD}

\* Every outsider in the match is sighted once more and, at the threshold, adopted
\* unless growth is paused.
Adopted(g, paused) ==
  {p \in PlayersOf[g] \ db.cohort :
     ~paused /\ g \notin DOMAIN db.progress /\ db.outsider[p] + 1 >= ADOPTION_THRESHOLD}

\* store_match: progress, sightings, adoption, in one transaction.
Stored(g, paused) ==
  LET progress == WithMatch(db.progress, g)
      joins == Adopted(g, paused)
      sighted == IF g \in DOMAIN db.progress THEN {} ELSE PlayersOf[g] \ db.cohort
  IN  [db EXCEPT
         !.progress = progress,
         !.samples = @ + Cardinality(NewlyValid(db.progress, progress)),
         !.cohort = @ \cup joins,
         !.outsider = [p \in Player |->
                         CASE p \in joins -> 0
                           [] p \in sighted \ joins -> db.outsider[p] + 1
                           [] OTHER -> db.outsider[p]]]

\* One download that is stored.  A date roll makes the tables durable after the match
\* is stored and before the adopted players are queued.
FetchStored(pf, g, roll) ==
  LET after == Stored(g, braked[pf])
      new == Adopted(g, braked[pf])
  IN  /\ At(pf, "fetch")
      /\ g \in loop[pf].todo \ Unusable
      /\ db' = [after EXCEPT !.frontier =
                  PushBatch(@, Key(pf, BUCKET_PRIORITY, now), new, NEVER)]
      /\ Durable(IF roll THEN after ELSE disk)
      /\ seen' = seen \cup {g}
      /\ Move(pf, [loop[pf] EXCEPT !.todo = @ \ {g}])
      /\ UNCHANGED <<bitmap, braked, stop, now, bounds, history>>

\* One whose transaction commits and whose files fail: the roll, the opening of the
\* segment or the append before the match is marked seen, the raw sample after it
\* (marked).  The error returns before the adopted players are queued.
FetchFailsLate(pf, g, roll, marked) ==
  /\ At(pf, "fetch")
  /\ g \in loop[pf].todo \ Unusable
  /\ Fault
  /\ db' = Stored(g, braked[pf])
  /\ Durable(IF roll THEN db' ELSE disk)
  /\ seen' = IF marked THEN seen \cup {g} ELSE seen
  /\ left' = left \cup Adopted(g, braked[pf])
  /\ Move(pf, [loop[pf] EXCEPT !.todo = @ \ {g}, !.whole = FALSE])
  /\ UNCHANGED <<bitmap, braked, stop, now, restarts, crashes, asked>>

\* One that never will be: it is marked seen.
FetchSkipped(pf, g) ==
  /\ At(pf, "fetch")
  /\ g \in loop[pf].todo \cap Unusable
  /\ seen' = seen \cup {g}
  /\ Move(pf, [loop[pf] EXCEPT !.todo = @ \ {g}])
  /\ UNCHANGED <<db, disk, bitmap, braked, stop, now, bounds, history>>

\* One that fails, or is not started because the process is stopping.
FetchDropped(pf, g) ==
  /\ At(pf, "fetch")
  /\ g \in loop[pf].todo
  /\ IF stop THEN UNCHANGED faults ELSE Fault
  /\ Move(pf, [loop[pf] EXCEPT !.todo = @ \ {g}, !.whole = FALSE])
  /\ UNCHANGED <<db, disk, seen, bitmap, braked, stop, now, restarts, history>>

\* Faulty variant: a deep visit that the shutdown cut short counts as done.
RescheduleForgetsDeep(pf) ==
  /\ At(pf, "fetch")
  /\ loop[pf].todo = {}
  /\ \E delay \in Revisit :
       db' = [db EXCEPT !.frontier =
                Push(@, Key(pf, BUCKET_PRIORITY, now + delay), loop[pf].pid, now)]
  /\ Move(pf, Goto("end"))
  /\ UNCHANGED <<disk, seen, bitmap, braked, stop, now, bounds, history>>

\* The end of process_player: a deep visit during shutdown keeps its marker, any other
\* visit is rescheduled by activity.
Reschedule(pf) ==
  LET v == loop[pf]
  IN  /\ At(pf, "fetch")
      /\ v.todo = {}
      /\ IF stop /\ v.last_visit = DEEP_VISIT_MS
         THEN db' = [db EXCEPT !.frontier =
                       Push(@, Key(pf, BUCKET_PRIORITY, now), v.pid, DEEP_VISIT_MS)]
         ELSE \E delay \in Revisit :
                db' = [db EXCEPT !.frontier =
                         Push(@, Key(pf, BUCKET_PRIORITY, now + delay), v.pid, now)]
      /\ Move(pf, Goto("end"))
      /\ UNCHANGED <<disk, seen, bitmap, braked, stop, now, bounds, history>>

-----------------------------------------------------------------------------
(* Expansion *)

\* Faulty variant: the cursor moves before the page is enrolled.
ExpandCursorFirst(pf) ==
  LET c == db.cursor[pf]
      ladder == Ladder[pf]
  IN  /\ At(pf, "expand")
      /\ UpdateBrake(pf)
      /\ IF braked'[pf] \/ c[1] > Len(ladder)
         THEN /\ Move(pf, Goto("end"))
              /\ UNCHANGED db
         ELSE /\ Move(pf, [at |-> "cursor", next |-> <<c[1], c[2] + 1>>])
              /\ db' = [db EXCEPT !.cursor[pf] = <<c[1], c[2] + 1>>]
      /\ UNCHANGED <<disk, seen, bitmap, stop, now, bounds, history>>

\* maybe_expand up to the enrolment.  An empty page ends the band.
ExpandPage(pf) ==
  LET c == db.cursor[pf]
      ladder == Ladder[pf]
  IN  /\ At(pf, "expand")
      /\ UpdateBrake(pf)
      /\ IF braked'[pf] \/ c[1] > Len(ladder)
         THEN /\ Move(pf, Goto("end"))
              /\ UNCHANGED <<db, faults>>
         ELSE \/ /\ c[2] <= Len(ladder[c[1]])
                 /\ db' = Enrolled(pf, ladder[c[1]][c[2]])
                 /\ Move(pf, [at |-> "cursor", next |-> <<c[1], c[2] + 1>>])
                 /\ UNCHANGED faults
              \/ /\ c[2] > Len(ladder[c[1]])
                 /\ Move(pf, [at |-> "cursor", next |-> <<c[1] + 1, 1>>])
                 /\ UNCHANGED <<db, faults>>
              \/ /\ IF stop THEN UNCHANGED faults ELSE Fault
                 /\ Move(pf, Goto(IF stop THEN "stop" ELSE "end"))
                 /\ UNCHANGED db
      /\ UNCHANGED <<disk, seen, bitmap, stop, now, restarts, history>>

SetCursor(pf) ==
  /\ At(pf, "cursor")
  /\ db' = [db EXCEPT !.cursor[pf] = loop[pf].next]
  /\ Move(pf, Goto("end"))
  /\ UNCHANGED <<disk, seen, bitmap, braked, stop, now, bounds, history>>

-----------------------------------------------------------------------------
(* Commits, the process and the clock *)

\* The end of an iteration, with a commit when one is due.
EndIteration(pf, commit) ==
  /\ At(pf, "end")
  /\ IF commit THEN Commit ELSE UNCHANGED <<disk, bitmap>>
  /\ Move(pf, NextIteration(db, pf, stop))
  /\ UNCHANGED <<db, seen, braked, stop, now, bounds, history>>

\* A durable transaction of someone else who shares the store, an enrolment of a node
\* or a date roll: every fast transaction so far becomes durable with it.
Checkpoint ==
  /\ Durable(db)
  /\ UNCHANGED <<db, seen, bitmap, loop, braked, stop, now, bounds, history>>

\* ctrl-c
Stop ==
  /\ ~stop
  /\ stop' = TRUE
  /\ UNCHANGED <<db, disk, seen, bitmap, loop, braked, now, bounds, history>>

\* The loop has ended on the flag: a last commit.
RegionStops(pf) ==
  /\ At(pf, "stop")
  /\ Commit
  /\ Move(pf, Goto("off"))
  /\ UNCHANGED <<db, seen, braked, stop, now, bounds, history>>

\* The platform a stranded member is put on: the first one with a progress record
\* under the number of the member's latest game.
HomeOf(tables, p) ==
  LET games == Timeline(tables.progress, p)
      last == CHOOSE g \in games : \A h \in games : h <= g
      found == {k \in DOMAIN Regions : \E g \in DOMAIN tables.progress :
                  PlatformOf[g] = Regions[k] /\ Num[g] = Num[last]}
  IN  IF games = {} \/ found = {} THEN None
      ELSE Regions[CHOOSE k \in found : \A l \in found : k <= l]

\* Faulty variant: the start does not look for stranded members.
StartUnreconciled(tables, backfill) ==
  LET f == tables.frontier
  IN  [tables EXCEPT !.frontier = IF backfill THEN BackfillReset(f, tables.cohort, now) ELSE f]

\* main: open, reconcile and, if asked, backfill.
Started(tables, backfill) ==
  LET f == Reconciled(tables.frontier, tables.cohort, [p \in tables.cohort |-> HomeOf(tables, p)], now)
  IN  [tables EXCEPT !.frontier = IF backfill THEN BackfillReset(f, tables.cohort, now) ELSE f]

\* The process ends, after a clean shutdown or not, and a new one starts.
Restart(backfill) ==
  LET clean == \A pf \in Platform : At(pf, "off")
  IN  /\ restarts < MaxRestarts
      /\ restarts' = restarts + 1
      /\ crashes' = crashes + IF clean THEN 0 ELSE 1
      /\ db' = Started(disk, backfill)
      /\ seen' = bitmap
      /\ loop' = [pf \in Platform |-> NextIteration(db', pf, FALSE)]
      /\ braked' = [pf \in Platform |-> FALSE]
      /\ stop' = FALSE
      /\ asked' = [p \in Player |->
                     IF \E e \in db'.frontier.entries : e.pid = p /\ e.last_visit = DEEP_VISIT_MS
                        /\ backfill
                     THEN now ELSE asked[p]]
      /\ left' = {p \in IF clean THEN left ELSE db'.cohort \ Queued(db'.frontier) :
                    Timeline(db'.progress, p) = {}}
      /\ UNCHANGED <<disk, bitmap, now, faults>>

\* A game is played.
Tick ==
  /\ now < MaxTime
  /\ now' = now + 1
  /\ UNCHANGED <<db, disk, seen, bitmap, loop, braked, stop, bounds, history>>

-----------------------------------------------------------------------------
CrawlerNext ==
  \/ \E pf \in Platform :
       \/ SeedLeague(pf)
       \/ SeedDone(pf)
       \/ Pop(pf)
       \/ ListMatches(pf)
       \/ \E g \in Game, roll \in BOOLEAN : FetchStored(pf, g, roll)
       \/ \E g \in Game, roll, marked \in BOOLEAN : FetchFailsLate(pf, g, roll, marked)
       \/ \E g \in Game : FetchSkipped(pf, g)
       \/ \E g \in Game : FetchDropped(pf, g)
       \/ Reschedule(pf)
       \/ ExpandPage(pf)
       \/ SetCursor(pf)
       \/ \E commit \in BOOLEAN : EndIteration(pf, commit)
       \/ RegionStops(pf)
  \/ Checkpoint
  \/ Stop
  \/ \E backfill \in BOOLEAN : Restart(backfill)
  \/ Tick

CrawlerSpec == CrawlerInit /\ [][CrawlerNext]_cvars

-----------------------------------------------------------------------------
(* Properties *)

\* A progress record: a count per participant.
Row(g) == [counts : [PlayersOf[g] -> Nat], valid : BOOLEAN]

\* The next ladder page: its band and its number in it.
Cursor == (Nat \ {0}) \X (Nat \ {0})

CrawlerTables(t) ==
  /\ DOMAIN t = {"frontier", "cohort", "outsider", "progress", "samples", "seeded", "cursor"}
  /\ FrontierTables(t.frontier)
  /\ t.cohort \subseteq Player
  /\ t.outsider \in [Player -> Nat]
  /\ DOMAIN t.progress \subseteq Game
  /\ \A g \in DOMAIN t.progress : t.progress[g] \in Row(g)
  /\ t.samples \in Nat
  /\ t.seeded \in [Platform -> Time \cup {None}]
  /\ t.cursor \in [Platform -> Cursor]

\* Where the task of a region can be, with its locals.
SeedPlace == [at : {"seed"}, league : Nat \ {0}, since : Time]
VisitPlace == [at : {"visit"}, pid : Player, last_visit : Nat]
FetchPlace == [at : {"fetch"}, pid : Player, last_visit : Nat, todo : SUBSET Game,
               listed : Time, whole : BOOLEAN]
CursorPlace == [at : {"cursor"}, next : Cursor]
OtherPlace == [at : {"pop", "expand", "end", "stop", "off"}]
Place == SeedPlace \cup VisitPlace \cup FetchPlace \cup CursorPlace \cup OtherPlace

\* Every variable has the shape of what it stands for.
CrawlerTypeOK ==
  /\ CrawlerTables(db) /\ CrawlerTables(disk)
  /\ seen \subseteq Game /\ bitmap \subseteq Game
  /\ loop \in [Platform -> Place]
  /\ braked \in [Platform -> BOOLEAN]
  /\ stop \in BOOLEAN
  /\ now \in Time

\* The queue and its index agree, in memory and on disk, whatever the order of pushes,
\* pops, reconciliation and backfill: no player is queued twice.
FrontierAgrees == Indexed(db.frontier) /\ Indexed(disk.frontier)

\* The player that the task of pf has popped and not yet put back.
Visiting == {loop[pf].pid : pf \in {q \in Platform : loop[q].at \in {"visit", "fetch"}}}

\* "Put the player back a bit later rather than losing them" and "a worker error or
\* shutdown can never lose the player": a cohort member is queued or being visited.
\* The exceptions are named: one adopted by a store that fails behind its transaction
\* (until the next start, which brings it back), and one without a stored match that
\* was neither queued nor brought back when the server started after a crash.
MembersStayInPlay == db.cohort \subseteq Queued(db.frontier) \cup Visiting \cup left

\* The players on the ladder pages behind the cursor.
Behind(pf, c) ==
  {p \in Player :
     \E b \in DOMAIN Ladder[pf] : \E k \in DOMAIN Ladder[pf][b] :
       /\ p \in Ladder[pf][b][k]
       /\ b < c[1] \/ (b = c[1] /\ k < c[2])}

\* The expansion cursor never passes a page whose players are not in the cohort, and
\* a crash cannot keep the cursor and lose the players.
CursorFollowsEnrolment ==
  \A pf \in Platform :
    /\ Behind(pf, db.cursor[pf]) \subseteq db.cohort
    /\ Behind(pf, disk.cursor[pf]) \subseteq disk.cohort

\* "Counts are monotone in game time, so stop at the first later game already at the
\* cap": whatever the order in which matches arrive and are fetched again after a
\* crash, the counts and the number of valid samples are those of the definition.  It
\* is about players whose games are on one platform: store_match counts predecessors
\* on all platforms and credits later games on its own only.
SamplesAreExact ==
  /\ Exact(db.progress)
  /\ db.samples = Cardinality({g \in DOMAIN db.progress : db.progress[g].valid})

\* "A deep visit cut short by shutdown keeps its deep marker so the next run resumes
\* the full-history walk": once the marker is gone, all matches the player had when
\* the backfill was asked for are seen, unless a fetch failed or the process crashed.
BackfillCompletes ==
  (faults = 0 /\ crashes = 0) =>
    \A e \in db.frontier.entries :
      (asked[e.pid] # None /\ e.last_visit # DEEP_VISIT_MS) =>
        {g \in Game : /\ g <= asked[e.pid]
                      /\ e.pid \in PlayersOf[g]
                      /\ PlatformOf[g] = e.key.platform} \subseteq seen

\* "While on, all cohort growth pauses": with the brake on in every region the cohort
\* gains only members of the best leagues.
BrakeStopsGrowth ==
  [][(\A pf \in Platform : braked[pf] /\ braked'[pf]) =>
       db'.cohort \subseteq db.cohort \cup UNION {Apex[pf][1] : pf \in Platform}]_cvars

\* "Paging ... catches overflow since the last visit": after a visit in which no fetch
\* failed, every match the player had played since the visit before is seen.
VisitCatchesOverflow ==
  [][\A pf \in Platform :
       (/\ At(pf, "fetch") /\ loop'[pf].at = "end"
        /\ loop[pf].whole /\ ~stop /\ loop[pf].last_visit > DEEP_VISIT_MS) =>
         {g \in Game : /\ loop[pf].last_visit < g /\ g <= loop[pf].listed
                       /\ loop[pf].pid \in PlayersOf[g]
                       /\ PlatformOf[g] = pf} \subseteq seen]_cvars
=============================================================================
