# Verification of lol-crawler

The repository is a distributed crawler for the Riot match API.  A server decides
what to fetch and stores what it gets; volunteers' nodes hold the API keys and do
the fetching.  This directory holds TLA+ modules translated from the Rust source,
TLC configurations that check them on small instances, and TLAPS proofs for every
value of the constants.  Paths below are relative to `crates/`.

## 1. Inventory

| Part | State | Operations | Talks to |
|---|---|---|---|
| Fetch broker, `server/src/broker.rs` | jobs, per-host queues, audit pairs, next id, shutdown flag (RAM) | `fetch`, `take_jobs`, `complete`, `sweep`, `shutdown` | crawlers (fetch futures), API handlers, registry, stats |
| Registry, `server/src/registry.rs` | tokens, per-node counters, key state (RAM) | enroll, auth, touch, job_completed, set_key_bad, audit_result | broker, API, status page |
| Node API, `server/src/api.rs` | none | enroll, work (25 s long poll), result, status, metrics | broker, registry, store, invites |
| Node worker, `node/src/worker.rs` | in-flight counts, upload channel, pause flag | poll loop, executing tasks, serial uploader | server API, executor, limiter |
| Executor and limiter, `node/src/executor.rs`, `ratelimit.rs` | key, bad-key flag, buckets learnt from headers | execute, set_api_key, acquire, update | Riot API |
| Region crawler, `server/src/crawler.rs` | frontier, brake, expansion cursor | run loop, process_player, seed, expand, adoption | broker, store |
| Store, `server/src/storage.rs` | redb tables, seen bitmap, segment files, caches | open/reconcile, store_match, frontier push/pop, cohort, commit, checkpoint | crawler, recompactor, stats |
| Recompaction, `server/src/main.rs`, `storage.rs` | segment and index files | rewrite, verify, rename | store |
| Statistics, `server/src/stats.rs` | per-node rows, dirty set | record, take dirty, flush | broker, store |
| Invites, `server/src/invites.rs` | a text file | list, consume | API |
| Codec, `columnar.rs`, `record.rs` | none | parse, encode, decode | store, recompaction |
| Shell: config, metrics, inspect, riot client, desktop | none of protocol interest | | |

What is hard in this system: four kinds of actor (crawl tasks, polls, result
uploads, the sweeper) step on the same job table; a result may be late, repeated
or from a node that lost its lease; a lease that expires can be re-issued while
the first node still works; an audit copies a job and links the copies; replies and
acknowledgements get lost; ctrl-c races with calls under way; a server restart
forgets everything the nodes still act on.  On the storage side: fast (non-durable)
commits, files and a bitmap that must stay in step over a crash.  `PROJECT.json`
lists these hazards at their lines, with the properties that cover them.

What makes each part correct:

* broker: every fetch returns exactly once, with the answer to its own request, or
  with `Err` only after `MAX_ATTEMPTS` failures or at shutdown; no job is stranded;
  an audit compares the answers of two nodes, ends, and blames who is at fault;
* node API and worker: in-flight target respected, no result lost without the lease
  bringing the job back;
* store: a crash loses at most what was not checkpointed, never maps an id to bytes
  that are not there, never counts a match twice;
* crawler: no cohort member leaves the frontier for ever, the brake releases,
  adoption and deep visits survive restarts;
* limiter: never more requests in a window than the limit, every waiter is served.

## 2. Plan

1. `Broker` with `FetchService` as its promise; `Fleet` composes it with nodes,
   network and process life.  (done)
2. Inductive invariant of `Broker` proved: `BrokerProofs`, `BrokerInvariant`.  (done)
3. `Store`: segment files, fast and durable commits, crash, reopen.  (done)
4. `Crawler` over `Frontier` and `Progress`: visits, crash, reconciliation, brake,
   expansion, adoption, sample accounting.  (done)
5. `NodeAgent` over `RateLimiter`: tasks, limits, the pause on a rejected key.  (done)
6. `Recompaction` over `Columnar`; `Backoffice` over `Leaderboard`: enrollment,
   invites, statistics.  (done)
7. Proofs: the refinement of `FetchService`; `StoreProofs`, `CrawlerProofs`,
   `BackofficeProofs`, `NodeProofs`, `FleetProofs`, `RecompactionProofs`: every safety
   property of a passing run.  (done)
8. Raw samples and their dictionary.

Bounds are small sets of nodes, requests and matches; each module has one run with
its safety properties and, where something must happen, its liveness.

## 3. The modules

| Module | Models |
|---|---|
| `FetchService` | what `Broker::fetch` promises: the abstract specification |
| `Broker` | `broker.rs` and the registry counters it updates, in an environment that may report anything |
| `Fleet` | `Broker` with the long-poll and result handlers, the node worker, faults, ctrl-c and restarts |
| `BrokerProofs` | type correctness of `Broker` |
| `BrokerInvariant` | the inductive invariant of `Broker`, its consequences, and the refinement of `FetchService` |
| `FleetProofs`, `StoreProofs`, `CrawlerProofs`, `RecompactionProofs`, `NodeProofs`, `BackofficeProofs` | the inductive invariants of the module each is named after, and what follows from them |
| `Store` | the match store of one platform: tables, bitmap, segment and index files, crashes |
| `Frontier`, `Progress` | the crawl queue and the sample counts of `storage.rs`, as operators on tables |
| `Crawler` | `crawler.rs` over those tables, with commits, crashes and the next start |
| `Columnar` | `columnar.rs`: a block of records to streams and back |
| `Recompaction` | the segment writer and the hourly recompactor on the same files |
| `RateLimiter` | `ratelimit.rs`, as operators on one limiter |
| `NodeAgent` | one node from the inside: poll loop, tasks, limiters, key file |
| `Leaderboard` | `stats.rs`, as operators on one node's counters |
| `Backoffice` | invites, enrollment, registry, statistics and their flusher |
| `MCBroker`, `MCFleet`, `MCStore`, `MCCrawler`, `MCRecompaction`, `MCNodeAgent`, `MCBackoffice` | instances for TLC |

**Broker.**  One critical section of the mutex is one action.  `fetch` tests the
atomic flag before it locks, so it is `FetchEnter` and `FetchEnqueue`; `shutdown`
is `ShutdownFlag` and `ShutdownDrain`.  `TakeJobs(n, held, roll)` is the whole of
`take_jobs`: `Picked` gives the queue indices removed for each host, `roll` which
picks lost the audit dice.  `complete` is split by outcome.  `Sweep(order)` is the
whole sweep, `order` being the iteration order of the hash map.  Times are two
facts per job, `due` (lease deadline passed) and `aged` (older than `TWIN_TTL`).
A body is a value up to `json_equal`; host, method and path are those of the
request.  A job's `responder` is present exactly when it is not a twin.  A pair's
`forgotten` is history: its primary was picked again by the same poll and given a later
twin, the only one it remembers.

**Fleet.**  A work request is in `polling[n]` with the counts it was sent with; the
handler alternates `PollCheck` (flag) and `PollServe` (`take_jobs`, then reply or loop).
Handed jobs go into the bag `running` - one copy per queue entry, since the same id may
be picked twice - and results into the sequence `uploads[n]`.  Faults (lost reply,
unacknowledged upload, dropped upload, node death, rejected key, ctrl-c, restart) share
the bound `MaxFaults`.  A node in `Away` never polls.  `Restart` resets what is in RAM.  An honest node reports
`Truth[r]` for an immutable endpoint and anything for a volatile one.

**Store.**  `db` is what the process sees of redb, `disk` what a crash leaves: fast
transactions change `db`, `Checkpoint`, `CommitBitmap` and `NodeAdd` copy it to
`disk`, `Crash` copies it back and loads the caches.  `op` and `step` say which call
holds the store's mutex and which disk operation it does next; the process may die
before each.  `store_match` is `StoreTxn` (the transaction: ids, progress marker,
sightings, adoption), for a date roll `Checkpoint` to `SyncIndex`, then `OpenWriter`
and `AppendRecord`; `commit` is `Commit`, `Checkpoint`, `WriteBlock`, `SyncBlock`,
`SyncIndex`, `CommitBitmap`.  A file is a sequence of blocks.  A crash keeps what was
synced and any part of the rest: a block not yet synced may be whole, torn, gone or
bad (its length and not its bytes, which `validate_segment` does not notice), an index
any prefix, the last entry cut in two.  It is assumed that a file is never longer than
what was written to it.  `OpenFails` and `WriteFails` are errors of opening, writing and
syncing either file, with the process going on; an error of redb is not told from a
crash.  `buried` is history: a block was written behind one that is not intact.

**Crawler.**  `loop[pf]` is the program counter of a region's task with its locals; one
action is what the task does between two awaits.  `db`, `disk`, `seen` and `bitmap` are
as in `Store`: fast transactions change `db`, and a commit of the region, or a durable
transaction of anyone else (`Checkpoint`), copies it to `disk`.  Time counts games: game
g is played at time g, so "since the last visit" and the age window are comparisons of
numbers.  `maybe_seed` is `SeedLeague` and `SeedDone`, `process_player` is `ListMatches`
(brake, paging, what is new), one action per download, and `Reschedule`; a download may
fail before its transaction (`FetchDropped`) or behind it, with players adopted and not
queued (`FetchFailsLate`); `maybe_expand` is `ExpandPage` and `SetCursor`, two
transactions.  `Restart` is what `main` does: open, `frontier_reconcile`, and
`frontier_backfill_reset` if asked.  `asked` and `left` are history for the properties;
`left` holds the members of a failed adoption until the next start, and those that a
start after a crash left out.  Which delay rescheduling chooses is left to the set
`Revisit`.

**Recompaction.**  A segment is a sequence of blocks (`ok`, `torn`, or `bad`: right
length, wrong crc), an index its entries.  The writer's open files are either the files
of that name or have lost it to a rename (`seg_linked`, `idx_linked`), so a flush into a
replaced file is lost as it is in the code.  A flush may fail at any point
(`FlushFails`): its records stay pending and what it wrote stays in the files; `buried`
are the days on which a block then went behind a broken one.  `rc.pc` is the step the
recompactor does next, without the store lock.  A crash may leave any part of a flush,
and may undo renames not yet synced.  `Columnar` is evaluated on every block written: a
block that does not survive the transform stays as it is, as `encode_block`'s self-check
makes it.

**NodeAgent.**  A task is at `method`, `app` (waiting for that limiter), `sent` or
`done`.  Limiters keep ages instead of times, so the model has no clock; `Tick` ages
them.  `grants` counts all slots given, which the limiter itself forgets.  A request
remembers the key it was sent with; the config file is written in place, so it is
unreadable for a moment.  Truncation and write give it two modification times or, where
the file system's are coarse, one.

**Backoffice.**  Each enroll request is a handler with its place between the checks of
`api.rs`; `fs::write` is a truncation and a write, which may fail
(`WriteInvitesFails` of an enrollment, `CreateFails` of the command).  `collided` (two
rewrites of the file overlapped), `cut` (one was left half done) and `overlapped` (the
names that two requests had checked before either registered) record what nothing in
the code prevents.  `log` and `past` are what the statistics are compared with,
`dropped` the hours of a failed upsert, `late` those credited after the flusher's last
look, while the API still takes results.

Definitions whose comment begins "Faulty variant" model a plausible mistake in the
definition they precede; no specification uses them.

## 4. Runs

| Run | Checks | Result |
|---|---|---|
| `broker` | `TypeOK`, `EveryWaiterHasItsJob`, `UnleasedJobIsQueued`, `OpenAuditCanEnd`, refinement `KeepsFetchPromise` | hold, 388k states |
| `fleet` | `FleetTypeOK`, `InflightWithinTarget`, `OwnAnswersUntilRestart`, `FetchReturns` | hold, the last under fairness, 254k states |
| `store` | `StoreTypeOK`, `BitmapIsBackedUnlessBuried`, `SegmentIdsAreDurable`, `SightingsAreCountedOnce`, `IndexPointsToItsGame` | hold, 5.0M states |
| `crawler` | `CrawlerTypeOK`, `FrontierAgrees`, `MembersStayInPlay`, `CursorFollowsEnrolment`, `SamplesAreExact`, `BackfillCompletes`, `BrakeStopsGrowth` | hold, 3.2M states |
| `recompaction` | `RecompactionTypeOK`, `FlushedRecordsKept`, `StaleIndexIsRepairable`, `ClosedDaysGetCompacted` | hold, the last under fairness, 694k states |
| `node` | `NodeTypeOK`, `SlotsWithinBudget`, `JobEnds`, `KeyPauseEnds` | hold, the last two under fairness, 245k states |
| `backoffice` | `BackofficeTypeOK`, `AnsweredNodeAuthenticates`, `InvitesAreExact`, `NamesAreUnique`, `CreditReachesTheStore`, `WindowsAreExact` | hold, 987k states up to symmetry |
| `shutdown_race` | comment on `shutdown` | violated |
| `restart_reuses_ids` | comment on `complete` | violated |
| `partial_write` | module comment of `storage.rs` | violated |
| `overflow` | `docs/crawl-strategy.md`, limitation 1 | violated |
| `invite_reuse` | module comment of `invites.rs` | violated |

The five violations are disagreements between comments or docs and code:

* `shutdown_race`: fetch tests the flag, shutdown sets it and drains, fetch
  enqueues; nobody will resolve it.  Testing the flag under the lock closes it.
* `restart_reuses_ids`: job 1 of the old process is answered to job 1 of the new one.
* `partial_write`: a commit fails half way through a block (disk full); the next
  commit, of another region or at shutdown, appends behind the torn block and commits
  the bitmap.  Readers stop at the torn block, so the bitmap claims matches nobody can
  read and nobody will fetch again.  Truncating to the old length on error closes it.
* `overflow`: a normal visit stops paging at the first page with a seen match.  Another
  member may have brought that match in; older matches played since the player's own
  last visit are then not listed.
* `invite_reuse`: two enrollments read the invite file before either has rewritten it
  without the code, and both are admitted.  A lock around `consume` closes it.

Several properties that hold name the case in which the code does not keep them, so
that the exception is as narrow as it is:

* `OpenAuditCanEnd`: a primary that one poll picks twice, and audits twice, remembers its
  second twin only; the first pair stays in the map once its twin has answered.
* `OwnAnswersUntilRestart`: see `restart_reuses_ids`.
* `BitmapIsBackedUnlessBuried`, `IndexPointsToItsGame`: a block that went behind a broken
  one is out of readers' reach.  A failed write leaves such a block, as `partial_write`
  shows; so does a crash, if the last block has its length and not its bytes.
* `MembersStayInPlay`: reconciliation after a crash leaves out a member without a stored
  match, and the next seeding brings back apex players only; a store that fails behind
  its transaction leaves the players it adopted out of the queue until the next start.
* `BackfillCompletes`: a crash during a deep visit loses the marker, because
  reconciliation queues the player as never visited; a download that fails is not
  waited for.
* `FlushedRecordsKept`: a block behind a broken one, as above; and midnight between the
  copy of the open dates and the reading of the clock, which lets a rename take a file
  from under its writer.  Reading the clock first closes the latter.
* `StaleIndexIsRepairable`: a day with a block behind a broken one.
* `ClosedDaysGetCompacted`: a day is refused for good when a block in front of the
  tail broke, or an index entry was cut.
* `KeyPauseEnds`: promised for a file whose modification time the loop has not recorded.
  It has recorded that of the good key when a rejection of the old one is handled
  late, or when it read the file empty and the content got the same time.
* `InvitesAreExact`: rewrites that overlap, or one cut off by a crash or an error.
* `NamesAreUnique`: a name that two requests had checked before either was registered.
* `CreditReachesTheStore`: an upsert that fails drops the hours it held; a result taken
  after the flusher's last look is credited in memory only.
* `SamplesAreExact`: players whose games are on one platform.

So these sentences of the repository promise more than the code keeps, beyond the five
that have a run:

* `server/src/broker.rs:52`, a twin "must not run on the node that ran the primary":
  `exclude_node` names the first lessee, and the primary may be leased again.
* `node/src/worker.rs:211`, "then work resumes automatically": `KeyPauseEnds` above.
* `README.md:64`, "Ctrl-C drains and flushes": the late credit above.
* `server/src/storage.rs:1366`, recompaction "never renames a file that an append fd may
  still target": the race at midnight above.
* `server/src/storage.rs:1935`, members without games "re-enroll at the next seed anyway":
  ladder members do not.
* `server/src/storage.rs:85`, the deep marker "survives restarts": not a crash during the
  visit.
* `server/src/storage.rs:1580`, "Counts are monotone in game time": predecessors are
  counted on all platforms (line 1556) and later games credited on one (line 1583), so
  not for a player who moves.

**Bounds.**  `MAX_ATTEMPTS` is 2 instead of 6: it must exceed 1 so that both
release and abandonment happen.  `TARGET_INFLIGHT_PER_HOST` is 2 in `broker` so one
poll can take a job twice, 1 elsewhere.  One request already has its primary, twins
and duplicated entries; two are needed only to confuse answers.  `MaxQueue` bounds a
queue in `broker` (repeated `KeyRejected` reports lengthen it without end).
In `fleet`, two requests with different answers, one fault of any kind (ctrl-c and
restart among them), a node that works and one that was switched off within the
registry's `ACTIVE_WINDOW` (`Away`), so that the first still gets audited and the twin
waits until it ages.  The working node gets a job back after its lease ran out and then
reports twice.  The constraint `AuditsAlone` leaves out audits while two calls have
been made; no fair action leads across it, so it takes nothing from `FetchReturns`
on this side of it.  What two working nodes do to one job is in `broker`, where they
report anything at any time, and in the proofs; with two requests it exceeds the time a
run may take.
In `store`, one game with two players, one remake and one skipped game, two days and
two faults (crashes or errors) in total: a crash, the re-fetch it causes and a
second crash or error in the flush of that.  The threshold of 1 lets both adoption and,
with growth paused, counting happen to the same player.
In `crawler`, three players, four games of which three are played at the start, pages of
one match, a brake that one overdue task sets, one failed fetch or store and one restart,
clean or not, with or without backfill; `Legacy` puts one player into the old bucket, one
game is unusable, and age hides the oldest from visits that are not deep.
HISTORY_REQUIRED is 2 and one player plays two games alone, so that a game becomes a valid
sample when it is stored, or later, when a predecessor is.  It has one region: two regions
multiply the states beyond the time a run may take, so what two regions share is
covered by `Checkpoint` only.
In `recompaction`, two games, two days, blocks of two, one crash and one I/O error (of the
writer or of the recompactor).  The two records differ in all that the transform is
sensitive to.
In `node`, two tasks, a key that expires and one that lasts, two windows of which the
wider binds, a header that changes them, two tries, one throttling, and as many saves as
leave the file's time within `MaxSaves`.
In `backoffice`, two requests, names and codes (each set symmetric), an hour of two
minutes, a retention of two hours and seven minutes in all, so the ring turns and hours
are dropped; four calls and one crash, stop or failed write.

**Fairness.**  `FleetSpec`: Weak fairness of tokio tasks and timers: an entered
fetch enqueues, a free node that is not `Away` polls, a handler checks the flag, tasks finish, uploads
are retried, leases run out, the sweeper sweeps while it lives, main completes
shutdown.  Strong fairness of answering a poll: the handler loops, so the answer is
enabled again and again, and its deadline forces it.  A paused node gets a new key:
an assumption on its owner, without which `KeyRejected` jobs would rightly move
round for ever.  No fairness of faults, new calls, twins ageing, ctrl-c or restart.
`FetchReturns` excuses a stopping server; the stronger claim is `shutdown_race`.
`RecompactionSpec`: the recompactor's loop never ends, midnight comes, and some hour
passes without a write to the segments at hand; no fairness of the writer.  `NodeSpec`:
time passes, the loop goes round, every task that can step does (a request has a
timeout), and a file whose saving has begun gets saved.  429 answers are bounded by
`MaxThrottles`: without an end of throttling no job need end.  Nothing forces the owner
to save a key.  `CrawlerSpec`, `StoreSpec` and `BackofficeSpec` state no fairness; their
runs check safety.  Deadlock is checked in every run; an idle system still polls,
sweeps, ticks or checkpoints.

## 5. Proofs

Every theorem holds for all values of the constants that satisfy the module's
assumption; sets may be infinite unless it says otherwise.  Where a specification states
fairness, the theorem is about its initial states and steps alone.

**Broker.**  `TypeCorrect` (`BrokerProofs`) is inductive as it stands: `attempts` stays
below `MAX_ATTEMPTS` since both places that raise it abandon the job when it reaches the
limit.  `InvariantCorrect` (`BrokerInvariant`) is `Spec => []BrokerInv`, and from it
come `WaitersCorrect`, `QueueCorrect`, `ExclusionCorrect` and `AuditsCorrect`.  The
second last says no more than that a twin is not leased to the node its `exclude_node`
names, which is the primary's first lessee.  The properties are not inductive alone.
`UnleasedJobIsQueued` survives `take_jobs` only if an entry sits in its host's queue
under the job's own exclusion, so that whatever a poll removes it leases:
`EntriesAgree`, which also gives `TwinNotOnExcludedNode`.  `EveryWaiterHasItsJob`
survives the abandonment of a primary only if its `twin_id` never names another primary:
`LinksAgree`, since twin and primary leave together.  `OpenAuditCanEnd` needs the pair's
request and node to agree with the twin's, and that a pair not `forgotten` is the one
its primary names (`OpenAuditHasItsPrimary`).  Every action is reduced to one of a few
shapes (jobs are removed, a job is requeued, jobs change only in lease and time, a job
is added, a poll, a sweep), each with its lemma.

`BrokerImplementsFetchService` is the refinement `KeepsFetchPromise`.  The strikes of
the abstract service are the attempts of a call's primary job, of which `BrokerInv`
says that there is exactly one (`OnePrimary`).  A sweep or a drain may touch many calls
at once and maps to one step of the service over the set of them.

**Fleet.**  Every step but a restart is a step of `Broker` or leaves it alone, and a
restart empties it, so `BrokerInv` carries over.  `TargetHolds` needs `Room`: while a
poll is outstanding its node's jobs only end, so the count the poll was sent with is
never below what the node runs when it is served, and the free slots are not counted
twice.  `HonestAnswersAreRight` (`OwnAnswersUntilRestart`) and
`HonestNodesAreNotCharged` follow an answer from the job a node was handed
(`TasksKnown`) over the result in its queue (`ReportsRight`) to the pair that audits it
(`PairsRight`).  Both assume that no node lies (`Liars` is empty) and that the server
has not restarted: a restart numbers jobs anew, and the run `restart_reuses_ids` shows
what an old result then does.  `HonestNodesAreNotCharged` is proved only: an instance in
which a wrong pairing could show needs two requests audited by two nodes, too many
states for a run.

**Store.**  `StoreInv` has four parts besides the types.  `Phases`: what each step of
`store_match` and `commit` has at hand.  `Identity`: the ids in a record are the
table's, and durable from the checkpoint on until the block is written - the order that
makes `SegmentsNeverMisMap` true.  `Durability`: what the bitmap claims and the index
names is in an intact block, leaving out a block not yet synced (`Synced`), and only
the last block of a segment may be broken, as long as none was written behind a broken
one.
`Counted`: the sightings of a table are its games', which must hold of the tables on
disk as well, since a crash puts them in the place of the others.

**Crawler.**  `CrawlerInv` states the same of the tables in memory and on disk:
`Indexed` (queue and index name each other), the cursor behind its members, counts and
their total.  `LastCommitIsWhole` says a clean stop left nothing in memory only, which
`MembersStayInPlay` needs at the restart, the members of a failed store included, which
that restart brings back; `PageIsEnrolled` bridges the two transactions
of `maybe_expand`.  The retroactive walk of the sample counts stops at the first later
game at the cap; it is right because counts rise with time (`ExactAfter`).  That needs
a player's games to be on one platform: `SampleCountsAreExact` is stated under
`OnePlatform`, because a player who moves keeps the id and the walk passes over the
other platform's games.  `BrakeHolds` is an action property.

`BackfillIsComplete` has an invariant of its own, `BackfillInv`: of an entry or a visit
without the deep marker the backlog is seen, a deep visit that downloads has what is
missing in its worklist, and a clean stop leaves bitmap and tables in step.  Paging
stops at the first page that is not full, which is right because the pages in front of
a match are full (by its rank in the list).  Two
hypotheses say where the code keeps the promise: `ShortHistories`, since paging ends at
`MATCHLIST_MAX_DEPTH`, and `Settled`, no player is met by two regions: one region could
queue as never visited a player whom the other has taken off the queue for a deep visit.

**Recompaction.**  `RecompactionInv` joins two arguments.  As long as no cycle straddled
midnight, recompactor and writer work on different days, so that the blocks the
recompactor read are those it replaces; and a record behind a broken block is named by
an index entry behind it, which forbids to drop the tail.  Once a cycle did straddle
midnight the two may meet, but a writer of a day that is over completes at most one more
flush, and its files still have their names only if the index was right: that keeps
`IndexIsRepairable` true of every day that is not `buried`, and `RecordsAreKept` with
the two exceptions its property names.  What a failing flush leaves is what a crash in
it may leave, so both are one case (`FlushRemains`).  Offsets are sums over the blocks
in front, a recursive function; facts about all positions are drawn from
well-foundedness of the order on numbers, applied to the set of positions where they
hold.

**Node.**  The limiter counts sends from the newest back and pops old ones off the
front, so `SlotsWithinBudget` is inductive only with `InOrder` (the queue is sorted by
age) and `Remembered` (no slot that a window in force reaches has been forgotten, which
pruning to the widest window keeps).  The code keeps its queue of sends when a header
changes the windows; the property counts from the change on, since what was given before
obeyed other limits.

**Backoffice.**  Three invariants, one for each part of the state: `FileInv` ties the
invite file to the rewrites under way (one that failed or died half way leaves it `cut`,
and `OneNodePerCode` holds even then), `NodesInv` the durable node table and the
registry to the enrollments under way, `HoursInv` bounds the hours kept and says that
a dirty hour is too young to be dropped.  `BackofficeTypeCorrect` needs a pigeonhole
argument: no more nodes than requests.

The counts have two more.  `LedgerInv`, for `CreditIsKept`: an hour in RAM has the count
that is owed, an hour not in RAM has none or is older than the retention, rows in the
store and in the flusher's hands never exceed what is owed, and those in its hands are
exact unless their hour is dirty again; the hours in `dropped` and `late` are those of
which it says nothing.  The bound is what makes an upsert that does
not touch an hour harmless.  `RingInv`, for `WindowsShowTheRecount`: the slots of the
minutes up to the head hold their counts, every other slot is empty, and nothing was
recorded behind the head.  Emptying at most `MINUTES` slots suffices because two minutes
less than `MINUTES` apart have different slots.  Sums are the library's
`MapThenSumSet`, which picks elements in an order of its choosing; that the order does
not matter, and that a sum moves along an injection and drops zeros, is proved by
well-foundedness of the subsets of a finite set (`SubsetsClimb`).

**Assumptions.**  `BrokerAssumption`: requests have hosts, `None` and `Err` are not
answers, `MAX_ATTEMPTS` is positive, the target is a natural number.
`FleetAssumption`: the outcomes that carry no answer are not answers.
`CrawlerAssumption`: at least one region (`main.rs` insists on it), ladders and leagues
of players, a depth cap that is a number.  `RecompactionAssumption`: a block holds at
least one record.  `BackofficeAssumption`: finitely many enroll requests, and windows no
longer than the retention.  `LeaderboardAssumption`: an hour has a minute, and at least
one hour is retained.
`NodeAgentAssumption`: finitely many sets of windows, none with a limit or a length
of 0.  TLC evaluates each on every run.

**Model-checked only.**
* Liveness, out of the prover's reach: `FetchReturns`, `ClosedDaysGetCompacted`,
  `JobEnds`, `KeyPauseEnds`.
* What the transform of `Columnar` computes: a chain of folds over sequences.  TLC
  evaluates it on the blocks that `recompaction` writes; the proofs only use that a block
  that does not survive it stays as it is.

Three operators are written by positions instead of with `SelectSeq`, which the provers
cannot see into: `Kept` of `Backoffice`, `Recent` of `RateLimiter` and `Before` of
`Recompaction`.

## 6. Not modelled

See `components` in `PROJECT.json`.

* Raw samples (`save_raw_sample`, `recompact_raw_samples`, the zstd dictionary): files
  no other part reads back while the server runs; left for a later module.
* Rank snapshots and `AdoptionWorker`: rows written for later evaluation, read by
  nothing in the server.
* `record.rs`: the mapping of Riot's JSON to records, without state.
* `riot.rs`, `metrics.rs`, `inspect.rs`, the server's `config.rs`, the desktop app and the
  node's front end: URLs, counters, reports, options and user interface.
* In the codec: varint, zigzag, protobuf and zstd framing, which carry one number each.
* In the broker: logging and metrics.  `stats.record` is an action of `Backoffice`.
* In the store: several platforms at once (they share only the checkpoint).
* In the limiter: a limit of 0, which Riot does not send and at which `acquire` would
  index outside the queue of sends (`ratelimit.rs:160`).
