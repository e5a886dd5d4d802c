----------------------------- MODULE Backoffice -----------------------------
(***************************************************************************)
(* What the server keeps about its nodes: the invite file                  *)
(* (crates/server/src/invites.rs), which the enroll handlers and the       *)
(* command `crawler-server invite` read and rewrite without a lock; the    *)
(* node table and the runtime registry (enroll in api.rs, node_add in      *)
(* storage.rs, registry.rs); and the leaderboard (stats.rs) with its       *)
(* flusher (main.rs).  Nodes and statistics share one redb, in which       *)
(* node_add is durable at once and carries earlier fast transactions with  *)
(* it.  Handlers run in parallel, and the process may be stopped or die.   *)
(***************************************************************************)
EXTENDS Leaderboard, Sequences

CONSTANTS
  Enroller,      \* enroll requests; each is also the token it is given
  Name,          \* node names
  Code,          \* invite codes
  Windows,       \* numbers of hours of the hour windows, 24 and 168
  MaxMinute,     \* bound: minutes the model lives
  MaxCalls,      \* bound: invite commands, enroll requests and requests recorded
  MaxFaults,     \* bound: crashes, stops, failed writes
  None

ASSUME BackofficeAssumption ==
  /\ IsFiniteSet(Enroller)
  /\ Windows \subseteq 1 .. RETAIN_HOURS
  /\ MaxMinute \in Nat
  /\ MaxCalls \in Nat
  /\ None \notin Name \cup Code
  /\ MaxFaults \in Nat

Minute == 0 .. MaxMinute
Hour == 0 .. HourOf(MaxMinute)
NodeId == 1 .. Cardinality(Enroller)

VARIABLES
  invites,     \* the lines of invites.txt
  command,     \* the invite command under way
  enroll,      \* enroll[e]: the handler of request e
  registry,    \* runtime view: a set of nodes
  db, disk,    \* redb as the process sees it, and as a crash leaves it
  stats,       \* stats[id]
  flusher,     \* the flusher task and the rows it has taken
  stop,        \* ctrl-c was pressed
  minute,
  \* what the properties compare with:
  created, consumed,  \* codes
  collided,           \* two rewrites of the invite file overlapped
  cut,                \* a crash or an error hit a rewrite
  overlapped,         \* names of which two enrollments overlapped
  log,                \* log[id][m]: requests recorded in minute m of this run
  past,               \* past[id]: the hour rows this run started from
  dropped,            \* <<id, hour>> of rows an upsert failed to write
  late,               \* <<id, hour>> of requests after the last take_dirty
  calls, faults

inviteVars == <<invites, command, created, consumed, collided, cut>>
nodeVars == <<enroll, registry, overlapped>>
statVars == <<stats, flusher, log, past, dropped, late>>
bvars == <<inviteVars, nodeVars, db, disk, statVars, stop, minute, calls, faults>>

NoRows == [h \in {} |-> 0]
NoLog == [id \in NodeId |-> [m \in Minute |-> 0]]

\* A rewrite of the invite file: at "read" it has the lines it will write, at
\* "truncated" fs::write has emptied the file.
Request(at) == [at |-> at, name |-> None, code |-> None, lines |-> <<>>, id |-> 0]
Rewriting(r) == r.at \in {"read", "truncated"}
FlusherAt(at) == [at |-> at, rows |-> [id \in NodeId |-> NoRows]]

\* Nodes are numbered by next_node_id, which the same transaction moves on.
Loaded(tables) ==
  {[id |-> i, name |-> tables.nodes[i].name, token |-> tables.nodes[i].token] :
     i \in DOMAIN tables.nodes}

\* One invite has been written.
BackofficeInit ==
  /\ \E c \in Code : invites = <<c>>
  /\ command = Request("idle")
  /\ enroll = [e \in Enroller |-> Request("idle")]
  /\ db = [nodes |-> <<>>, rows |-> [id \in NodeId |-> NoRows]]
  /\ disk = db
  /\ registry = {}
  /\ stats = [id \in NodeId |-> NewNodeStats]
  /\ flusher = FlusherAt("sleeping")
  /\ stop = FALSE
  /\ minute = 0
  /\ created = Range(invites) /\ consumed = {}
  /\ collided = FALSE /\ cut = FALSE /\ overlapped = {}
  /\ log = NoLog
  /\ past = db.rows
  /\ dropped = {} /\ late = {}
  /\ calls = 0
  /\ faults = 0

Call == calls < MaxCalls /\ calls' = calls + 1
Fault == faults < MaxFaults /\ faults' = faults + 1

-----------------------------------------------------------------------------
(* The invite file *)

\* Whether some rewrite has read the file and not written it yet.
RewriteUnderWay == Rewriting(command) \/ \E e \in Enroller : Rewriting(enroll[e])

\* write_all into the file as it is now, from its start; lines are equally long.
Overwritten(lines) == lines \o SubSeq(invites, Len(lines) + 1, Len(invites))

\* What a write that fails leaves: it may have written a part of the lines.
WrittenInPart(lines) == \E k \in 0 .. Len(lines) : invites' = Overwritten(SubSeq(lines, 1, k))

\* create: read the file, append a line, truncate, write.
CreateReads(c) ==
  /\ command.at = "idle"
  /\ c \notin created
  /\ Call
  /\ command' = [command EXCEPT !.at = "read", !.code = c, !.lines = Append(invites, c)]
  /\ collided' = (collided \/ RewriteUnderWay)
  /\ UNCHANGED <<invites, created, consumed, cut, nodeVars, db, disk, statVars, stop, minute, faults>>

CreateTruncates ==
  /\ command.at = "read"
  /\ command' = [command EXCEPT !.at = "truncated"]
  /\ invites' = <<>>
  /\ UNCHANGED <<created, consumed, collided, cut, nodeVars, db, disk, statVars, stop, minute, calls, faults>>

CreateWrites ==
  /\ command.at = "truncated"
  /\ command' = Request("idle")
  /\ invites' = Overwritten(command.lines)
  /\ created' = created \cup {command.code}
  /\ UNCHANGED <<consumed, collided, cut, nodeVars, db, disk, statVars, stop, minute, calls, faults>>

\* The file cannot be opened, the write fails after the truncation, or the command
\* is killed; what is in the file by then stays.
CreateFails ==
  /\ Rewriting(command)
  /\ Fault
  /\ command' = Request("idle")
  /\ \/ /\ command.at = "read"
        /\ UNCHANGED <<invites, created, cut>>
     \/ /\ command.at = "truncated"
        /\ WrittenInPart(command.lines)
        /\ created' = created \cup Range(invites')
        /\ cut' = TRUE
  /\ UNCHANGED <<consumed, collided, nodeVars, db, disk, statVars, stop, minute, calls>>

-----------------------------------------------------------------------------
(* enroll *)

NameTaken(name) == \E n \in registry : n.name = name

\* Requests whose name was found free and whose node is not in the registry yet.
BetweenCheckAndRegistry ==
  {e \in Enroller : enroll[e].at \in {"named", "read", "truncated", "consumed", "added"}}

NamesUnderWay == {enroll[e].name : e \in BetweenCheckAndRegistry}

\* Faulty variant: the name is not looked up.
CheckNameBlind(e, name, code) ==
  /\ ~stop
  /\ enroll[e].at = "idle"
  /\ Call
  /\ enroll' = [enroll EXCEPT ![e] = [Request("named") EXCEPT !.name = name, !.code = code]]
  /\ overlapped' = overlapped \cup ({name} \cap NamesUnderWay)
  /\ UNCHANGED <<inviteVars, registry, db, disk, statVars, stop, minute, faults>>

\* The request arrives and its name is free; 409 otherwise.
CheckName(e, name, code) ==
  /\ ~stop
  /\ enroll[e].at = "idle"
  /\ Call
  /\ enroll' = [enroll EXCEPT ![e] =
       IF NameTaken(name) THEN Request("refused")
       ELSE [Request("named") EXCEPT !.name = name, !.code = code]]
  /\ overlapped' = overlapped \cup ({name} \cap NamesUnderWay)
  /\ UNCHANGED <<inviteVars, registry, db, disk, statVars, stop, minute, faults>>

\* Faulty variant: the code stays in the file.
KeptAll(lines, code) == lines

\* consume keeps the other lines, in their order.
Kept(lines, code) ==
  LET kept == {i \in DOMAIN lines : lines[i] # code}
      Nth(n) == CHOOSE i \in kept : Cardinality({j \in kept : j <= i}) = n
  IN  [n \in 1 .. Cardinality(kept) |-> lines[Nth(n)]]

\* consume reads the file: 403 if the code is not there.
ReadInvites(e) ==
  /\ enroll[e].at = "named"
  /\ enroll' = [enroll EXCEPT ![e] =
       IF enroll[e].code \in Range(invites)
         THEN [enroll[e] EXCEPT !.at = "read", !.lines = Kept(invites, enroll[e].code)]
         ELSE Request("refused")]
  /\ collided' = (collided \/ RewriteUnderWay)
  /\ UNCHANGED <<invites, command, created, consumed, cut, registry, overlapped,
                 db, disk, statVars, stop, minute, calls, faults>>

TruncateInvites(e) ==
  /\ enroll[e].at = "read"
  /\ enroll' = [enroll EXCEPT ![e].at = "truncated"]
  /\ invites' = <<>>
  /\ UNCHANGED <<command, created, consumed, collided, cut, registry, overlapped,
                 db, disk, statVars, stop, minute, calls, faults>>

WriteInvites(e) ==
  /\ enroll[e].at = "truncated"
  /\ enroll' = [enroll EXCEPT ![e].at = "consumed", ![e].lines = <<>>]
  /\ invites' = Overwritten(enroll[e].lines)
  /\ consumed' = consumed \cup {enroll[e].code}
  /\ UNCHANGED <<command, created, collided, cut, registry, overlapped,
                 db, disk, statVars, stop, minute, calls, faults>>

\* The file cannot be opened, or the write fails after the truncation: 500.
WriteInvitesFails(e) ==
  /\ Rewriting(enroll[e])
  /\ Fault
  /\ enroll' = [enroll EXCEPT ![e] = Request("refused")]
  /\ \/ /\ enroll[e].at = "read"
        /\ UNCHANGED <<invites, cut>>
     \/ /\ enroll[e].at = "truncated"
        /\ WrittenInPart(enroll[e].lines)
        /\ cut' = TRUE
  /\ UNCHANGED <<command, created, consumed, collided, registry, overlapped,
                 db, disk, statVars, stop, minute, calls>>

\* The tables with the node of request e added.
WithNode(e) ==
  [db EXCEPT !.nodes = Append(db.nodes, [name |-> enroll[e].name, token |-> e])]

\* Faulty variant: a fast transaction.
NodeAddFast(e) ==
  /\ enroll[e].at = "consumed"
  /\ db' = WithNode(e)
  /\ enroll' = [enroll EXCEPT ![e].at = "added", ![e].id = Len(db'.nodes)]
  /\ UNCHANGED <<inviteVars, registry, overlapped, disk, statVars, stop, minute, calls, faults>>

\* node_add under the store lock: durable, and every earlier transaction with it.
NodeAdd(e) ==
  /\ enroll[e].at = "consumed"
  /\ db' = WithNode(e)
  /\ disk' = db'
  /\ enroll' = [enroll EXCEPT ![e].at = "added", ![e].id = Len(db'.nodes)]
  /\ UNCHANGED <<inviteVars, registry, overlapped, statVars, stop, minute, calls, faults>>

\* node_add fails: 500, and the code is gone.
NodeAddFails(e) ==
  /\ enroll[e].at = "consumed"
  /\ Fault
  /\ enroll' = [enroll EXCEPT ![e] = Request("refused")]
  /\ UNCHANGED <<inviteVars, registry, overlapped, db, disk, statVars, stop, minute, calls>>

\* enroll_runtime, and the answer with the token.
EnrollRuntime(e) ==
  /\ enroll[e].at = "added"
  /\ registry' = registry \cup {[id |-> enroll[e].id, name |-> enroll[e].name, token |-> e]}
  /\ enroll' = [enroll EXCEPT ![e].at = "answered"]
  /\ UNCHANGED <<inviteVars, overlapped, db, disk, statVars, stop, minute, calls, faults>>

-----------------------------------------------------------------------------
(* The leaderboard *)

\* auth of a result, then Stats::record by the broker; the API takes results until
\* it is joined, after the flusher has ended.
Record(n) ==
  /\ Call
  /\ stats' = [stats EXCEPT ![n.id] = Recorded(stats[n.id], minute)]
  /\ log' = [log EXCEPT ![n.id][minute] = @ + 1]
  /\ dropped' = dropped \ {<<n.id, HourOf(minute)>>}
  /\ late' = IF flusher.at \in {"last", "ended"}
             THEN late \cup {<<n.id, HourOf(minute)>>} ELSE late
  /\ UNCHANGED <<inviteVars, nodeVars, db, disk, flusher, past, stop, minute, faults>>

\* Stats::snapshot moves every ring on.
Snapshot ==
  /\ stats' = [id \in NodeId |-> IF stats[id] = NewNodeStats THEN stats[id]
                                 ELSE Advance(stats[id], minute)]
  /\ UNCHANGED <<inviteVars, nodeVars, db, disk, flusher, log, past, dropped, late, stop, minute, calls, faults>>

\* The flusher wakes after a minute, or a last time when it is stopped.
TakeDirty ==
  /\ flusher.at = "sleeping"
  /\ flusher' = [at |-> IF stop THEN "last" ELSE "holding",
                 rows |-> [id \in NodeId |-> DirtyRows(stats[id])]]
  /\ stats' = [id \in NodeId |-> Taken(stats[id])]
  /\ UNCHANGED <<inviteVars, nodeVars, db, disk, log, past, dropped, late, stop, minute, calls, faults>>

\* Faulty variant: the rows stay in hand.
FlusherKeepsRows ==
  flusher' = [flusher EXCEPT !.at = IF flusher.at = "last" THEN "ended" ELSE "sleeping"]

\* The flush is over, one way or the other.
FlusherRests == flusher' = FlusherAt(IF flusher.at = "last" THEN "ended" ELSE "sleeping")

\* Faulty variant: a row that is there already is kept.
UpsertKeepsOld ==
  /\ flusher.at \in {"holding", "last"}
  /\ db' = [db EXCEPT !.rows = [id \in NodeId |-> Upserted(flusher.rows[id], db.rows[id])]]
  /\ FlusherRests
  /\ UNCHANGED <<inviteVars, nodeVars, disk, stats, log, past, dropped, late, stop, minute, calls, faults>>

\* node_stats_upsert under the store lock: a fast transaction.
Upsert ==
  /\ flusher.at \in {"holding", "last"}
  /\ db' = [db EXCEPT !.rows = [id \in NodeId |-> Upserted(db.rows[id], flusher.rows[id])]]
  /\ FlusherRests
  /\ UNCHANGED <<inviteVars, nodeVars, disk, stats, log, past, dropped, late, stop, minute, calls, faults>>

\* The upsert fails: a warning, and the rows it held are forgotten.
UpsertFails ==
  /\ flusher.at \in {"holding", "last"}
  /\ Fault
  /\ dropped' = dropped \cup UNION {{<<id, h>> : h \in DOMAIN flusher.rows[id]} : id \in NodeId}
  /\ FlusherRests
  /\ UNCHANGED <<inviteVars, nodeVars, db, disk, stats, log, past, late, stop, minute, calls>>

\* A checkpoint of the crawler makes fast transactions durable.
Checkpoint ==
  /\ disk' = db
  /\ UNCHANGED <<inviteVars, nodeVars, db, statVars, stop, minute, calls, faults>>

-----------------------------------------------------------------------------
(* The process and time *)

\* A new process reads tables.
Start(tables) ==
  /\ db' = tables
  /\ disk' = tables
  /\ registry' = Loaded(tables)
  /\ stats' = [id \in NodeId |-> Load(tables.rows[id], minute)]
  /\ past' = tables.rows
  /\ flusher' = FlusherAt("sleeping")
  /\ log' = NoLog
  /\ dropped' = {} /\ late' = {}
  /\ stop' = FALSE
  /\ UNCHANGED <<overlapped, minute, calls>>

InFlight == BetweenCheckAndRegistry

\* The process dies: handlers end where they are, a file cut off stays empty.
Crash ==
  /\ Fault
  /\ Start(disk)
  /\ enroll' = [e \in Enroller |-> IF e \in InFlight THEN Request("refused") ELSE enroll[e]]
  /\ cut' = (cut \/ \E e \in Enroller : enroll[e].at = "truncated")
  /\ UNCHANGED <<invites, command, created, consumed, collided>>

Stop ==
  /\ ~stop
  /\ Fault
  /\ stop' = TRUE
  /\ UNCHANGED <<inviteVars, nodeVars, db, disk, statVars, minute, calls>>

\* main has joined the flusher and the API, whose handlers have ended, commits
\* and exits; later the server is started again.
Exit ==
  /\ stop
  /\ flusher.at = "ended"
  /\ InFlight = {}
  /\ Start(db)
  /\ UNCHANGED <<inviteVars, enroll, faults>>

\* Time, from the first node on.  An enrollment takes less than a minute.  The flusher
\* wakes every minute, so no dirty hour leaves the RAM before.
Tick ==
  /\ minute < MaxMinute
  /\ db.nodes # <<>>
  /\ ~RewriteUnderWay /\ InFlight = {}
  /\ \A id \in NodeId : \A h \in stats[id].dirty : HourOf(minute + 1) - h < RETAIN_HOURS
  /\ minute' = minute + 1
  /\ UNCHANGED <<inviteVars, nodeVars, db, disk, statVars, stop, calls, faults>>

-----------------------------------------------------------------------------
BackofficeNext ==
  \/ \E c \in Code : CreateReads(c)
  \/ CreateTruncates
  \/ CreateWrites
  \/ CreateFails
  \/ \E e \in Enroller, name \in Name, code \in Code : CheckName(e, name, code)
  \/ \E e \in Enroller : ReadInvites(e)
  \/ \E e \in Enroller : TruncateInvites(e)
  \/ \E e \in Enroller : WriteInvites(e)
  \/ \E e \in Enroller : WriteInvitesFails(e)
  \/ \E e \in Enroller : NodeAdd(e)
  \/ \E e \in Enroller : NodeAddFails(e)
  \/ \E e \in Enroller : EnrollRuntime(e)
  \/ \E n \in registry : Record(n)
  \/ Snapshot
  \/ TakeDirty
  \/ Upsert
  \/ UpsertFails
  \/ Checkpoint
  \/ Crash
  \/ Stop
  \/ Exit
  \/ Tick

BackofficeSpec == BackofficeInit /\ [][BackofficeNext]_bvars

-----------------------------------------------------------------------------
(* Properties *)

\* Types; the flusher holds rows only while it flushes.
BackofficeTypeOK ==
  /\ invites \in Seq(Code)
  /\ \A e \in Enroller :
       enroll[e].at \in {"idle", "named", "read", "truncated", "consumed", "added", "answered", "refused"}
  /\ \A n \in registry : n.id \in NodeId /\ n.name \in Name /\ n.token \in Enroller
  /\ Len(db.nodes) <= Cardinality(Enroller)
  /\ \A id \in NodeId : stats[id].dirty \subseteq DOMAIN stats[id].hours
  /\ \A id \in NodeId : Cardinality(DOMAIN stats[id].hours) <= RETAIN_HOURS + 1
  /\ flusher.at \in {"sleeping", "holding", "last", "ended"}
  /\ flusher.at \in {"sleeping", "ended"} => flusher = FlusherAt(flusher.at)

\* A node that was answered with a token is known by that token, under one id that
\* nobody else has, in the process that runs and in any that will run: a crash after
\* the answer takes no token away and hands no id out again.
AnsweredNodeAuthenticates ==
  \A e \in Enroller : enroll[e].at = "answered" =>
    /\ \E n \in registry : n.token = e /\ n.id = enroll[e].id
    /\ enroll[e].id \in DOMAIN disk.nodes /\ disk.nodes[enroll[e].id].token = e
    /\ \A n \in registry : n.token = e <=> n.id = enroll[e].id

\* "One-time invite codes": a code admits one node.
CodeAdmitsOneNode ==
  \A e, f \in Enroller :
    (e # f /\ enroll[e].at \in {"consumed", "added", "answered"}
           /\ enroll[f].at \in {"consumed", "added", "answered"}) => enroll[e].code # enroll[f].code

\* The file holds the codes created and not consumed, unless two rewrites of it
\* overlapped (nothing locks it, invites.rs:35) or one was cut off between the
\* truncation and the end of the write, by a crash or by an error (invites.rs:57).
InvitesAreExact ==
  \/ collided \/ cut
  \/ command.at = "truncated" \/ \E e \in Enroller : enroll[e].at = "truncated"
  \/ Range(invites) = created \ consumed

\* Two nodes have one name only if their own enrollments overlapped, both with that
\* name: it is checked before and registered after the store lock is awaited
\* (api.rs:98).  Refusals, failures and restarts lead to no second node of a name.
NamesAreUnique ==
  \A i, j \in DOMAIN db.nodes :
    i # j /\ db.nodes[i].name = db.nodes[j].name => db.nodes[i].name \in overlapped

\* The requests of node id in hour h: of this run, and of those before as far as
\* they reached the disk.
Credit(id, h) ==
  SumOver(past[id], {h}) + SumOver(log[id], {m \in Minute : HourOf(m) = h})

\* Every request recorded is in the store, or its hour is dirty with a flush still to
\* come, or in the hands of the flusher: no record that comes while a flush is under
\* way is forgotten, and a clean stop stores what came before it.  An hour is lost in
\* two ways: an upsert fails (main.rs:312), until the next request of that hour, or
\* the request comes after the flusher's last take_dirty (main.rs:317), while the API
\* still takes results.
CreditReachesTheStore ==
  \A id \in NodeId, h \in Hour :
    \/ Credit(id, h) = SumOver(db.rows[id], {h})
    \/ h \in stats[id].dirty /\ flusher.at \in {"sleeping", "holding"}
    \/ SumOver(flusher.rows[id], {h}) = Credit(id, h)
    \/ <<id, h>> \in dropped \cup late

\* What a snapshot taken now shows is what a recount of the requests shows: the ring
\* forgets minutes in time and no others, and dropping old hours takes nothing from a
\* window or from the total, over restarts too (where the minutes start afresh).
WindowsAreExact ==
  \A id \in NodeId :
    LET ns == Advance(stats[id], minute)
    IN  /\ WindowM60(ns) = SumOver(log[id], {m \in Minute : m > minute - MINUTES})
        /\ \A n \in Windows :
             WindowHours(ns, minute, n) =
               SumOver([h \in Hour |-> Credit(id, h)], {h \in Hour : h > HourOf(minute) - n})
        /\ ns.total = SumOver([h \in Hour |-> Credit(id, h)], Hour)
=============================================================================
