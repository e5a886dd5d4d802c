--------------------------- MODULE BackofficeProofs ---------------------------
(***************************************************************************)
(* Proofs about Backoffice, for any requests, names and codes, any length  *)
(* of an hour and any number of commands, crashes and stops.               *)
(*                                                                         *)
(* On top of TypesInv, the parts of the state keep an inductive invariant  *)
(* each: FileInv ties the invite file to the rewrites under way, NodesInv  *)
(* the node table and the registry to the enrollments under way, HoursInv  *)
(* bounds the hours that the leaderboard keeps, LedgerInv says which       *)
(* counts they and the rows in the store have, RingInv which the ring of   *)
(* minutes has.  The last two rest on lemmas about sums over finite sets.  *)
(***************************************************************************)
EXTENDS Backoffice, FiniteSetTheorems, SequenceTheorems, WellFoundedInduction, TLAPS

Places == {"idle", "named", "read", "truncated", "consumed", "added", "answered", "refused"}
RequestRecord ==
  [at : Places, name : Name \cup {None}, code : Code \cup {None}, lines : Seq(Code), id : Nat]

\* A request that is named has a name and a code; the command has a code.
RequestsTyped ==
  /\ command \in RequestRecord
  /\ Rewriting(command) => command.code \in Code
  /\ enroll \in [Enroller -> RequestRecord]
  /\ \A e \in Enroller :
       enroll[e].at \notin {"idle", "refused"} => enroll[e].name \in Name /\ enroll[e].code \in Code

NodeRow == [name : Name, token : Enroller]

\* node_add is durable: no crash takes a node away.
NodesTyped ==
  /\ db.nodes \in Seq(NodeRow)
  /\ DOMAIN db = {"nodes", "rows"} /\ DOMAIN disk = {"nodes", "rows"}
  /\ disk.nodes = db.nodes

TypesInv ==
  /\ RequestsTyped
  /\ NodesTyped
  /\ invites \in Seq(Code)
  /\ collided \in BOOLEAN

-----------------------------------------------------------------------------
(* The invariant of the invite file *)

\* S is what the file has, or had before it was cut.
Matches(S) == S \subseteq created \ consumed /\ (cut \/ S = created \ consumed)

OneRewrite ==
  /\ \A e \in Enroller : ~(Rewriting(command) /\ Rewriting(enroll[e]))
  /\ \A e, f \in Enroller : Rewriting(enroll[e]) /\ Rewriting(enroll[f]) => e = f

\* The command will write what there was and the new code, ...
CommandFollows ==
  Rewriting(command) =>
    /\ command.code \notin created
    /\ command.code \in Range(command.lines)
    /\ Matches(Range(command.lines) \ {command.code})

\* ... and a handler what there was without its code.
HandlerFollows(e) ==
  Rewriting(enroll[e]) =>
    /\ enroll[e].code \in created \ consumed
    /\ enroll[e].code \notin Range(enroll[e].lines)
    /\ Matches(Range(enroll[e].lines) \cup {enroll[e].code})

Truncated == command.at = "truncated" \/ \E e \in Enroller : enroll[e].at = "truncated"

FileFollows == IF Truncated THEN invites = <<>> ELSE Matches(Range(invites))

\* Requests that have used up their code.
Spent(e) == enroll[e].at \in {"consumed", "added", "answered"}

SpentCodes ==
  /\ consumed \subseteq created
  /\ \A e \in Enroller : Spent(e) => enroll[e].code \in consumed
  /\ \A e, f \in Enroller : e # f /\ Spent(e) /\ Spent(f) => enroll[e].code # enroll[f].code

Orderly ==
  OneRewrite /\ CommandFollows /\ (\A e \in Enroller : HandlerFollows(e)) /\ FileFollows /\ SpentCodes

FileInv == collided \/ Orderly

-----------------------------------------------------------------------------
(* The invariant of the nodes *)

\* A request adds one node at most.
TokensOnce ==
  /\ \A i, j \in DOMAIN db.nodes : db.nodes[i].token = db.nodes[j].token => i = j
  /\ \A i \in DOMAIN db.nodes : enroll[db.nodes[i].token].at \in {"added", "answered", "refused"}

\* The registry is the node table but for the nodes that are added and not registered.
RegistryFollows ==
  /\ registry \subseteq Loaded(db)
  /\ \A n \in Loaded(db) : n \in registry \/ enroll[n.token].at = "added"

HandlersKnowTheirNode ==
  \A e \in Enroller : enroll[e].at \in {"added", "answered"} =>
    /\ enroll[e].id \in DOMAIN db.nodes
    /\ db.nodes[enroll[e].id] = [name |-> enroll[e].name, token |-> e]

\* The name that a handler found free is free until the handler adds its node, but for
\* names that two enrollments were about at once.
NamesFollow ==
  /\ \A e, f \in BetweenCheckAndRegistry :
       e # f /\ enroll[e].name = enroll[f].name => enroll[e].name \in overlapped
  /\ \A e \in BetweenCheckAndRegistry : enroll[e].at # "added" =>
       \A i \in DOMAIN db.nodes : db.nodes[i].name = enroll[e].name => enroll[e].name \in overlapped
  /\ NamesAreUnique

NodesInv ==
  /\ TokensOnce
  /\ RegistryFollows
  /\ HandlersKnowTheirNode
  /\ NamesFollow

-----------------------------------------------------------------------------
(* The invariant of the leaderboard *)

\* Rows of hours that have begun by hour now.
RowsBegun(rows, now) == \A id \in NodeId : DOMAIN rows[id] \subseteq 0 .. now

\* An hour that is dirty is too young to be dropped.
HoursKept(ns, now) ==
  /\ DOMAIN ns = {"total", "minutes", "head", "hours", "dirty"}
  /\ DOMAIN ns.hours \subseteq 0 .. now
  /\ ns.dirty \subseteq DOMAIN ns.hours
  /\ \A h \in ns.dirty : now - h < RETAIN_HOURS
  /\ Cardinality(DOMAIN ns.hours) <= RETAIN_HOURS + 1

StatsKept(now) == DOMAIN stats = NodeId /\ \A id \in NodeId : HoursKept(stats[id], now)

HoursInv ==
  /\ minute \in Minute
  /\ RowsBegun(db.rows, HourOf(minute))
  /\ RowsBegun(disk.rows, HourOf(minute))
  /\ RowsBegun(flusher.rows, HourOf(minute))
  /\ StatsKept(HourOf(minute))
  /\ flusher.at \in {"sleeping", "holding", "last", "ended"}
  /\ flusher.at \in {"sleeping", "ended"} => flusher = FlusherAt(flusher.at)

-----------------------------------------------------------------------------
(* Lines of the file *)

\* The lines that consume keeps are those of the other codes.
LEMMA KeptLines ==
  ASSUME NEW lines \in Seq(Code), NEW code
  PROVE  /\ Kept(lines, code) \in Seq(Code)
         /\ Range(Kept(lines, code)) = Range(lines) \ {code}
<1> DEFINE kept == {i \in DOMAIN lines : lines[i] # code}
           Upto(i) == {j \in kept : j <= i}
           Nth(n) == CHOOSE i \in kept : Cardinality(Upto(i)) = n
           n == Cardinality(kept)
           rank == [i \in kept |-> Cardinality(Upto(i))]
           s == Kept(lines, code)
<1>1. s = [k \in 1 .. n |-> lines[Nth(k)]]
  BY DEF Kept
<1>2. DOMAIN lines = 1 .. Len(lines) /\ Len(lines) \in Nat /\ \A i \in DOMAIN lines : lines[i] \in Code
  BY LenProperties, ElementOfSeq
<1>3. IsFiniteSet(kept) /\ n \in Nat /\ kept \subseteq Nat
  <2>1. IsFiniteSet(1 .. Len(lines))
    BY <1>2, FS_Interval
  <2>2. kept \subseteq 1 .. Len(lines)
    BY <1>2
  <2> HIDE DEF kept
  <2>3. IsFiniteSet(kept)
    BY <2>1, <2>2, FS_Subset
  <2> QED
    BY <2>2, <2>3, FS_CardinalityType
<1>4. \A i \in kept : i \in DOMAIN lines /\ lines[i] # code
  OBVIOUS
<1>5. \A i \in DOMAIN lines : lines[i] # code => i \in kept
  OBVIOUS
<1> HIDE DEF kept, s
<1>6. \A i \in kept : /\ IsFiniteSet(Upto(i)) /\ Cardinality(Upto(i)) \in 1 .. n
                      /\ i \in Upto(i)
  <2>1. ASSUME NEW i \in kept
        PROVE  IsFiniteSet(Upto(i)) /\ Cardinality(Upto(i)) \in 1 .. n /\ i \in Upto(i)
    <3>1. i \in Upto(i) /\ Upto(i) \in SUBSET kept
      BY <1>3
    <3> DEFINE U == Upto(i)
    <3> HIDE DEF U
    <3>2. IsFiniteSet(U) /\ Cardinality(U) <= n
      BY <1>3, <3>1, FS_Subset DEF U
    <3>3. Cardinality(U) \in Nat /\ Cardinality(U) # 0
      BY <3>1, <3>2, FS_CardinalityType, FS_EmptySet DEF U
    <3> HIDE DEF n
    <3> QED
      BY <1>3, <3>1, <3>2, <3>3 DEF U
  <2> QED
    BY <2>1
<1>7. ASSUME NEW i \in kept, NEW j \in kept, Cardinality(Upto(i)) = Cardinality(Upto(j))
      PROVE  i = j
  <2>1. ASSUME NEW a \in kept, NEW b \in kept, a <= b, Cardinality(Upto(a)) = Cardinality(Upto(b))
        PROVE  a = b
    <3>1. Upto(a) \in SUBSET Upto(b)
      <4>1. \A k \in kept : k <= a => k <= b
        <5>1. \A x, y, z \in Nat : x <= y /\ y <= z => x <= z
          OBVIOUS
        <5> HIDE DEF Upto
        <5> QED
          BY <1>3, <2>1, <5>1
      <4> QED
        BY <4>1
    <3>2. Upto(a) = Upto(b)
      <4> DEFINE A == Upto(a)
                 B == Upto(b)
      <4>1. IsFiniteSet(B) /\ A \in SUBSET B /\ Cardinality(A) = Cardinality(B)
        BY <1>6, <2>1, <3>1
      <4> HIDE DEF A, B
      <4>2. A = B
        BY <4>1, FS_Subset
      <4> QED
        BY <4>2 DEF A, B
    <3>3. b <= a
      <4>1. b \in Upto(a)
        BY <1>6, <3>2
      <4> QED
        BY <4>1
    <3> QED
      BY <1>3, <2>1, <3>3
  <2>2. i <= j \/ j <= i
    BY <1>3
  <2> HIDE DEF Upto
  <2> QED
    BY <1>7, <2>1, <2>2
<1>8. \A k \in 1 .. n : \E i \in kept : Cardinality(Upto(i)) = k
  <2>1. rank \in [kept -> 1 .. n]
    BY <1>6
  <2>2. rank \in Injection(kept, 1 .. n)
    <3> HIDE DEF Upto
    <3>1. \A i \in kept : rank[i] = Cardinality(Upto(i))
      OBVIOUS
    <3> HIDE DEF rank
    <3> QED
      BY <1>7, <2>1, <3>1 DEF Injection, IsInjective
  <2>3. IsFiniteSet(1 .. n) /\ Cardinality(1 .. n) = n
    BY <1>3, FS_Interval
  <2> HIDE DEF rank
  <2>4. rank \in Surjection(kept, 1 .. n)
    BY <2>2, <2>3, FS_Injection
  <2>5. \A k \in 1 .. n : \E i \in kept : rank[i] = k
    BY <2>4 DEF Surjection
  <2> HIDE DEF Upto
  <2> QED
    BY <2>5 DEF rank
<1> HIDE DEF n, rank, Upto
<1>9. \A k \in 1 .. n : Nth(k) \in kept /\ Cardinality(Upto(Nth(k))) = k
  BY <1>8
<1>10. \A i \in kept : Cardinality(Upto(i)) \in 1 .. n /\ Nth(Cardinality(Upto(i))) = i
  BY <1>6, <1>7, <1>9
<1> HIDE DEF Nth
<1>11. s \in Seq(Code)
  <2>1. \A k \in 1 .. n : lines[Nth(k)] \in Code
    BY <1>2, <1>4, <1>9
  <2> QED
    BY <1>1, <1>3, <2>1, SeqDef
<1>12. Range(s) \subseteq Range(lines) \ {code}
  <2>1. DOMAIN s = 1 .. n /\ \A k \in 1 .. n : s[k] = lines[Nth(k)]
    BY <1>1
  <2> QED
    BY <1>4, <1>9, <2>1 DEF Range
<1>13. Range(lines) \ {code} \subseteq Range(s)
  <2>1. DOMAIN s = 1 .. n /\ \A k \in 1 .. n : s[k] = lines[Nth(k)]
    BY <1>1
  <2>2. ASSUME NEW i \in DOMAIN lines, lines[i] # code
        PROVE  \E k \in DOMAIN s : s[k] = lines[i]
    <3>1. i \in kept
      BY <1>5, <2>2
    <3> QED
      BY <1>10, <2>1, <3>1
  <2> QED
    BY <2>2 DEF Range
<1> QED
  BY <1>11, <1>12, <1>13 DEF s

\* create adds a line.
LEMMA AppendedLine ==
  ASSUME NEW lines \in Seq(Code), NEW code \in Code
  PROVE  Append(lines, code) \in Seq(Code) /\ Range(Append(lines, code)) = Range(lines) \cup {code}
<1>1. /\ Append(lines, code) \in Seq(Code) /\ DOMAIN Append(lines, code) = 1 .. (Len(lines) + 1)
      /\ \A i \in 1 .. Len(lines) : Append(lines, code)[i] = lines[i]
      /\ Append(lines, code)[Len(lines) + 1] = code
      /\ DOMAIN lines = 1 .. Len(lines) /\ Len(lines) \in Nat
  BY AppendProperties, LenProperties
<1> DEFINE t == Append(lines, code)
<1> HIDE DEF t
<1>2. /\ DOMAIN t = DOMAIN lines \cup {Len(lines) + 1}
      /\ \A i \in DOMAIN lines : t[i] = lines[i]
      /\ t[Len(lines) + 1] = code
  BY <1>1 DEF t
<1>3. Range(t) = Range(lines) \cup {code}
  BY <1>2 DEF Range
<1> QED
  BY <1>1, <1>3 DEF t

LEMMA OverwrittenTyped ==
  ASSUME invites \in Seq(Code), NEW lines \in Seq(Code)
  PROVE  Overwritten(lines) \in Seq(Code)
BY DEF Overwritten

\* The first lines of a file, and what a write that fails leaves.
LEMMA FirstLines ==
  ASSUME NEW lines \in Seq(Code), NEW k \in 0 .. Len(lines)
  PROVE  SubSeq(lines, 1, k) \in Seq(Code) /\ Range(SubSeq(lines, 1, k)) \subseteq Range(lines)
<1> DEFINE s == SubSeq(lines, 1, k)
<1>1. Len(lines) \in Nat /\ DOMAIN lines = 1 .. Len(lines) /\ \A i \in 1 .. Len(lines) : lines[i] \in Code
  BY LenProperties, ElementOfSeq
<1>2. s \in Seq(Code) /\ DOMAIN s = 1 .. k /\ \A i \in 1 .. k : s[i] = lines[i] /\ i \in DOMAIN lines
  <2>1. s = [i \in 1 .. k |-> lines[i]]
    BY <1>1
  <2>2. \A i \in 1 .. k : i \in 1 .. Len(lines)
    BY <1>1
  <2> HIDE DEF s
  <2> QED
    BY <1>1, <2>1, <2>2, SeqDef
<1> HIDE DEF s
<1>3. Range(s) \subseteq Range(lines)
  BY <1>2 DEF Range
<1> QED
  BY <1>2, <1>3 DEF s

LEMMA WrittenTyped ==
  ASSUME invites \in Seq(Code), NEW lines \in Seq(Code), WrittenInPart(lines)
  PROVE  invites' \in Seq(Code)
<1>1. PICK k \in 0 .. Len(lines) : invites' = Overwritten(SubSeq(lines, 1, k))
  BY DEF WrittenInPart
<1>2. SubSeq(lines, 1, k) \in Seq(Code)
  BY FirstLines
<1> QED
  BY <1>1, <1>2, OverwrittenTyped

LEMMA OverwrittenEmpty ==
  ASSUME invites = <<>>, NEW lines \in Seq(Code)
  PROVE  Overwritten(lines) = lines
BY DEF Overwritten

LEMMA WrittenIntoEmpty ==
  ASSUME invites = <<>>, NEW lines \in Seq(Code), WrittenInPart(lines)
  PROVE  Range(invites') \subseteq Range(lines)
<1>1. PICK k \in 0 .. Len(lines) : invites' = Overwritten(SubSeq(lines, 1, k))
  BY DEF WrittenInPart
<1>2. SubSeq(lines, 1, k) \in Seq(Code) /\ Range(SubSeq(lines, 1, k)) \subseteq Range(lines)
  BY FirstLines
<1>3. invites' = SubSeq(lines, 1, k)
  BY <1>1, <1>2, OverwrittenEmpty
<1> QED
  BY <1>2, <1>3

-----------------------------------------------------------------------------
(* Requests *)

\* A request and what is filled in.
Complete(r) == r.at \notin {"idle", "refused"} => r.name \in Name /\ r.code \in Code

\* A fresh request.
LEMMA FreshRequest ==
  ASSUME NEW at \in Places
  PROVE  /\ Request(at) \in RequestRecord /\ Request(at).at = at
         /\ \A name \in Name, code \in Code :
              LET r == [Request("named") EXCEPT !.name = name, !.code = code]
              IN  /\ r \in RequestRecord /\ r.at = "named" /\ r.name = name /\ r.code = code
BY EmptySeq DEF Request, RequestRecord, Places

\* The handler of e goes on as r, the others and the command stay where they are.
LEMMA HandlerTyped ==
  ASSUME RequestsTyped, NEW e \in Enroller, NEW r \in RequestRecord, Complete(r),
         enroll' = [enroll EXCEPT ![e] = r], UNCHANGED command
  PROVE  RequestsTyped' /\ enroll'[e] = r /\ \A f \in Enroller : f # e => enroll'[f] = enroll[f]
<1>1. enroll \in [Enroller -> RequestRecord]
  BY DEF RequestsTyped
<1>2. /\ enroll' \in [Enroller -> RequestRecord]
      /\ enroll'[e] = r /\ \A f \in Enroller : f # e => enroll'[f] = enroll[f]
  BY <1>1
<1>3. \A f \in Enroller : Complete(enroll'[f])
  BY <1>2 DEF RequestsTyped, Complete
<1> QED
  BY <1>2, <1>3 DEF RequestsTyped, Rewriting, Complete

\* What the steps of a handler make of its request.
LEMMA CheckNameMoves ==
  ASSUME RequestsTyped, NEW e \in Enroller, NEW name \in Name, NEW code \in Code,
         CheckName(e, name, code)
  PROVE  \E r \in RequestRecord :
           /\ enroll' = [enroll EXCEPT ![e] = r] /\ Complete(r)
           /\ NameTaken(name) => r.at = "refused"
           /\ ~NameTaken(name) => r.at = "named" /\ r.name = name /\ r.code = code
<1> DEFINE r == IF NameTaken(name) THEN Request("refused")
                ELSE [Request("named") EXCEPT !.name = name, !.code = code]
<1>1. enroll' = [enroll EXCEPT ![e] = r]
  BY DEF CheckName
<1>2. "refused" \in Places /\ "named" \in Places
  BY DEF Places
<1>3. /\ r \in RequestRecord
      /\ NameTaken(name) => r.at = "refused"
      /\ ~NameTaken(name) => r.at = "named" /\ r.name = name /\ r.code = code
  BY <1>2, FreshRequest
<1> HIDE DEF r
<1>4. Complete(r)
  BY <1>3 DEF Complete
<1> QED
  BY <1>1, <1>3, <1>4

\* A request with another place, lines and node id.
Moved(r, at, lines, id) == [r EXCEPT !.at = at, !.lines = lines, !.id = id]

LEMMA MovedRequest ==
  ASSUME RequestsTyped, NEW e \in Enroller, enroll[e].at \notin {"idle", "refused"},
         NEW at \in Places, NEW lines \in Seq(Code), NEW id \in Nat
  PROVE  LET r == Moved(enroll[e], at, lines, id)
         IN  /\ r \in RequestRecord /\ Complete(r)
             /\ r.at = at /\ r.lines = lines /\ r.id = id
             /\ r.name = enroll[e].name /\ r.code = enroll[e].code
<1> DEFINE r == Moved(enroll[e], at, lines, id)
<1>1. enroll[e] \in RequestRecord /\ enroll[e].name \in Name /\ enroll[e].code \in Code
  BY DEF RequestsTyped
<1>2. /\ r \in RequestRecord /\ r.at = at /\ r.lines = lines /\ r.id = id
      /\ r.name = enroll[e].name /\ r.code = enroll[e].code
  BY <1>1 DEF Moved, RequestRecord
<1> HIDE DEF r
<1>3. Complete(r)
  BY <1>1, <1>2 DEF Complete
<1> QED
  BY <1>2, <1>3 DEF r

LEMMA HandlerMoves ==
  ASSUME RequestsTyped, invites \in Seq(Code), NEW e \in Enroller
  PROVE  /\ ReadInvites(e) =>
              enroll' = [enroll EXCEPT ![e] =
                IF enroll[e].code \in Range(invites)
                THEN Moved(enroll[e], "read", Kept(invites, enroll[e].code), enroll[e].id)
                ELSE Request("refused")]
         /\ TruncateInvites(e) =>
              enroll' = [enroll EXCEPT ![e] =
                           Moved(enroll[e], "truncated", enroll[e].lines, enroll[e].id)]
         /\ WriteInvites(e) =>
              enroll' = [enroll EXCEPT ![e] = Moved(enroll[e], "consumed", <<>>, enroll[e].id)]
         /\ NodeAdd(e) =>
              enroll' = [enroll EXCEPT ![e] =
                           Moved(enroll[e], "added", enroll[e].lines, Len(db'.nodes))]
         /\ EnrollRuntime(e) =>
              enroll' = [enroll EXCEPT ![e] =
                           Moved(enroll[e], "answered", enroll[e].lines, enroll[e].id)]
         /\ enroll[e].lines \in Seq(Code) /\ enroll[e].id \in Nat
<1>1. enroll \in [Enroller -> RequestRecord] /\ enroll[e] \in RequestRecord
  BY DEF RequestsTyped
<1>2. enroll[e].lines \in Seq(Code) /\ enroll[e].id \in Nat
  BY <1>1 DEF RequestRecord
<1>3. ReadInvites(e) =>
        enroll' = [enroll EXCEPT ![e] =
          IF enroll[e].code \in Range(invites)
          THEN Moved(enroll[e], "read", Kept(invites, enroll[e].code), enroll[e].id)
          ELSE Request("refused")]
  <2>1. \A lines : Moved(enroll[e], "read", lines, enroll[e].id) =
                     [enroll[e] EXCEPT !.at = "read", !.lines = lines]
    BY <1>1 DEF Moved, RequestRecord
  <2> QED
    BY <2>1 DEF ReadInvites
<1>4. TruncateInvites(e) =>
        enroll' = [enroll EXCEPT ![e] =
                     Moved(enroll[e], "truncated", enroll[e].lines, enroll[e].id)]
  BY <1>1 DEF TruncateInvites, Moved, RequestRecord
<1>5. WriteInvites(e) =>
        enroll' = [enroll EXCEPT ![e] = Moved(enroll[e], "consumed", <<>>, enroll[e].id)]
  BY <1>1 DEF WriteInvites, Moved, RequestRecord
<1>6. NodeAdd(e) =>
        enroll' = [enroll EXCEPT ![e] =
                     Moved(enroll[e], "added", enroll[e].lines, Len(db'.nodes))]
  BY <1>1 DEF NodeAdd, Moved, RequestRecord
<1>7. EnrollRuntime(e) =>
        enroll' = [enroll EXCEPT ![e] =
                     Moved(enroll[e], "answered", enroll[e].lines, enroll[e].id)]
  BY <1>1 DEF EnrollRuntime, Moved, RequestRecord
<1> QED
  BY <1>2, <1>3, <1>4, <1>5, <1>6, <1>7

-----------------------------------------------------------------------------
(* Types *)

\* Steps of the leaderboard, the store and the clock: requests and file stay.
Elsewhere ==
  \/ \E n \in registry : Record(n)
  \/ Snapshot \/ TakeDirty \/ Upsert \/ UpsertFails
  \/ Checkpoint \/ Stop \/ Exit \/ Tick
  \/ UNCHANGED bvars

LEMMA ElsewhereStays ==
  ASSUME Elsewhere
  PROVE  UNCHANGED <<inviteVars, enroll, overlapped>>
BY DEF Elsewhere, Record, Snapshot, TakeDirty, Upsert, UpsertFails, Checkpoint, Stop, Exit, Tick, Start,
       nodeVars, inviteVars, bvars

LEMMA NodesStay ==
  ASSUME TypesInv, Elsewhere \/ Crash
  PROVE  NodesTyped' /\ db'.nodes = db.nodes
<1>1. DOMAIN db = {"nodes", "rows"} /\ DOMAIN disk = {"nodes", "rows"} /\ disk.nodes = db.nodes
      /\ db.nodes \in Seq(NodeRow)
  BY DEF TypesInv, NodesTyped
<1>2. /\ db' = db \/ db' = disk \/ \E rows : db' = [db EXCEPT !.rows = rows]
      /\ disk' \in {disk, db}
  BY DEF Elsewhere, Record, Snapshot, TakeDirty, Upsert, UpsertFails, Checkpoint, Stop, Exit, Tick, Start,
         Crash, bvars
<1>3. db'.nodes = db.nodes /\ DOMAIN db' = {"nodes", "rows"}
  BY <1>1, <1>2
<1> QED
  BY <1>1, <1>2, <1>3 DEF NodesTyped

LEMMA CommandTyped ==
  ASSUME TypesInv
  PROVE  /\ \A c \in Code : CreateReads(c) =>
              /\ command' \in RequestRecord /\ command'.at = "read" /\ command'.code = c
              /\ command'.lines = Append(invites, c)
         /\ CreateTruncates =>
              /\ command' \in RequestRecord /\ command'.at = "truncated"
              /\ command'.code = command.code /\ command'.lines = command.lines
         /\ CreateWrites \/ CreateFails => command' \in RequestRecord /\ command'.at = "idle"
         /\ command.lines \in Seq(Code)
<1>1. command \in RequestRecord /\ invites \in Seq(Code)
  BY DEF TypesInv, RequestsTyped
<1>2. ASSUME NEW c \in Code, CreateReads(c)
      PROVE  /\ command' \in RequestRecord /\ command'.at = "read" /\ command'.code = c
             /\ command'.lines = Append(invites, c)
  <2>1. Append(invites, c) \in Seq(Code)
    BY <1>1, AppendedLine
  <2> QED
    BY <1>1, <1>2, <2>1 DEF CreateReads, RequestRecord, Places
<1>3. CreateTruncates =>
        /\ command' \in RequestRecord /\ command'.at = "truncated"
        /\ command'.code = command.code /\ command'.lines = command.lines
  BY <1>1 DEF CreateTruncates, RequestRecord, Places
<1>4. CreateWrites \/ CreateFails => command' \in RequestRecord /\ command'.at = "idle"
  <2>1. "idle" \in Places
    BY DEF Places
  <2>2. Request("idle") \in RequestRecord /\ Request("idle").at = "idle"
    BY <2>1, FreshRequest
  <2> QED
    BY <2>2 DEF CreateWrites, CreateFails
<1>5. command.lines \in Seq(Code)
  BY <1>1 DEF RequestRecord
<1> QED
  BY <1>2, <1>3, <1>4, <1>5

LEMMA CommandKeepsTypes ==
  ASSUME TypesInv, (\E c \in Code : CreateReads(c)) \/ CreateTruncates \/ CreateWrites \/ CreateFails
  PROVE  TypesInv'
<1>1. RequestsTyped /\ NodesTyped /\ invites \in Seq(Code) /\ collided \in BOOLEAN
      /\ command.lines \in Seq(Code)
  BY CommandTyped DEF TypesInv
<1>2. UNCHANGED <<enroll, db, disk>> /\ collided' \in BOOLEAN
  BY <1>1 DEF CreateReads, CreateTruncates, CreateWrites, CreateFails, nodeVars
<1>3. command' \in RequestRecord /\ (Rewriting(command') => command'.code \in Code)
  <2>1. ASSUME NEW c \in Code, CreateReads(c)
        PROVE  command' \in RequestRecord /\ command'.code \in Code
    BY <2>1, CommandTyped
  <2>2. CASE CreateTruncates
    <3>1. Rewriting(command)
      BY <2>2 DEF CreateTruncates, Rewriting
    <3> QED
      BY <1>1, <2>2, <3>1, CommandTyped DEF RequestsTyped
  <2>3. CASE CreateWrites \/ CreateFails
    BY <2>3, CommandTyped DEF Rewriting
  <2> QED
    BY <2>1, <2>2, <2>3
<1>4. invites' \in Seq(Code)
  <2>1. CASE invites' = invites
    BY <1>1, <2>1
  <2>2. CASE invites' = <<>>
    BY <2>2, EmptySeq
  <2>3. CASE invites' = Overwritten(command.lines)
    BY <1>1, <2>3, OverwrittenTyped
  <2>4. CASE WrittenInPart(command.lines)
    BY <1>1, <2>4, WrittenTyped
  <2> QED
    BY <2>1, <2>2, <2>3, <2>4 DEF CreateReads, CreateTruncates, CreateWrites, CreateFails
<1>5. RequestsTyped'
  BY <1>1, <1>2, <1>3 DEF RequestsTyped, Rewriting
<1>6. NodesTyped'
  BY <1>1, <1>2 DEF NodesTyped
<1> QED
  BY <1>1, <1>2, <1>4, <1>5, <1>6 DEF TypesInv

\* The steps of a handler.
EnrollStep(e) ==
  \/ \E name \in Name, code \in Code : CheckName(e, name, code)
  \/ ReadInvites(e) \/ TruncateInvites(e) \/ WriteInvites(e) \/ WriteInvitesFails(e)
  \/ NodeAdd(e) \/ NodeAddFails(e) \/ EnrollRuntime(e)

\* The table with one more node.
LEMMA NodeAdded ==
  ASSUME TypesInv, NEW e \in Enroller, NodeAdd(e)
  PROVE  /\ NodesTyped' /\ DOMAIN db'.nodes = DOMAIN db.nodes \cup {Len(db'.nodes)}
         /\ Len(db'.nodes) \in Nat \ {0} /\ Len(db'.nodes) \notin DOMAIN db.nodes
         /\ \A i \in DOMAIN db.nodes : db'.nodes[i] = db.nodes[i]
         /\ db'.nodes[Len(db'.nodes)] = [name |-> enroll[e].name, token |-> e]
<1> DEFINE row == [name |-> enroll[e].name, token |-> e]
           old == db.nodes
           new == Append(old, row)
<1>1. /\ DOMAIN db = {"nodes", "rows"} /\ old \in Seq(NodeRow)
  BY DEF TypesInv, NodesTyped
<1>2. row \in NodeRow
  BY DEF NodeAdd, TypesInv, RequestsTyped, NodeRow
<1>3. db' = [db EXCEPT !.nodes = new] /\ disk' = db'
  BY DEF NodeAdd, WithNode
<1>4. db'.nodes = new /\ DOMAIN db' = {"nodes", "rows"}
  BY <1>1, <1>3
<1> HIDE DEF row, old
<1>5. /\ new \in Seq(NodeRow) /\ Len(new) = Len(old) + 1 /\ Len(old) \in Nat
      /\ DOMAIN new = 1 .. (Len(old) + 1) /\ DOMAIN old = 1 .. Len(old)
      /\ \A i \in 1 .. Len(old) : new[i] = old[i]
      /\ new[Len(old) + 1] = row
  BY <1>1, <1>2, AppendProperties, LenProperties
<1> HIDE DEF new
<1>6. /\ DOMAIN new = DOMAIN old \cup {Len(new)} /\ Len(new) \in Nat \ {0} /\ Len(new) \notin DOMAIN old
      /\ \A i \in DOMAIN old : new[i] = old[i]
      /\ new[Len(new)] = row
  BY <1>5
<1>7. NodesTyped'
  BY <1>3, <1>4, <1>5 DEF NodesTyped
<1> QED
  BY <1>4, <1>6, <1>7 DEF old, row

LEMMA EnrollKeepsTypes ==
  ASSUME TypesInv, NEW e \in Enroller, EnrollStep(e)
  PROVE  TypesInv'
<1>1. RequestsTyped /\ NodesTyped /\ invites \in Seq(Code) /\ collided \in BOOLEAN
  BY DEF TypesInv
<1>2. UNCHANGED command /\ collided' \in BOOLEAN
  BY <1>1 DEF EnrollStep, CheckName, ReadInvites, TruncateInvites, WriteInvites, WriteInvitesFails, NodeAdd, NodeAddFails,
              EnrollRuntime, inviteVars, nodeVars
<1>3. enroll[e].lines \in Seq(Code) /\ enroll[e].id \in Nat
  BY <1>1, HandlerMoves
<1>4. "read" \in Places /\ "truncated" \in Places /\ "consumed" \in Places /\ "added" \in Places
      /\ "answered" \in Places /\ "refused" \in Places
  BY DEF Places
<1>5. Request("refused") \in RequestRecord /\ Complete(Request("refused"))
  BY <1>4, FreshRequest DEF Complete
<1>6. \E r \in RequestRecord : Complete(r) /\ enroll' = [enroll EXCEPT ![e] = r]
  <2>1. ASSUME NEW name \in Name, NEW code \in Code, CheckName(e, name, code)
        PROVE  \E r \in RequestRecord : Complete(r) /\ enroll' = [enroll EXCEPT ![e] = r]
    BY <1>1, <2>1, CheckNameMoves
  <2>2. CASE ReadInvites(e)
    <3> DEFINE lines == Kept(invites, enroll[e].code)
               r == Moved(enroll[e], "read", lines, enroll[e].id)
    <3>1. lines \in Seq(Code)
      BY <1>1, KeptLines
    <3>2. enroll[e].at \notin {"idle", "refused"}
      BY <2>2 DEF ReadInvites
    <3>3. enroll' = [enroll EXCEPT ![e] = r] \/ enroll' = [enroll EXCEPT ![e] = Request("refused")]
      BY <1>1, <2>2, HandlerMoves
    <3> HIDE DEF lines
    <3>4. r \in RequestRecord /\ Complete(r)
      BY <1>1, <1>3, <1>4, <3>1, <3>2, MovedRequest
    <3> HIDE DEF r
    <3> QED
      BY <1>5, <3>3, <3>4
  <2>3. CASE TruncateInvites(e)
    <3>1. enroll[e].at \notin {"idle", "refused"}
      BY <2>3 DEF TruncateInvites
    <3> QED
      BY <1>1, <1>3, <1>4, <2>3, <3>1, HandlerMoves, MovedRequest
  <2>4. CASE WriteInvites(e)
    <3> DEFINE none == <<>>
               r == Moved(enroll[e], "consumed", none, enroll[e].id)
    <3>1. enroll[e].at \notin {"idle", "refused"} /\ none \in Seq(Code)
      BY <2>4, EmptySeq DEF WriteInvites
    <3>2. enroll' = [enroll EXCEPT ![e] = r]
      BY <1>1, <2>4, HandlerMoves
    <3> HIDE DEF none
    <3>3. r \in RequestRecord /\ Complete(r)
      BY <1>1, <1>3, <1>4, <3>1, MovedRequest
    <3> HIDE DEF r
    <3> QED
      BY <3>2, <3>3
  <2>5. CASE NodeAdd(e)
    <3>1. enroll[e].at \notin {"idle", "refused"} /\ Len(db'.nodes) \in Nat
      BY <2>5, NodeAdded DEF NodeAdd
    <3> QED
      BY <1>1, <1>3, <1>4, <2>5, <3>1, HandlerMoves, MovedRequest
  <2>6. CASE NodeAddFails(e) \/ WriteInvitesFails(e)
    BY <1>5, <2>6 DEF NodeAddFails, WriteInvitesFails
  <2>7. CASE EnrollRuntime(e)
    <3>1. enroll[e].at \notin {"idle", "refused"}
      BY <2>7 DEF EnrollRuntime
    <3> QED
      BY <1>1, <1>3, <1>4, <2>7, <3>1, HandlerMoves, MovedRequest
  <2> QED
    BY <2>1, <2>2, <2>3, <2>4, <2>5, <2>6, <2>7 DEF EnrollStep
<1>7. RequestsTyped'
  BY <1>1, <1>2, <1>6, HandlerTyped
<1>8. NodesTyped'
  <2>1. CASE NodeAdd(e)
    BY <2>1, NodeAdded
  <2>2. CASE UNCHANGED <<db, disk>>
    BY <1>1, <2>2 DEF NodesTyped
  <2> QED
    BY <2>1, <2>2 DEF EnrollStep, CheckName, ReadInvites, TruncateInvites, WriteInvites, WriteInvitesFails, NodeAddFails,
                      EnrollRuntime
<1>9. invites' \in Seq(Code)
  <2>1. CASE invites' = invites
    BY <1>1, <2>1
  <2>2. CASE invites' = <<>>
    BY <2>2, EmptySeq
  <2>3. CASE invites' = Overwritten(enroll[e].lines)
    BY <1>1, <1>3, <2>3, OverwrittenTyped
  <2>4. CASE WrittenInPart(enroll[e].lines)
    BY <1>1, <1>3, <2>4, WrittenTyped
  <2> QED
    BY <2>1, <2>2, <2>3, <2>4 DEF EnrollStep, CheckName, ReadInvites, TruncateInvites, WriteInvites,
                                  WriteInvitesFails, NodeAdd, NodeAddFails, EnrollRuntime, inviteVars
<1> QED
  BY <1>2, <1>7, <1>8, <1>9 DEF TypesInv

\* The handlers that a crash ends.
LEMMA CrashedHandlers ==
  ASSUME TypesInv, Crash
  PROVE  /\ \A e \in InFlight : enroll'[e] = Request("refused") /\ enroll'[e].at = "refused"
         /\ \A e \in Enroller \ InFlight : enroll'[e] = enroll[e]
         /\ \A e \in Enroller : enroll'[e].at \in {"idle", "answered", "refused"}
         /\ TypesInv'
<1>1. enroll' = [e \in Enroller |-> IF e \in InFlight THEN Request("refused") ELSE enroll[e]]
  BY DEF Crash
<1>2. Request("refused") \in RequestRecord /\ Request("refused").at = "refused"
  <2>1. "refused" \in Places
    BY DEF Places
  <2> QED
    BY <2>1, FreshRequest
<1>3. InFlight \subseteq Enroller
  BY DEF InFlight, BetweenCheckAndRegistry
<1>4. /\ \A e \in InFlight : enroll'[e] = Request("refused") /\ enroll'[e].at = "refused"
      /\ \A e \in Enroller \ InFlight : enroll'[e] = enroll[e]
  BY <1>1, <1>2, <1>3
<1>5. enroll \in [Enroller -> RequestRecord] /\ RequestsTyped
  BY DEF TypesInv, RequestsTyped
<1>6. enroll' \in [Enroller -> RequestRecord]
  BY <1>1, <1>2, <1>5
<1>7. \A e \in Enroller : enroll[e].at \in Places
  BY <1>5 DEF RequestRecord
<1>8. \A e \in Enroller : enroll'[e].at \in {"idle", "answered", "refused"}
  BY <1>4, <1>7 DEF InFlight, BetweenCheckAndRegistry, Places
<1>9. UNCHANGED <<command, invites, collided>>
  BY DEF Crash, Start
<1>10. RequestsTyped'
  <2>1. \A e \in Enroller : Complete(enroll'[e])
    BY <1>4, <1>5 DEF RequestsTyped, Complete
  <2> QED
    BY <1>5, <1>6, <1>9, <2>1 DEF RequestsTyped, Complete, Rewriting
<1>11. NodesTyped'
  BY NodesStay
<1> QED
  BY <1>4, <1>8, <1>9, <1>10, <1>11 DEF TypesInv

LEMMA ElsewhereKeepsTypes ==
  ASSUME TypesInv, Elsewhere
  PROVE  TypesInv'
<1>1. UNCHANGED <<command, invites, collided, enroll>> /\ NodesTyped'
  BY ElsewhereStays, NodesStay DEF inviteVars
<1> QED
  BY <1>1 DEF TypesInv, RequestsTyped, Rewriting

\* Every step is one of these.
LEMMA StepsOfBackoffice ==
  ASSUME [BackofficeNext]_bvars
  PROVE  \/ (\E c \in Code : CreateReads(c)) \/ CreateTruncates \/ CreateWrites \/ CreateFails
         \/ \E e \in Enroller : EnrollStep(e)
         \/ Crash
         \/ Elsewhere
BY DEF BackofficeNext, EnrollStep, Elsewhere

LEMMA InitTypes == BackofficeInit => TypesInv
<1> SUFFICES ASSUME BackofficeInit PROVE TypesInv
  OBVIOUS
<1>1. PICK c \in Code : invites = <<c>>
  BY DEF BackofficeInit
<1>2. invites \in Seq(Code)
  BY <1>1
<1>3. Request("idle") \in RequestRecord /\ Request("idle").at = "idle"
  <2>1. "idle" \in Places
    BY DEF Places
  <2> QED
    BY <2>1, FreshRequest
<1>4. RequestsTyped
  <2>1. command = Request("idle") /\ enroll = [e \in Enroller |-> Request("idle")]
    BY DEF BackofficeInit
  <2> QED
    BY <1>3, <2>1 DEF RequestsTyped, Rewriting
<1>5. NodesTyped
  <2>1. db = [nodes |-> <<>>, rows |-> [id \in NodeId |-> NoRows]] /\ disk = db
    BY DEF BackofficeInit
  <2>2. db.nodes = <<>> /\ DOMAIN db = {"nodes", "rows"}
    BY <2>1
  <2> QED
    BY <2>1, <2>2, EmptySeq DEF NodesTyped
<1>6. collided = FALSE
  BY DEF BackofficeInit
<1> QED
  BY <1>2, <1>4, <1>5, <1>6 DEF TypesInv

LEMMA NextTypes == TypesInv /\ [BackofficeNext]_bvars => TypesInv'
<1> SUFFICES ASSUME TypesInv, [BackofficeNext]_bvars PROVE TypesInv'
  OBVIOUS
<1>1. CASE (\E c \in Code : CreateReads(c)) \/ CreateTruncates \/ CreateWrites \/ CreateFails
  BY <1>1, CommandKeepsTypes
<1>2. ASSUME NEW e \in Enroller, EnrollStep(e) PROVE TypesInv'
  BY <1>2, EnrollKeepsTypes
<1>3. CASE Crash
  BY <1>3, CrashedHandlers
<1>4. CASE Elsewhere
  BY <1>4, ElsewhereKeepsTypes
<1> QED
  BY <1>1, <1>2, <1>3, <1>4, StepsOfBackoffice

LEMMA TypesInvariant == BackofficeSpec => []TypesInv
BY InitTypes, NextTypes, PTL DEF BackofficeSpec

-----------------------------------------------------------------------------
(* The invite file *)

LEMMA CreateReadsKeepsFile ==
  ASSUME TypesInv, FileInv, NEW c \in Code, CreateReads(c)
  PROVE  FileInv'
<1> SUFFICES ASSUME ~collided' PROVE Orderly'
  BY DEF FileInv
<1>1. /\ ~collided /\ ~RewriteUnderWay /\ c \notin created
      /\ UNCHANGED <<invites, created, consumed, cut, enroll>>
  BY DEF CreateReads, nodeVars
<1>2. /\ command'.at = "read" /\ command'.code = c /\ command'.lines = Append(invites, c)
      /\ invites \in Seq(Code)
  BY CommandTyped DEF TypesInv
<1>3. Orderly
  BY <1>1 DEF FileInv
<1>4. ~Truncated /\ \A e \in Enroller : ~Rewriting(enroll[e])
  BY <1>1 DEF RewriteUnderWay, Truncated, Rewriting
<1>5. Matches(Range(invites))
  BY <1>3, <1>4 DEF Orderly, FileFollows
<1>6. Range(command'.lines) = Range(invites) \cup {c}
  BY <1>2, AppendedLine
<1>7. Range(command'.lines) \ {c} = Range(invites)
  BY <1>1, <1>5, <1>6 DEF Matches
<1>8. Matches(Range(invites))'
  BY <1>1, <1>5 DEF Matches, Range
<1>9. OneRewrite' /\ \A e \in Enroller : HandlerFollows(e)'
  BY <1>1, <1>4 DEF OneRewrite, HandlerFollows, Rewriting
<1>10. CommandFollows'
  BY <1>1, <1>2, <1>5, <1>6, <1>7 DEF CommandFollows, Matches
<1>11. FileFollows'
  BY <1>1, <1>2, <1>4, <1>8 DEF FileFollows, Truncated
<1>12. SpentCodes'
  BY <1>1, <1>3 DEF Orderly, SpentCodes, Spent
<1> QED
  BY <1>9, <1>10, <1>11, <1>12 DEF Orderly

LEMMA CreateTruncatesKeepsFile ==
  ASSUME TypesInv, FileInv, CreateTruncates
  PROVE  FileInv'
<1> SUFFICES ASSUME ~collided' PROVE Orderly'
  BY DEF FileInv
<1>1. /\ ~collided /\ command.at = "read" /\ invites' = <<>>
      /\ UNCHANGED <<created, consumed, cut, enroll>>
  BY DEF CreateTruncates, nodeVars
<1>2. command'.at = "truncated" /\ command'.code = command.code /\ command'.lines = command.lines
  BY CommandTyped
<1>3. Orderly
  BY <1>1 DEF FileInv
<1>4. OneRewrite' /\ CommandFollows' /\ \A e \in Enroller : HandlerFollows(e)'
  BY <1>1, <1>2, <1>3 DEF Orderly, OneRewrite, CommandFollows, HandlerFollows, Rewriting, Matches
<1>5. FileFollows'
  BY <1>1, <1>2 DEF FileFollows, Truncated
<1>6. SpentCodes'
  BY <1>1, <1>3 DEF Orderly, SpentCodes, Spent
<1> QED
  BY <1>4, <1>5, <1>6 DEF Orderly

LEMMA CreateWritesKeepsFile ==
  ASSUME TypesInv, FileInv, CreateWrites
  PROVE  FileInv'
<1> SUFFICES ASSUME ~collided' PROVE Orderly'
  BY DEF FileInv
<1>1. /\ ~collided /\ command.at = "truncated" /\ invites' = Overwritten(command.lines)
      /\ created' = created \cup {command.code}
      /\ UNCHANGED <<consumed, cut, enroll>>
  BY DEF CreateWrites, nodeVars
<1>2. command'.at = "idle" /\ command.lines \in Seq(Code)
  BY CommandTyped
<1>3. Orderly
  BY <1>1 DEF FileInv
<1>4. invites = <<>>
  BY <1>1, <1>3 DEF Orderly, FileFollows, Truncated
<1>5. invites' = command.lines
  BY <1>1, <1>2, <1>4, OverwrittenEmpty
<1>6. /\ command.code \notin created /\ command.code \in Range(command.lines)
      /\ Matches(Range(command.lines) \ {command.code})
      /\ \A e \in Enroller : ~Rewriting(enroll[e])
      /\ consumed \subseteq created
  BY <1>1, <1>3 DEF Orderly, CommandFollows, OneRewrite, Rewriting, SpentCodes
<1>7. Matches(Range(invites))'
  BY <1>1, <1>5, <1>6 DEF Matches
<1>8. OneRewrite' /\ CommandFollows' /\ \A e \in Enroller : HandlerFollows(e)'
  BY <1>1, <1>2, <1>6 DEF OneRewrite, CommandFollows, HandlerFollows, Rewriting
<1>9. ~Truncated'
  BY <1>1, <1>2, <1>6 DEF Truncated, Rewriting
<1>10. FileFollows'
  BY <1>7, <1>9 DEF FileFollows
<1>11. SpentCodes'
  BY <1>1, <1>3, <1>6 DEF Orderly, SpentCodes, Spent
<1> QED
  BY <1>8, <1>10, <1>11 DEF Orderly

LEMMA ReadInvitesKeepsFile ==
  ASSUME TypesInv, FileInv, NEW e \in Enroller, ReadInvites(e)
  PROVE  FileInv'
<1> SUFFICES ASSUME ~collided' PROVE Orderly'
  BY DEF FileInv
<1> DEFINE code == enroll[e].code
           lines == Kept(invites, code)
           r == Moved(enroll[e], "read", lines, enroll[e].id)
<1>1. /\ ~collided /\ ~RewriteUnderWay /\ enroll[e].at = "named"
      /\ UNCHANGED <<invites, created, consumed, cut, command>>
  BY DEF ReadInvites
<1>2. RequestsTyped /\ invites \in Seq(Code) /\ enroll[e].id \in Nat
  BY HandlerMoves DEF TypesInv
<1>3. Orderly
  BY <1>1 DEF FileInv
<1>4. ~Truncated /\ ~Rewriting(command) /\ \A f \in Enroller : ~Rewriting(enroll[f])
  BY <1>1 DEF RewriteUnderWay, Truncated, Rewriting
<1>5. Matches(Range(invites))
  BY <1>3, <1>4 DEF Orderly, FileFollows
<1>6. lines \in Seq(Code) /\ Range(lines) = Range(invites) \ {code}
  BY <1>2, KeptLines
<1> HIDE DEF lines
<1>7. "read" \in Places /\ "refused" \in Places
  BY DEF Places
<1>8. r \in RequestRecord /\ Complete(r) /\ r.at = "read" /\ r.lines = lines /\ r.code = code
  BY <1>1, <1>2, <1>6, <1>7, MovedRequest
<1>9. Request("refused") \in RequestRecord /\ Request("refused").at = "refused"
  BY <1>7, FreshRequest
<1>10. /\ \A f \in Enroller : f # e => enroll'[f] = enroll[f]
       /\ \/ enroll'[e].at = "refused"
          \/ /\ code \in Range(invites)
             /\ enroll'[e].at = "read" /\ enroll'[e].code = code /\ enroll'[e].lines = lines
  <2>1. enroll \in [Enroller -> RequestRecord]
    BY <1>2 DEF RequestsTyped
  <2>2. CASE code \in Range(invites)
    <3>1. enroll' = [enroll EXCEPT ![e] = r]
      BY <1>2, <2>2, HandlerMoves DEF lines
    <3> HIDE DEF r
    <3> QED
      BY <1>8, <2>1, <2>2, <3>1
  <2>3. CASE code \notin Range(invites)
    <3>1. enroll' = [enroll EXCEPT ![e] = Request("refused")]
      BY <1>2, <2>3, HandlerMoves
    <3> QED
      BY <1>9, <2>1, <3>1
  <2> QED
    BY <2>2, <2>3
<1> HIDE DEF r, code
<1>11. OneRewrite' /\ CommandFollows'
  BY <1>1, <1>4, <1>10 DEF OneRewrite, CommandFollows, Rewriting
<1>12. ASSUME NEW f \in Enroller PROVE HandlerFollows(f)'
  <2>1. CASE f # e
    BY <1>4, <1>10, <2>1 DEF HandlerFollows, Rewriting
  <2>2. CASE f = e /\ Rewriting(enroll'[e])
    <3>1. code \in Range(invites) /\ enroll'[e].code = code /\ enroll'[e].lines = lines
      BY <1>10, <2>2 DEF Rewriting
    <3>2. Range(lines) \cup {code} = Range(invites)
      BY <1>6, <3>1
    <3>3. code \in created \ consumed
      BY <1>5, <3>1 DEF Matches
    <3> QED
      BY <1>1, <1>5, <1>6, <2>2, <3>1, <3>2, <3>3 DEF HandlerFollows, Matches
  <2> QED
    BY <2>1, <2>2 DEF HandlerFollows
<1>13. FileFollows'
  <2>1. ~Truncated'
    BY <1>1, <1>4, <1>10 DEF Truncated
  <2>2. Matches(Range(invites))'
    BY <1>1, <1>5 DEF Matches, Range
  <2> QED
    BY <2>1, <2>2 DEF FileFollows
<1>14. SpentCodes'
  BY <1>1, <1>3, <1>10 DEF Orderly, SpentCodes, Spent
<1> QED
  BY <1>11, <1>12, <1>13, <1>14 DEF Orderly

LEMMA TruncateInvitesKeepsFile ==
  ASSUME TypesInv, FileInv, NEW e \in Enroller, TruncateInvites(e)
  PROVE  FileInv'
<1> SUFFICES ASSUME ~collided' PROVE Orderly'
  BY DEF FileInv
<1> DEFINE r == Moved(enroll[e], "truncated", enroll[e].lines, enroll[e].id)
<1>1. /\ ~collided /\ enroll[e].at = "read" /\ invites' = <<>>
      /\ UNCHANGED <<created, consumed, cut, command>>
  BY DEF TruncateInvites
<1>2. /\ RequestsTyped /\ invites \in Seq(Code) /\ enroll[e].id \in Nat /\ enroll[e].lines \in Seq(Code)
      /\ enroll' = [enroll EXCEPT ![e] = r] /\ "truncated" \in Places
  BY HandlerMoves DEF TypesInv, Places
<1>3. Orderly
  BY <1>1 DEF FileInv
<1>4. /\ r.at = "truncated" /\ r.lines = enroll[e].lines /\ r.code = enroll[e].code
  BY <1>1, <1>2, MovedRequest
<1> HIDE DEF r
<1>5. /\ \A f \in Enroller : f # e => enroll'[f] = enroll[f]
      /\ enroll'[e] = r
  BY <1>2 DEF RequestsTyped
<1>6. OneRewrite' /\ CommandFollows'
  BY <1>1, <1>3, <1>4, <1>5 DEF Orderly, OneRewrite, CommandFollows, Rewriting, Matches
<1>7. \A f \in Enroller : HandlerFollows(f)'
  BY <1>1, <1>3, <1>4, <1>5 DEF Orderly, HandlerFollows, Rewriting, Matches
<1>8. FileFollows'
  BY <1>1, <1>4, <1>5 DEF FileFollows, Truncated
<1>9. SpentCodes'
  BY <1>1, <1>3, <1>4, <1>5 DEF Orderly, SpentCodes, Spent
<1> QED
  BY <1>6, <1>7, <1>8, <1>9 DEF Orderly

LEMMA WriteInvitesKeepsFile ==
  ASSUME TypesInv, FileInv, NEW e \in Enroller, WriteInvites(e)
  PROVE  FileInv'
<1> SUFFICES ASSUME ~collided' PROVE Orderly'
  BY DEF FileInv
<1> DEFINE none == <<>>
           r == Moved(enroll[e], "consumed", none, enroll[e].id)
           code == enroll[e].code
           lines == enroll[e].lines
<1>1. /\ ~collided /\ enroll[e].at = "truncated" /\ invites' = Overwritten(lines)
      /\ consumed' = consumed \cup {code}
      /\ UNCHANGED <<created, cut, command>>
  BY DEF WriteInvites
<1>2. /\ RequestsTyped /\ invites \in Seq(Code) /\ enroll[e].id \in Nat /\ lines \in Seq(Code)
      /\ enroll' = [enroll EXCEPT ![e] = r] /\ "consumed" \in Places /\ none \in Seq(Code)
  BY HandlerMoves, EmptySeq DEF TypesInv, Places
<1>3. Orderly
  BY <1>1 DEF FileInv
<1> HIDE DEF none
<1>4. r.at = "consumed" /\ r.code = code
  BY <1>1, <1>2, MovedRequest
<1> HIDE DEF r
<1>5. /\ \A f \in Enroller : f # e => enroll'[f] = enroll[f]
      /\ enroll'[e] = r
  BY <1>2 DEF RequestsTyped
<1>6. invites = <<>>
  BY <1>1, <1>3 DEF Orderly, FileFollows, Truncated
<1>7. invites' = lines
  BY <1>1, <1>2, <1>6, OverwrittenEmpty
<1>8. /\ code \in created \ consumed /\ code \notin Range(lines) /\ Matches(Range(lines) \cup {code})
      /\ ~Rewriting(command) /\ \A f \in Enroller : f # e => ~Rewriting(enroll[f])
  BY <1>1, <1>3 DEF Orderly, HandlerFollows, OneRewrite, Rewriting
<1> HIDE DEF code, lines
<1>9. Matches(Range(invites))'
  BY <1>1, <1>7, <1>8 DEF Matches
<1>10. OneRewrite' /\ CommandFollows' /\ \A f \in Enroller : HandlerFollows(f)'
  BY <1>1, <1>4, <1>5, <1>8 DEF OneRewrite, CommandFollows, HandlerFollows, Rewriting
<1>11. ~Truncated'
  BY <1>1, <1>4, <1>5, <1>8 DEF Truncated, Rewriting
<1>12. FileFollows'
  BY <1>9, <1>11 DEF FileFollows
<1>13. SpentCodes'
  <2>1. consumed' \subseteq created'
    BY <1>1, <1>3, <1>8 DEF Orderly, SpentCodes
  <2>2. \A f \in Enroller : Spent(f)' => enroll'[f].code \in consumed'
    BY <1>1, <1>3, <1>4, <1>5 DEF Orderly, SpentCodes, Spent
  <2>3. \A f, g \in Enroller : f # g /\ Spent(f)' /\ Spent(g)' => enroll'[f].code # enroll'[g].code
    BY <1>1, <1>3, <1>4, <1>5, <1>8 DEF Orderly, SpentCodes, Spent
  <2> QED
    BY <2>1, <2>2, <2>3 DEF SpentCodes
<1> QED
  BY <1>10, <1>12, <1>13 DEF Orderly

\* A write that fails leaves a part of the lines, and is noted in cut.
LEMMA CreateFailsKeepsFile ==
  ASSUME TypesInv, FileInv, CreateFails
  PROVE  FileInv'
<1> SUFFICES ASSUME ~collided' PROVE Orderly'
  BY DEF FileInv
<1>1. ~collided /\ Rewriting(command) /\ UNCHANGED <<consumed, enroll>>
  BY DEF CreateFails, nodeVars
<1>2. command'.at = "idle" /\ command.lines \in Seq(Code)
  BY CommandTyped
<1>3. Orderly
  BY <1>1 DEF FileInv
<1>4. /\ \A e \in Enroller : ~Rewriting(enroll[e])
      /\ Matches(Range(command.lines) \ {command.code}) /\ command.code \notin created
      /\ consumed \subseteq created
  BY <1>1, <1>3 DEF Orderly, OneRewrite, CommandFollows, SpentCodes
<1>5. OneRewrite' /\ CommandFollows' /\ \A e \in Enroller : HandlerFollows(e)'
  BY <1>1, <1>2, <1>4 DEF OneRewrite, CommandFollows, HandlerFollows, Rewriting
<1>6. ~Truncated'
  BY <1>1, <1>2, <1>4 DEF Truncated, Rewriting
<1>7. Matches(Range(invites))' /\ created \subseteq created'
  <2>1. CASE command.at = "read"
    <3>1. UNCHANGED <<invites, created, cut>>
      BY <2>1 DEF CreateFails
    <3>2. ~Truncated
      BY <1>4, <2>1 DEF Truncated, Rewriting
    <3> QED
      BY <1>1, <1>3, <3>1, <3>2 DEF Orderly, FileFollows, Matches, Range
  <2>2. CASE command.at = "truncated"
    <3>1. WrittenInPart(command.lines) /\ created' = created \cup Range(invites') /\ cut' = TRUE
      BY <2>2 DEF CreateFails
    <3>2. invites = <<>>
      BY <1>3, <2>2 DEF Orderly, FileFollows, Truncated
    <3>3. Range(invites') \subseteq Range(command.lines)
      BY <1>2, <3>1, <3>2, WrittenIntoEmpty
    <3> QED
      BY <1>1, <1>4, <3>1, <3>3 DEF Matches
  <2> QED
    BY <1>1, <2>1, <2>2 DEF Rewriting
<1>8. FileFollows'
  BY <1>6, <1>7 DEF FileFollows
<1>9. SpentCodes'
  BY <1>1, <1>3, <1>7 DEF Orderly, SpentCodes, Spent
<1> QED
  BY <1>5, <1>8, <1>9 DEF Orderly

LEMMA WriteInvitesFailsKeepsFile ==
  ASSUME TypesInv, FileInv, NEW e \in Enroller, WriteInvitesFails(e)
  PROVE  FileInv'
<1> SUFFICES ASSUME ~collided' PROVE Orderly'
  BY DEF FileInv
<1>1. ~collided /\ Rewriting(enroll[e]) /\ UNCHANGED <<command, created, consumed>>
  BY DEF WriteInvitesFails
<1>2. /\ RequestsTyped /\ enroll[e].lines \in Seq(Code) /\ "refused" \in Places
      /\ enroll' = [enroll EXCEPT ![e] = Request("refused")]
  BY HandlerMoves DEF TypesInv, Places, WriteInvitesFails
<1>3. Orderly
  BY <1>1 DEF FileInv
<1>4. Request("refused").at = "refused"
  BY <1>2, FreshRequest
<1>5. enroll'[e].at = "refused" /\ \A f \in Enroller : f # e => enroll'[f] = enroll[f]
  BY <1>2, <1>4 DEF RequestsTyped
<1>6. /\ ~Rewriting(command) /\ \A f \in Enroller : f # e => ~Rewriting(enroll[f])
      /\ Matches(Range(enroll[e].lines) \cup {enroll[e].code})
  BY <1>1, <1>3 DEF Orderly, OneRewrite, HandlerFollows
<1>7. OneRewrite' /\ CommandFollows' /\ \A f \in Enroller : HandlerFollows(f)'
  BY <1>1, <1>5, <1>6 DEF OneRewrite, CommandFollows, HandlerFollows, Rewriting
<1>8. ~Truncated'
  BY <1>1, <1>5, <1>6 DEF Truncated, Rewriting
<1>9. Matches(Range(invites))'
  <2>1. CASE enroll[e].at = "read"
    <3>1. UNCHANGED <<invites, cut>>
      BY <2>1 DEF WriteInvitesFails
    <3>2. ~Truncated
      BY <1>6, <2>1 DEF Truncated, Rewriting
    <3> QED
      BY <1>1, <1>3, <3>1, <3>2 DEF Orderly, FileFollows, Matches, Range
  <2>2. CASE enroll[e].at = "truncated"
    <3>1. WrittenInPart(enroll[e].lines) /\ cut' = TRUE
      BY <2>2 DEF WriteInvitesFails
    <3>2. invites = <<>>
      BY <1>3, <2>2 DEF Orderly, FileFollows, Truncated
    <3>3. Range(invites') \subseteq Range(enroll[e].lines)
      BY <1>2, <3>1, <3>2, WrittenIntoEmpty
    <3> QED
      BY <1>1, <1>6, <3>1, <3>3 DEF Matches
  <2> QED
    BY <1>1, <2>1, <2>2 DEF Rewriting
<1>10. FileFollows'
  BY <1>8, <1>9 DEF FileFollows
<1>11. SpentCodes'
  <2>1. \A f \in Enroller : Spent(f)' => Spent(f) /\ enroll'[f].code = enroll[f].code
    BY <1>5 DEF Spent
  <2> QED
    BY <1>1, <1>3, <2>1 DEF Orderly, SpentCodes
<1> QED
  BY <1>7, <1>10, <1>11 DEF Orderly

\* Steps of a handler that do not touch the file.
LEMMA OtherHandlersKeepFile ==
  ASSUME TypesInv, FileInv, NEW e \in Enroller,
         \/ \E name \in Name, code \in Code : CheckName(e, name, code)
         \/ NodeAdd(e) \/ NodeAddFails(e) \/ EnrollRuntime(e)
  PROVE  FileInv'
<1> SUFFICES ASSUME ~collided' PROVE Orderly'
  BY DEF FileInv
<1>1. /\ UNCHANGED <<invites, created, consumed, cut, command, collided>>
      /\ enroll[e].at \in {"idle", "consumed", "added"}
  BY DEF CheckName, NodeAdd, NodeAddFails, EnrollRuntime, inviteVars
<1>2. RequestsTyped /\ invites \in Seq(Code) /\ enroll[e].id \in Nat /\ enroll[e].lines \in Seq(Code)
      /\ "refused" \in Places /\ "added" \in Places /\ "answered" \in Places
  BY HandlerMoves DEF TypesInv, Places
<1>3. Orderly
  BY <1>1 DEF FileInv
<1>4. PICK r : /\ enroll' = [enroll EXCEPT ![e] = r] /\ ~Rewriting(r)
               /\ r.at \in {"consumed", "added", "answered"} => Spent(e) /\ r.code = enroll[e].code
  <2>1. ASSUME NEW name \in Name, NEW code \in Code, CheckName(e, name, code)
        PROVE  \E r : /\ enroll' = [enroll EXCEPT ![e] = r] /\ r.at \in {"named", "refused"}
    BY <1>2, <2>1, CheckNameMoves
  <2>2. CASE NodeAdd(e)
    <3> DEFINE r == Moved(enroll[e], "added", enroll[e].lines, Len(db'.nodes))
    <3>1. enroll[e].at = "consumed" /\ Len(db'.nodes) \in Nat /\ enroll' = [enroll EXCEPT ![e] = r]
      BY <1>2, <2>2, NodeAdded, HandlerMoves DEF NodeAdd
    <3>2. r.at = "added" /\ r.code = enroll[e].code
      BY <1>2, <3>1, MovedRequest
    <3> HIDE DEF r
    <3> QED
      BY <3>1, <3>2 DEF Rewriting, Spent
  <2>3. CASE NodeAddFails(e)
    <3>1. Request("refused").at = "refused"
      BY <1>2, FreshRequest
    <3> QED
      BY <2>3, <3>1 DEF NodeAddFails, Rewriting
  <2>4. CASE EnrollRuntime(e)
    <3> DEFINE r == Moved(enroll[e], "answered", enroll[e].lines, enroll[e].id)
    <3>1. enroll[e].at = "added" /\ enroll' = [enroll EXCEPT ![e] = r]
      BY <1>2, <2>4, HandlerMoves DEF EnrollRuntime
    <3>2. r.at = "answered" /\ r.code = enroll[e].code
      BY <1>2, <3>1, MovedRequest
    <3> HIDE DEF r
    <3> QED
      BY <3>1, <3>2 DEF Rewriting, Spent
  <2> QED
    BY <2>1, <2>2, <2>3, <2>4 DEF Rewriting
<1>5. /\ \A f \in Enroller : f # e => enroll'[f] = enroll[f]
      /\ enroll'[e] = r
  BY <1>2, <1>4 DEF RequestsTyped
<1>6. ~Rewriting(enroll[e])
  BY <1>1 DEF Rewriting
<1>7. \A f \in Enroller : Rewriting(enroll'[f]) => f # e /\ Rewriting(enroll[f])
  BY <1>4, <1>5
<1>8. OneRewrite' /\ CommandFollows'
  BY <1>1, <1>3, <1>7 DEF Orderly, OneRewrite, CommandFollows, Rewriting, Matches
<1>9. \A f \in Enroller : HandlerFollows(f)'
  BY <1>1, <1>3, <1>5, <1>7 DEF Orderly, HandlerFollows, Matches
<1>10. Truncated' <=> Truncated
  BY <1>1, <1>4, <1>5 DEF Truncated, Rewriting
<1>11. FileFollows'
  BY <1>1, <1>3, <1>10 DEF Orderly, FileFollows, Matches, Range
<1>12. SpentCodes'
  <2>1. \A f \in Enroller : Spent(f)' => Spent(f) /\ enroll'[f].code = enroll[f].code
    BY <1>4, <1>5 DEF Spent
  <2> QED
    BY <1>1, <1>3, <2>1 DEF Orderly, SpentCodes
<1> QED
  BY <1>8, <1>9, <1>11, <1>12 DEF Orderly

\* A crash in the middle of a rewrite leaves an empty file, and is noted in cut.
LEMMA CrashKeepsFile ==
  ASSUME TypesInv, FileInv, Crash
  PROVE  FileInv'
<1> SUFFICES ASSUME ~collided' PROVE Orderly'
  BY DEF FileInv
<1>1. /\ UNCHANGED <<invites, created, consumed, command, collided>>
      /\ cut' = (cut \/ \E e \in Enroller : enroll[e].at = "truncated")
  BY DEF Crash
<1>2. Orderly
  BY <1>1 DEF FileInv
<1>3. /\ \A e \in Enroller : enroll'[e].at \in {"idle", "answered", "refused"}
      /\ \A e \in InFlight : enroll'[e].at = "refused"
      /\ \A e \in Enroller \ InFlight : enroll'[e] = enroll[e]
  BY CrashedHandlers
<1>4. \A e \in Enroller : ~Rewriting(enroll'[e])
  BY <1>3 DEF Rewriting
<1>5. OneRewrite' /\ \A e \in Enroller : HandlerFollows(e)'
  BY <1>4 DEF OneRewrite, HandlerFollows
<1>6. CommandFollows'
  BY <1>1, <1>2 DEF Orderly, CommandFollows, Rewriting, Matches
<1>7. FileFollows'
  <2>1. CASE \E e \in Enroller : enroll[e].at = "truncated"
    <3>1. invites = <<>> /\ command.at # "truncated"
      BY <1>2, <2>1 DEF Orderly, FileFollows, Truncated, OneRewrite, Rewriting
    <3>2. ~Truncated' /\ cut'
      BY <1>1, <1>3, <2>1, <3>1 DEF Truncated
    <3>3. Range(invites') = {}
      BY <1>1, <3>1 DEF Range
    <3> QED
      BY <3>2, <3>3 DEF FileFollows, Matches
  <2>2. CASE ~\E e \in Enroller : enroll[e].at = "truncated"
    <3>1. Truncated' <=> Truncated
      BY <1>1, <1>3, <2>2 DEF Truncated
    <3> QED
      BY <1>1, <1>2, <2>2, <3>1 DEF Orderly, FileFollows, Matches, Range
  <2> QED
    BY <2>1, <2>2
<1>8. SpentCodes'
  <2>1. \A e \in Enroller : Spent(e)' => Spent(e) /\ enroll'[e].code = enroll[e].code
    BY <1>3 DEF Spent
  <2> QED
    BY <1>1, <1>2, <2>1 DEF Orderly, SpentCodes
<1> QED
  BY <1>5, <1>6, <1>7, <1>8 DEF Orderly

LEMMA ElsewhereKeepsFile ==
  ASSUME FileInv, Elsewhere
  PROVE  FileInv'
<1>1. UNCHANGED <<invites, command, created, consumed, collided, cut, enroll>>
  BY ElsewhereStays DEF inviteVars
<1> QED
  BY <1>1 DEF FileInv, Orderly, OneRewrite, CommandFollows, HandlerFollows, FileFollows, SpentCodes,
              Matches, Truncated, Spent, Rewriting, Range

LEMMA NextFile == TypesInv /\ FileInv /\ [BackofficeNext]_bvars => FileInv'
<1> SUFFICES ASSUME TypesInv, FileInv, [BackofficeNext]_bvars PROVE FileInv'
  OBVIOUS
<1>1. ASSUME NEW c \in Code, CreateReads(c) PROVE FileInv'
  BY <1>1, CreateReadsKeepsFile
<1>2. CASE CreateTruncates
  BY <1>2, CreateTruncatesKeepsFile
<1>3. CASE CreateWrites \/ CreateFails
  BY <1>3, CreateWritesKeepsFile, CreateFailsKeepsFile
<1>4. ASSUME NEW e \in Enroller, EnrollStep(e) PROVE FileInv'
  BY <1>4, ReadInvitesKeepsFile, TruncateInvitesKeepsFile, WriteInvitesKeepsFile, WriteInvitesFailsKeepsFile,
         OtherHandlersKeepFile
     DEF EnrollStep
<1>5. CASE Crash
  BY <1>5, CrashKeepsFile
<1>6. CASE Elsewhere
  BY <1>6, ElsewhereKeepsFile
<1> QED
  BY <1>1, <1>2, <1>3, <1>4, <1>5, <1>6, StepsOfBackoffice

LEMMA InitFile == BackofficeInit => FileInv
<1> SUFFICES ASSUME BackofficeInit PROVE Orderly
  BY DEF FileInv
<1>1. /\ command = Request("idle") /\ enroll = [e \in Enroller |-> Request("idle")]
      /\ created = Range(invites) /\ consumed = {}
  BY DEF BackofficeInit
<1>2. command.at = "idle" /\ \A e \in Enroller : enroll[e].at = "idle"
  BY <1>1 DEF Request
<1> QED
  BY <1>1, <1>2 DEF Orderly, OneRewrite, CommandFollows, HandlerFollows, FileFollows, SpentCodes, Matches,
                    Truncated, Spent, Rewriting

\* As long as no two rewrites of invites.txt overlap, the file and the rewrite under
\* way hold the codes that were created and not used, and no more.
THEOREM InviteFileInvariant == BackofficeSpec => []FileInv
BY InitFile, NextFile, TypesInvariant, PTL DEF BackofficeSpec

\* consume in invites.rs lets one request through per code, even if the server dies
\* between any two of its steps or a write fails, as long as no two rewrites of the
\* file overlap.
THEOREM OneNodePerCode == BackofficeSpec => [](~collided => CodeAdmitsOneNode)
<1>1. FileInv => (~collided => CodeAdmitsOneNode)
  BY DEF FileInv, Orderly, SpentCodes, Spent, CodeAdmitsOneNode
<1> QED
  BY <1>1, InviteFileInvariant, PTL

\* Between two rewrites the file holds exactly the codes created and not consumed,
\* unless rewrites overlapped or a crash or an error cut one off.
THEOREM InviteFileIsExact == BackofficeSpec => []InvitesAreExact
<1>1. FileInv => InvitesAreExact
  BY DEF FileInv, Orderly, FileFollows, Truncated, Matches, InvitesAreExact
<1> QED
  BY <1>1, InviteFileInvariant, PTL

-----------------------------------------------------------------------------
(* The nodes *)

NodesFollow == TokensOnce /\ RegistryFollows /\ HandlersKnowTheirNode

\* What Loaded depends on.
LEMMA LoadedNodes ==
  ASSUME NEW t, NEW u, t.nodes = u.nodes
  PROVE  Loaded(t) = Loaded(u)
BY DEF Loaded

LEMMA LoadedRow ==
  ASSUME TypesInv
  PROVE  /\ \A i \in DOMAIN db.nodes :
              /\ db.nodes[i] \in NodeRow
              /\ [id |-> i, name |-> db.nodes[i].name, token |-> db.nodes[i].token] \in Loaded(db)
         /\ \A n \in Loaded(db) :
              /\ n.id \in DOMAIN db.nodes /\ n.name = db.nodes[n.id].name /\ n.token = db.nodes[n.id].token
              /\ n.token \in Enroller /\ n.name \in Name
              /\ n = [id |-> n.id, name |-> n.name, token |-> n.token]
<1>1. \A i \in DOMAIN db.nodes : db.nodes[i] \in NodeRow
  <2> DEFINE nodes == db.nodes
  <2>1. nodes \in Seq(NodeRow)
    BY DEF TypesInv, NodesTyped
  <2> HIDE DEF nodes
  <2>2. \A i \in DOMAIN nodes : nodes[i] \in NodeRow
    BY <2>1, LenProperties, ElementOfSeq
  <2> QED
    BY <2>2 DEF nodes
<1>2. \A i \in DOMAIN db.nodes : db.nodes[i].name \in Name /\ db.nodes[i].token \in Enroller
  BY <1>1 DEF NodeRow
<1> QED
  BY <1>1, <1>2 DEF Loaded

\* A handler before node_add becomes r: its token is in no row.
EarlyStep(e, r) ==
  /\ enroll[e].at \in {"idle", "named", "read", "truncated", "consumed"}
  /\ r.at \in {"named", "read", "truncated", "consumed", "refused"}
  /\ enroll' = [enroll EXCEPT ![e] = r]
  /\ UNCHANGED <<registry, db>>

LEMMA EarlyHandlerKeepsNodes ==
  ASSUME TypesInv, NodesFollow, NEW e \in Enroller, NEW r, EarlyStep(e, r)
  PROVE  NodesFollow' /\ enroll'[e] = r /\ \A f \in Enroller : f # e => enroll'[f] = enroll[f]
<1> USE DEF EarlyStep
<1>1. enroll'[e] = r /\ \A f \in Enroller : f # e => enroll'[f] = enroll[f]
  BY DEF TypesInv, RequestsTyped
<1>2. \A i \in DOMAIN db.nodes : db.nodes[i].token \in Enroller /\ db.nodes[i].token # e
  BY LoadedRow DEF NodesFollow, TokensOnce, NodeRow
<1>3. Loaded(db') = Loaded(db) /\ \A n \in Loaded(db) : n.token \in Enroller /\ n.token # e
  BY <1>2, LoadedRow, LoadedNodes
<1>4. TokensOnce'
  BY <1>1, <1>2 DEF NodesFollow, TokensOnce
<1>5. RegistryFollows'
  BY <1>1, <1>3 DEF NodesFollow, RegistryFollows
<1>6. HandlersKnowTheirNode'
  BY <1>1 DEF NodesFollow, HandlersKnowTheirNode
<1> QED
  BY <1>1, <1>4, <1>5, <1>6 DEF NodesFollow

LEMMA NodesInvIs == NodesInv <=> NodesFollow /\ NamesFollow
BY DEF NodesInv, NodesFollow

LEMMA CheckNameKeepsNodes ==
  ASSUME TypesInv, NodesInv, NEW e \in Enroller, NEW name \in Name, NEW code \in Code,
         CheckName(e, name, code)
  PROVE  NodesInv'
<1>1. /\ enroll[e].at = "idle" /\ UNCHANGED <<registry, db>>
      /\ overlapped' = overlapped \cup ({name} \cap NamesUnderWay)
  BY DEF CheckName
<1>2. PICK r \in RequestRecord :
        /\ enroll' = [enroll EXCEPT ![e] = r]
        /\ NameTaken(name) => r.at = "refused"
        /\ ~NameTaken(name) => r.at = "named" /\ r.name = name
  BY CheckNameMoves DEF TypesInv
<1>3. NodesFollow' /\ enroll'[e] = r /\ \A f \in Enroller : f # e => enroll'[f] = enroll[f]
  <2>1. NodesFollow
    BY NodesInvIs
  <2>2. EarlyStep(e, r)
    BY <1>1, <1>2 DEF EarlyStep
  <2> QED
    BY <2>1, <2>2, EarlyHandlerKeepsNodes
<1>4. \A f \in BetweenCheckAndRegistry' :
        \/ f \in BetweenCheckAndRegistry /\ f # e /\ enroll'[f] = enroll[f]
        \/ f = e /\ ~NameTaken(name) /\ enroll'[f].name = name
  BY <1>1, <1>2, <1>3 DEF BetweenCheckAndRegistry
<1>5. \A f \in BetweenCheckAndRegistry : enroll[f].name = name => name \in overlapped'
  BY <1>1 DEF NamesUnderWay
<1>6. ASSUME ~NameTaken(name), NEW i \in DOMAIN db.nodes, db.nodes[i].name = name
      PROVE  name \in overlapped'
  <2> DEFINE n == [id |-> i, name |-> db.nodes[i].name, token |-> db.nodes[i].token]
  <2>1. n \in Loaded(db) /\ db.nodes[i] \in NodeRow
    BY LoadedRow
  <2>2. n.token \in Enroller /\ n.token = db.nodes[i].token /\ n.name = name
    BY <1>6, <2>1 DEF NodeRow
  <2> HIDE DEF n
  <2>3. n \notin registry
    BY <1>6, <2>2 DEF NameTaken
  <2>4. enroll[n.token].at = "added"
    BY <2>1, <2>3 DEF NodesInv, RegistryFollows
  <2>5. n.token \in BetweenCheckAndRegistry
    BY <2>2, <2>4 DEF BetweenCheckAndRegistry
  <2>6. enroll[n.token].name = name
    <3>1. /\ enroll[n.token].id \in DOMAIN db.nodes
          /\ db.nodes[enroll[n.token].id] = [name |-> enroll[n.token].name, token |-> n.token]
      BY <2>2, <2>4 DEF NodesInv, HandlersKnowTheirNode
    <3>2. /\ db.nodes[enroll[n.token].id].name = enroll[n.token].name
          /\ db.nodes[enroll[n.token].id].token = n.token
      BY <3>1
    <3>3. enroll[n.token].id = i
      BY <2>2, <3>1, <3>2 DEF NodesInv, TokensOnce
    <3> QED
      BY <1>6, <3>2, <3>3
  <2> QED
    BY <1>5, <2>5, <2>6
<1>7. NamesFollow /\ overlapped \subseteq overlapped'
  BY <1>1 DEF NodesInv
<1>8. NamesFollow'
  <2>1. \A f, g \in BetweenCheckAndRegistry' :
          f # g /\ enroll'[f].name = enroll'[g].name => enroll'[f].name \in overlapped'
    BY <1>4, <1>5, <1>7 DEF NamesFollow
  <2>2. \A f \in BetweenCheckAndRegistry' : enroll'[f].at # "added" =>
          \A i \in DOMAIN db'.nodes : db'.nodes[i].name = enroll'[f].name => enroll'[f].name \in overlapped'
    BY <1>1, <1>4, <1>6, <1>7 DEF NamesFollow
  <2>3. NamesAreUnique'
    BY <1>1, <1>7 DEF NamesFollow, NamesAreUnique
  <2> QED
    BY <2>1, <2>2, <2>3 DEF NamesFollow
<1> QED
  BY <1>3, <1>8 DEF NodesInv, NodesFollow

\* The steps between the check of the name and node_add.
LEMMA FileStepsKeepNodes ==
  ASSUME TypesInv, NodesInv, NEW e \in Enroller,
         ReadInvites(e) \/ TruncateInvites(e) \/ WriteInvites(e) \/ WriteInvitesFails(e) \/ NodeAddFails(e)
  PROVE  NodesInv'
<1>1. /\ enroll[e].at \in {"named", "read", "truncated", "consumed"}
      /\ UNCHANGED <<registry, db, overlapped>>
  BY DEF ReadInvites, TruncateInvites, WriteInvites, WriteInvitesFails, Rewriting, NodeAddFails
<1>2. RequestsTyped /\ invites \in Seq(Code) /\ enroll[e].id \in Nat /\ enroll[e].lines \in Seq(Code)
      /\ "refused" \in Places /\ "read" \in Places /\ "truncated" \in Places /\ "consumed" \in Places
  BY HandlerMoves DEF TypesInv, Places
<1>3. Request("refused").at = "refused"
  BY <1>2, FreshRequest
<1>4. PICK r : /\ enroll' = [enroll EXCEPT ![e] = r]
               /\ \/ r.at = "refused"
                  \/ r.at \in {"read", "truncated", "consumed"} /\ r.name = enroll[e].name
  <2>1. ASSUME NEW at \in {"read", "truncated", "consumed"}, NEW lines \in Seq(Code),
               enroll' = [enroll EXCEPT ![e] = Moved(enroll[e], at, lines, enroll[e].id)]
        PROVE  \E r : /\ enroll' = [enroll EXCEPT ![e] = r]
                      /\ r.at \in {"read", "truncated", "consumed"} /\ r.name = enroll[e].name
    <3> DEFINE r == Moved(enroll[e], at, lines, enroll[e].id)
    <3>1. r.at = at /\ r.name = enroll[e].name
      BY <1>1, <1>2, MovedRequest
    <3> HIDE DEF r
    <3> QED
      BY <2>1, <3>1 DEF r
  <2>2. CASE ReadInvites(e)
    <3> DEFINE lines == Kept(invites, enroll[e].code)
    <3>1. lines \in Seq(Code)
      BY <1>2, KeptLines
    <3>2. \/ enroll' = [enroll EXCEPT ![e] = Moved(enroll[e], "read", lines, enroll[e].id)]
          \/ enroll' = [enroll EXCEPT ![e] = Request("refused")]
      BY <1>2, <2>2, HandlerMoves
    <3> HIDE DEF lines
    <3> QED
      BY <1>3, <2>1, <3>1, <3>2
  <2>3. CASE TruncateInvites(e)
    BY <1>2, <2>1, <2>3, HandlerMoves
  <2>4. CASE WriteInvites(e)
    <3> DEFINE none == <<>>
    <3>1. enroll' = [enroll EXCEPT ![e] = Moved(enroll[e], "consumed", none, enroll[e].id)]
          /\ none \in Seq(Code)
      BY <1>2, <2>4, HandlerMoves, EmptySeq
    <3> HIDE DEF none
    <3> QED
      BY <2>1, <3>1
  <2>5. CASE NodeAddFails(e) \/ WriteInvitesFails(e)
    BY <1>3, <2>5 DEF NodeAddFails, WriteInvitesFails
  <2> QED
    BY <2>2, <2>3, <2>4, <2>5
<1>5. NodesFollow' /\ enroll'[e] = r /\ \A f \in Enroller : f # e => enroll'[f] = enroll[f]
  <2>1. NodesFollow
    BY NodesInvIs
  <2>2. EarlyStep(e, r)
    BY <1>1, <1>4 DEF EarlyStep
  <2> QED
    BY <2>1, <2>2, EarlyHandlerKeepsNodes
<1>6. ASSUME NamesFollow PROVE NamesFollow'
  <2>1. e \in BetweenCheckAndRegistry /\ enroll[e].at # "added"
    BY <1>1 DEF BetweenCheckAndRegistry
  <2>2. \A f \in BetweenCheckAndRegistry' :
          /\ f \in BetweenCheckAndRegistry /\ enroll'[f].name = enroll[f].name
          /\ enroll'[f].at # "added" => enroll[f].at # "added"
    BY <1>4, <1>5, <2>1 DEF BetweenCheckAndRegistry
  <2> QED
    BY <1>1, <1>6, <2>2 DEF NamesFollow, NamesAreUnique
<1> QED
  BY <1>1, <1>5, <1>6, NodesInvIs DEF NodesInv, NodesFollow

\* node_add: the new row carries a token that no other has, and a name that is free.
LEMMA NodeAddKeepsNodes ==
  ASSUME TypesInv, NodesInv, NEW e \in Enroller, NodeAdd(e)
  PROVE  NodesInv'
<1> DEFINE k == Len(db'.nodes)
           r == Moved(enroll[e], "added", enroll[e].lines, k)
           n0 == [id |-> k, name |-> enroll[e].name, token |-> e]
<1>1. enroll[e].at = "consumed" /\ UNCHANGED <<registry, overlapped>>
  BY DEF NodeAdd
<1>2. /\ DOMAIN db'.nodes = DOMAIN db.nodes \cup {k} /\ k \in Nat /\ k \notin DOMAIN db.nodes
      /\ \A i \in DOMAIN db.nodes : db'.nodes[i] = db.nodes[i]
      /\ db'.nodes[k] = [name |-> enroll[e].name, token |-> e]
  BY NodeAdded
<1>3. db'.nodes[k].name = enroll[e].name /\ db'.nodes[k].token = e
  BY <1>2
<1>4. /\ enroll' = [enroll EXCEPT ![e] = r] /\ enroll[e].lines \in Seq(Code) /\ "added" \in Places
      /\ RequestsTyped /\ enroll[e].at \notin {"idle", "refused"}
  BY <1>1, HandlerMoves DEF TypesInv, Places
<1> HIDE DEF k
<1>5. r.at = "added" /\ r.id = k /\ r.name = enroll[e].name
  BY <1>2, <1>4, MovedRequest
<1> HIDE DEF r
<1>6. enroll'[e] = r /\ \A f \in Enroller : f # e => enroll'[f] = enroll[f]
  BY <1>4 DEF RequestsTyped
<1>7. \A i \in DOMAIN db.nodes : db.nodes[i].token \in Enroller /\ db.nodes[i].token # e
  BY <1>1, LoadedRow DEF NodesInv, TokensOnce, NodeRow
<1>8. Loaded(db') = Loaded(db) \cup {n0}
  BY <1>2, <1>3 DEF Loaded
<1>9. \A n \in Loaded(db) : n.token \in Enroller /\ n.token # e
  BY <1>7, LoadedRow
<1>10. TokensOnce'
  <2>1. \A i \in DOMAIN db'.nodes :
          enroll'[db'.nodes[i].token].at \in {"added", "answered", "refused"}
    BY <1>2, <1>3, <1>5, <1>6, <1>7 DEF NodesInv, TokensOnce
  <2>2. \A i, j \in DOMAIN db'.nodes : db'.nodes[i].token = db'.nodes[j].token => i = j
    BY <1>2, <1>3, <1>7 DEF NodesInv, TokensOnce
  <2> QED
    BY <2>1, <2>2 DEF TokensOnce
<1>11. RegistryFollows'
  <2>1. \A n \in Loaded(db) : n \in registry \/ enroll'[n.token].at = "added"
    BY <1>6, <1>9 DEF NodesInv, RegistryFollows
  <2>2. n0.token = e /\ enroll'[n0.token].at = "added"
    BY <1>5, <1>6
  <2>3. registry' = registry /\ registry \subseteq Loaded(db)
    BY <1>1 DEF NodesInv, RegistryFollows
  <2> HIDE DEF n0
  <2> QED
    BY <1>8, <2>1, <2>2, <2>3 DEF RegistryFollows
<1>12. HandlersKnowTheirNode'
  BY <1>2, <1>5, <1>6 DEF NodesInv, HandlersKnowTheirNode
<1>13. ASSUME NamesFollow PROVE NamesFollow'
  <2>1. e \in BetweenCheckAndRegistry
    BY <1>1 DEF BetweenCheckAndRegistry
  <2>2. \A f \in BetweenCheckAndRegistry' :
          /\ f \in BetweenCheckAndRegistry /\ enroll'[f].name = enroll[f].name
          /\ enroll'[f].at # "added" => f # e /\ enroll[f].at # "added"
    BY <1>5, <1>6, <2>1 DEF BetweenCheckAndRegistry
  <2>3. \A i \in DOMAIN db.nodes : db.nodes[i].name = enroll[e].name => enroll[e].name \in overlapped
    BY <1>1, <1>13, <2>1 DEF NamesFollow
  <2>4. NamesAreUnique'
    BY <1>1, <1>2, <1>3, <1>13, <2>3 DEF NamesFollow, NamesAreUnique
  <2>5. \A f, g \in BetweenCheckAndRegistry' :
          f # g /\ enroll'[f].name = enroll'[g].name => enroll'[f].name \in overlapped'
    BY <1>1, <1>13, <2>2 DEF NamesFollow
  <2>6. \A f \in BetweenCheckAndRegistry' : enroll'[f].at # "added" =>
          \A i \in DOMAIN db'.nodes : db'.nodes[i].name = enroll'[f].name => enroll'[f].name \in overlapped'
    BY <1>1, <1>2, <1>3, <1>13, <2>1, <2>2 DEF NamesFollow
  <2> QED
    BY <2>4, <2>5, <2>6 DEF NamesFollow
<1> QED
  BY <1>1, <1>10, <1>11, <1>12, <1>13 DEF NodesInv

\* enroll_runtime: the node of the request joins the registry.
LEMMA EnrollRuntimeKeepsNodes ==
  ASSUME TypesInv, NodesInv, NEW e \in Enroller, EnrollRuntime(e)
  PROVE  NodesInv'
<1> DEFINE r == Moved(enroll[e], "answered", enroll[e].lines, enroll[e].id)
           n0 == [id |-> enroll[e].id, name |-> enroll[e].name, token |-> e]
<1>1. enroll[e].at = "added" /\ UNCHANGED <<db, overlapped>> /\ registry' = registry \cup {n0}
  BY DEF EnrollRuntime
<1>2. /\ enroll' = [enroll EXCEPT ![e] = r] /\ enroll[e].lines \in Seq(Code) /\ enroll[e].id \in Nat
      /\ "answered" \in Places /\ RequestsTyped /\ enroll[e].at \notin {"idle", "refused"}
  BY <1>1, HandlerMoves DEF TypesInv, Places
<1>3. r.at = "answered" /\ r.id = enroll[e].id /\ r.name = enroll[e].name
  BY <1>2, MovedRequest
<1> HIDE DEF r
<1>4. enroll'[e] = r /\ \A f \in Enroller : f # e => enroll'[f] = enroll[f]
  BY <1>2 DEF RequestsTyped
<1>5. /\ enroll[e].id \in DOMAIN db.nodes
      /\ db.nodes[enroll[e].id] = [name |-> enroll[e].name, token |-> e]
  BY <1>1 DEF NodesInv, HandlersKnowTheirNode
<1>6. db.nodes[enroll[e].id].name = enroll[e].name /\ db.nodes[enroll[e].id].token = e
  BY <1>5
<1>7. n0 \in Loaded(db)
  BY <1>5, <1>6 DEF Loaded
<1>8. \A n \in Loaded(db) : n.token = e => n = n0
  BY <1>5, <1>6, LoadedRow DEF NodesInv, TokensOnce
<1>9. Loaded(db') = Loaded(db) /\ \A n \in Loaded(db) : n.token \in Enroller
  BY <1>1, LoadedRow
<1>10. TokensOnce'
  BY <1>1, <1>3, <1>4, LoadedRow DEF NodesInv, TokensOnce, NodeRow
<1>11. RegistryFollows'
  <2> HIDE DEF n0
  <2> QED
    BY <1>1, <1>4, <1>7, <1>8, <1>9 DEF NodesInv, RegistryFollows
<1>12. HandlersKnowTheirNode'
  BY <1>1, <1>3, <1>4, <1>5 DEF NodesInv, HandlersKnowTheirNode
<1>13. ASSUME NamesFollow PROVE NamesFollow'
  <2>1. \A f \in BetweenCheckAndRegistry' : f \in BetweenCheckAndRegistry /\ enroll'[f] = enroll[f]
    BY <1>3, <1>4 DEF BetweenCheckAndRegistry
  <2> QED
    BY <1>1, <1>13, <2>1 DEF NamesFollow, NamesAreUnique
<1> QED
  BY <1>1, <1>10, <1>11, <1>12, <1>13 DEF NodesInv

\* The command, the leaderboard, the store and the clock leave the nodes alone; a
\* server that starts again loads them all.
LEMMA OthersKeepNodes ==
  ASSUME TypesInv, NodesInv,
         (\E c \in Code : CreateReads(c)) \/ CreateTruncates \/ CreateWrites \/ CreateFails \/ Elsewhere
  PROVE  NodesInv'
<1>1. UNCHANGED <<enroll, overlapped>>
  BY ElsewhereStays DEF CreateReads, CreateTruncates, CreateWrites, CreateFails, nodeVars
<1>2. db'.nodes = db.nodes
  BY NodesStay DEF CreateReads, CreateTruncates, CreateWrites, CreateFails
<1>3. registry' = registry \/ registry' = Loaded(db)
  BY DEF CreateReads, CreateTruncates, CreateWrites, CreateFails, Elsewhere, Record, Snapshot, TakeDirty, Upsert,
         UpsertFails, Checkpoint, Stop, Exit, Tick, Start, nodeVars, bvars
<1>4. Loaded(db') = Loaded(db)
  BY <1>2, LoadedNodes
<1>5. RegistryFollows'
  BY <1>1, <1>3, <1>4 DEF NodesInv, RegistryFollows
<1>6. NamesFollow => NamesFollow'
  BY <1>1, <1>2 DEF NamesFollow, NamesAreUnique, BetweenCheckAndRegistry
<1> QED
  BY <1>1, <1>2, <1>5, <1>6 DEF NodesInv, TokensOnce, HandlersKnowTheirNode

LEMMA CrashKeepsNodes ==
  ASSUME TypesInv, NodesInv, Crash
  PROVE  NodesInv'
<1>1. registry' = Loaded(disk) /\ UNCHANGED overlapped
  BY DEF Crash, Start
<1>2. db'.nodes = db.nodes /\ disk.nodes = db.nodes
  BY NodesStay DEF TypesInv, NodesTyped
<1>3. Loaded(db') = Loaded(db) /\ Loaded(disk) = Loaded(db)
  BY <1>2, LoadedNodes
<1>4. /\ \A e \in Enroller : enroll'[e].at \in {"idle", "answered", "refused"}
      /\ \A e \in Enroller : enroll'[e] = enroll[e] \/ enroll'[e].at = "refused"
  BY CrashedHandlers
<1>5. RegistryFollows'
  BY <1>1, <1>3 DEF RegistryFollows
<1>6. TokensOnce'
  BY <1>2, <1>4, LoadedRow DEF NodesInv, TokensOnce, NodeRow
<1>7. HandlersKnowTheirNode'
  BY <1>2, <1>4 DEF NodesInv, HandlersKnowTheirNode
<1>8. NamesFollow => NamesFollow'
  BY <1>1, <1>2, <1>4 DEF NamesFollow, NamesAreUnique, BetweenCheckAndRegistry
<1> QED
  BY <1>1, <1>5, <1>6, <1>7, <1>8 DEF NodesInv

LEMMA NextNodes == TypesInv /\ NodesInv /\ [BackofficeNext]_bvars => NodesInv'
<1> SUFFICES ASSUME TypesInv, NodesInv, [BackofficeNext]_bvars PROVE NodesInv'
  OBVIOUS
<1>1. ASSUME NEW e \in Enroller, EnrollStep(e) PROVE NodesInv'
  BY <1>1, CheckNameKeepsNodes, FileStepsKeepNodes, NodeAddKeepsNodes, EnrollRuntimeKeepsNodes
     DEF EnrollStep
<1>2. CASE Crash
  BY <1>2, CrashKeepsNodes
<1>3. CASE (\E c \in Code : CreateReads(c)) \/ CreateTruncates \/ CreateWrites \/ CreateFails \/ Elsewhere
  BY <1>3, OthersKeepNodes
<1> QED
  BY <1>1, <1>2, <1>3, StepsOfBackoffice

LEMMA InitNodes == BackofficeInit => NodesInv
<1> SUFFICES ASSUME BackofficeInit PROVE NodesInv
  OBVIOUS
<1>1. db.nodes = <<>> /\ registry = {} /\ enroll = [e \in Enroller |-> Request("idle")]
  BY DEF BackofficeInit
<1>2. \A e \in Enroller : enroll[e].at = "idle"
  BY <1>1 DEF Request
<1>3. DOMAIN db.nodes = {}
  BY <1>1
<1>4. Loaded(db) = {}
  BY <1>3 DEF Loaded
<1> QED
  BY <1>1, <1>2, <1>3, <1>4 DEF NodesInv, TokensOnce, RegistryFollows, HandlersKnowTheirNode, NamesFollow,
                                NamesAreUnique, BetweenCheckAndRegistry

\* The node table, the registry and the enrollments under way agree: api.rs adds the
\* row before it registers the node, and a crash between the two loses neither.
THEOREM NodesInvariant == BackofficeSpec => []NodesInv
BY InitNodes, NextNodes, TypesInvariant, PTL DEF BackofficeSpec

\* Whoever was answered by enroll with a token is known by it, under one id of its
\* own, in this process and in any process started after a crash: node_add is durable
\* before the answer.
THEOREM AnswerOutlivesCrash == BackofficeSpec => []AnsweredNodeAuthenticates
<1>1. TypesInv /\ NodesInv => AnsweredNodeAuthenticates
  <2> SUFFICES ASSUME TypesInv, NodesInv, NEW e \in Enroller, enroll[e].at = "answered"
               PROVE  /\ \E n \in registry : n.token = e /\ n.id = enroll[e].id
                      /\ enroll[e].id \in DOMAIN disk.nodes /\ disk.nodes[enroll[e].id].token = e
                      /\ \A n \in registry : n.token = e <=> n.id = enroll[e].id
    BY DEF AnsweredNodeAuthenticates
  <2> DEFINE id == enroll[e].id
             n0 == [id |-> id, name |-> db.nodes[id].name, token |-> db.nodes[id].token]
  <2>1. id \in DOMAIN db.nodes /\ db.nodes[id].token = e
    <3>1. id \in DOMAIN db.nodes /\ db.nodes[id] = [name |-> enroll[e].name, token |-> e]
      BY DEF NodesInv, HandlersKnowTheirNode
    <3> QED
      BY <3>1
  <2>2. n0 \in Loaded(db) /\ n0.token = e /\ n0.id = id
    BY <2>1, LoadedRow
  <2> HIDE DEF n0
  <2>3. n0 \in registry
    BY <2>2 DEF NodesInv, RegistryFollows
  <2>4. disk.nodes = db.nodes
    BY DEF TypesInv, NodesTyped
  <2>5. \A n \in registry : n.id \in DOMAIN db.nodes /\ n.token = db.nodes[n.id].token
    BY LoadedRow DEF NodesInv, RegistryFollows
  <2>6. \A n \in registry : n.token = e <=> n.id = id
    BY <2>1, <2>5 DEF NodesInv, TokensOnce
  <2> QED
    BY <2>1, <2>2, <2>3, <2>4, <2>6
<1> QED
  BY <1>1, NodesInvariant, TypesInvariant, PTL

\* The 409 of enroll keeps names apart, over failures, crashes and restarts too: a name
\* is held twice only if two enrollments with that name overlapped.
THEOREM NamesStayUnique == BackofficeSpec => []NamesAreUnique
<1>1. NodesInv => NamesAreUnique
  BY DEF NodesInv, NamesFollow, NamesAreUnique
<1> QED
  BY <1>1, NodesInvariant, PTL

-----------------------------------------------------------------------------
(* The leaderboard *)

LEMMA HourMonotone ==
  ASSUME NEW m \in Nat
  PROVE  HourOf(m) \in Nat /\ HourOf(m + 1) \in Nat /\ HourOf(m) <= HourOf(m + 1)
BY LeaderboardAssumption DEF HourOf

\* The hours that are not too old are few.
LEMMA YoungHours ==
  ASSUME NEW now \in Nat, NEW S, S \subseteq 0 .. now, \A h \in S : h >= now - RETAIN_HOURS
  PROVE  Cardinality(S) <= RETAIN_HOURS + 1
<1> DEFINE first == now - RETAIN_HOURS
           span == first .. now
<1>1. first \in Int /\ now \in Int /\ RETAIN_HOURS \in Nat /\ ~(first > now) /\ now - first + 1 = RETAIN_HOURS + 1
  BY LeaderboardAssumption
<1>2. S \in SUBSET span
  BY <1>1
<1> HIDE DEF first
<1>3. IsFiniteSet(span) /\ Cardinality(span) = now - first + 1
  BY <1>1, FS_Interval
<1> HIDE DEF span
<1>4. Cardinality(S) <= Cardinality(span) /\ IsFiniteSet(S)
  BY <1>2, <1>3, FS_Subset
<1>5. Cardinality(S) \in Nat
  BY <1>4, FS_CardinalityType
<1> QED
  BY <1>1, <1>3, <1>4, <1>5

\* A node that no request was recorded for.
LEMMA NewStatsKept ==
  ASSUME NEW now \in Nat
  PROVE  HoursKept(NewNodeStats, now)
<1>1. DOMAIN NewNodeStats.hours = {} /\ NewNodeStats.dirty = {}
      /\ DOMAIN NewNodeStats = {"total", "minutes", "head", "hours", "dirty"}
  BY DEF NewNodeStats
<1>2. Cardinality({}) <= RETAIN_HOURS + 1
  BY FS_EmptySet, LeaderboardAssumption
<1> QED
  BY <1>1, <1>2 DEF HoursKept

\* advance moves the ring only.
LEMMA AdvancedHours ==
  ASSUME NEW ns, NEW m, DOMAIN ns = {"total", "minutes", "head", "hours", "dirty"}
  PROVE  /\ DOMAIN Advance(ns, m) = {"total", "minutes", "head", "hours", "dirty"}
         /\ Advance(ns, m).hours = ns.hours /\ Advance(ns, m).dirty = ns.dirty
BY DEF Advance

\* record drops old hours, never one that is dirty.
LEMMA RecordedKept ==
  ASSUME NEW ns, NEW m \in Nat, HoursKept(ns, HourOf(m))
  PROVE  HoursKept(Recorded(ns, m), HourOf(m))
<1> DEFINE now == HourOf(m)
           a == Advance(ns, m)
           hours == [h \in DOMAIN a.hours \cup {now} |-> SumOver(a.hours, {h}) + IF h = now THEN 1 ELSE 0]
           young == {h \in DOMAIN hours : h >= now - RETAIN_HOURS}
           after == IF Cardinality(DOMAIN hours) > RETAIN_HOURS THEN Restrict(hours, young) ELSE hours
           b == Recorded(ns, m)
<1>1. now \in Nat /\ RETAIN_HOURS \in Nat \ {0}
  BY HourMonotone, LeaderboardAssumption
<1>2. /\ DOMAIN a = {"total", "minutes", "head", "hours", "dirty"}
      /\ a.hours = ns.hours /\ a.dirty = ns.dirty
  BY AdvancedHours DEF HoursKept
<1>3. DOMAIN ns.hours \subseteq 0 .. now /\ ns.dirty \subseteq DOMAIN ns.hours
      /\ \A h \in ns.dirty : now - h < RETAIN_HOURS
  BY DEF HoursKept
<1>4. DOMAIN hours = DOMAIN ns.hours \cup {now}
  BY <1>2
<1>5. DOMAIN b = DOMAIN a /\ b.hours = after /\ b.dirty = a.dirty \cup {now}
  BY <1>2 DEF Recorded
<1>6. DOMAIN hours \subseteq 0 .. now
  BY <1>1, <1>3, <1>4
<1> HIDE DEF a, hours, now
<1>7. /\ DOMAIN after \subseteq DOMAIN hours
      /\ Cardinality(DOMAIN hours) > RETAIN_HOURS => DOMAIN after = young
      /\ ~(Cardinality(DOMAIN hours) > RETAIN_HOURS) => DOMAIN after = DOMAIN hours
  BY DEF Restrict
<1> HIDE DEF after, b
<1>8. \A h \in b.dirty : h \in DOMAIN hours /\ now - h < RETAIN_HOURS /\ h \in young
  BY <1>1, <1>2, <1>3, <1>4, <1>5, <1>6
<1>9. b.dirty \subseteq DOMAIN after
  BY <1>7, <1>8
<1>10. Cardinality(DOMAIN after) <= RETAIN_HOURS + 1
  <2>1. CASE Cardinality(DOMAIN hours) > RETAIN_HOURS
    <3>1. young \subseteq 0 .. now /\ \A h \in young : h >= now - RETAIN_HOURS
      BY <1>6
    <3> HIDE DEF young
    <3>2. Cardinality(young) <= RETAIN_HOURS + 1
      BY <1>1, <3>1, YoungHours
    <3> QED
      BY <1>7, <2>1, <3>2
  <2>2. CASE ~(Cardinality(DOMAIN hours) > RETAIN_HOURS)
    <3> DEFINE S == DOMAIN hours
               span == 0 .. now
    <3>1. IsFiniteSet(span) /\ S \in SUBSET span
      BY <1>1, <1>6, FS_Interval
    <3> HIDE DEF S, span
    <3>2. IsFiniteSet(S)
      BY <3>1, FS_Subset
    <3>3. Cardinality(S) \in Nat
      BY <3>2, FS_CardinalityType
    <3> QED
      BY <1>1, <1>7, <2>2, <3>3 DEF S
  <2> QED
    BY <2>1, <2>2
<1>11. HoursKept(b, now)
  BY <1>2, <1>5, <1>6, <1>7, <1>8, <1>9, <1>10 DEF HoursKept
<1> QED
  BY <1>11 DEF b, now

\* load keeps young hours and starts with nothing dirty.
LEMMA LoadKept ==
  ASSUME NEW rows, NEW m \in Nat, DOMAIN rows \subseteq 0 .. HourOf(m)
  PROVE  HoursKept(Load(rows, m), HourOf(m))
<1> DEFINE now == HourOf(m)
           young == {h \in DOMAIN rows : h >= now - RETAIN_HOURS}
           b == Load(rows, m)
<1>1. now \in Nat
  BY HourMonotone
<1>2. CASE rows = NewNodeStats.hours
  <2>1. b = NewNodeStats
    BY <1>2 DEF Load
  <2> HIDE DEF b, now
  <2>2. HoursKept(b, now)
    BY <1>1, <2>1, NewStatsKept
  <2> QED
    BY <2>2 DEF b, now
<1>3. CASE rows # NewNodeStats.hours
  <2>1. /\ DOMAIN b = {"total", "minutes", "head", "hours", "dirty"}
        /\ DOMAIN b.hours = young /\ b.dirty = {}
    BY <1>3 DEF Load, NewNodeStats, Restrict
  <2>2. young \subseteq 0 .. now /\ \A h \in young : h >= now - RETAIN_HOURS
    OBVIOUS
  <2> HIDE DEF b, now, young
  <2>3. Cardinality(young) <= RETAIN_HOURS + 1
    BY <1>1, <2>2, YoungHours
  <2>4. HoursKept(b, now)
    BY <2>1, <2>2, <2>3 DEF HoursKept
  <2> QED
    BY <2>4 DEF b, now
<1> QED
  BY <1>2, <1>3

\* The rows of a flusher that holds none, and of any set of nodes without rows.
LEMMA NoRowsBegun ==
  ASSUME NEW now
  PROVE  /\ RowsBegun([id \in NodeId |-> NoRows], now)
         /\ \A at : FlusherAt(at).at = at /\ RowsBegun(FlusherAt(at).rows, now)
BY DEF RowsBegun, NoRows, FlusherAt

\* Steps that leave the statistics alone.
StatisticsRest ==
  /\ UNCHANGED <<stats, flusher, log, past, dropped, late, minute>>
  /\ db'.rows = db.rows /\ disk'.rows \in {disk.rows, db.rows}

LEMMA OthersLeaveStatistics ==
  ASSUME TypesInv,
         \/ (\E c \in Code : CreateReads(c)) \/ CreateTruncates \/ CreateWrites \/ CreateFails
         \/ \E e \in Enroller : EnrollStep(e)
         \/ Checkpoint \/ Stop \/ UNCHANGED bvars
  PROVE  StatisticsRest
<1>1. UNCHANGED <<stats, flusher, log, past, dropped, late, minute>>
  BY DEF CreateReads, CreateTruncates, CreateWrites, CreateFails, EnrollStep, CheckName, ReadInvites, TruncateInvites,
         WriteInvites, WriteInvitesFails, NodeAdd, NodeAddFails, EnrollRuntime, Checkpoint, Stop, bvars, statVars
<1>2. DOMAIN db = {"nodes", "rows"}
  BY DEF TypesInv, NodesTyped
<1>3. db' = db \/ \E nodes : db' = [db EXCEPT !.nodes = nodes]
  BY DEF CreateReads, CreateTruncates, CreateWrites, CreateFails, EnrollStep, CheckName, ReadInvites, TruncateInvites,
         WriteInvites, WriteInvitesFails, NodeAdd, WithNode, NodeAddFails, EnrollRuntime, Checkpoint, Stop, bvars
<1>4. db'.rows = db.rows
  BY <1>2, <1>3
<1>5. disk' = disk \/ disk' = db' \/ disk' = db
  BY DEF CreateReads, CreateTruncates, CreateWrites, CreateFails, EnrollStep, CheckName, ReadInvites, TruncateInvites,
         WriteInvites, WriteInvitesFails, NodeAdd, NodeAddFails, EnrollRuntime, Checkpoint, Stop, bvars
<1> QED
  BY <1>1, <1>4, <1>5 DEF StatisticsRest

LEMMA StatisticsStay ==
  ASSUME HoursInv, StatisticsRest
  PROVE  HoursInv'
BY DEF StatisticsRest, HoursInv, StatsKept

\* A new process.
LEMMA StartKeepsHours ==
  ASSUME HoursInv, NEW tables, Start(tables), RowsBegun(tables.rows, HourOf(minute))
  PROVE  HoursInv'
<1> DEFINE now == HourOf(minute)
<1>1. /\ db' = tables /\ disk' = tables /\ minute' = minute
      /\ stats' = [id \in NodeId |-> Load(tables.rows[id], minute)]
      /\ flusher' = FlusherAt("sleeping")
  BY DEF Start
<1>2. minute \in Minute /\ minute \in Nat
  BY BackofficeAssumption DEF HoursInv, Minute
<1>3. \A id \in NodeId : HoursKept(Load(tables.rows[id], minute), now)
  BY <1>2, LoadKept DEF RowsBegun
<1>4. StatsKept(now)'
  BY <1>1, <1>3 DEF StatsKept
<1>5. flusher'.at = "sleeping" /\ RowsBegun(flusher'.rows, now)
  BY <1>1, NoRowsBegun
<1> QED
  BY <1>1, <1>2, <1>4, <1>5 DEF HoursInv

\* Steps of the leaderboard.
LEMMA RecordKeepsHours ==
  ASSUME HoursInv, NEW n, Record(n)
  PROVE  HoursInv'
<1> DEFINE now == HourOf(minute)
<1>1. UNCHANGED <<db, disk, flusher, minute>>
      /\ stats' = [stats EXCEPT ![n.id] = Recorded(stats[n.id], minute)]
  BY DEF Record
<1>2. minute \in Nat
  BY BackofficeAssumption DEF HoursInv, Minute
<1>3. \A id \in NodeId : HoursKept(Recorded(stats[id], minute), now)
  BY <1>2, RecordedKept DEF HoursInv, StatsKept
<1>4. StatsKept(now)'
  BY <1>1, <1>3 DEF HoursInv, StatsKept
<1> QED
  BY <1>1, <1>4 DEF HoursInv

LEMMA SnapshotKeepsHours ==
  ASSUME HoursInv, Snapshot
  PROVE  HoursInv'
<1> DEFINE now == HourOf(minute)
<1>1. UNCHANGED <<db, disk, flusher, minute>>
      /\ stats' = [id \in NodeId |-> IF stats[id] = NewNodeStats THEN stats[id]
                                     ELSE Advance(stats[id], minute)]
  BY DEF Snapshot
<1>2. ASSUME NEW id \in NodeId PROVE HoursKept(Advance(stats[id], minute), now)
  <2> DEFINE ns == stats[id]
             a == Advance(ns, minute)
  <2>1. HoursKept(ns, now)
    BY DEF HoursInv, StatsKept
  <2>2. /\ DOMAIN a = {"total", "minutes", "head", "hours", "dirty"}
        /\ a.hours = ns.hours /\ a.dirty = ns.dirty
    BY <2>1, AdvancedHours DEF HoursKept
  <2> HIDE DEF a, ns, now
  <2>3. HoursKept(a, now)
    BY <2>1, <2>2 DEF HoursKept
  <2> QED
    BY <2>3 DEF a, ns
<1>3. StatsKept(now)'
  BY <1>1, <1>2 DEF HoursInv, StatsKept
<1> QED
  BY <1>1, <1>3 DEF HoursInv

LEMMA FlusherKeepsHours ==
  ASSUME TypesInv, HoursInv, TakeDirty \/ Upsert \/ UpsertFails
  PROVE  HoursInv'
<1> DEFINE now == HourOf(minute)
<1>1. \A id \in NodeId : HoursKept(stats[id], now)
  BY DEF HoursInv, StatsKept
<1>2. CASE TakeDirty
  <2>1. /\ UNCHANGED <<db, disk, minute>>
        /\ flusher' = [at |-> IF stop THEN "last" ELSE "holding",
                       rows |-> [id \in NodeId |-> DirtyRows(stats[id])]]
        /\ stats' = [id \in NodeId |-> Taken(stats[id])]
    BY <1>2 DEF TakeDirty
  <2>2. flusher'.at \in {"last", "holding"} /\ flusher'.rows = [id \in NodeId |-> DirtyRows(stats[id])]
    BY <2>1
  <2>3. \A id \in NodeId : DOMAIN DirtyRows(stats[id]) \subseteq 0 .. now
    BY <1>1 DEF DirtyRows, Restrict, HoursKept
  <2>4. RowsBegun(flusher'.rows, now)
    BY <2>2, <2>3 DEF RowsBegun
  <2>5. \A id \in NodeId : HoursKept(Taken(stats[id]), now)
    <3> SUFFICES ASSUME NEW ns, HoursKept(ns, now) PROVE HoursKept(Taken(ns), now)
      BY <1>1
    <3>1. DOMAIN Taken(ns) = DOMAIN ns /\ Taken(ns).hours = ns.hours /\ Taken(ns).dirty = {}
      BY DEF Taken, HoursKept
    <3> QED
      BY <3>1 DEF HoursKept
  <2>6. StatsKept(now)'
    BY <2>1, <2>5 DEF StatsKept
  <2> QED
    BY <2>1, <2>2, <2>4, <2>6 DEF HoursInv
<1>3. CASE Upsert \/ UpsertFails
  <2>1. /\ UNCHANGED <<disk, stats, minute>>
        /\ flusher' = FlusherAt(IF flusher.at = "last" THEN "ended" ELSE "sleeping")
    BY <1>3 DEF Upsert, UpsertFails, FlusherRests
  <2>2. /\ flusher'.at \in {"ended", "sleeping"} /\ flusher' = FlusherAt(flusher'.at)
        /\ RowsBegun(flusher'.rows, now)
    BY <2>1, NoRowsBegun
  <2>3. RowsBegun(db'.rows, now)
    <3>1. CASE UNCHANGED db
      BY <3>1 DEF HoursInv
    <3>2. CASE Upsert
      <4>1. /\ db' = [db EXCEPT !.rows = [id \in NodeId |-> Upserted(db.rows[id], flusher.rows[id])]]
            /\ DOMAIN db = {"nodes", "rows"}
        BY <3>2 DEF Upsert, TypesInv, NodesTyped
      <4>2. db'.rows = [id \in NodeId |-> Upserted(db.rows[id], flusher.rows[id])]
        BY <4>1
      <4>3. \A id \in NodeId : DOMAIN Upserted(db.rows[id], flusher.rows[id]) \subseteq 0 .. now
        BY DEF Upserted, HoursInv, RowsBegun
      <4> QED
        BY <4>2, <4>3 DEF RowsBegun
    <3> QED
      BY <1>3, <3>1, <3>2 DEF UpsertFails
  <2> QED
    BY <2>1, <2>2, <2>3 DEF HoursInv, StatsKept
<1> QED
  BY <1>2, <1>3

\* The flusher wakes before an hour gets too old.
LEMMA TickKeepsHours ==
  ASSUME HoursInv, Tick
  PROVE  HoursInv'
<1> DEFINE now == HourOf(minute)
           next == HourOf(minute + 1)
<1>1. /\ minute < MaxMinute /\ minute' = minute + 1 /\ UNCHANGED <<db, disk, flusher, stats>>
      /\ \A id \in NodeId : \A h \in stats[id].dirty : next - h < RETAIN_HOURS
  BY DEF Tick, statVars
<1>2. minute \in Nat /\ minute + 1 \in Minute
  BY <1>1, BackofficeAssumption DEF HoursInv, Minute
<1>3. now \in Nat /\ next \in Nat /\ now <= next
  BY <1>2, HourMonotone
<1>4. RowsBegun(db.rows, now) /\ RowsBegun(disk.rows, now) /\ RowsBegun(flusher.rows, now)
      /\ StatsKept(now)
  BY DEF HoursInv
<1> HIDE DEF now, next
<1>5. 0 .. now \subseteq 0 .. next
  BY <1>3
<1>6. RowsBegun(db.rows, next) /\ RowsBegun(disk.rows, next) /\ RowsBegun(flusher.rows, next)
  BY <1>4, <1>5 DEF RowsBegun
<1>7. StatsKept(next)
  BY <1>1, <1>4, <1>5 DEF StatsKept, HoursKept
<1>8. HourOf(minute') = next
  BY <1>1 DEF next
<1> QED
  BY <1>1, <1>2, <1>6, <1>7, <1>8 DEF HoursInv, StatsKept

LEMMA NextHours == TypesInv /\ HoursInv /\ [BackofficeNext]_bvars => HoursInv'
<1> SUFFICES ASSUME TypesInv, HoursInv, [BackofficeNext]_bvars PROVE HoursInv'
  OBVIOUS
<1>1. CASE Crash
  <2>1. Start(disk) /\ RowsBegun(disk.rows, HourOf(minute))
    BY <1>1 DEF Crash, HoursInv
  <2> QED
    BY <2>1, StartKeepsHours
<1>2. CASE Exit
  <2>1. Start(db) /\ RowsBegun(db.rows, HourOf(minute))
    BY <1>2 DEF Exit, HoursInv
  <2> QED
    BY <2>1, StartKeepsHours
<1>3. CASE Elsewhere /\ ~Exit
  BY <1>3, RecordKeepsHours, SnapshotKeepsHours, FlusherKeepsHours, TickKeepsHours,
     OthersLeaveStatistics, StatisticsStay DEF Elsewhere
<1>4. CASE \/ (\E c \in Code : CreateReads(c)) \/ CreateTruncates \/ CreateWrites \/ CreateFails
           \/ \E e \in Enroller : EnrollStep(e)
  BY <1>4, OthersLeaveStatistics, StatisticsStay
<1> QED
  BY <1>1, <1>2, <1>3, <1>4, StepsOfBackoffice

LEMMA InitHours == BackofficeInit => HoursInv
<1> SUFFICES ASSUME BackofficeInit PROVE HoursInv
  OBVIOUS
<1>1. /\ minute = 0 /\ flusher = FlusherAt("sleeping") /\ disk = db
      /\ db.rows = [id \in NodeId |-> NoRows]
      /\ stats = [id \in NodeId |-> NewNodeStats]
  BY DEF BackofficeInit
<1>2. minute \in Minute /\ minute \in Nat
  BY <1>1, BackofficeAssumption DEF Minute
<1>3. HourOf(minute) \in Nat
  BY <1>2, HourMonotone
<1>4. StatsKept(HourOf(minute))
  BY <1>1, <1>3, NewStatsKept DEF StatsKept
<1>5. flusher.at = "sleeping" /\ RowsBegun(flusher.rows, HourOf(minute))
  BY <1>1, NoRowsBegun
<1>6. RowsBegun(db.rows, HourOf(minute))
  BY <1>1, NoRowsBegun
<1> QED
  BY <1>1, <1>2, <1>4, <1>5, <1>6 DEF HoursInv

\* record and load in stats.rs keep at most RETAIN_HOURS + 1 hours of a node, and
\* dropping old ones never drops an hour that waits for the flusher, as long as the
\* flusher runs before that hour is RETAIN_HOURS old.
THEOREM DirtyHoursAreKept == BackofficeSpec => []HoursInv
BY InitHours, NextHours, TypesInvariant, PTL DEF BackofficeSpec

\* Every row has a token of its own, so there are no more nodes than requests.
LEMMA NodesAreFew ==
  ASSUME TypesInv, NodesInv
  PROVE  Len(db.nodes) <= Cardinality(Enroller) /\ DOMAIN db.nodes \subseteq NodeId
<1> DEFINE nodes == db.nodes
           rows == 1 .. Len(nodes)
           f == [i \in rows |-> nodes[i].token]
<1>1. nodes \in Seq(NodeRow)
  BY DEF TypesInv, NodesTyped
<1>2. IsFiniteSet(Enroller)
  BY BackofficeAssumption
<1>3. \A i \in DOMAIN nodes : nodes[i].token \in Enroller
  BY LoadedRow DEF NodeRow
<1>4. \A i, j \in DOMAIN nodes : nodes[i].token = nodes[j].token => i = j
  BY DEF NodesInv, TokensOnce
<1> HIDE DEF nodes
<1>5. Len(nodes) \in Nat /\ DOMAIN nodes = rows
  BY <1>1, LenProperties
<1>6. f \in [rows -> Enroller] /\ \A i, j \in rows : f[i] = f[j] => i = j
  BY <1>3, <1>4, <1>5
<1>7. IsFiniteSet(rows) /\ Cardinality(rows) = Len(nodes)
  <2>1. /\ IsFiniteSet(1 .. Len(nodes))
        /\ Cardinality(1 .. Len(nodes)) = IF 1 > Len(nodes) THEN 0 ELSE Len(nodes) - 1 + 1
    BY <1>5, FS_Interval
  <2> QED
    BY <1>5, <2>1
<1> HIDE DEF f, rows
<1>8. ~(Cardinality(Enroller) < Cardinality(rows))
  BY <1>2, <1>6, <1>7, FS_PigeonHole
<1>9. Cardinality(Enroller) \in Nat
  BY <1>2, FS_CardinalityType
<1>10. Len(nodes) <= Cardinality(Enroller)
  BY <1>5, <1>7, <1>8, <1>9
<1>11. rows \subseteq NodeId
  BY <1>5, <1>9, <1>10 DEF rows, NodeId
<1> QED
  BY <1>5, <1>10, <1>11 DEF nodes

\* The variables of invites.rs, registry.rs and stats.rs have their types, a node id
\* is handed out once, and the flusher of main.rs holds rows only while it flushes.
THEOREM BackofficeTypeCorrect == BackofficeSpec => []BackofficeTypeOK
<1>1. TypesInv /\ NodesInv /\ HoursInv => BackofficeTypeOK
  <2> SUFFICES ASSUME TypesInv, NodesInv, HoursInv PROVE BackofficeTypeOK
    OBVIOUS
  <2>1. invites \in Seq(Code) /\ \A e \in Enroller : enroll[e].at \in Places
    BY DEF TypesInv, RequestsTyped, RequestRecord
  <2>2. \A n \in registry : n.id \in NodeId /\ n.name \in Name /\ n.token \in Enroller
    BY NodesAreFew, LoadedRow DEF NodesInv, RegistryFollows
  <2>3. /\ \A id \in NodeId : stats[id].dirty \subseteq DOMAIN stats[id].hours
        /\ \A id \in NodeId : Cardinality(DOMAIN stats[id].hours) <= RETAIN_HOURS + 1
        /\ flusher.at \in {"sleeping", "holding", "last", "ended"}
        /\ flusher.at \in {"sleeping", "ended"} => flusher = FlusherAt(flusher.at)
    BY DEF HoursInv, StatsKept, HoursKept
  <2> QED
    BY <2>1, <2>2, <2>3, NodesAreFew DEF BackofficeTypeOK, Places
<1> QED
  BY <1>1, TypesInvariant, NodesInvariant, DirtyHoursAreKept, PTL

-----------------------------------------------------------------------------
(* Sums over finite sets *)

\* A family of subsets that has a set as soon as it has all smaller ones has all.
LEMMA SubsetsClimb ==
  ASSUME NEW D, IsFiniteSet(D), NEW C \in SUBSET (SUBSET D),
         \A s \in SUBSET D : (\A t \in SUBSET s : t # s => t \in C) => s \in C
  PROVE  C = SUBSET D
<1> DEFINE All == SUBSET D
           R == StrictSubsetOrdering(D)
           T == All \ C
<1> SUFFICES ASSUME T # {} PROVE FALSE
  OBVIOUS
<1>1. IsWellFoundedOn(R, All)
  BY FS_StrictSubsetOrderingWellFounded, FS_FiniteSubsetsOfFinite
<1>2. T \subseteq All
  OBVIOUS
<1> HIDE DEF R, T, All
<1>3. PICK s \in T : \A t \in T : ~(<<t, s>> \in R)
  BY <1>1, <1>2, WFMin
<1>4. \A t \in SUBSET s : t # s => t \in C
  BY <1>2, <1>3 DEF R, T, All, StrictSubsetOrdering
<1> QED
  BY <1>3, <1>4 DEF T, All

\* The recursion behind MapThenSumSet.
Pick(s) == CHOOSE x \in s : TRUE
Adds(f, D, g) ==
  g = [s \in SUBSET D |-> IF s = {} THEN 0 ELSE f[Pick(s)] + g[s \ {Pick(s)}]]

LEMMA AddsIs ==
  ASSUME NEW f, NEW D, NEW g, Adds(f, D, g)
  PROVE  /\ g[{}] = 0
         /\ \A s \in SUBSET D : s # {} => g[s] = f[Pick(s)] + g[s \ {Pick(s)}]
BY DEF Adds

LEMMA AddsOnce ==
  ASSUME NEW f, NEW D, IsFiniteSet(D), NEW E, NEW g, NEW h, Adds(f, D, g), Adds(f, E, h), D \subseteq E
  PROVE  \A s \in SUBSET D : g[s] = h[s]
<1> DEFINE C == {s \in SUBSET D : g[s] = h[s]}
<1>1. ASSUME NEW s \in SUBSET D, \A t \in SUBSET s : t # s => t \in C
      PROVE  s \in C
  <2>1. CASE s = {}
    BY <2>1, AddsIs
  <2>2. CASE s # {}
    <3> DEFINE x == Pick(s)
    <3>1. x \in s
      BY <2>2 DEF Pick
    <3> HIDE DEF x
    <3>2. s \ {x} \in SUBSET s /\ s \ {x} # s
      BY <3>1
    <3>3. g[s \ {x}] = h[s \ {x}]
      BY <1>1, <3>2
    <3>4. g[s] = f[x] + g[s \ {x}]
      BY <2>2, AddsIs DEF x
    <3>5. h[s] = f[x] + h[s \ {x}]
      <4>1. s \in SUBSET E
        OBVIOUS
      <4> QED BY <2>2, <4>1, AddsIs DEF x
    <3> QED BY <3>3, <3>4, <3>5
  <2> QED BY <2>1, <2>2
<1>2. C \in SUBSET (SUBSET D)
  OBVIOUS
<1> HIDE DEF C
<1>3. C = SUBSET D
  BY <1>1, <1>2, SubsetsClimb
<1> QED
  BY <1>3 DEF C

\* The sum of f over D.
Total(f, D) == (CHOOSE g : Adds(f, D, g))[D]

LEMMA AddsExists ==
  ASSUME NEW f, NEW D, IsFiniteSet(D)
  PROVE  \E g : Adds(f, D, g)
<1> DEFINE C == {s \in SUBSET D : \E g : Adds(f, s, g)}
<1>1. ASSUME NEW s \in SUBSET D, \A t \in SUBSET s : t # s => t \in C
      PROVE  s \in C
  <2> DEFINE G(t) == CHOOSE g : Adds(f, t, g)
             x == Pick(s)
             w == [t \in SUBSET s |-> IF t # s THEN G(t)[t] ELSE IF s = {} THEN 0 ELSE f[x] + G(s \ {x})[s \ {x}]]
  <2>1. \A t \in SUBSET s : t # s => Adds(f, t, G(t))
    BY <1>1
  <2> HIDE DEF G
  <2>2. s # {} => x \in s
    BY DEF Pick
  <2>3. ASSUME NEW t \in SUBSET s, t # {}
        PROVE  w[t] = f[Pick(t)] + w[t \ {Pick(t)}]
    <3> DEFINE y == Pick(t)
               u == t \ {y}
    <3>1. y \in t
      BY <2>3 DEF Pick
    <3> HIDE DEF y
    <3>2. u \in SUBSET s /\ u # s /\ u \in SUBSET t
      BY <3>1
    <3> HIDE DEF u
    <3>3. w[u] = G(u)[u]
      BY <3>2
    <3>4. CASE t = s
      <4>1. y = x /\ u = s \ {x}
        BY <3>4 DEF y, u
      <4>2. w[t] = f[x] + G(s \ {x})[s \ {x}]
        BY <2>3, <3>4
      <4> QED BY <3>3, <4>1, <4>2 DEF y, u
    <3>5. CASE t # s
      <4>1. w[t] = G(t)[t] /\ Adds(f, t, G(t)) /\ Adds(f, u, G(u))
        BY <2>1, <3>2, <3>5
      <4>2. G(t)[t] = f[y] + G(t)[u]
        BY <2>3, <4>1, AddsIs DEF y, u
      <4>3. IsFiniteSet(u)
        BY <3>2, FS_Subset
      <4>4. G(u)[u] = G(t)[u]
        BY <3>2, <4>1, <4>3, AddsOnce
      <4> QED BY <3>3, <4>1, <4>2, <4>4 DEF y, u
    <3> QED BY <3>4, <3>5
  <2>4. w[{}] = 0
    <3>1. CASE s = {}
      BY <3>1
    <3>2. CASE s # {}
      <4>1. w[{}] = G({})[{}] /\ Adds(f, {}, G({}))
        BY <2>1, <3>2
      <4> QED BY <4>1, AddsIs
    <3> QED BY <3>1, <3>2
  <2>5. w = [t \in SUBSET s |-> w[t]]
    OBVIOUS
  <2> HIDE DEF w
  <2>6. Adds(f, s, w)
    BY <2>3, <2>4, <2>5 DEF Adds
  <2> QED BY <2>6
<1>2. C \in SUBSET (SUBSET D)
  OBVIOUS
<1> HIDE DEF C
<1>3. C = SUBSET D
  BY <1>1, <1>2, SubsetsClimb
<1> QED
  BY <1>3 DEF C

LEMMA TotalSteps ==
  ASSUME NEW f, NEW D, IsFiniteSet(D)
  PROVE  /\ Total(f, {}) = 0
         /\ \A s \in SUBSET D : s # {} => Pick(s) \in s /\ Total(f, s) = f[Pick(s)] + Total(f, s \ {Pick(s)})
<1> DEFINE G(t) == CHOOSE g : Adds(f, t, g)
<1>1. ASSUME NEW s \in SUBSET D PROVE Adds(f, s, G(s)) /\ IsFiniteSet(s)
  <2>1. IsFiniteSet(s)
    BY FS_Subset
  <2> QED BY <2>1, AddsExists
<1>2. \A s : Total(f, s) = G(s)[s]
  BY DEF Total
<1> HIDE DEF G
<1>3. Total(f, {}) = 0
  <2>1. Adds(f, {}, G({}))
    BY <1>1
  <2> QED BY <1>2, <2>1, AddsIs
<1>4. ASSUME NEW s \in SUBSET D, s # {}
      PROVE  Pick(s) \in s /\ Total(f, s) = f[Pick(s)] + Total(f, s \ {Pick(s)})
  <2> DEFINE x == Pick(s)
             u == s \ {x}
  <2>1. x \in s
    BY <1>4 DEF Pick
  <2>2. Adds(f, s, G(s)) /\ G(s)[s] = f[x] + G(s)[u]
    <3>1. Adds(f, s, G(s)) /\ s \in SUBSET s
      BY <1>1
    <3> DEFINE g == G(s)
    <3> HIDE DEF g
    <3>2. Adds(f, s, g)
      BY <3>1 DEF g
    <3>3. g[s] = f[Pick(s)] + g[s \ {Pick(s)}]
      BY ONLY <1>4, <3>1, <3>2, AddsIs
    <3>4. g[s] = f[x] + g[u]
      BY <3>3
    <3> QED BY <3>1, <3>4 DEF g
  <2> HIDE DEF x
  <2>3. u \in SUBSET D /\ u \subseteq s
    OBVIOUS
  <2> HIDE DEF u
  <2>4. Adds(f, u, G(u)) /\ IsFiniteSet(u)
    BY <1>1, <2>3
  <2>5. G(u)[u] = G(s)[u]
    BY <2>2, <2>3, <2>4, AddsOnce
  <2> QED BY <1>2, <2>1, <2>2, <2>5 DEF x, u
<1> QED
  BY <1>3, <1>4

\* A sum does not depend on the order.
LEMMA TotalIs ==
  ASSUME NEW f, NEW D, IsFiniteSet(D), \A x \in D : f[x] \in Nat
  PROVE  /\ Total(f, {}) = 0
         /\ \A s \in SUBSET D : Total(f, s) \in Nat /\ \A x \in s : Total(f, s) = f[x] + Total(f, s \ {x})
<1> DEFINE C == {s \in SUBSET D : Total(f, s) \in Nat /\ \A x \in s : Total(f, s) = f[x] + Total(f, s \ {x})}
<1>1. /\ Total(f, {}) = 0
      /\ \A s \in SUBSET D : s # {} => Pick(s) \in s /\ Total(f, s) = f[Pick(s)] + Total(f, s \ {Pick(s)})
  BY TotalSteps
<1>2. ASSUME NEW s \in SUBSET D, \A t \in SUBSET s : t # s => t \in C
      PROVE  s \in C
  <2>1. CASE s = {}
    BY <1>1, <2>1
  <2>2. CASE s # {}
    <3> DEFINE y == Pick(s)
               u == s \ {y}
    <3>1. y \in s /\ Total(f, s) = f[y] + Total(f, u)
      BY <1>1, <2>2
    <3> HIDE DEF y
    <3>2. u \in C
      BY <1>2, <3>1
    <3>3. Total(f, s) \in Nat /\ Total(f, u) \in Nat /\ f[y] \in Nat
      BY <3>1, <3>2
    <3>4. ASSUME NEW x \in s PROVE Total(f, s) = f[x] + Total(f, s \ {x})
      <4>1. CASE x = y
        BY <3>1, <4>1
      <4>2. CASE x # y
        <5> DEFINE v == s \ {x}
                   w == u \ {x}
        <5>1. w = v \ {y} /\ x \in u /\ y \in v
          BY <3>1, <4>2
        <5>2. v \in C /\ w \in C
          BY <1>2, <3>1, <5>1
        <5>3. Total(f, u) = f[x] + Total(f, w)
          BY <3>2, <5>1
        <5>4. Total(f, v) = f[y] + Total(f, w)
          BY <5>1, <5>2
        <5>5. Total(f, w) \in Nat /\ f[x] \in Nat /\ f[y] \in Nat
          BY <3>3, <5>2
        <5> HIDE DEF v, w, u
        <5>6. Total(f, s) = f[x] + Total(f, v)
          BY <3>1, <5>3, <5>4, <5>5
        <5> QED BY <5>6 DEF v
      <4> QED BY <4>1, <4>2
    <3> QED BY <3>3, <3>4
  <2> QED BY <2>1, <2>2
<1>3. C \in SUBSET (SUBSET D)
  OBVIOUS
<1> HIDE DEF C
<1>4. C = SUBSET D
  BY <1>2, <1>3, SubsetsClimb
<1> QED
  BY <1>1, <1>4 DEF C

\* SumOver by its elements, in any order.
LEMMA SumIs ==
  ASSUME NEW f, NEW S, S \subseteq DOMAIN f, IsFiniteSet(S), \A x \in S : f[x] \in Nat
  PROVE  /\ SumOver(f, S) \in Nat
         /\ S = {} => SumOver(f, S) = 0
         /\ \A x \in S : SumOver(f, S) = f[x] + SumOver(f, S \ {x})
<1>1. \A T : SumOver(f, T) = Total(f, T \cap DOMAIN f)
  BY DEF SumOver, MapThenSumSet, MapThenFoldSet, Total, Adds, Pick
<1>2. \A T \in SUBSET S : SumOver(f, T) = Total(f, T)
  <2> SUFFICES ASSUME NEW T \in SUBSET S PROVE SumOver(f, T) = Total(f, T)
    OBVIOUS
  <2>1. T \cap DOMAIN f = T
    OBVIOUS
  <2> QED BY <1>1, <2>1
<1>3. /\ Total(f, {}) = 0
      /\ \A s \in SUBSET S : Total(f, s) \in Nat /\ \A x \in s : Total(f, s) = f[x] + Total(f, s \ {x})
  <2>1. IsFiniteSet(S) /\ \A x \in S : f[x] \in Nat
    OBVIOUS
  <2> QED BY ONLY <2>1, TotalIs
<1> QED
  BY <1>2, <1>3

\* Elements outside the domain count nothing.
LEMMA SumInside ==
  ASSUME NEW f, NEW S
  PROVE  SumOver(f, S) = SumOver(f, S \cap DOMAIN f)
<1>1. (S \cap DOMAIN f) \cap DOMAIN f = S \cap DOMAIN f
  OBVIOUS
<1>2. \A T : SumOver(f, T) = Total(f, T \cap DOMAIN f)
  BY DEF SumOver, MapThenSumSet, MapThenFoldSet, Total, Adds, Pick
<1> QED
  BY <1>1, <1>2

\* Elements that count nothing may be left out.
LEMMA SumLess ==
  ASSUME NEW g, NEW T, T \subseteq DOMAIN g, IsFiniteSet(T), \A y \in T : g[y] \in Nat,
         NEW I \in SUBSET T, \A y \in T \ I : g[y] = 0
  PROVE  SumOver(g, I) = SumOver(g, T)
<1> DEFINE Z == T \ I
           C == {z \in SUBSET Z : SumOver(g, I \cup z) = SumOver(g, I)}
<1>1. ASSUME NEW z \in SUBSET Z, \A t \in SUBSET z : t # z => t \in C
      PROVE  z \in C
  <2>1. CASE z = {}
    <3>1. I \cup z = I
      BY <2>1
    <3> QED BY <3>1
  <2>2. CASE z # {}
    <3>1. PICK y \in z : TRUE
      BY <2>2
    <3> DEFINE u == z \ {y}
               J == I \cup z
    <3>2. J \in SUBSET T /\ y \in J /\ J \ {y} = I \cup u /\ g[y] = 0
      BY <3>1
    <3>3. u \in C
      BY <1>1, <3>1
    <3>4. IsFiniteSet(J) /\ J \subseteq DOMAIN g /\ \A x \in J : g[x] \in Nat
      BY <3>2, FS_Subset
    <3>5. SumOver(g, I \cup u) = SumOver(g, I)
      BY <3>3
    <3> HIDE DEF J, u
    <3>6. SumOver(g, J) = g[y] + SumOver(g, J \ {y}) /\ SumOver(g, J) \in Nat
      BY <3>2, <3>4, SumIs
    <3>7. SumOver(g, I) \in Nat
      <4>1. IsFiniteSet(I) /\ I \subseteq DOMAIN g /\ \A x \in I : g[x] \in Nat
        BY FS_Subset
      <4> QED BY <4>1, SumIs
    <3>8. SumOver(g, J) = SumOver(g, I)
      BY <3>2, <3>5, <3>6, <3>7
    <3> QED BY <3>8 DEF J
  <2> QED BY <2>1, <2>2
<1>2. C \in SUBSET (SUBSET Z)
  OBVIOUS
<1>3. IsFiniteSet(Z) /\ I \cup Z = T
  BY FS_Subset
<1> HIDE DEF C, Z
<1>4. C = SUBSET Z
  BY <1>1, <1>2, <1>3, SubsetsClimb
<1>5. Z \in C
  BY <1>4
<1> QED
  BY <1>3, <1>5 DEF C

\* Two sums with the same summands, up to zeros.
LEMMA SumMoves ==
  ASSUME NEW f, NEW S, S \subseteq DOMAIN f, IsFiniteSet(S), \A x \in S : f[x] \in Nat,
         NEW g, NEW T, T \subseteq DOMAIN g, IsFiniteSet(T), \A y \in T : g[y] \in Nat,
         NEW b \in [S -> T], \A x, y \in S : b[x] = b[y] => x = y,
         \A x \in S : g[b[x]] = f[x],
         \A y \in T : g[y] = 0 \/ \E x \in S : y = b[x]
  PROVE  SumOver(f, S) = SumOver(g, T)
<1> DEFINE Im(s) == {b[x] : x \in s}
           C == {s \in SUBSET S : SumOver(f, s) = SumOver(g, Im(s))}
<1>1. ASSUME NEW s \in SUBSET S
      PROVE  /\ IsFiniteSet(s) /\ s \subseteq DOMAIN f /\ \A x \in s : f[x] \in Nat
             /\ Im(s) \in SUBSET T /\ IsFiniteSet(Im(s)) /\ Im(s) \subseteq DOMAIN g
             /\ \A x \in Im(s) : g[x] \in Nat
  <2>1. Im(s) \in SUBSET T
    OBVIOUS
  <2> HIDE DEF Im
  <2> QED BY <2>1, FS_Subset
<1>2. ASSUME NEW s \in SUBSET S, \A t \in SUBSET s : t # s => t \in C
      PROVE  s \in C
  <2>1. /\ IsFiniteSet(s) /\ s \subseteq DOMAIN f /\ \A x \in s : f[x] \in Nat
        /\ Im(s) \in SUBSET T /\ IsFiniteSet(Im(s)) /\ Im(s) \subseteq DOMAIN g
        /\ \A x \in Im(s) : g[x] \in Nat
    BY <1>1
  <2>2. CASE s = {}
    <3>1. Im(s) = {}
      BY <2>2
    <3> HIDE DEF Im
    <3>2. SumOver(f, s) = 0 /\ SumOver(g, Im(s)) = 0
      BY <2>1, <2>2, <3>1, SumIs
    <3> QED BY <3>2
  <2>3. CASE s # {}
    <3>1. PICK x \in s : TRUE
      BY <2>3
    <3> DEFINE u == s \ {x}
               I == Im(s)
    <3>2. u \in C
      BY <1>2, <3>1
    <3>3. b[x] \in I /\ I \ {b[x]} = Im(u) /\ g[b[x]] = f[x]
      BY <3>1
    <3>4. SumOver(f, u) = SumOver(g, Im(u))
      BY <3>2
    <3> HIDE DEF Im, u, C
    <3>5. SumOver(f, s) = f[x] + SumOver(f, u)
      BY <2>1, <3>1, SumIs DEF u
    <3>6. SumOver(g, I) = g[b[x]] + SumOver(g, I \ {b[x]})
      BY <2>1, <3>3, SumIs
    <3> QED BY <3>3, <3>4, <3>5, <3>6 DEF C
  <2> QED BY <2>2, <2>3
<1>3. C \in SUBSET (SUBSET S)
  OBVIOUS
<1> HIDE DEF C
<1>4. C = SUBSET S
  BY <1>2, <1>3, SubsetsClimb
<1>5. SumOver(f, S) = SumOver(g, Im(S))
  BY <1>4 DEF C
<1>6. Im(S) \in SUBSET T /\ \A y \in T \ Im(S) : g[y] = 0
  OBVIOUS
<1> HIDE DEF Im
<1>7. SumOver(g, Im(S)) = SumOver(g, T)
  BY <1>6, SumLess
<1> QED
  BY <1>5, <1>7

\* The same with the elements as they are: f counts on S, g on T.
LEMMA SumSame ==
  ASSUME NEW f, NEW S, S \subseteq DOMAIN f, IsFiniteSet(S), \A x \in S : f[x] \in Nat,
         NEW g, NEW T, T \subseteq DOMAIN g, IsFiniteSet(T), \A y \in T : g[y] \in Nat,
         S \subseteq T, \A x \in S : g[x] = f[x], \A y \in T \ S : g[y] = 0
  PROVE  SumOver(f, S) = SumOver(g, T)
<1> DEFINE b == [x \in S |-> x]
<1>1. b \in [S -> T] /\ \A x \in S : b[x] = x
  OBVIOUS
<1> HIDE DEF b
<1>2. /\ \A x, y \in S : b[x] = b[y] => x = y
      /\ \A x \in S : g[b[x]] = f[x]
      /\ \A y \in T : g[y] = 0 \/ \E x \in S : y = b[x]
  BY <1>1
<1> QED
  BY <1>1, <1>2, SumMoves

\* What f counts for x.
Count(f, x) == IF x \in DOMAIN f THEN f[x] ELSE 0

LEMMA SumOfOne ==
  ASSUME NEW f, NEW x, x \in DOMAIN f => f[x] \in Nat
  PROVE  SumOver(f, {x}) = Count(f, x) /\ Count(f, x) \in Nat
<1> DEFINE S == {x} \cap DOMAIN f
<1>1. SumOver(f, {x}) = SumOver(f, S)
  BY SumInside
<1>2. IsFiniteSet(S) /\ IsFiniteSet({})
  <2>1. IsFiniteSet({x}) /\ S \in SUBSET {x}
    BY FS_Singleton
  <2> HIDE DEF S
  <2> QED BY <2>1, FS_Subset, FS_EmptySet
<1>3. S \subseteq DOMAIN f /\ \A y \in S : f[y] \in Nat /\ y = x
  OBVIOUS
<1>4. SumOver(f, {}) = 0
  <2> DEFINE none == {}
  <2>1. none \subseteq DOMAIN f /\ IsFiniteSet(none) /\ \A y \in none : f[y] \in Nat
    BY <1>2
  <2> HIDE DEF none
  <2>2. none = {} => SumOver(f, none) = 0
    BY <2>1, SumIs
  <2> QED BY <2>2 DEF none
<1>5. CASE x \in DOMAIN f
  <2>1. x \in S /\ S \ {x} = {}
    BY <1>5
  <2> HIDE DEF S
  <2>2. SumOver(f, S) = f[x] + SumOver(f, S \ {x})
    BY <1>2, <1>3, <2>1, SumIs
  <2> QED BY <1>1, <1>4, <1>5, <2>1, <2>2 DEF Count
<1>6. CASE x \notin DOMAIN f
  <2>1. S = {}
    BY <1>6
  <2> QED BY <1>1, <1>4, <1>6, <2>1 DEF Count
<1> QED
  BY <1>5, <1>6

LEMMA SumOfZeros ==
  ASSUME NEW f, NEW S, S \subseteq DOMAIN f, IsFiniteSet(S), \A x \in S : f[x] = 0
  PROVE  SumOver(f, S) = 0
<1> DEFINE none == {}
<1>1. \A x \in S : f[x] \in Nat
  OBVIOUS
<1>2. none \in SUBSET S
  OBVIOUS
<1>3. none \subseteq DOMAIN f /\ IsFiniteSet(none) /\ \A x \in none : f[x] \in Nat
  BY FS_EmptySet
<1> HIDE DEF none
<1>4. SumOver(f, none) = SumOver(f, S)
  BY <1>1, <1>2, SumLess
<1>5. none = {} => SumOver(f, none) = 0
  BY <1>3, SumIs
<1> QED
  BY <1>4, <1>5 DEF none

\* One more for m.
LEMMA SumBumped ==
  ASSUME NEW f, NEW g, NEW S, S \subseteq DOMAIN f, S \subseteq DOMAIN g, IsFiniteSet(S),
         \A x \in S : f[x] \in Nat, NEW m, \A x \in S : g[x] = f[x] + IF x = m THEN 1 ELSE 0
  PROVE  SumOver(g, S) = SumOver(f, S) + (IF m \in S THEN 1 ELSE 0) /\ SumOver(f, S) \in Nat
<1>1. \A x \in S : g[x] \in Nat /\ (x # m => g[x] = f[x])
  OBVIOUS
<1>2. SumOver(f, S) \in Nat
  BY SumIs
<1>3. CASE m \notin S
  <2>1. \A x \in S : g[x] = f[x]
    BY <1>1, <1>3
  <2>2. SumOver(f, S) = SumOver(g, S)
    BY <1>1, <2>1, SumSame
  <2> QED BY <1>2, <1>3, <2>2
<1>4. CASE m \in S
  <2> DEFINE u == S \ {m}
  <2>1. u \in SUBSET S /\ \A x \in u : g[x] = f[x] /\ x \in S
    BY <1>1
  <2>2. g[m] = f[m] + 1 /\ f[m] \in Nat
    BY <1>4
  <2>3. SumOver(f, S) = f[m] + SumOver(f, u)
    BY <1>4, SumIs
  <2>4. SumOver(g, S) = g[m] + SumOver(g, u)
    BY <1>1, <1>4, SumIs
  <2> HIDE DEF u
  <2>5. IsFiniteSet(u)
    BY <2>1, FS_Subset
  <2>6. SumOver(f, u) = SumOver(g, u)
    BY <1>1, <2>1, <2>5, SumSame
  <2>7. SumOver(f, u) \in Nat
    BY <2>1, <2>5, SumIs
  <2> QED BY <1>4, <2>2, <2>3, <2>4, <2>6, <2>7
<1> QED
  BY <1>2, <1>3, <1>4

-----------------------------------------------------------------------------
(* The invariants of the counts *)

Owed(id) == [h \in Hour |-> Credit(id, h)]

\* An hour in RAM has its count, and one that is not in RAM has none or is old.
HoursRight(ns, owed, now) ==
  \A h \in Hour : IF h \in DOMAIN ns.hours THEN ns.hours[h] = owed[h]
                  ELSE owed[h] = 0 \/ h < now - RETAIN_HOURS

\* Rows never say more than was recorded; those that the flusher holds are right
\* unless their hour is dirty again.
FlushRight(id, h) ==
  /\ Count(db.rows[id], h) <= Credit(id, h)
  /\ Count(flusher.rows[id], h) <= Credit(id, h)
  /\ h \in DOMAIN flusher.rows[id] => flusher.rows[id][h] = Credit(id, h) \/ h \in stats[id].dirty
  /\ \/ Count(db.rows[id], h) = Credit(id, h)
     \/ h \in stats[id].dirty
     \/ Count(flusher.rows[id], h) = Credit(id, h)
     \/ <<id, h>> \in dropped

RowsCount(rows) == \A id \in NodeId : \A h \in DOMAIN rows[id] : rows[id][h] \in Nat

CountsTyped ==
  /\ RowsCount(db.rows) /\ RowsCount(disk.rows) /\ RowsCount(flusher.rows) /\ RowsCount(past)
  /\ log \in [NodeId -> [Minute -> Nat]]

LedgerInv ==
  /\ CountsTyped
  /\ \A id \in NodeId : HoursRight(stats[id], Owed(id), HourOf(minute))
  /\ \A id \in NodeId, h \in Hour : FlushRight(id, h)

\* The minutes that the ring covers.
Covers(head, m) == m > head - MINUTES /\ m <= head

\* The ring has the counts of the minutes that it covers and nothing else, and no
\* request was recorded behind its head.
RingRight(ns, l, now) ==
  /\ ns.head \in Nat /\ ns.head <= now
  /\ ns.minutes \in [0 .. MINUTES - 1 -> Nat]
  /\ \A m \in Minute : m > ns.head => l[m] = 0
  /\ \A m \in Minute : Covers(ns.head, m) => ns.minutes[m % MINUTES] = l[m]
  /\ \A s \in 0 .. MINUTES - 1 : ns.minutes[s] = 0 \/ \E m \in Minute : Covers(ns.head, m) /\ m % MINUTES = s

RingInv ==
  \A id \in NodeId : RingRight(stats[id], log[id], minute) /\ stats[id].total = SumOver(Owed(id), Hour)

-----------------------------------------------------------------------------
(* What is owed to a node *)

InHour(h) == {m \in Minute : HourOf(m) = h}

LEMMA HourOrder ==
  ASSUME NEW m \in Nat, NEW n \in Nat, m <= n
  PROVE  HourOf(m) \in Nat /\ HourOf(m) <= HourOf(n)
BY LeaderboardAssumption DEF HourOf

LEMMA TimeIs ==
  ASSUME minute \in Minute
  PROVE  /\ minute \in Nat /\ HourOf(minute) \in Hour /\ HourOf(minute) \in Nat /\ Hour \subseteq Nat
         /\ 0 .. HourOf(minute) \subseteq Hour
         /\ IsFiniteSet(Hour) /\ IsFiniteSet(Minute)
<1>1. minute \in Nat /\ MaxMinute \in Nat /\ minute <= MaxMinute
  BY BackofficeAssumption DEF Minute
<1> DEFINE now == HourOf(minute)
           end == HourOf(MaxMinute)
<1>2. now \in Nat /\ now <= end /\ end \in Nat
  BY <1>1, HourOrder
<1>3. IsFiniteSet(0 .. MaxMinute)
  BY <1>1, FS_Interval
<1> HIDE DEF now, end
<1>4. IsFiniteSet(0 .. end)
  BY <1>2, FS_Interval
<1>5. now \in 0 .. end /\ 0 .. now \subseteq 0 .. end /\ 0 .. end \subseteq Nat
  BY <1>2
<1> QED
  BY <1>1, <1>2, <1>3, <1>4, <1>5 DEF now, end, Hour, Minute

LEMMA MinutesOfHour ==
  ASSUME CountsTyped, NEW id \in NodeId, NEW h
  PROVE  /\ InHour(h) \subseteq DOMAIN log[id] /\ IsFiniteSet(InHour(h))
         /\ \A m \in InHour(h) : log[id][m] \in Nat
<1>1. IsFiniteSet(Minute)
  BY BackofficeAssumption, FS_Interval DEF Minute
<1>2. InHour(h) \in SUBSET Minute
  BY DEF InHour
<1>3. IsFiniteSet(InHour(h))
  BY <1>1, <1>2, FS_Subset
<1>4. DOMAIN log[id] = Minute /\ \A m \in Minute : log[id][m] \in Nat
  BY DEF CountsTyped
<1> QED
  BY <1>2, <1>3, <1>4

LEMMA OwedIs ==
  ASSUME CountsTyped, NEW id \in NodeId, NEW h
  PROVE  /\ Credit(id, h) = Count(past[id], h) + SumOver(log[id], InHour(h))
         /\ Count(past[id], h) \in Nat /\ SumOver(log[id], InHour(h)) \in Nat
         /\ Credit(id, h) \in Nat
<1>1. SumOver(past[id], {h}) = Count(past[id], h) /\ Count(past[id], h) \in Nat
  BY SumOfOne DEF CountsTyped, RowsCount
<1>2. SumOver(log[id], InHour(h)) \in Nat
  BY MinutesOfHour, SumIs
<1>3. Credit(id, h) = SumOver(past[id], {h}) + SumOver(log[id], InHour(h))
  BY DEF Credit, InHour
<1> QED
  BY <1>1, <1>2, <1>3

LEMMA OwedTyped ==
  ASSUME CountsTyped, NEW id \in NodeId
  PROVE  Owed(id) \in [Hour -> Nat] /\ \A h \in Hour : Owed(id)[h] = Credit(id, h)
BY OwedIs DEF Owed

\* A request recorded adds one to its hour.
LEMMA CreditRecorded ==
  ASSUME CountsTyped, minute \in Minute, NEW n, n.id \in NodeId, Record(n)
  PROVE  /\ CountsTyped'
         /\ \A id \in NodeId, h \in Hour :
              Credit(id, h)' = Credit(id, h) + IF id = n.id /\ h = HourOf(minute) THEN 1 ELSE 0
<1>1. log' = [log EXCEPT ![n.id][minute] = @ + 1] /\ UNCHANGED <<db, disk, flusher, past>>
  BY DEF Record
<1>2. log \in [NodeId -> [Minute -> Nat]]
  BY DEF CountsTyped
<1>3. /\ log' \in [NodeId -> [Minute -> Nat]]
      /\ \A id \in NodeId, m \in Minute :
           log'[id][m] = log[id][m] + IF id = n.id /\ m = minute THEN 1 ELSE 0
  BY <1>1, <1>2
<1>4. CountsTyped'
  BY <1>1, <1>3 DEF CountsTyped
<1>5. ASSUME NEW id \in NodeId, NEW h \in Hour
      PROVE  Credit(id, h)' = Credit(id, h) + IF id = n.id /\ h = HourOf(minute) THEN 1 ELSE 0
  <2> DEFINE f == log[id]
             g == log'[id]
             S == InHour(h)
  <2>1. Credit(id, h) = SumOver(past[id], {h}) + SumOver(f, S)
    BY DEF Credit, InHour
  <2>2. Credit(id, h)' = SumOver(past[id], {h}) + SumOver(g, S)
    BY <1>1 DEF Credit, InHour
  <2>3. /\ S \subseteq DOMAIN f /\ S \subseteq DOMAIN g /\ IsFiniteSet(S) /\ \A x \in S : f[x] \in Nat
        /\ S \subseteq Minute
    <3>1. S \subseteq DOMAIN f /\ IsFiniteSet(S) /\ \A x \in S : f[x] \in Nat
      BY MinutesOfHour
    <3>2. S \subseteq Minute
      BY DEF InHour
    <3>3. DOMAIN g = Minute
      BY <1>3
    <3> QED BY <3>1, <3>2, <3>3
  <2>4. minute \in S <=> h = HourOf(minute)
    BY DEF InHour
  <2>5. \A x \in Minute : g[x] = f[x] + IF id = n.id /\ x = minute THEN 1 ELSE 0
    BY <1>3
  <2>6. SumOver(past[id], {h}) \in Nat
    BY SumOfOne DEF CountsTyped, RowsCount
  <2> HIDE DEF f, g, S
  <2>7. CASE id = n.id
    <3>1. \A x \in S : g[x] = f[x] + IF x = minute THEN 1 ELSE 0
      BY <2>3, <2>5, <2>7
    <3>2. SumOver(g, S) = SumOver(f, S) + (IF minute \in S THEN 1 ELSE 0) /\ SumOver(f, S) \in Nat
      BY <2>3, <3>1, SumBumped
    <3> QED BY <2>1, <2>2, <2>4, <2>6, <2>7, <3>2
  <2>8. CASE id # n.id
    <3>1. \A x \in S : g[x] = f[x]
      BY <2>3, <2>5, <2>8
    <3>2. SumOver(f, S) = SumOver(g, S) /\ SumOver(f, S) \in Nat
      BY <2>3, <3>1, SumSame, SumIs
    <3> QED BY <2>1, <2>2, <2>6, <2>8, <3>2
  <2> QED BY <2>7, <2>8
<1> QED
  BY <1>4, <1>5

\* A new process owes what the rows say.
LEMMA CreditLoaded ==
  ASSUME CountsTyped, NEW tables, Start(tables), RowsCount(tables.rows)
  PROVE  /\ CountsTyped'
         /\ \A id \in NodeId, h \in Hour :
              Credit(id, h)' = Count(tables.rows[id], h) /\ Count(tables.rows[id], h) \in Nat
<1>1. /\ db' = tables /\ disk' = tables /\ past' = tables.rows /\ log' = NoLog
      /\ flusher' = FlusherAt("sleeping")
  BY DEF Start
<1>2. NoLog \in [NodeId -> [Minute -> Nat]] /\ \A id \in NodeId, m \in Minute : NoLog[id][m] = 0
  BY DEF NoLog
<1>3. RowsCount(flusher'.rows)
  BY <1>1 DEF FlusherAt, NoRows, RowsCount
<1>4. CountsTyped'
  BY <1>1, <1>2, <1>3 DEF CountsTyped
<1>5. ASSUME NEW id \in NodeId, NEW h \in Hour
      PROVE  Credit(id, h)' = Count(tables.rows[id], h) /\ Count(tables.rows[id], h) \in Nat
  <2> DEFINE f == log'[id]
             S == InHour(h)
  <2>1. Credit(id, h)' = SumOver(tables.rows[id], {h}) + SumOver(f, S)
    BY <1>1 DEF Credit, InHour
  <2>2. SumOver(tables.rows[id], {h}) = Count(tables.rows[id], h) /\ Count(tables.rows[id], h) \in Nat
    BY SumOfOne DEF RowsCount
  <2>3. IsFiniteSet(S) /\ S \subseteq Minute
    BY MinutesOfHour DEF InHour
  <2>4. S \subseteq DOMAIN f /\ \A x \in S : f[x] = 0
    BY <1>1, <1>2, <2>3
  <2> HIDE DEF f, S
  <2>5. SumOver(f, S) = 0
    BY <2>3, <2>4, SumOfZeros
  <2> QED BY <2>1, <2>2, <2>5
<1> QED
  BY <1>4, <1>5

-----------------------------------------------------------------------------
(* The ledger: hours in RAM, rows in the store and in the hands of the flusher *)

\* record counts in the hour of the request and drops only old hours.
LEMMA RecordedHours ==
  ASSUME NEW ns, NEW m \in Nat, HoursKept(ns, HourOf(m)), HourOf(m) \in Hour, 0 .. HourOf(m) \subseteq Hour,
         NEW owed \in [Hour -> Nat], HoursRight(ns, owed, HourOf(m)), NEW after,
         \A h \in Hour : after[h] = owed[h] + IF h = HourOf(m) THEN 1 ELSE 0
  PROVE  /\ HoursRight(Recorded(ns, m), after, HourOf(m))
         /\ Recorded(ns, m).dirty = ns.dirty \cup {HourOf(m)}
<1> DEFINE now == HourOf(m)
           a == Advance(ns, m)
           hours == [h \in DOMAIN a.hours \cup {now} |-> SumOver(a.hours, {h}) + IF h = now THEN 1 ELSE 0]
           young == {h \in DOMAIN hours : h >= now - RETAIN_HOURS}
           left == IF Cardinality(DOMAIN hours) > RETAIN_HOURS THEN Restrict(hours, young) ELSE hours
           b == Recorded(ns, m)
<1>1. now \in Nat /\ RETAIN_HOURS \in Nat \ {0} /\ now \in Hour
  BY HourMonotone, LeaderboardAssumption
<1>2. /\ DOMAIN a = {"total", "minutes", "head", "hours", "dirty"}
      /\ a.hours = ns.hours /\ a.dirty = ns.dirty
  BY AdvancedHours DEF HoursKept
<1>3. DOMAIN ns.hours \subseteq Hour /\ Hour \subseteq Nat
  BY DEF HoursKept, Hour
<1>4. \A h \in DOMAIN ns.hours : ns.hours[h] = owed[h] /\ owed[h] \in Nat
  BY <1>3 DEF HoursRight
<1>5. \A h \in Hour \ DOMAIN ns.hours : owed[h] = 0 \/ h < now - RETAIN_HOURS
  BY DEF HoursRight
<1>6. b.hours = left /\ b.dirty = a.dirty \cup {now}
  BY <1>2 DEF Recorded
<1>7. DOMAIN hours = DOMAIN ns.hours \cup {now}
  BY <1>2
<1>8. ASSUME NEW h \in DOMAIN hours PROVE hours[h] = after[h]
  <2>1. h \in Hour
    BY <1>1, <1>3, <1>7
  <2>2. SumOver(ns.hours, {h}) = Count(ns.hours, h)
    BY <1>4, SumOfOne
  <2>3. hours[h] = Count(ns.hours, h) + IF h = now THEN 1 ELSE 0
    BY <1>2, <1>7, <2>2
  <2>4. Count(ns.hours, h) = owed[h]
    <3>1. CASE h \in DOMAIN ns.hours
      BY <1>4, <3>1 DEF Count
    <3>2. CASE h \notin DOMAIN ns.hours
      <4>1. h = now
        BY <1>7, <3>2
      <4>2. owed[h] = 0
        BY ONLY <1>1, <1>5, <3>2, <4>1
      <4> QED BY <3>2, <4>2 DEF Count
    <3> QED BY <3>1, <3>2
  <2> QED BY <2>1, <2>3, <2>4
<1> HIDE DEF a, hours, now
<1>9. /\ DOMAIN left \subseteq DOMAIN hours /\ \A h \in DOMAIN left : left[h] = hours[h]
      /\ \A h \in DOMAIN hours : h \notin DOMAIN left => ~(h >= now - RETAIN_HOURS)
  BY DEF Restrict
<1> HIDE DEF left, young, b
<1>10. ASSUME NEW h \in Hour, h \notin DOMAIN left
       PROVE  after[h] = 0 \/ h < now - RETAIN_HOURS
  <2>1. CASE h \in DOMAIN hours
    BY <1>1, <1>3, <1>9, <1>10, <2>1
  <2>2. CASE h \notin DOMAIN hours
    <3>1. h # now /\ h \notin DOMAIN ns.hours
      BY <1>7, <2>2
    <3>2. after[h] = owed[h]
      BY <3>1 DEF now
    <3> QED BY <1>5, <3>1, <3>2
  <2> QED BY <2>1, <2>2
<1>11. HoursRight(b, after, now)
  BY <1>6, <1>8, <1>9, <1>10 DEF HoursRight
<1> QED
  BY <1>2, <1>6, <1>11 DEF b, now

LEMMA RecordKeepsLedger ==
  ASSUME HoursInv, LedgerInv, NEW n, n.id \in NodeId, Record(n)
  PROVE  LedgerInv'
<1> DEFINE now == HourOf(minute)
           nid == n.id
<1>1. /\ UNCHANGED <<db, disk, flusher, past, minute>>
      /\ stats' = [stats EXCEPT ![nid] = Recorded(stats[nid], minute)]
      /\ dropped' = dropped \ {<<nid, now>>}
  BY DEF Record
<1>2. minute \in Minute /\ minute \in Nat /\ now \in Hour /\ 0 .. now \subseteq Hour
  BY TimeIs DEF HoursInv
<1>3. CountsTyped /\ nid \in NodeId
  BY DEF LedgerInv
<1>4. /\ CountsTyped'
      /\ \A id \in NodeId, h \in Hour :
           Credit(id, h)' = Credit(id, h) + IF id = nid /\ h = now THEN 1 ELSE 0
  BY <1>2, <1>3, CreditRecorded
<1>5. \A id \in NodeId : HoursKept(stats[id], now) /\ HoursRight(stats[id], Owed(id), now)
  BY DEF HoursInv, StatsKept, LedgerInv
<1>6. \A id \in NodeId, h \in Hour : Credit(id, h) \in Nat
  BY <1>3, OwedIs
<1>7. ASSUME NEW id \in NodeId
      PROVE  /\ Owed(id) \in [Hour -> Nat]
             /\ \A h \in Hour : Owed(id)[h] = Credit(id, h) /\ Owed(id)'[h] = Credit(id, h)'
  <2>1. \A h \in Hour : Owed(id)'[h] = Credit(id, h)'
    BY DEF Owed
  <2> QED BY <1>3, <2>1, OwedTyped
<1>8. DOMAIN stats = NodeId
  BY DEF HoursInv, StatsKept
<1>9. ASSUME NEW id \in NodeId
      PROVE  /\ HoursRight(stats'[id], Owed(id)', now)
             /\ stats'[id].dirty = stats[id].dirty \cup IF id = nid THEN {now} ELSE {}
  <2> DEFINE ns == stats[id]
             owed == Owed(id)
             after == Owed(id)'
  <2>1. HoursKept(ns, now) /\ HoursRight(ns, owed, now) /\ owed \in [Hour -> Nat]
    BY <1>5, <1>7
  <2>2. \A h \in Hour : after[h] = owed[h] + IF id = nid /\ h = now THEN 1 ELSE 0
    BY <1>4, <1>7
  <2>3. CASE id = nid
    <3>1. stats'[id] = Recorded(ns, minute)
      BY <1>1, <1>8, <2>3
    <3>2. \A h \in Hour : after[h] = owed[h] + IF h = now THEN 1 ELSE 0
      BY <2>2, <2>3
    <3> HIDE DEF ns, owed, after
    <3>3. /\ HoursRight(Recorded(ns, minute), after, HourOf(minute))
          /\ Recorded(ns, minute).dirty = ns.dirty \cup {HourOf(minute)}
      BY <1>2, <2>1, <3>2, RecordedHours
    <3> QED BY <2>3, <3>1, <3>3 DEF ns, after
  <2>4. CASE id # nid
    <3>1. stats'[id] = ns
      BY <1>1, <1>8, <2>4
    <3>2. \A h \in Hour : after[h] = owed[h]
      BY <2>1, <2>2, <2>4
    <3> HIDE DEF owed, after
    <3>3. HoursRight(ns, after, now)
      BY <2>1, <3>2 DEF HoursRight
    <3> QED BY <2>4, <3>1, <3>3 DEF after
  <2> QED BY <2>3, <2>4
<1>10. ASSUME NEW id \in NodeId, NEW h \in Hour PROVE FlushRight(id, h)'
  <2>1. FlushRight(id, h) /\ Credit(id, h) \in Nat
    BY <1>6 DEF LedgerInv
  <2> DEFINE stored == Count(db.rows[id], h)
             held == Count(flusher.rows[id], h)
             c == Credit(id, h)
  <2>2. stored \in Nat /\ held \in Nat
    BY <1>3 DEF CountsTyped, RowsCount, Count
  <2>3. CASE id = nid /\ h = now
    <3>1. Credit(id, h)' = c + 1 /\ h \in stats'[id].dirty
      BY <1>4, <1>9, <2>3
    <3>2. stored <= c /\ held <= c
      BY <2>1 DEF FlushRight
    <3> HIDE DEF c, stored, held
    <3>3. stored <= c + 1 /\ held <= c + 1
      BY <2>1, <2>2, <3>2 DEF c
    <3> QED BY <1>1, <3>1, <3>3 DEF FlushRight, stored, held
  <2>4. CASE ~(id = nid /\ h = now)
    <3>1. Credit(id, h)' = c
      <4>1. Credit(id, h)' = Credit(id, h) + 0
        BY <1>4, <2>4
      <4> QED BY <2>1, <4>1
    <3>2. (h \in stats'[id].dirty <=> h \in stats[id].dirty) /\ (<<id, h>> \in dropped' <=> <<id, h>> \in dropped)
      BY <1>1, <1>9, <2>4
    <3> QED BY <1>1, <2>1, <3>1, <3>2 DEF FlushRight
  <2> QED BY <2>3, <2>4
<1>11. HourOf(minute') = now
  BY <1>1
<1> QED
  BY <1>4, <1>9, <1>10, <1>11 DEF LedgerInv

\* What stays owed.
LEMMA CreditStays ==
  ASSUME UNCHANGED <<past, log>>
  PROVE  \A id, h : Credit(id, h)' = Credit(id, h) /\ Owed(id)' = Owed(id)
BY DEF Credit, Owed

\* Counting the rows of a flusher that holds none.
LEMMA NothingHeld ==
  ASSUME NEW at, NEW id \in NodeId, NEW h
  PROVE  /\ DOMAIN FlusherAt(at).rows[id] = {} /\ Count(FlusherAt(at).rows[id], h) = 0
         /\ RowsCount(FlusherAt(at).rows)
BY DEF FlusherAt, NoRows, Count, RowsCount

\* take_dirty hands the flusher the counts of the dirty hours.
LEMMA TakeDirtyKeepsLedger ==
  ASSUME HoursInv, LedgerInv, TakeDirty
  PROVE  LedgerInv'
<1> DEFINE now == HourOf(minute)
<1>1. /\ flusher.at = "sleeping" /\ UNCHANGED <<db, disk, log, past, dropped, minute>>
      /\ flusher'.rows = [id \in NodeId |-> DirtyRows(stats[id])]
      /\ stats' = [id \in NodeId |-> Taken(stats[id])]
  BY DEF TakeDirty
<1>2. flusher = FlusherAt("sleeping")
  BY <1>1 DEF HoursInv
<1>3. minute \in Minute /\ 0 .. now \subseteq Hour
  BY TimeIs DEF HoursInv
<1>4. CountsTyped
  BY DEF LedgerInv
<1>5. \A id, h : Credit(id, h)' = Credit(id, h) /\ Owed(id)' = Owed(id)
  BY <1>1, CreditStays
<1>6. ASSUME NEW id \in NodeId
      PROVE  /\ stats'[id].hours = stats[id].hours /\ stats'[id].dirty = {}
             /\ stats[id].dirty \subseteq DOMAIN stats[id].hours /\ DOMAIN stats[id].hours \subseteq Hour
             /\ flusher'.rows[id] = Restrict(stats[id].hours, stats[id].dirty)
             /\ HoursRight(stats[id], Owed(id), now)
             /\ \A h \in stats[id].dirty : stats[id].hours[h] = Credit(id, h) /\ Credit(id, h) \in Nat
  <2> DEFINE ns == stats[id]
  <2>1. HoursKept(ns, now)
    BY DEF HoursInv, StatsKept
  <2>2. HoursRight(stats[id], Owed(id), now)
    BY DEF LedgerInv
  <2>3. ns.dirty \subseteq DOMAIN ns.hours /\ DOMAIN ns.hours \subseteq Hour
    BY <1>3, <2>1 DEF HoursKept
  <2>4. stats'[id] = Taken(ns) /\ flusher'.rows[id] = DirtyRows(ns)
    BY <1>1
  <2>5. stats'[id].hours = ns.hours /\ stats'[id].dirty = {}
    BY <2>1, <2>4 DEF Taken, HoursKept
  <2>6. ns.dirty \cap DOMAIN ns.hours = ns.dirty
    BY <2>3
  <2>7. flusher'.rows[id] = Restrict(ns.hours, ns.dirty)
    BY <2>4, <2>6 DEF DirtyRows
  <2>8. \A h \in ns.dirty : ns.hours[h] = Credit(id, h) /\ Credit(id, h) \in Nat
    BY <1>4, <2>2, <2>3, OwedTyped, OwedIs DEF HoursRight
  <2> QED BY <2>2, <2>3, <2>5, <2>7, <2>8
<1>7. ASSUME NEW id \in NodeId
      PROVE  /\ DOMAIN flusher'.rows[id] = stats[id].dirty
             /\ \A h \in stats[id].dirty : flusher'.rows[id][h] = Credit(id, h)
  BY <1>6 DEF Restrict
<1>8. CountsTyped'
  <2>1. RowsCount(flusher'.rows)
    BY <1>6, <1>7 DEF RowsCount
  <2> QED BY <1>1, <1>4, <2>1 DEF CountsTyped
<1>9. \A id \in NodeId : HoursRight(stats'[id], Owed(id), now)
  BY <1>6 DEF HoursRight
<1>10. ASSUME NEW id \in NodeId, NEW h \in Hour PROVE FlushRight(id, h)'
  <2> DEFINE stored == Count(db.rows[id], h)
             held == Count(flusher'.rows[id], h)
             c == Credit(id, h)
  <2>1. FlushRight(id, h) /\ c \in Nat
    BY <1>4, OwedIs DEF LedgerInv
  <2>2. Count(flusher.rows[id], h) = 0
    BY <1>2, NothingHeld
  <2>3. stored <= c /\ (stored = c \/ h \in stats[id].dirty \/ 0 = c \/ <<id, h>> \in dropped)
    BY <2>1, <2>2 DEF FlushRight
  <2>4. h \in stats[id].dirty => held = c
    BY <1>7 DEF Count
  <2>5. h \notin stats[id].dirty => held = 0
    BY <1>7 DEF Count
  <2>6. held <= c /\ (stored = c \/ held = c \/ <<id, h>> \in dropped)
    BY <2>1, <2>3, <2>4, <2>5
  <2>7. h \in DOMAIN flusher'.rows[id] => flusher'.rows[id][h] = c
    BY <1>7
  <2> QED BY <1>1, <1>5, <2>3, <2>6, <2>7 DEF FlushRight
<1> QED
  BY <1>1, <1>5, <1>8, <1>9, <1>10 DEF LedgerInv

\* A row that is written is the newest there is, or its hour is dirty again; a row
\* that is not written is marked.
LEMMA FlushKeepsLedger ==
  ASSUME TypesInv, LedgerInv, Upsert \/ UpsertFails
  PROVE  LedgerInv'
<1> DEFINE now == HourOf(minute)
<1>1. /\ UNCHANGED <<disk, stats, log, past, minute>>
      /\ \E at : flusher' = FlusherAt(at)
      /\ DOMAIN db = {"nodes", "rows"}
  BY DEF Upsert, UpsertFails, FlusherRests, TypesInv, NodesTyped
<1>2. CountsTyped
  BY DEF LedgerInv
<1>3. \A id, h : Credit(id, h)' = Credit(id, h) /\ Owed(id)' = Owed(id)
  BY <1>1, CreditStays
<1>4. \A id \in NodeId, h \in Hour :
        /\ DOMAIN flusher'.rows[id] = {} /\ Count(flusher'.rows[id], h) = 0
        /\ Credit(id, h) \in Nat /\ FlushRight(id, h)
        /\ Count(db.rows[id], h) \in Nat
  BY <1>1, <1>2, NothingHeld, OwedIs DEF LedgerInv, CountsTyped, RowsCount, Count
<1>5. RowsCount(flusher'.rows)
  BY <1>1, NothingHeld DEF RowsCount
<1>6. CASE Upsert
  <2>1. dropped' = dropped
        /\ db' = [db EXCEPT !.rows = [id \in NodeId |-> Upserted(db.rows[id], flusher.rows[id])]]
    BY <1>6 DEF Upsert
  <2>2. db'.rows = [id \in NodeId |-> Upserted(db.rows[id], flusher.rows[id])]
    BY <1>1, <2>1
  <2>3. \A id \in NodeId, h \in Hour :
          Count(db'.rows[id], h) =
            IF h \in DOMAIN flusher.rows[id] THEN flusher.rows[id][h] ELSE Count(db.rows[id], h)
    BY <2>2 DEF Upserted, Count
  <2>4. RowsCount(db'.rows)
    BY <1>2, <2>2 DEF RowsCount, Upserted, CountsTyped
  <2>5. ASSUME NEW id \in NodeId, NEW h \in Hour PROVE FlushRight(id, h)'
    <3> DEFINE stored == Count(db.rows[id], h)
               after == Count(db'.rows[id], h)
               held == Count(flusher.rows[id], h)
               c == Credit(id, h)
               rows == flusher.rows[id]
    <3>1. /\ c \in Nat /\ stored <= c /\ held <= c /\ stored \in Nat
          /\ h \in DOMAIN rows => rows[h] = c \/ h \in stats[id].dirty
          /\ stored = c \/ h \in stats[id].dirty \/ held = c \/ <<id, h>> \in dropped
      BY <1>4 DEF FlushRight
    <3>2. /\ h \in DOMAIN rows => after = rows[h] /\ held = rows[h]
          /\ h \notin DOMAIN rows => after = stored /\ held = 0
      BY <2>3 DEF Count
    <3>3. after <= c
      BY <3>1, <3>2
    <3>4. after = c \/ h \in stats[id].dirty \/ <<id, h>> \in dropped
      <4> HIDE DEF after, stored, held, c, rows
      <4>1. CASE h \in DOMAIN rows
        BY <3>1, <3>2, <4>1
      <4>2. CASE h \notin DOMAIN rows
        BY <3>1, <3>2, <4>2
      <4> QED BY <4>1, <4>2
    <3> QED BY <1>1, <1>3, <1>4, <2>1, <3>1, <3>3, <3>4 DEF FlushRight
  <2> QED BY <1>1, <1>2, <1>3, <1>5, <2>4, <2>5 DEF LedgerInv, CountsTyped
<1>7. CASE UpsertFails
  <2>1. /\ UNCHANGED db
        /\ dropped' = dropped \cup UNION {{<<id, h>> : h \in DOMAIN flusher.rows[id]} : id \in NodeId}
    BY <1>7 DEF UpsertFails
  <2>2. ASSUME NEW id \in NodeId, NEW h \in Hour PROVE FlushRight(id, h)'
    <3> DEFINE stored == Count(db.rows[id], h)
               held == Count(flusher.rows[id], h)
               c == Credit(id, h)
    <3>1. /\ c \in Nat /\ stored <= c /\ stored \in Nat
          /\ stored = c \/ h \in stats[id].dirty \/ held = c \/ <<id, h>> \in dropped
      BY <1>4 DEF FlushRight
    <3>2. h \in DOMAIN flusher.rows[id] => <<id, h>> \in dropped'
      BY <2>1
    <3>3. h \notin DOMAIN flusher.rows[id] => held = 0
      BY DEF Count
    <3>4. <<id, h>> \in dropped => <<id, h>> \in dropped'
      BY <2>1
    <3>5. stored = c \/ h \in stats[id].dirty \/ <<id, h>> \in dropped'
      <4> HIDE DEF stored, held, c
      <4> QED BY <3>1, <3>2, <3>3, <3>4
    <3> QED BY <1>1, <1>3, <1>4, <2>1, <3>1, <3>5 DEF FlushRight
  <2> QED BY <1>1, <1>2, <1>3, <1>5, <2>1, <2>2 DEF LedgerInv, CountsTyped
<1> QED
  BY <1>6, <1>7

\* load keeps the young hours with their counts.
LEMMA LoadedHours ==
  ASSUME NEW rows, NEW m, NEW owed, \A h \in Hour : owed[h] = Count(rows, h),
         HourOf(m) \in Nat, Hour \subseteq Nat
  PROVE  HoursRight(Load(rows, m), owed, HourOf(m)) /\ Load(rows, m).dirty = {}
<1> DEFINE now == HourOf(m)
           young == {h \in DOMAIN rows : h >= now - RETAIN_HOURS}
           b == Load(rows, m)
<1>1. CASE rows = NewNodeStats.hours
  <2>1. b = NewNodeStats /\ DOMAIN rows = {} /\ DOMAIN b.hours = {} /\ b.dirty = {}
    BY <1>1 DEF Load, NewNodeStats
  <2> QED BY <2>1 DEF HoursRight, Count
<1>2. CASE rows # NewNodeStats.hours
  <2>1. b.hours = Restrict(rows, young) /\ b.dirty = {}
    BY <1>2 DEF Load, NewNodeStats
  <2>2. DOMAIN b.hours = young /\ \A h \in young : b.hours[h] = rows[h]
    BY <2>1 DEF Restrict
  <2> HIDE DEF b
  <2>3. ASSUME NEW h \in Hour
        PROVE  IF h \in DOMAIN b.hours THEN b.hours[h] = owed[h] ELSE owed[h] = 0 \/ h < now - RETAIN_HOURS
    <3>1. CASE h \in DOMAIN rows
      <4>1. owed[h] = rows[h]
        BY <3>1 DEF Count
      <4>2. h \notin young => h < now - RETAIN_HOURS
        <5>1. h \in Nat /\ now \in Nat /\ RETAIN_HOURS \in Nat
          BY LeaderboardAssumption
        <5> HIDE DEF now
        <5>2. ~(h >= now - RETAIN_HOURS) => h < now - RETAIN_HOURS
          BY ONLY <5>1
        <5> QED BY <3>1, <5>2
      <4> HIDE DEF young
      <4> QED BY <2>2, <4>1, <4>2
    <3>2. CASE h \notin DOMAIN rows
      BY <2>2, <3>2 DEF Count
    <3> QED BY <3>1, <3>2
  <2>4. HoursRight(b, owed, now)
    BY <2>3 DEF HoursRight
  <2> QED BY <2>1, <2>4 DEF b
<1> QED
  BY <1>1, <1>2

LEMMA StartKeepsLedger ==
  ASSUME HoursInv, LedgerInv, NEW tables, Start(tables), RowsCount(tables.rows)
  PROVE  LedgerInv'
<1> DEFINE now == HourOf(minute)
<1>1. /\ db' = tables /\ flusher' = FlusherAt("sleeping") /\ minute' = minute
      /\ stats' = [id \in NodeId |-> Load(tables.rows[id], minute)]
  BY DEF Start
<1>2. /\ CountsTyped'
      /\ \A id \in NodeId, h \in Hour :
           Credit(id, h)' = Count(tables.rows[id], h) /\ Count(tables.rows[id], h) \in Nat
  BY CreditLoaded DEF LedgerInv
<1>3. now \in Nat /\ Hour \subseteq Nat
  BY TimeIs DEF HoursInv
<1>4. ASSUME NEW id \in NodeId PROVE HoursRight(stats'[id], Owed(id)', now)
  <2> DEFINE owed == Owed(id)'
  <2>1. \A h \in Hour : owed[h] = Count(tables.rows[id], h)
    BY <1>2 DEF Owed
  <2> HIDE DEF owed
  <2>2. HoursRight(Load(tables.rows[id], minute), owed, HourOf(minute))
    BY <1>3, <2>1, LoadedHours
  <2> QED BY <1>1, <2>2 DEF owed
<1>5. ASSUME NEW id \in NodeId, NEW h \in Hour PROVE FlushRight(id, h)'
  <2> DEFINE c == Credit(id, h)'
  <2>1. Count(db'.rows[id], h) = c /\ c \in Nat
    BY <1>1, <1>2
  <2>2. DOMAIN flusher'.rows[id] = {} /\ Count(flusher'.rows[id], h) = 0
    BY <1>1, NothingHeld
  <2> HIDE DEF c
  <2>3. Count(db'.rows[id], h) <= c /\ Count(flusher'.rows[id], h) <= c
    BY <2>1, <2>2
  <2> QED BY <2>1, <2>2, <2>3 DEF FlushRight, c
<1> QED
  BY <1>1, <1>2, <1>4, <1>5 DEF LedgerInv

\* Time and snapshots take nothing away.
LEMMA TickKeepsLedger ==
  ASSUME HoursInv, LedgerInv, Tick
  PROVE  LedgerInv'
<1> DEFINE now == HourOf(minute)
           next == HourOf(minute + 1)
<1>1. UNCHANGED <<db, disk, stats, flusher, log, past, dropped>> /\ minute' = minute + 1
  BY DEF Tick, statVars
<1>2. minute \in Nat /\ Hour \subseteq Nat
  BY TimeIs DEF HoursInv
<1>3. now \in Nat /\ next \in Nat /\ now <= next /\ RETAIN_HOURS \in Nat
  BY <1>2, HourMonotone, LeaderboardAssumption
<1>4. \A id, h : Credit(id, h)' = Credit(id, h) /\ Owed(id)' = Owed(id)
  BY <1>1, CreditStays
<1>5. ASSUME NEW id \in NodeId PROVE HoursRight(stats[id], Owed(id), next)
  <2>1. HoursRight(stats[id], Owed(id), now)
    BY DEF LedgerInv
  <2> HIDE DEF now, next
  <2>2. \A h \in Hour : h < now - RETAIN_HOURS => h < next - RETAIN_HOURS
    BY <1>2, <1>3
  <2> QED BY <2>1, <2>2 DEF HoursRight
<1>6. CountsTyped'
  BY <1>1 DEF LedgerInv, CountsTyped
<1>7. \A id \in NodeId, h \in Hour : FlushRight(id, h)'
  BY <1>1, <1>4 DEF LedgerInv, FlushRight
<1> QED
  BY <1>1, <1>4, <1>5, <1>6, <1>7 DEF LedgerInv

LEMMA SnapshotKeepsLedger ==
  ASSUME HoursInv, LedgerInv, Snapshot
  PROVE  LedgerInv'
<1>1. /\ UNCHANGED <<db, disk, flusher, log, past, dropped, minute>>
      /\ stats' = [id \in NodeId |-> IF stats[id] = NewNodeStats THEN stats[id]
                                     ELSE Advance(stats[id], minute)]
  BY DEF Snapshot
<1>2. ASSUME NEW id \in NodeId
      PROVE  stats'[id].hours = stats[id].hours /\ stats'[id].dirty = stats[id].dirty
  <2>1. DOMAIN stats[id] = {"total", "minutes", "head", "hours", "dirty"}
    BY DEF HoursInv, StatsKept, HoursKept
  <2> QED BY <1>1, <2>1, AdvancedHours
<1>3. \A id, h : Credit(id, h)' = Credit(id, h) /\ Owed(id)' = Owed(id)
  BY <1>1, CreditStays
<1>4. CountsTyped'
  BY <1>1 DEF LedgerInv, CountsTyped
<1>5. \A id \in NodeId : HoursRight(stats[id], Owed(id), HourOf(minute))'
  BY <1>1, <1>2, <1>3 DEF LedgerInv, HoursRight
<1>6. \A id \in NodeId, h \in Hour : FlushRight(id, h)'
  BY <1>1, <1>2, <1>3 DEF LedgerInv, FlushRight
<1> QED
  BY <1>4, <1>5, <1>6 DEF LedgerInv

\* Steps that leave the statistics alone keep the ledger.
LEMMA RestKeepsLedger ==
  ASSUME LedgerInv, StatisticsRest
  PROVE  LedgerInv'
<1>1. /\ UNCHANGED <<stats, flusher, log, past, dropped, minute>>
      /\ db'.rows = db.rows /\ disk'.rows \in {disk.rows, db.rows}
  BY DEF StatisticsRest
<1>2. \A id, h : Credit(id, h)' = Credit(id, h) /\ Owed(id)' = Owed(id)
  BY <1>1, CreditStays
<1>3. CountsTyped'
  BY <1>1 DEF LedgerInv, CountsTyped
<1>4. \A id \in NodeId, h \in Hour : FlushRight(id, h)'
  BY <1>1, <1>2 DEF LedgerInv, FlushRight
<1> QED
  BY <1>1, <1>2, <1>3, <1>4 DEF LedgerInv

LEMMA NextLedger == TypesInv /\ NodesInv /\ HoursInv /\ LedgerInv /\ [BackofficeNext]_bvars => LedgerInv'
<1> SUFFICES ASSUME TypesInv, NodesInv, HoursInv, LedgerInv, [BackofficeNext]_bvars PROVE LedgerInv'
  OBVIOUS
<1>1. RowsCount(db.rows) /\ RowsCount(disk.rows)
  BY DEF LedgerInv, CountsTyped
<1>2. CASE Crash
  BY <1>1, <1>2, StartKeepsLedger DEF Crash
<1>3. CASE Exit
  BY <1>1, <1>3, StartKeepsLedger DEF Exit
<1>4. ASSUME NEW n \in registry, Record(n) PROVE LedgerInv'
  <2>1. n.id \in NodeId
    BY NodesAreFew, LoadedRow DEF NodesInv, RegistryFollows
  <2> QED BY <1>4, <2>1, RecordKeepsLedger
<1>5. CASE Elsewhere /\ ~Exit
  BY <1>4, <1>5, SnapshotKeepsLedger, TakeDirtyKeepsLedger, FlushKeepsLedger, TickKeepsLedger,
     OthersLeaveStatistics, RestKeepsLedger DEF Elsewhere
<1>6. CASE \/ (\E c \in Code : CreateReads(c)) \/ CreateTruncates \/ CreateWrites \/ CreateFails
           \/ \E e \in Enroller : EnrollStep(e)
  BY <1>6, OthersLeaveStatistics, RestKeepsLedger
<1> QED
  BY <1>2, <1>3, <1>5, <1>6, StepsOfBackoffice

LEMMA InitCredit ==
  ASSUME BackofficeInit
  PROVE  CountsTyped /\ \A id \in NodeId : \A h : Credit(id, h) = 0
<1>1. /\ minute = 0 /\ flusher = FlusherAt("sleeping") /\ disk = db /\ past = db.rows /\ log = NoLog
      /\ db.rows = [id \in NodeId |-> NoRows]
      /\ stats = [id \in NodeId |-> NewNodeStats]
  BY DEF BackofficeInit
<1>2. RowsCount(db.rows) /\ RowsCount(flusher.rows)
  BY <1>1 DEF RowsCount, NoRows, FlusherAt
<1>3. log \in [NodeId -> [Minute -> Nat]] /\ \A id \in NodeId, m \in Minute : log[id][m] = 0
  BY <1>1 DEF NoLog
<1>4. CountsTyped
  BY <1>1, <1>2, <1>3 DEF CountsTyped
<1>5. ASSUME NEW id \in NodeId, NEW h PROVE Credit(id, h) = 0
  <2> DEFINE f == log[id]
             S == InHour(h)
  <2>1. Credit(id, h) = Count(past[id], h) + SumOver(f, S) /\ Count(past[id], h) = 0
    BY <1>1, <1>4, OwedIs DEF Count, NoRows
  <2>2. S \subseteq DOMAIN f /\ IsFiniteSet(S) /\ \A x \in S : f[x] = 0
    BY <1>3, <1>4, MinutesOfHour DEF InHour
  <2> HIDE DEF f, S
  <2>3. SumOver(f, S) = 0
    BY <2>2, SumOfZeros
  <2> QED BY <2>1, <2>3
<1> QED
  BY <1>4, <1>5

LEMMA InitLedger == BackofficeInit => LedgerInv
<1> SUFFICES ASSUME BackofficeInit PROVE LedgerInv
  OBVIOUS
<1>1. /\ flusher = FlusherAt("sleeping") /\ db.rows = [id \in NodeId |-> NoRows]
      /\ stats = [id \in NodeId |-> NewNodeStats]
  BY DEF BackofficeInit
<1>2. CountsTyped
  BY InitCredit
<1>3. \A id \in NodeId : \A h : Credit(id, h) = 0
  BY InitCredit
<1>4. \A id \in NodeId : HoursRight(stats[id], Owed(id), HourOf(minute))
  BY <1>1, <1>3 DEF HoursRight, NewNodeStats, Owed
<1>5. ASSUME NEW id \in NodeId, NEW h \in Hour PROVE FlushRight(id, h)
  <2>1. Count(db.rows[id], h) = 0 /\ Count(flusher.rows[id], h) = 0 /\ DOMAIN flusher.rows[id] = {}
    BY <1>1, NothingHeld DEF Count, NoRows
  <2> QED BY <1>3, <2>1 DEF FlushRight
<1> QED
  BY <1>2, <1>4, <1>5 DEF LedgerInv

LEMMA LedgerInvariant == BackofficeSpec => []LedgerInv
BY InitLedger, NextLedger, TypesInvariant, NodesInvariant, DirtyHoursAreKept, PTL DEF BackofficeSpec

-----------------------------------------------------------------------------
(* The last take_dirty *)

\* An hour that is dirty after the last take_dirty got a request since.
DirtyIsTaken ==
  \A id \in NodeId : \A h \in stats[id].dirty :
    flusher.at \in {"sleeping", "holding"} \/ <<id, h>> \in late

LEMMA RecordKeepsTaken ==
  ASSUME HoursInv, DirtyIsTaken, NEW n, Record(n)
  PROVE  DirtyIsTaken'
<1> DEFINE hour == HourOf(minute)
<1>1. /\ stats' = [stats EXCEPT ![n.id] = Recorded(stats[n.id], minute)]
      /\ flusher' = flusher
      /\ late' = IF flusher.at \in {"last", "ended"} THEN late \cup {<<n.id, hour>>} ELSE late
  BY DEF Record
<1>2. DOMAIN stats = NodeId /\ flusher.at \in {"sleeping", "holding", "last", "ended"}
  BY DEF HoursInv, StatsKept
<1>3. ASSUME n.id \in NodeId PROVE Recorded(stats[n.id], minute).dirty = stats[n.id].dirty \cup {hour}
  <2> DEFINE ns == stats[n.id]
             a == Advance(ns, minute)
  <2>1. DOMAIN ns = {"total", "minutes", "head", "hours", "dirty"}
    BY <1>3 DEF HoursInv, StatsKept, HoursKept
  <2>2. DOMAIN a = {"total", "minutes", "head", "hours", "dirty"} /\ a.dirty = ns.dirty
    BY <2>1, AdvancedHours
  <2> HIDE DEF a, ns
  <2>3. Recorded(ns, minute).dirty = a.dirty \cup {hour}
    BY <2>2 DEF Recorded, a
  <2> QED
    BY <2>2, <2>3 DEF ns
<1> HIDE DEF hour
<1>4. ASSUME NEW id \in NodeId, NEW h \in stats'[id].dirty
      PROVE  flusher.at \in {"sleeping", "holding"} \/ <<id, h>> \in late'
  <2>1. CASE h \in stats[id].dirty
    BY <1>1, <2>1 DEF DirtyIsTaken
  <2>2. CASE h \notin stats[id].dirty
    <3>1. id = n.id
      BY <1>1, <1>2, <1>4, <2>2
    <3>2. h = hour
      BY <1>1, <1>2, <1>3, <1>4, <2>2, <3>1
    <3> QED
      BY <1>1, <1>2, <3>1, <3>2
  <2> QED
    BY <2>1, <2>2
<1> QED
  BY <1>1, <1>4 DEF DirtyIsTaken

LEMMA StartKeepsTaken ==
  ASSUME NEW tables, Start(tables)
  PROVE  DirtyIsTaken'
<1>1. flusher' = FlusherAt("sleeping")
  BY DEF Start
<1>2. flusher'.at = "sleeping"
  BY <1>1, NoRowsBegun
<1> QED
  BY <1>2 DEF DirtyIsTaken

LEMMA FlusherKeepsTaken ==
  ASSUME HoursInv, DirtyIsTaken, TakeDirty \/ Upsert \/ UpsertFails
  PROVE  DirtyIsTaken'
<1>1. CASE TakeDirty
  <2>1. stats' = [id \in NodeId |-> Taken(stats[id])]
    BY <1>1 DEF TakeDirty
  <2>2. \A id \in NodeId : Taken(stats[id]).dirty = {}
    BY DEF Taken, HoursInv, StatsKept, HoursKept
  <2> QED
    BY <2>1, <2>2 DEF DirtyIsTaken
<1>2. CASE Upsert \/ UpsertFails
  <2>1. /\ UNCHANGED <<stats, late>>
        /\ flusher' = FlusherAt(IF flusher.at = "last" THEN "ended" ELSE "sleeping")
        /\ flusher.at \in {"holding", "last"}
    BY <1>2 DEF Upsert, UpsertFails, FlusherRests
  <2>2. flusher'.at = IF flusher.at = "last" THEN "ended" ELSE "sleeping"
    BY <2>1, NoRowsBegun
  <2> QED
    BY <2>1, <2>2 DEF DirtyIsTaken
<1> QED
  BY <1>1, <1>2

LEMMA SnapshotKeepsTaken ==
  ASSUME HoursInv, DirtyIsTaken, Snapshot
  PROVE  DirtyIsTaken'
<1>1. /\ UNCHANGED <<flusher, late>>
      /\ stats' = [id \in NodeId |-> IF stats[id] = NewNodeStats THEN stats[id]
                                     ELSE Advance(stats[id], minute)]
  BY DEF Snapshot
<1>2. \A id \in NodeId : Advance(stats[id], minute).dirty = stats[id].dirty
  BY AdvancedHours DEF HoursInv, StatsKept, HoursKept
<1>3. \A id \in NodeId : stats'[id].dirty = stats[id].dirty
  BY <1>1, <1>2
<1> QED
  BY <1>1, <1>3 DEF DirtyIsTaken

LEMMA NextTaken == TypesInv /\ HoursInv /\ DirtyIsTaken /\ [BackofficeNext]_bvars => DirtyIsTaken'
<1> SUFFICES ASSUME TypesInv, HoursInv, DirtyIsTaken, [BackofficeNext]_bvars PROVE DirtyIsTaken'
  OBVIOUS
<1>1. CASE Crash \/ Exit
  BY <1>1, StartKeepsTaken DEF Crash, Exit
<1>2. CASE Tick
  BY <1>2 DEF Tick, statVars, DirtyIsTaken
<1>3. CASE StatisticsRest
  BY <1>3 DEF StatisticsRest, DirtyIsTaken
<1>4. CASE Elsewhere
  BY <1>1, <1>2, <1>3, <1>4, RecordKeepsTaken, FlusherKeepsTaken, SnapshotKeepsTaken,
     OthersLeaveStatistics DEF Elsewhere
<1>5. CASE \/ (\E c \in Code : CreateReads(c)) \/ CreateTruncates \/ CreateWrites \/ CreateFails
           \/ \E e \in Enroller : EnrollStep(e)
  BY <1>3, <1>5, OthersLeaveStatistics
<1> QED
  BY <1>1, <1>4, <1>5, StepsOfBackoffice

LEMMA InitTaken == BackofficeInit => DirtyIsTaken
BY NoRowsBegun DEF BackofficeInit, DirtyIsTaken

LEMMA TakenInvariant == BackofficeSpec => []DirtyIsTaken
BY InitTaken, NextTaken, TypesInvariant, DirtyHoursAreKept, PTL DEF BackofficeSpec

\* No request that a node is credited with is forgotten, whatever Record, take_dirty
\* and node_stats_upsert do in between: its hour is in the store, dirty with a flush
\* still to come, or held by the flusher.  The exceptions are an upsert that failed
\* since, and a request that the API took after the last take_dirty of a stop.
THEOREM CreditIsKept == BackofficeSpec => []CreditReachesTheStore
<1>1. LedgerInv /\ DirtyIsTaken => CreditReachesTheStore
  <2> SUFFICES ASSUME LedgerInv, DirtyIsTaken, NEW id \in NodeId, NEW h \in Hour
               PROVE  \/ Credit(id, h) = SumOver(db.rows[id], {h})
                      \/ h \in stats[id].dirty /\ flusher.at \in {"sleeping", "holding"}
                      \/ SumOver(flusher.rows[id], {h}) = Credit(id, h)
                      \/ <<id, h>> \in dropped \cup late
    BY DEF CreditReachesTheStore
  <2>1. /\ SumOver(db.rows[id], {h}) = Count(db.rows[id], h)
        /\ SumOver(flusher.rows[id], {h}) = Count(flusher.rows[id], h)
    BY SumOfOne DEF LedgerInv, CountsTyped, RowsCount
  <2>2. FlushRight(id, h)
    BY DEF LedgerInv
  <2>3. h \in stats[id].dirty => flusher.at \in {"sleeping", "holding"} \/ <<id, h>> \in late
    BY DEF DirtyIsTaken
  <2> QED BY <2>1, <2>2, <2>3 DEF FlushRight
<1> QED
  BY <1>1, LedgerInvariant, TakenInvariant, PTL

-----------------------------------------------------------------------------
(* The ring of minutes *)

LEMMA SmallMultiple ==
  ASSUME NEW M \in Nat \ {0}, NEW d \in Int, M * d < M, -M < M * d
  PROVE  d = 0
<1>1. CASE d >= 1
  <2>1. d - 1 \in Nat /\ M * d = M + M * (d - 1)
    BY <1>1
  <2>2. \A x \in Nat : M * x \in Nat
    OBVIOUS
  <2> DEFINE p == M * (d - 1)
             q == M * d
  <2>3. p \in Nat /\ q = M + p /\ q < M
    BY <2>1, <2>2
  <2> HIDE DEF p, q
  <2> QED BY <2>3
<1>2. CASE d <= -1
  <2>1. -d - 1 \in Nat /\ M * d = -M - M * (-d - 1)
    BY <1>2
  <2>2. \A x \in Nat : M * x \in Nat
    OBVIOUS
  <2> DEFINE p == M * (-d - 1)
             q == M * d
  <2>3. p \in Nat /\ q = -M - p /\ -M < q
    BY <2>1, <2>2
  <2> HIDE DEF p, q
  <2> QED BY <2>3
<1> QED
  BY <1>1, <1>2

LEMMA Quotient ==
  ASSUME NEW M \in Nat \ {0}, NEW a \in Nat
  PROVE  /\ a % M \in 0 .. M - 1 /\ a \div M \in Nat
         /\ a = M * (a \div M) + (a % M)
<1>1. a % M \in 0 .. M - 1
  OBVIOUS
<1>2. a \div M \in Nat
  OBVIOUS
<1>3. a = M * (a \div M) + (a % M)
  OBVIOUS
<1> QED
  BY <1>1, <1>2, <1>3

LEMMA Slots ==
  ASSUME NEW a \in Nat
  PROVE  a % MINUTES \in 0 .. MINUTES - 1 /\ (a + MINUTES) % MINUTES = a % MINUTES
<1> DEFINE M == MINUTES
           b == a + M
           p == a \div M
           q == b \div M
           r == a % M
           s == b % M
           d == p + 1 - q
<1>1. M \in Nat \ {0}
  BY LeaderboardAssumption
<1>2. r \in 0 .. M - 1 /\ p \in Nat /\ a = M * p + r
  BY <1>1, Quotient
<1>3. b \in Nat
  BY <1>1
<1> HIDE DEF b
<1>4. s \in 0 .. M - 1 /\ q \in Nat /\ b = M * q + s
  BY <1>1, <1>3, Quotient
<1> HIDE DEF M, p, q, r, s
<1>5. d \in Int /\ M * d = M * p + M - M * q
  BY <1>1, <1>2, <1>4
<1> DEFINE x == M * p
           y == M * q
           z == M * d
<1>6. x \in Int /\ y \in Int /\ a = x + r /\ a + M = y + s /\ z = x + M - y
  BY <1>1, <1>2, <1>4, <1>5 DEF b
<1> HIDE DEF x, y, z
<1>7. z = s - r /\ z < M /\ -M < z
  BY <1>1, <1>2, <1>4, <1>6
<1> HIDE DEF d
<1>8. d = 0
  BY <1>1, <1>5, <1>7, SmallMultiple DEF z
<1>9. z = 0
  BY <1>1, <1>8 DEF z
<1>10. s = r
  BY <1>2, <1>4, <1>7, <1>9
<1> QED
  BY <1>2, <1>10 DEF s, r, b, M

\* Two minutes less than MINUTES apart have slots of their own.
LEMMA SlotsApart ==
  ASSUME NEW a \in Nat, NEW b \in Nat, a < b, b - a < MINUTES
  PROVE  a % MINUTES # b % MINUTES
<1> DEFINE M == MINUTES
           p == a \div M
           q == b \div M
           r == a % M
           d == q - p
<1> SUFFICES ASSUME a % M = b % M PROVE FALSE
  OBVIOUS
<1>1. M \in Nat \ {0} /\ b - a < M
  BY LeaderboardAssumption
<1>2. r \in 0 .. M - 1 /\ p \in Nat /\ a = M * p + r /\ q \in Nat /\ b = M * q + r
  BY <1>1, Quotient
<1> HIDE DEF M, p, q, r
<1>3. d \in Int /\ M * d = M * q - M * p
  BY <1>1, <1>2
<1> DEFINE x == M * p
           y == M * q
           z == M * d
<1>4. x \in Int /\ y \in Int /\ a = x + r /\ b = y + r /\ z = y - x
  BY <1>1, <1>2, <1>3
<1> HIDE DEF x, y, z
<1>5. z = b - a /\ z < M /\ -M < z /\ z > 0
  BY <1>1, <1>2, <1>4
<1> HIDE DEF d
<1>6. d = 0
  BY <1>1, <1>3, <1>5, SmallMultiple DEF z
<1>7. z = 0
  BY <1>1, <1>6 DEF z
<1> QED
  BY <1>5, <1>7

LEMMA MinOfTwo ==
  ASSUME NEW a \in Nat, NEW b \in Nat
  PROVE  Min({a, b}) \in Nat /\ \A i \in Nat : i <= Min({a, b}) <=> i <= a /\ i <= b
<1> DEFINE c == IF a <= b THEN a ELSE b
           S == {a, b}
<1>1. c \in S /\ (\A y \in S : c <= y) /\ \A x \in S : (\A y \in S : x <= y) => x = c
  OBVIOUS
<1> HIDE DEF c, S
<1>2. Min(S) = c
  BY <1>1 DEF Min
<1> QED
  BY <1>2 DEF c, S

\* advance brings the head to now and empties the slots of the minutes it forgets.
LEMMA AdvancedRing ==
  ASSUME NEW ns, NEW now \in Nat, NEW l, RingRight(ns, l, now),
         DOMAIN ns = {"total", "minutes", "head", "hours", "dirty"}
  PROVE  /\ RingRight(Advance(ns, now), l, now)
         /\ Advance(ns, now).head = now /\ Advance(ns, now).total = ns.total
<1> DEFINE M == MINUTES
           head == ns.head
           ring == ns.minutes
           steps == Min({now - head, M})
           passed == {(head + i) % M : i \in 1 .. steps}
           b == Advance(ns, now)
<1>1. M \in Nat \ {0} /\ Minute \subseteq Nat
  BY LeaderboardAssumption, BackofficeAssumption DEF Minute
<1>2. /\ head \in Nat /\ head <= now
      /\ ring \in [0 .. M - 1 -> Nat]
      /\ \A m \in Minute : m > head => l[m] = 0
      /\ \A m \in Minute : Covers(head, m) => ring[m % M] = l[m]
      /\ \A s \in 0 .. M - 1 : ring[s] = 0 \/ \E m \in Minute : Covers(head, m) /\ m % M = s
  BY DEF RingRight
<1>3. CASE now <= head
  <2>1. b = ns /\ head = now
    BY <1>2, <1>3 DEF Advance
  <2> QED BY <2>1
<1>4. CASE ~(now <= head)
  <2> DEFINE after == [s \in DOMAIN ring |-> IF s \in passed THEN 0 ELSE ring[s]]
  <2>1. b = [ns EXCEPT !.minutes = after, !.head = now]
    BY <1>4 DEF Advance
  <2>2. b.minutes = after /\ b.head = now /\ b.total = ns.total
    BY <2>1
  <2>3. \A i \in Nat : i \in 1 .. steps <=> i >= 1 /\ i <= now - head /\ i <= M
    <3>1. now - head \in Nat
      BY <1>2, <1>4
    <3>2. steps \in Nat /\ \A i \in Nat : i <= steps <=> i <= now - head /\ i <= M
      BY <1>1, <3>1, MinOfTwo
    <3> HIDE DEF steps
    <3> QED BY <3>2
  <2> HIDE DEF steps
  <2>4. 1 .. steps \subseteq Nat
    <3>1. \A i \in 1 .. steps : i \in Nat
      OBVIOUS
    <3> QED BY <3>1
  <2>5. ASSUME NEW m \in Minute, now - M < m, m <= head PROVE m % M \notin passed
    <3> SUFFICES ASSUME NEW i \in 1 .. steps, m % M = (head + i) % M PROVE FALSE
      OBVIOUS
    <3> DEFINE k == head + i
    <3>1. i \in Nat /\ i >= 1 /\ i <= now - head
      BY <2>3, <2>4
    <3>2. m \in Nat /\ head \in Nat /\ now \in Nat /\ M \in Nat /\ now - M < m /\ m <= head
      BY <1>1, <1>2, <2>5
    <3>3. k \in Nat /\ m < k /\ k - m < M
      <4> HIDE DEF head, M
      <4> QED BY ONLY <3>1, <3>2
    <3> HIDE DEF k
    <3>4. m % MINUTES # k % MINUTES
      BY <3>2, <3>3, SlotsApart
    <3> QED BY <3>4 DEF k
  <2>6. ASSUME NEW m \in Minute, head - M < m, m <= head, m <= now - M PROVE m % M \in passed
    <3> DEFINE i == m + M - head
    <3>1. i \in Nat /\ i >= 1 /\ i <= now - head /\ i <= M /\ head + i = m + M
      BY <1>1, <1>2, <2>6
    <3>2. i \in 1 .. steps
      BY <2>3, <3>1
    <3>3. (m + M) % M = m % M
      BY <1>1, Slots
    <3> HIDE DEF i
    <3>4. (head + i) % M = m % M
      BY <3>1, <3>3
    <3> QED BY <3>2, <3>4
  <2>7. after \in [0 .. M - 1 -> Nat] /\ \A s \in 0 .. M - 1 : after[s] = IF s \in passed THEN 0 ELSE ring[s]
    BY <1>2
  <2>8. \A m \in Minute : m > now => l[m] = 0
    BY <1>1, <1>2
  <2> HIDE DEF after, passed, b
  \* A slot that is not empty counts a minute up to the old head.
  <2>9. ASSUME NEW s \in 0 .. M - 1, after[s] # 0
        PROVE  \E m \in Minute : now - M < m /\ m <= head /\ m % M = s
    <3>1. s \notin passed /\ ring[s] # 0
      BY <2>7, <2>9
    <3>2. PICK m \in Minute : Covers(head, m) /\ m % M = s
      BY <1>2, <3>1
    <3>3. head - M < m /\ m <= head
      BY <1>1, <1>2, <3>2 DEF Covers
    <3>4. ~(m <= now - M)
      BY <2>6, <3>1, <3>2, <3>3
    <3>5. now - M < m
      BY <1>1, <3>4
    <3> QED BY <3>2, <3>3, <3>5
  <2>10. ASSUME NEW m \in Minute, Covers(now, m) PROVE after[m % M] = l[m]
    <3> DEFINE s == m % M
    <3>1. m \in Nat /\ s \in 0 .. M - 1 /\ m > now - M /\ m <= now
      BY <1>1, <2>10, Slots DEF Covers
    <3>2. CASE m <= head
      <4>1. now - M < m /\ Covers(head, m)
        BY <1>1, <1>2, <1>4, <3>1, <3>2 DEF Covers
      <4>2. s \notin passed /\ ring[s] = l[m]
        BY <1>2, <2>5, <3>2, <4>1
      <4> HIDE DEF s
      <4>3. after[s] = ring[s]
        BY <2>7, <3>1, <4>2
      <4> QED BY <4>2, <4>3 DEF s
    <3>3. CASE ~(m <= head)
      <4>1. l[m] = 0
        BY <1>1, <1>2, <3>3
      <4> HIDE DEF s
      <4>2. ASSUME after[s] # 0 PROVE FALSE
        <5>1. PICK k \in Minute : now - M < k /\ k <= head /\ k % M = s
          BY <2>9, <3>1, <4>2
        <5>2. k \in Nat /\ k < m /\ m - k < MINUTES
          BY <1>1, <1>2, <3>1, <3>3, <5>1
        <5>3. k % MINUTES # m % MINUTES
          BY <3>1, <5>2, SlotsApart
        <5> QED BY <5>1, <5>3 DEF s
      <4> QED BY <4>1, <4>2 DEF s
    <3> QED BY <3>2, <3>3
  <2>11. ASSUME NEW s \in 0 .. M - 1
         PROVE  after[s] = 0 \/ \E m \in Minute : Covers(now, m) /\ m % M = s
    <3> SUFFICES ASSUME after[s] # 0 PROVE \E m \in Minute : Covers(now, m) /\ m % M = s
      OBVIOUS
    <3>1. PICK m \in Minute : now - M < m /\ m <= head /\ m % M = s
      BY <2>9
    <3>2. Covers(now, m)
      BY <1>1, <1>2, <3>1 DEF Covers
    <3> QED BY <3>1, <3>2
  <2>12. RingRight(b, l, now)
    BY <2>2, <2>7, <2>8, <2>10, <2>11 DEF RingRight
  <2> QED BY <2>2, <2>12 DEF b
<1> QED
  BY <1>3, <1>4

\* record counts in the slot of its minute.
LEMMA RecordedRing ==
  ASSUME NEW ns, NEW now \in Minute, NEW l, RingRight(ns, l, now),
         DOMAIN ns = {"total", "minutes", "head", "hours", "dirty"},
         NEW k, \A m \in Minute : l[m] \in Nat /\ k[m] = l[m] + IF m = now THEN 1 ELSE 0
  PROVE  RingRight(Recorded(ns, now), k, now) /\ Recorded(ns, now).total = ns.total + 1
<1> DEFINE M == MINUTES
           a == Advance(ns, now)
           ring == a.minutes
           slot == now % M
           b == Recorded(ns, now)
           after == [ring EXCEPT ![slot] = @ + 1]
<1>1. M \in Nat \ {0} /\ Minute \subseteq Nat /\ now \in Nat
  BY LeaderboardAssumption, BackofficeAssumption DEF Minute
<1>2. RingRight(a, l, now) /\ a.head = now /\ a.total = ns.total
  BY <1>1, AdvancedRing
<1>3. DOMAIN a = {"total", "minutes", "head", "hours", "dirty"}
  BY AdvancedHours
<1>4. /\ ring \in [0 .. M - 1 -> Nat]
      /\ \A m \in Minute : m > now => l[m] = 0
      /\ \A m \in Minute : Covers(now, m) => ring[m % M] = l[m]
      /\ \A s \in 0 .. M - 1 : ring[s] = 0 \/ \E m \in Minute : Covers(now, m) /\ m % M = s
  BY <1>2 DEF RingRight
<1>5. slot \in 0 .. M - 1 /\ Covers(now, now)
  BY <1>1, Slots DEF Covers
<1>6. b.minutes = after /\ b.head = now /\ b.total = ns.total + 1
  BY <1>2, <1>3 DEF Recorded
<1> HIDE DEF a, ring, b, slot
<1>7. after \in [0 .. M - 1 -> Nat] /\ \A s \in 0 .. M - 1 : after[s] = IF s = slot THEN ring[s] + 1 ELSE ring[s]
  BY <1>4, <1>5
<1>8. ASSUME NEW m \in Minute, m > now PROVE k[m] = 0
  <2>1. l[m] = 0 /\ m # now
    BY <1>1, <1>4, <1>8
  <2> QED BY <2>1
<1> HIDE DEF after
<1>9. ASSUME NEW m \in Minute, Covers(now, m) PROVE after[m % M] = k[m]
  <2>1. m \in Nat /\ m % M \in 0 .. M - 1 /\ m > now - M /\ m <= now /\ ring[m % M] = l[m]
    BY <1>1, <1>4, <1>9, Slots DEF Covers
  <2>2. CASE m = now
    <3>1. m % M = slot
      BY <2>2 DEF slot
    <3>2. after[m % M] = ring[m % M] + 1
      BY <1>7, <2>1, <3>1
    <3> QED BY <2>1, <2>2, <3>2
  <2>3. CASE m # now
    <3>1. m < now /\ now - m < MINUTES
      BY <1>1, <2>1, <2>3
    <3>2. m % M # slot
      BY <1>1, <2>1, <3>1, SlotsApart DEF slot
    <3>3. after[m % M] = ring[m % M]
      BY <1>7, <2>1, <3>2
    <3>4. k[m] = l[m]
      BY <2>3
    <3> QED BY <2>1, <3>3, <3>4
  <2> QED BY <2>2, <2>3
<1>10. ASSUME NEW s \in 0 .. M - 1
       PROVE  after[s] = 0 \/ \E m \in Minute : Covers(now, m) /\ m % M = s
  BY <1>4, <1>5, <1>7 DEF slot
<1>11. RingRight(b, k, now)
  BY <1>1, <1>6, <1>7, <1>8, <1>9, <1>10 DEF RingRight
<1> QED
  BY <1>6, <1>11 DEF b

LEMMA RecordKeepsRing ==
  ASSUME HoursInv, LedgerInv, RingInv, NEW n, n.id \in NodeId, Record(n)
  PROVE  RingInv'
<1> DEFINE now == HourOf(minute)
           nid == n.id
<1>1. /\ UNCHANGED minute /\ log' = [log EXCEPT ![nid][minute] = @ + 1]
      /\ stats' = [stats EXCEPT ![nid] = Recorded(stats[nid], minute)]
  BY DEF Record
<1>2. minute \in Minute /\ now \in Hour /\ IsFiniteSet(Hour)
  BY TimeIs DEF HoursInv
<1>3. CountsTyped /\ log \in [NodeId -> [Minute -> Nat]] /\ nid \in NodeId /\ DOMAIN stats = NodeId
  BY DEF LedgerInv, CountsTyped, HoursInv, StatsKept
<1>4. \A id \in NodeId, h \in Hour :
        Credit(id, h)' = Credit(id, h) + IF id = nid /\ h = now THEN 1 ELSE 0
  BY <1>2, <1>3, CreditRecorded
<1>5. ASSUME NEW id \in NodeId
      PROVE  RingRight(stats'[id], log'[id], minute) /\ stats'[id].total = SumOver(Owed(id)', Hour)
  <2> DEFINE ns == stats[id]
             owed == Owed(id)
             after == Owed(id)'
             l == log[id]
             k == log'[id]
  <2>1. /\ RingRight(ns, l, minute) /\ ns.total = SumOver(owed, Hour)
        /\ DOMAIN ns = {"total", "minutes", "head", "hours", "dirty"}
    BY DEF RingInv, HoursInv, StatsKept, HoursKept
  <2>2. /\ owed \in [Hour -> Nat] /\ DOMAIN after = Hour
        /\ \A h \in Hour : after[h] = owed[h] + IF id = nid /\ h = now THEN 1 ELSE 0
    BY <1>3, <1>4, OwedTyped DEF Owed
  <2>3. CASE id = nid
    <3>1. stats'[id] = Recorded(ns, minute)
      BY <1>1, <1>3, <2>3
    <3>2. \A m \in Minute : l[m] \in Nat /\ k[m] = l[m] + IF m = minute THEN 1 ELSE 0
      BY <1>1, <1>2, <1>3, <2>3
    <3>3. \A h \in Hour : after[h] = owed[h] + IF h = now THEN 1 ELSE 0
      BY <2>2, <2>3
    <3> HIDE DEF ns, owed, after, l, k
    <3>4. RingRight(Recorded(ns, minute), k, minute) /\ Recorded(ns, minute).total = ns.total + 1
      BY <1>2, <2>1, <3>2, RecordedRing
    <3> HIDE DEF now
    <3>5. SumOver(after, Hour) = SumOver(owed, Hour) + (IF now \in Hour THEN 1 ELSE 0)
      <4>1. /\ Hour \subseteq DOMAIN owed /\ Hour \subseteq DOMAIN after /\ IsFiniteSet(Hour)
            /\ \A h \in Hour : owed[h] \in Nat
        BY <1>2, <2>2
      <4> QED BY <3>3, <4>1, SumBumped
    <3> QED BY <1>2, <2>1, <3>1, <3>4, <3>5 DEF after, k
  <2>4. CASE id # nid
    <3>1. stats'[id] = ns /\ k = l
      BY <1>1, <1>3, <2>4
    <3>2. after = owed
      <4>1. \A h \in Hour : after[h] = owed[h]
        BY <2>2, <2>4
      <4>2. after = [h \in Hour |-> after[h]] /\ owed = [h \in Hour |-> owed[h]]
        BY DEF Owed
      <4> HIDE DEF after, owed
      <4> QED BY <4>1, <4>2
    <3> QED BY <2>1, <3>1, <3>2
  <2> QED BY <2>3, <2>4
<1> QED
  BY <1>1, <1>5 DEF RingInv

\* A new process starts with an empty ring, and its totals are those of the rows.
LEMMA StartKeepsRing ==
  ASSUME HoursInv, LedgerInv, NEW tables, Start(tables), RowsCount(tables.rows),
         RowsBegun(tables.rows, HourOf(minute))
  PROVE  RingInv'
<1> DEFINE now == HourOf(minute)
<1>1. /\ log' = NoLog /\ minute' = minute
      /\ stats' = [id \in NodeId |-> Load(tables.rows[id], minute)]
  BY DEF Start
<1>2. minute \in Nat /\ 0 .. now \subseteq Hour /\ IsFiniteSet(Hour)
  BY TimeIs DEF HoursInv
<1>3. \A id \in NodeId, h \in Hour :
        Credit(id, h)' = Count(tables.rows[id], h) /\ Count(tables.rows[id], h) \in Nat
  BY CreditLoaded DEF LedgerInv
<1>4. ASSUME NEW id \in NodeId
      PROVE  RingRight(stats'[id], log'[id], minute) /\ stats'[id].total = SumOver(Owed(id)', Hour)
  <2> DEFINE rows == tables.rows[id]
             b == Load(rows, minute)
             empty == [s \in 0 .. MINUTES - 1 |-> 0]
             l == log'[id]
             owed == Owed(id)'
             S == DOMAIN rows
  <2>1. /\ b.minutes = empty
        /\ b.head = 0 \/ b.head = minute
        /\ b.total = IF rows = NewNodeStats.hours THEN 0 ELSE SumOver(rows, S)
    BY DEF Load, NewNodeStats
  <2>2. \A m \in Minute : l[m] = 0
    BY <1>1 DEF NoLog
  <2>3. \A m \in Minute : m % MINUTES \in 0 .. MINUTES - 1
    BY Slots, BackofficeAssumption DEF Minute
  <2>4. empty \in [0 .. MINUTES - 1 -> Nat] /\ \A s \in 0 .. MINUTES - 1 : empty[s] = 0
    OBVIOUS
  <2>5. b.head \in Nat /\ b.head <= minute
    BY <1>2, <2>1
  <2> HIDE DEF b, empty, l
  <2>6. RingRight(b, l, minute)
    BY <2>1, <2>2, <2>3, <2>4, <2>5 DEF RingRight
  <2>7. DOMAIN owed = Hour /\ \A h \in Hour : owed[h] = Count(rows, h) /\ owed[h] \in Nat
    BY <1>3 DEF Owed
  <2>8. S \subseteq Hour /\ \A h \in S : rows[h] \in Nat
    BY <1>2 DEF RowsBegun, RowsCount
  <2>9. IsFiniteSet(S)
    BY <1>2, <2>8, FS_Subset
  <2>10. (\A h \in S : owed[h] = rows[h]) /\ \A h \in Hour \ S : owed[h] = 0
    BY <2>7, <2>8 DEF Count
  <2> HIDE DEF owed, S
  <2>11. SumOver(rows, S) = SumOver(owed, Hour)
    BY <1>2, <2>7, <2>8, <2>9, <2>10, SumSame DEF S
  <2>12. rows = NewNodeStats.hours => SumOver(owed, Hour) = 0
    <3>1. rows = NewNodeStats.hours => S = {}
      BY DEF NewNodeStats, S
    <3>2. S = {} => SumOver(rows, S) = 0
      BY <2>8, <2>9, SumIs DEF S
    <3> QED BY <2>11, <3>1, <3>2
  <2>13. b.total = SumOver(owed, Hour)
    BY <2>1, <2>11, <2>12
  <2> QED BY <1>1, <2>6, <2>13 DEF b, l, owed
<1> QED
  BY <1>1, <1>4 DEF RingInv

\* What a ring depends on.
LEMMA SameRing ==
  ASSUME NEW ns, NEW b, b.head = ns.head, b.minutes = ns.minutes, NEW l, NEW now, RingRight(ns, l, now)
  PROVE  RingRight(b, l, now)
BY DEF RingRight

LEMMA SnapshotKeepsRing ==
  ASSUME HoursInv, RingInv, Snapshot
  PROVE  RingInv'
<1>1. /\ UNCHANGED <<log, past, minute>>
      /\ stats' = [id \in NodeId |-> IF stats[id] = NewNodeStats THEN stats[id]
                                     ELSE Advance(stats[id], minute)]
  BY DEF Snapshot
<1>2. minute \in Nat
  BY TimeIs DEF HoursInv
<1>3. \A id, h : Credit(id, h)' = Credit(id, h) /\ Owed(id)' = Owed(id)
  BY <1>1, CreditStays
<1>4. ASSUME NEW id \in NodeId
      PROVE  RingRight(stats'[id], log[id], minute) /\ stats'[id].total = SumOver(Owed(id), Hour)
  <2>1. /\ RingRight(stats[id], log[id], minute) /\ stats[id].total = SumOver(Owed(id), Hour)
        /\ DOMAIN stats[id] = {"total", "minutes", "head", "hours", "dirty"}
    BY DEF RingInv, HoursInv, StatsKept, HoursKept
  <2>2. /\ RingRight(Advance(stats[id], minute), log[id], minute)
        /\ Advance(stats[id], minute).total = stats[id].total
    BY <1>2, <2>1, AdvancedRing
  <2> QED BY <1>1, <2>1, <2>2
<1> QED
  BY <1>1, <1>3, <1>4 DEF RingInv

LEMMA TakeDirtyKeepsRing ==
  ASSUME HoursInv, RingInv, TakeDirty
  PROVE  RingInv'
<1>1. UNCHANGED <<log, past, minute>> /\ stats' = [id \in NodeId |-> Taken(stats[id])]
  BY DEF TakeDirty
<1>2. \A id, h : Credit(id, h)' = Credit(id, h) /\ Owed(id)' = Owed(id)
  BY <1>1, CreditStays
<1>3. ASSUME NEW id \in NodeId
      PROVE  RingRight(stats'[id], log[id], minute) /\ stats'[id].total = SumOver(Owed(id), Hour)
  <2> DEFINE ns == stats[id]
             b == stats'[id]
  <2>1. /\ RingRight(ns, log[id], minute) /\ ns.total = SumOver(Owed(id), Hour)
        /\ DOMAIN ns = {"total", "minutes", "head", "hours", "dirty"}
    BY DEF RingInv, HoursInv, StatsKept, HoursKept
  <2>2. b.head = ns.head /\ b.minutes = ns.minutes /\ b.total = ns.total
    BY <1>1, <2>1 DEF Taken
  <2> HIDE DEF ns, b
  <2>3. RingRight(b, log[id], minute)
    BY <2>1, <2>2, SameRing
  <2> QED BY <2>1, <2>2, <2>3 DEF b
<1> QED
  BY <1>1, <1>2, <1>3 DEF RingInv

LEMMA OthersKeepRing ==
  ASSUME HoursInv, RingInv, Tick \/ Upsert \/ UpsertFails \/ StatisticsRest
  PROVE  RingInv'
<1>1. UNCHANGED <<stats, log, past>> /\ (minute' = minute \/ minute' = minute + 1)
  BY DEF Tick, Upsert, UpsertFails, StatisticsRest, statVars
<1>2. minute \in Nat
  BY TimeIs DEF HoursInv
<1>3. \A id, h : Credit(id, h)' = Credit(id, h) /\ Owed(id)' = Owed(id)
  BY <1>1, CreditStays
<1>4. \A id \in NodeId : RingRight(stats[id], log[id], minute')
  <2>1. \A x \in Nat : x <= minute => x <= minute'
    BY <1>1, <1>2
  <2> QED BY <2>1 DEF RingInv, RingRight
<1> QED
  BY <1>1, <1>3, <1>4 DEF RingInv

LEMMA NextRing == TypesInv /\ NodesInv /\ HoursInv /\ LedgerInv /\ RingInv /\ [BackofficeNext]_bvars => RingInv'
<1> SUFFICES ASSUME TypesInv, NodesInv, HoursInv, LedgerInv, RingInv, [BackofficeNext]_bvars PROVE RingInv'
  OBVIOUS
<1>1. /\ RowsCount(db.rows) /\ RowsCount(disk.rows)
      /\ RowsBegun(db.rows, HourOf(minute)) /\ RowsBegun(disk.rows, HourOf(minute))
  BY DEF LedgerInv, CountsTyped, HoursInv
<1>2. CASE Crash
  BY <1>1, <1>2, StartKeepsRing DEF Crash
<1>3. CASE Exit
  BY <1>1, <1>3, StartKeepsRing DEF Exit
<1>4. ASSUME NEW n \in registry, Record(n) PROVE RingInv'
  <2>1. n.id \in NodeId
    BY NodesAreFew, LoadedRow DEF NodesInv, RegistryFollows
  <2> QED BY <1>4, <2>1, RecordKeepsRing
<1>5. CASE Elsewhere /\ ~Exit
  BY <1>4, <1>5, SnapshotKeepsRing, TakeDirtyKeepsRing, OthersLeaveStatistics, OthersKeepRing DEF Elsewhere
<1>6. CASE \/ (\E c \in Code : CreateReads(c)) \/ CreateTruncates \/ CreateWrites \/ CreateFails
           \/ \E e \in Enroller : EnrollStep(e)
  BY <1>6, OthersLeaveStatistics, OthersKeepRing
<1> QED
  BY <1>2, <1>3, <1>5, <1>6, StepsOfBackoffice

LEMMA InitRing == BackofficeInit => RingInv
<1> SUFFICES ASSUME BackofficeInit PROVE RingInv
  OBVIOUS
<1>1. minute = 0 /\ log = NoLog /\ stats = [id \in NodeId |-> NewNodeStats]
  BY DEF BackofficeInit
<1>2. CountsTyped /\ minute \in Minute
  BY InitLedger, InitHours DEF LedgerInv, HoursInv
<1>3. ASSUME NEW id \in NodeId PROVE RingRight(stats[id], log[id], minute)
  <2> DEFINE ns == NewNodeStats
             empty == [s \in 0 .. MINUTES - 1 |-> 0]
             l == log[id]
  <2>1. ns.minutes = empty /\ ns.head = 0
    BY DEF NewNodeStats
  <2>2. \A m \in Minute : l[m] = 0
    BY <1>1 DEF NoLog
  <2>3. \A m \in Minute : m % MINUTES \in 0 .. MINUTES - 1
    BY Slots, BackofficeAssumption DEF Minute
  <2>4. empty \in [0 .. MINUTES - 1 -> Nat] /\ \A s \in 0 .. MINUTES - 1 : empty[s] = 0
    OBVIOUS
  <2>5. stats[id] = ns
    BY <1>1
  <2> HIDE DEF ns, empty, l
  <2>6. RingRight(ns, l, minute)
    BY <1>1, <2>1, <2>2, <2>3, <2>4 DEF RingRight
  <2> QED BY <2>5, <2>6 DEF l
<1>4. ASSUME NEW id \in NodeId PROVE stats[id].total = SumOver(Owed(id), Hour)
  <2> DEFINE owed == Owed(id)
  <2>1. owed \in [Hour -> Nat] /\ \A h \in Hour : owed[h] = Credit(id, h)
    BY <1>2, OwedTyped
  <2>2. \A h \in Hour : owed[h] = 0
    BY <2>1, InitCredit
  <2>3. IsFiniteSet(Hour)
    BY <1>2, TimeIs
  <2> HIDE DEF owed
  <2>4. SumOver(owed, Hour) = 0
    BY <2>1, <2>2, <2>3, SumOfZeros
  <2> QED BY <1>1, <2>4 DEF NewNodeStats, owed
<1> QED
  BY <1>3, <1>4 DEF RingInv

LEMMA RingInvariant == BackofficeSpec => []RingInv
BY InitRing, NextRing, TypesInvariant, NodesInvariant, DirtyHoursAreKept, LedgerInvariant, PTL DEF BackofficeSpec

\* The ring, its head brought to now, sums to the requests of the last MINUTES minutes.
LEMMA RingSums ==
  ASSUME NEW ns, NEW now \in Nat, NEW l \in [Minute -> Nat], RingRight(ns, l, now), ns.head = now
  PROVE  WindowM60(ns) = SumOver(l, {m \in Minute : m > now - MINUTES})
<1> DEFINE M == MINUTES
           ring == ns.minutes
           S == {m \in Minute : m > now - M}
           C == {m \in S : m <= now}
           T == 0 .. M - 1
           b == [m \in C |-> m % M]
<1>1. M \in Nat \ {0} /\ Minute \subseteq Nat
  BY LeaderboardAssumption, BackofficeAssumption DEF Minute
<1>2. /\ ring \in [T -> Nat]
      /\ \A m \in Minute : m > now => l[m] = 0
      /\ \A m \in Minute : Covers(now, m) => ring[m % M] = l[m]
      /\ \A s \in T : ring[s] = 0 \/ \E m \in Minute : Covers(now, m) /\ m % M = s
  BY DEF RingRight
<1>3. IsFiniteSet(Minute) /\ S \in SUBSET Minute /\ C \in SUBSET S
  <2>1. IsFiniteSet(0 .. MaxMinute)
    BY BackofficeAssumption, FS_Interval
  <2> QED BY <2>1 DEF Minute
<1>4. IsFiniteSet(T)
  BY <1>1, FS_Interval
<1>5. \A m \in Minute : m \in C <=> Covers(now, m)
  BY DEF Covers
<1>6. \A m \in S \ C : l[m] = 0
  BY <1>1, <1>2
<1>7. ASSUME NEW x \in C, NEW y \in C, x % M = y % M PROVE x = y
  <2>1. x \in Nat /\ y \in Nat /\ x > now - M /\ y > now - M /\ x <= now /\ y <= now
    BY <1>1
  <2>2. CASE x < y
    <3>1. y - x < MINUTES
      BY <1>1, <2>1
    <3> QED BY <1>7, <2>1, <2>2, <3>1, SlotsApart
  <2>3. CASE y < x
    <3>1. x - y < MINUTES
      BY <1>1, <2>1
    <3> QED BY <1>7, <2>1, <2>3, <3>1, SlotsApart
  <2> QED BY <2>1, <2>2, <2>3
<1>8. WindowM60(ns) = SumOver(ring, T)
  BY <1>2 DEF WindowM60
<1> HIDE DEF S, C, T
<1>9. IsFiniteSet(S) /\ IsFiniteSet(C) /\ C \subseteq Minute
  <2>1. IsFiniteSet(S)
    BY <1>3, FS_Subset
  <2> QED BY <1>3, <2>1, FS_Subset
<1>10. SumOver(l, C) = SumOver(l, S)
  <2>1. S \subseteq DOMAIN l /\ \A m \in S : l[m] \in Nat
    BY <1>3
  <2> QED BY <1>3, <1>6, <1>9, <2>1, SumLess
<1>11. b \in [C -> T] /\ \A m \in C : b[m] = m % M
  BY <1>1, <1>9, Slots DEF T
<1> HIDE DEF b
<1>12. /\ \A x, y \in C : b[x] = b[y] => x = y
       /\ \A x \in C : ring[b[x]] = l[x]
       /\ \A s \in T : ring[s] = 0 \/ \E x \in C : s = b[x]
  <2>1. \A x, y \in C : b[x] = b[y] => x = y
    BY <1>7, <1>11
  <2>2. \A x \in C : ring[b[x]] = l[x]
    BY <1>2, <1>5, <1>9, <1>11
  <2>3. ASSUME NEW s \in T, ring[s] # 0 PROVE \E x \in C : s = b[x]
    <3>1. PICK m \in Minute : Covers(now, m) /\ m % M = s
      BY <1>2, <2>3
    <3> QED BY <1>5, <1>11, <3>1
  <2> QED BY <2>1, <2>2, <2>3
<1>13. SumOver(l, C) = SumOver(ring, T)
  <2>1. C \subseteq DOMAIN l /\ (\A m \in C : l[m] \in Nat) /\ T \subseteq DOMAIN ring /\ \A s \in T : ring[s] \in Nat
    BY <1>2, <1>9
  <2> HIDE DEF ring
  <2> QED BY <1>4, <1>9, <1>11, <1>12, <2>1, SumMoves
<1> QED
  BY <1>8, <1>10, <1>13 DEF S

\* The hours kept sum to what is owed for a window that is not too long.
LEMMA HoursSum ==
  ASSUME NEW ns, NEW m, HourOf(m) \in Nat, NEW n \in 1 .. RETAIN_HOURS,
         NEW owed \in [Hour -> Nat], HoursRight(ns, owed, HourOf(m)),
         DOMAIN ns.hours \subseteq Hour, IsFiniteSet(Hour), Hour \subseteq Nat
  PROVE  WindowHours(ns, m, n) = SumOver(owed, {h \in Hour : h > HourOf(m) - n})
<1> DEFINE now == HourOf(m)
           hours == ns.hours
           S == {h \in DOMAIN hours : h >= now - (n - 1)}
           T == {h \in Hour : h > now - n}
<1>1. RETAIN_HOURS \in Nat /\ n \in Nat /\ n <= RETAIN_HOURS /\ now \in Nat
  BY LeaderboardAssumption
<1>2. \A h \in Hour : IF h \in DOMAIN hours THEN hours[h] = owed[h] ELSE owed[h] = 0 \/ h < now - RETAIN_HOURS
  BY DEF HoursRight
<1>3. WindowHours(ns, m, n) = SumOver(hours, S)
  BY DEF WindowHours
<1> HIDE DEF now, hours
<1>4. \A h \in Nat : h >= now - (n - 1) <=> h > now - n
  BY <1>1
<1>5. \A h \in Nat : h > now - n => ~(h < now - RETAIN_HOURS)
  BY <1>1
<1>6. DOMAIN hours \subseteq Hour
  BY DEF hours
<1>7. S \in SUBSET T /\ T \in SUBSET Hour /\ S \subseteq DOMAIN hours
  BY <1>4, <1>6
<1>8. \A h \in S : hours[h] = owed[h] /\ hours[h] \in Nat
  BY <1>2, <1>6
<1>9. ASSUME NEW h \in T, h \notin S PROVE owed[h] = 0
  <2>1. h \in Hour /\ h \in Nat /\ h > now - n
    OBVIOUS
  <2>2. ~(h < now - RETAIN_HOURS) /\ h >= now - (n - 1)
    BY <1>4, <1>5, <2>1
  <2>3. h \notin DOMAIN hours
    BY <1>9, <2>2
  <2> QED BY <1>2, <2>1, <2>2, <2>3
<1> HIDE DEF S, T
<1>10. IsFiniteSet(T) /\ IsFiniteSet(S)
  <2>1. IsFiniteSet(T)
    BY <1>7, FS_Subset
  <2> QED BY <1>7, <2>1, FS_Subset
<1>11. T \subseteq DOMAIN owed /\ \A h \in T : owed[h] \in Nat
  BY <1>7
<1>12. SumOver(hours, S) = SumOver(owed, T)
  <2>1. S \subseteq DOMAIN hours /\ (\A h \in S : hours[h] \in Nat) /\ S \subseteq T
    BY <1>7, <1>8
  <2>2. (\A h \in S : owed[h] = hours[h]) /\ \A h \in T \ S : owed[h] = 0
    BY <1>8, <1>9
  <2> QED BY ONLY <1>10, <1>11, <2>1, <2>2, SumSame
<1> QED
  BY <1>3, <1>12 DEF now, T

\* What snapshot in stats.rs shows of a node, the last minutes, the hour windows and the
\* total, is what a recount of the recorded requests gives, at any time and after any
\* number of restarts.
THEOREM WindowsShowTheRecount == BackofficeSpec => []WindowsAreExact
<1>1. HoursInv /\ LedgerInv /\ RingInv => WindowsAreExact
  <2> SUFFICES ASSUME HoursInv, LedgerInv, RingInv PROVE WindowsAreExact
    OBVIOUS
  <2>1. /\ minute \in Nat /\ HourOf(minute) \in Nat /\ Hour \subseteq Nat /\ IsFiniteSet(Hour)
        /\ 0 .. HourOf(minute) \subseteq Hour
    BY TimeIs DEF HoursInv
  <2>2. ASSUME NEW id \in NodeId
        PROVE  LET ns == Advance(stats[id], minute)
               IN  /\ WindowM60(ns) = SumOver(log[id], {m \in Minute : m > minute - MINUTES})
                   /\ \A n \in Windows :
                        WindowHours(ns, minute, n) = SumOver(Owed(id), {h \in Hour : h > HourOf(minute) - n})
                   /\ ns.total = SumOver(Owed(id), Hour)
    <3> DEFINE ns == stats[id]
               a == Advance(ns, minute)
               l == log[id]
               owed == Owed(id)
    <3>1. /\ RingRight(ns, l, minute) /\ ns.total = SumOver(owed, Hour)
          /\ DOMAIN ns = {"total", "minutes", "head", "hours", "dirty"}
          /\ DOMAIN ns.hours \subseteq 0 .. HourOf(minute)
          /\ HoursRight(ns, owed, HourOf(minute))
      BY DEF RingInv, HoursInv, StatsKept, HoursKept, LedgerInv
    <3>2. l \in [Minute -> Nat] /\ owed \in [Hour -> Nat]
      BY OwedTyped DEF LedgerInv, CountsTyped
    <3> HIDE DEF ns, l, owed
    <3>3. RingRight(a, l, minute) /\ a.head = minute /\ a.total = ns.total
      BY <2>1, <3>1, AdvancedRing
    <3>4. a.hours = ns.hours
      BY <3>1, AdvancedHours
    <3> HIDE DEF a
    <3>5. HoursRight(a, owed, HourOf(minute)) /\ DOMAIN a.hours \subseteq Hour
      BY <2>1, <3>1, <3>4 DEF HoursRight
    <3>6. WindowM60(a) = SumOver(l, {m \in Minute : m > minute - MINUTES})
      BY <2>1, <3>2, <3>3, RingSums
    <3>7. \A n \in Windows :
            WindowHours(a, minute, n) = SumOver(owed, {h \in Hour : h > HourOf(minute) - n})
      BY <2>1, <3>2, <3>5, HoursSum, BackofficeAssumption
    <3> QED BY <3>1, <3>3, <3>6, <3>7 DEF a, ns, l, owed
  <2> QED BY <2>2 DEF WindowsAreExact, Owed
<1> QED
  BY <1>1, DirtyHoursAreKept, LedgerInvariant, RingInvariant, PTL
=============================================================================
