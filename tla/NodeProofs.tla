----------------------------- MODULE NodeProofs -----------------------------
(***************************************************************************)
(* Proofs about NodeAgent and its RateLimiter, for any jobs, keys, windows *)
(* and lengths of a pause.                                                 *)
(*                                                                         *)
(* The limiter counts sends from the newest back and pops old ones off the *)
(* front.  Both are right only as long as its queue is in order, and it    *)
(* may forget a send only when no window in force reaches back to it:      *)
(* InOrder and Remembered, without which SlotsWithinBudget is not          *)
(* inductive.                                                              *)
(***************************************************************************)
EXTENDS NodeAgent, FiniteSetTheorems, SequenceTheorems, NaturalsInduction, WellFoundedInduction, TLAPS

WindowSpec == [limit : Nat \ {0}, window : Nat \ {0}]
Age == 0 .. Horizon
TaskRecord == [at : {"new", "method", "app", "sent", "done"}, attempts : 0 .. MAX_TRIES, key : Key]

LimiterTyped(l) ==
  /\ DOMAIN l = {"specs", "sent", "cool", "slot", "pace"}
  /\ l.specs \in Windows
  /\ l.sent \in Seq(Age)
  /\ l.cool \in 0 .. RetryAfter

TasksTyped ==
  /\ job \in [Job -> TaskRecord]
  /\ loop \in {"top", "poll", "paused"}
  /\ api_key \in Key /\ key_bad \in BOOLEAN
  /\ file.key \in Key

\* The oldest send comes first.
InOrder(ages) == \A i, j \in DOMAIN ages : i <= j => ages[i] >= ages[j]

\* Every slot given under the windows in force that one of them still reaches is
\* among the sends that the limiter remembers.
Remembered(l, given) == \A w \in 0 .. MaxWindow(l.specs) : Given(given, w) <= Given(l.sent, w)

Budget(l, given) == \A k \in DOMAIN l.specs : Given(given, l.specs[k].window) <= l.specs[k].limit

LayerInv(l, given) ==
  /\ LimiterTyped(l)
  /\ given \in Seq(Age)
  /\ InOrder(l.sent)
  /\ Remembered(l, given)
  /\ Budget(l, given)

LimitsInv ==
  /\ DOMAIN limiter = Layer /\ DOMAIN grants = Layer
  /\ \A l \in Layer : LayerInv(limiter[l], grants[l])

NodeInv == TasksTyped /\ LimitsInv

-----------------------------------------------------------------------------
(* Greatest elements *)

LEMMA LastOf ==
  ASSUME NEW m \in Nat, NEW S \in SUBSET (0 .. m), S # {}
  PROVE  \E k \in S : \A l \in S : l <= k
<1> DEFINE T == {m - k : k \in S}
<1>1. T \subseteq Nat /\ T # {}
  <2>1. \A k \in S : m - k \in Nat
    OBVIOUS
  <2>2. PICK k \in S : TRUE
    OBVIOUS
  <2> QED
    BY <2>1, <2>2
<1>2. PICK x \in T : \A y \in T : ~(<<y, x>> \in OpToRel(<, Nat))
  BY <1>1, NatLessThanWellFounded, WFMin
<1>3. PICK k \in S : x = m - k
  BY <1>2
<1>4. \A l \in S : ~(m - l < m - k)
  BY <1>1, <1>2, <1>3 DEF OpToRel
<1> QED
  BY <1>3, <1>4

LEMMA MaxOf ==
  ASSUME NEW m \in Nat, NEW S \in SUBSET (0 .. m), S # {}
  PROVE  Max(S) \in S /\ \A x \in S : x <= Max(S)
<1>1. \E k \in S : \A l \in S : k >= l
  BY LastOf
<1> QED
  BY <1>1 DEF Max

LEMMA MinOf ==
  ASSUME NEW a \in Int, NEW b \in Int
  PROVE  Min({a, b}) = IF a <= b THEN a ELSE b
<1>1. \E x \in {a, b} : \A y \in {a, b} : x =< y
  OBVIOUS
<1>2. Min({a, b}) \in {a, b} /\ \A y \in {a, b} : Min({a, b}) =< y
  BY <1>1 DEF Min
<1> QED
  BY <1>2

LEMMA MaxOfTwo ==
  ASSUME NEW a \in Int, NEW b \in Int
  PROVE  Max({a, b}) = IF a >= b THEN a ELSE b
<1>1. \E x \in {a, b} : \A y \in {a, b} : x >= y
  OBVIOUS
<1>2. Max({a, b}) \in {a, b} /\ \A y \in {a, b} : Max({a, b}) >= y
  BY <1>1 DEF Max
<1> QED
  BY <1>2

\* A finite list of numbers is bounded.
LEMMA ListBounded ==
  ASSUME NEW n \in Nat, NEW f, \A k \in 1 .. n : f[k] \in Nat
  PROVE  \E b \in Nat : \A k \in 1 .. n : f[k] <= b
<1> DEFINE Good == {i \in 0 .. n : \E b \in Nat : \A k \in 1 .. i : f[k] <= b}
           Bad == (0 .. n) \ Good
<1>1. 0 \in Good
  <2>1. \A k \in 1 .. 0 : f[k] <= 0
    OBVIOUS
  <2> QED
    BY <2>1
<1>2. ASSUME NEW x \in 1 .. n, x - 1 \in Good PROVE x \in Good
  <2>1. PICK b \in Nat : \A k \in 1 .. (x - 1) : f[k] <= b
    BY <1>2
  <2> DEFINE c == IF f[x] <= b THEN b ELSE f[x]
  <2>2. f[x] \in Nat /\ c \in Nat /\ f[x] <= c /\ b <= c
    OBVIOUS
  <2> HIDE DEF c
  <2>3. ASSUME NEW k \in 1 .. x PROVE f[k] <= c
    <3>1. CASE k = x
      BY <2>2, <3>1
    <3>2. CASE k \in 1 .. (x - 1)
      <4>1. f[k] <= b /\ f[k] \in Nat
        BY <2>1, <3>2
      <4> QED
        BY <2>2, <4>1
    <3> QED
      BY <3>1, <3>2
  <2> QED
    BY <2>2, <2>3
<1> HIDE DEF Good
<1> SUFFICES ASSUME n \notin Good PROVE FALSE
  BY DEF Good
<1>3. Bad \subseteq 0 .. n /\ n \in Bad /\ Bad \cap Good = {} /\ 0 .. n = Bad \cup (0 .. n \cap Good)
  OBVIOUS
<1> HIDE DEF Bad
<1>4. PICK x \in Bad : \A y \in Bad : ~(<<y, x>> \in OpToRel(<, Nat))
  <2>1. Bad \subseteq Nat
    BY <1>3
  <2> QED
    BY <2>1, <1>3, NatLessThanWellFounded, WFMin
<1>5. x \in 0 .. n /\ x \notin Good
  BY <1>3, <1>4
<1>6. x # 0 /\ x \in 1 .. n /\ x - 1 \in 0 .. n /\ x - 1 < x
  <2>1. x # 0
    BY <1>1, <1>5
  <2> QED
    BY <2>1, <1>5
<1>7. x - 1 \notin Bad
  <2>1. x \in Nat /\ x - 1 \in Nat
    BY <1>6
  <2> QED
    BY <2>1, <1>4, <1>6 DEF OpToRel
<1>8. x - 1 \in Good
  BY <1>3, <1>6, <1>7
<1> QED
  BY <1>2, <1>5, <1>6, <1>8

-----------------------------------------------------------------------------
(* Windows *)

LEMMA MaxWindowBounds ==
  ASSUME NEW s \in Seq(WindowSpec)
  PROVE  /\ MaxWindow(s) \in Nat
         /\ \A k \in DOMAIN s : s[k].window \in Nat /\ s[k].window <= MaxWindow(s)
<1> DEFINE n == Len(s)
           f == [k \in 1 .. n |-> s[k].window]
           W == {0} \cup {s[k].window : k \in DOMAIN s}
<1>1. n \in Nat /\ DOMAIN s = 1 .. n
  BY LenProperties
<1>2. \A k \in 1 .. n : s[k].window \in Nat
  <2>1. \A k \in 1 .. n : s[k] \in WindowSpec
    BY ElementOfSeq
  <2> QED
    BY <2>1 DEF WindowSpec
<1> HIDE DEF n
<1>3. \A k \in 1 .. n : f[k] \in Nat /\ f[k] = s[k].window
  BY <1>2
<1> HIDE DEF f
<1>4. PICK b \in Nat : \A k \in 1 .. n : f[k] <= b
  BY <1>1, <1>3, ListBounded
<1>5. W \in SUBSET (0 .. b) /\ W # {}
  BY <1>1, <1>2, <1>3, <1>4
<1>6. \A k \in DOMAIN s : s[k].window \in W
  OBVIOUS
<1>7. MaxWindow(s) = Max(W)
  BY DEF MaxWindow
<1> HIDE DEF W
<1>8. Max(W) \in W /\ \A x \in W : x <= Max(W)
  BY <1>5, MaxOf
<1> DEFINE top == Max(W)
<1> HIDE DEF top
<1>9. top \in Nat
  <2>1. top \in W
    BY <1>8 DEF top
  <2> QED
    BY <1>5, <2>1
<1>10. \A k \in DOMAIN s : s[k].window \in Nat /\ s[k].window <= top
  BY <1>1, <1>2, <1>6, <1>8 DEF top
<1>11. MaxWindow(s) = top
  BY <1>7 DEF top
<1> QED
  BY <1>9, <1>10, <1>11

LEMMA SpecsTyped ==
  ASSUME NEW s \in Windows
  PROVE  s \in Seq(WindowSpec)
BY NodeAgentAssumption DEF WindowSpec

LEMMA HorizonBounds ==
  /\ Horizon \in Nat
  /\ \A s \in Windows : MaxWindow(s) \in Nat /\ MaxWindow(s) <= Horizon
<1> DEFINE W == {MaxWindow(s) : s \in Windows}
<1>1. PICK list \in Seq(Windows) : \A s \in Windows : \E n \in 1 .. Len(list) : list[n] = s
  BY NodeAgentAssumption DEF IsFiniteSet
<1> DEFINE m == Len(list)
           f == [k \in 1 .. m |-> MaxWindow(list[k])]
<1>2. m \in Nat /\ \A k \in 1 .. m : list[k] \in Windows
  BY LenProperties, ElementOfSeq
<1> HIDE DEF m
<1>3. \A s \in Windows : MaxWindow(s) \in Nat
  BY SpecsTyped, MaxWindowBounds
<1>4. \A k \in 1 .. m : f[k] \in Nat /\ f[k] = MaxWindow(list[k])
  BY <1>2, <1>3
<1> HIDE DEF f
<1>5. PICK b \in Nat : \A k \in 1 .. m : f[k] <= b
  BY <1>2, <1>4, ListBounded
<1>6. \A s \in Windows : MaxWindow(s) <= b
  <2> TAKE s \in Windows
  <2>1. PICK n \in 1 .. m : list[n] = s
    BY <1>1 DEF m
  <2> QED
    BY <1>4, <1>5, <2>1
<1>7. W \in SUBSET (0 .. b) /\ W # {}
  <2>1. DefaultSpecs \in Windows
    BY DEF Windows
  <2> QED
    BY <1>3, <1>6, <2>1
<1>8. Horizon = Max(W) /\ \A s \in Windows : MaxWindow(s) \in W
  BY DEF Horizon
<1> HIDE DEF W
<1>9. Max(W) \in W /\ \A x \in W : x <= Max(W)
  BY <1>7, MaxOf
<1> DEFINE top == Max(W)
<1> HIDE DEF top
<1>10. top \in Nat
  <2>1. top \in W
    BY <1>9 DEF top
  <2> QED
    BY <1>7, <2>1
<1>11. \A s \in Windows : MaxWindow(s) <= top
  BY <1>8, <1>9 DEF top
<1>12. Horizon = top
  BY <1>8 DEF top
<1> QED
  BY <1>3, <1>10, <1>11, <1>12

-----------------------------------------------------------------------------
(* Queues of sends *)

\* The sends that Recent drops are the first n, all of them behind the window.
LEMMA RecentDrops ==
  ASSUME NEW S \in SUBSET Nat, NEW ages \in Seq(S), NEW w \in Nat
  PROVE  \E n \in 0 .. Len(ages) :
           /\ Recent(ages, w) \in Seq(S)
           /\ Len(Recent(ages, w)) = Len(ages) - n
           /\ \A k \in 1 .. Len(ages) - n : Recent(ages, w)[k] = ages[k + n]
           /\ \A k \in 1 .. n : ages[k] >= w
<1> DEFINE m == Len(ages)
           E == Expired(ages, w)
<1>1. m \in Nat /\ DOMAIN ages = 1 .. m /\ \A k \in 1 .. m : ages[k] \in S
  BY LenProperties, ElementOfSeq
<1>2. E = {k \in 1 .. m : \A i \in 1 .. k : ages[i] >= w}
  BY <1>1 DEF Expired
<1>3. Recent(ages, w) = SubSeq(ages, Cardinality(E) + 1, m)
  BY DEF Recent
<1> HIDE DEF m, E
<1>4. PICK n \in 0 .. m : E = 1 .. n
  <2>1. CASE E = {}
    BY <2>1, <1>1
  <2>2. CASE E # {}
    <3>1. E \in SUBSET (0 .. m)
      BY <1>1, <1>2
    <3>2. PICK k \in E : \A l \in E : l <= k
      BY <1>1, <2>2, <3>1, LastOf
    <3>3. k \in 1 .. m /\ \A i \in 1 .. k : ages[i] >= w
      BY <1>2, <3>2
    <3>4. \A l \in 1 .. k : l \in E
      BY <1>1, <1>2, <3>3
    <3>5. E = 1 .. k
      BY <1>1, <1>2, <3>2, <3>3, <3>4
    <3> QED
      BY <1>1, <3>3, <3>5
  <2> QED
    BY <2>1, <2>2
<1>5. Cardinality(E) = n
  BY <1>1, <1>4, FS_Interval
<1>6. \A k \in 1 .. n : ages[k] >= w
  <2> TAKE k \in 1 .. n
  <2>1. k \in E
    BY <1>4
  <2>2. k \in 1 .. m /\ \A i \in 1 .. k : ages[i] >= w
    BY <1>2, <2>1
  <2> QED
    BY <1>1, <2>2
<1>7. \A i \in n + 1 .. m : ages[i] \in S
  BY <1>1
<1> DEFINE r == SubSeq(ages, n + 1, m)
<1>8. /\ r \in Seq(S)
      /\ Len(r) = IF n + 1 <= m THEN m - (n + 1) + 1 ELSE 0
      /\ \A i \in 1 .. m - (n + 1) + 1 : r[i] = ages[(n + 1) + i - 1]
  BY <1>1, <1>7, SubSeqProperties
<1>9. r = Recent(ages, w)
  BY <1>3, <1>5
<1> HIDE DEF r
<1>10. Len(r) = m - n /\ \A i \in 1 .. m - n : r[i] = ages[i + n]
  BY <1>1, <1>8
<1> QED
  BY <1>6, <1>8, <1>9, <1>10 DEF m

LEMMA RecentTyped ==
  ASSUME NEW S \in SUBSET Nat, NEW ages \in Seq(S), NEW w \in Nat
  PROVE  Recent(ages, w) \in Seq(S)
BY RecentDrops

LEMMA QueueOf ==
  ASSUME NEW a \in Seq(Nat)
  PROVE  Len(a) \in Nat /\ DOMAIN a = 1 .. Len(a) /\ \A k \in DOMAIN a : a[k] \in Nat
BY LenProperties, ElementOfSeq

LEMMA AgesAreNumbers ==
  ASSUME NEW a \in Seq(Age)
  PROVE  a \in Seq(Nat) /\ \A k \in DOMAIN a : a[k] \in Age
<1>1. Age \subseteq Nat
  BY HorizonBounds DEF Age
<1>2. Len(a) \in Nat /\ a \in [1 .. Len(a) -> Age]
  BY LenProperties
<1>3. a \in [1 .. Len(a) -> Nat]
  BY <1>1, <1>2
<1>4. a \in Seq(Nat)
  BY <1>2, <1>3, SeqDef
<1> QED
  BY <1>2, <1>4

LEMMA GivenIsNumber ==
  ASSUME NEW a \in Seq(Nat), NEW w \in Nat
  PROVE  Given(a, w) \in Nat /\ IsFiniteSet({k \in DOMAIN a : a[k] < w})
<1> DEFINE G == {k \in DOMAIN a : a[k] < w}
<1>1. IsFiniteSet(1 .. Len(a))
  BY QueueOf, FS_Interval
<1>2. G \in SUBSET (1 .. Len(a))
  BY QueueOf
<1>3. Given(a, w) = Cardinality(G)
  BY DEF Given
<1> HIDE DEF G
<1>4. IsFiniteSet(G)
  BY <1>1, <1>2, FS_Subset
<1> QED
  BY <1>3, <1>4, FS_CardinalityType DEF G

LEMMA NoneGiven ==
  ASSUME NEW a \in Seq(Nat)
  PROVE  Given(a, 0) = 0
<1>1. {k \in DOMAIN a : a[k] < 0} = {}
  BY QueueOf
<1> QED
  BY <1>1, FS_EmptySet DEF Given

\* Where the slots of a, shifted by d, are slots of b, a has no more of them.
LEMMA GivenShift ==
  ASSUME NEW a \in Seq(Nat), NEW b \in Seq(Nat), NEW w \in Nat, NEW v \in Nat, NEW d \in Int,
         \A k \in DOMAIN a : a[k] < w => k + d \in DOMAIN b /\ b[k + d] < v
  PROVE  Given(a, w) <= Given(b, v)
<1> DEFINE A == {k \in DOMAIN a : a[k] < w}
           B == {k \in DOMAIN b : b[k] < v}
           f == [k \in A |-> k + d]
<1>1. IsFiniteSet(B)
  BY GivenIsNumber
<1>2. A \subseteq Int
  BY QueueOf
<1>3. \A k \in A : k + d \in B
  OBVIOUS
<1>4. Given(a, w) = Cardinality(A) /\ Given(b, v) = Cardinality(B)
  BY DEF Given
<1> HIDE DEF A, B
<1>5. f \in [A -> B]
  BY <1>3
<1>6. \A x, y \in A : f[x] = f[y] => x = y
  BY <1>2
<1>7. f \in Injection(A, B)
  BY <1>5, <1>6 DEF Injection, IsInjective
<1> HIDE DEF f
<1> QED
  BY <1>1, <1>4, <1>7, FS_Injection

\* Pruning never adds slots, and keeps those in windows no wider than it prunes to.
LEMMA RecentGiven ==
  ASSUME NEW a \in Seq(Nat), NEW v \in Nat, NEW w \in Nat
  PROVE  /\ Recent(a, v) \in Seq(Nat)
         /\ Given(Recent(a, v), w) <= Given(a, w)
         /\ w <= v => Given(a, w) <= Given(Recent(a, v), w)
<1> DEFINE r == Recent(a, v)
           m == Len(a)
<1>1. PICK n \in 0 .. m :
        /\ r \in Seq(Nat)
        /\ Len(r) = m - n
        /\ \A k \in 1 .. m - n : r[k] = a[k + n]
        /\ \A k \in 1 .. n : a[k] >= v
  BY RecentDrops
<1>2. m \in Nat /\ DOMAIN a = 1 .. m /\ \A k \in DOMAIN a : a[k] \in Nat
  BY QueueOf
<1> HIDE DEF r, m
<1>3. DOMAIN r = 1 .. m - n
  BY <1>1, QueueOf
<1>4. Given(r, w) <= Given(a, w)
  <2>1. \A k \in DOMAIN r : r[k] < w => k + n \in DOMAIN a /\ a[k + n] < w
    BY <1>1, <1>2, <1>3
  <2>2. n \in Int
    BY <1>2
  <2> QED
    BY <1>1, <2>1, <2>2, GivenShift
<1>5. ASSUME w <= v PROVE Given(a, w) <= Given(r, w)
  <2> DEFINE d == 0 - n
  <2>1. d \in Int /\ \A k : k \in 1 .. m => k + d = k - n
    BY <1>2
  <2>2. ASSUME NEW k \in DOMAIN a, a[k] < w PROVE k + d \in DOMAIN r /\ r[k + d] < w
    <3>1. k \in 1 .. m /\ a[k] \in Nat
      BY <1>2
    <3>2. k \notin 1 .. n
      BY <1>1, <1>2, <1>5, <2>2, <3>1
    <3>3. k - n \in 1 .. m - n /\ (k - n) + n = k
      BY <1>2, <3>1, <3>2
    <3>4. r[k - n] = a[k]
      BY <1>1, <3>3
    <3> QED
      BY <1>3, <2>1, <2>2, <3>1, <3>3, <3>4
  <2> HIDE DEF d
  <2> QED
    BY <1>1, <2>1, <2>2, GivenShift
<1> QED
  BY <1>1, <1>4, <1>5 DEF r

LEMMA AppendGiven ==
  ASSUME NEW a \in Seq(Nat), NEW w \in Nat
  PROVE  /\ Append(a, 0) \in Seq(Nat)
         /\ Given(Append(a, 0), w) = IF w = 0 THEN 0 ELSE Given(a, w) + 1
<1> DEFINE p == Append(a, 0)
           m == Len(a)
           A == {k \in DOMAIN a : a[k] < w}
           P == {k \in DOMAIN p : p[k] < w}
<1>1. /\ p \in Seq(Nat) /\ Len(p) = m + 1
      /\ \A k \in 1 .. m : p[k] = a[k]
      /\ p[m + 1] = 0
  BY AppendProperties
<1>2. m \in Nat /\ DOMAIN a = 1 .. m
  BY QueueOf
<1> HIDE DEF p, m
<1>3. DOMAIN p = 1 .. m + 1
  BY <1>1, QueueOf
<1>4. CASE w = 0
  <2>1. Given(p, 0) = 0
    BY <1>1, NoneGiven
  <2> QED
    BY <1>1, <1>4, <2>1 DEF p
<1>5. CASE w # 0
  <2>1. P = A \cup {m + 1}
    <3>1. \A k \in P : k \in A \cup {m + 1}
      BY <1>1, <1>2, <1>3
    <3>2. \A k \in A : k \in P
      BY <1>1, <1>2, <1>3
    <3>3. m + 1 \in P
      BY <1>1, <1>2, <1>3, <1>5
    <3> QED
      BY <3>1, <3>2, <3>3
  <2>2. m + 1 \notin A
    BY <1>2
  <2>3. Given(p, w) = Cardinality(P) /\ Given(a, w) = Cardinality(A) /\ IsFiniteSet(A)
    BY GivenIsNumber DEF Given
  <2> HIDE DEF A, P
  <2>4. Cardinality(P) = Cardinality(A) + 1
    BY <2>1, <2>2, <2>3, FS_AddElement
  <2>5. Given(p, w) = Given(a, w) + 1
    BY <2>3, <2>4
  <2> QED
    BY <1>1, <1>5, <2>5 DEF p
<1> QED
  BY <1>4, <1>5

LEMMA AgedQueue ==
  ASSUME NEW a \in Seq(Age)
  PROVE  /\ Aged(a, Horizon) \in Seq(Age)
         /\ Len(Aged(a, Horizon)) = Len(a)
         /\ \A k \in 1 .. Len(a) :
              Aged(a, Horizon)[k] = IF a[k] + 1 <= Horizon THEN a[k] + 1 ELSE Horizon
<1> DEFINE g == Aged(a, Horizon)
           m == Len(a)
<1>1. m \in Nat /\ DOMAIN a = 1 .. m /\ \A k \in 1 .. m : a[k] \in Age
  BY LenProperties, ElementOfSeq
<1>2. g = [k \in 1 .. m |-> Min({a[k] + 1, Horizon})]
  BY <1>1 DEF Aged
<1> HIDE DEF g, m
<1>3. Horizon \in Nat
  BY HorizonBounds
<1>4. \A k \in 1 .. m : Min({a[k] + 1, Horizon}) = IF a[k] + 1 <= Horizon THEN a[k] + 1 ELSE Horizon
  <2> TAKE k \in 1 .. m
  <2> DEFINE x == a[k] + 1
  <2>1. x \in Int
    BY <1>1, <1>3 DEF Age
  <2> HIDE DEF x
  <2>2. Min({x, Horizon}) = IF x <= Horizon THEN x ELSE Horizon
    BY <1>3, <2>1, MinOf
  <2> QED
    BY <2>2 DEF x
<1>5. \A k \in 1 .. m : g[k] = IF a[k] + 1 <= Horizon THEN a[k] + 1 ELSE Horizon
  BY <1>2, <1>4
<1>6. g \in [1 .. m -> Age]
  <2>1. \A k \in 1 .. m : g[k] \in Age
    BY <1>1, <1>3, <1>5 DEF Age
  <2> QED
    BY <1>2, <2>1
<1>7. g \in Seq(Age)
  BY <1>1, <1>6, SeqDef
<1>8. Len(g) = m
  <2>1. DOMAIN g = 1 .. m /\ DOMAIN g = 1 .. Len(g) /\ Len(g) \in Nat
    BY <1>6, <1>7, LenProperties
  <2> QED
    BY <1>1, <2>1
<1> QED
  BY <1>5, <1>7, <1>8 DEF g, m

\* A slot is in a window after a tick when it was in the window shorter by one.
LEMMA AgedGiven ==
  ASSUME NEW a \in Seq(Age), NEW w \in 1 .. Horizon
  PROVE  Given(Aged(a, Horizon), w) = Given(a, w - 1)
<1> DEFINE g == Aged(a, Horizon)
           m == Len(a)
<1>1. m \in Nat /\ DOMAIN a = 1 .. m /\ \A k \in 1 .. m : a[k] \in Nat
  BY AgesAreNumbers, QueueOf
<1>2. /\ g \in Seq(Age) /\ Len(g) = m
      /\ \A k \in 1 .. m : g[k] = IF a[k] + 1 <= Horizon THEN a[k] + 1 ELSE Horizon
  BY AgedQueue
<1> HIDE DEF g, m
<1>3. DOMAIN g = 1 .. m
  BY <1>2, LenProperties
<1>4. Horizon \in Nat
  BY HorizonBounds
<1>5. \A k \in 1 .. m : g[k] < w <=> a[k] < w - 1
  BY <1>1, <1>2, <1>4
<1>6. {k \in DOMAIN g : g[k] < w} = {k \in DOMAIN a : a[k] < w - 1}
  BY <1>1, <1>3, <1>5
<1> QED
  BY <1>6 DEF Given, g

\* In a queue that is in order, counting back from the newest counts them all.
LEMMA CountedBack ==
  ASSUME NEW a \in Seq(Nat), InOrder(a), NEW w \in Nat
  PROVE  InWindow(a, w) = Given(a, w)
<1> DEFINE m == Len(a)
<1>1. m \in Nat /\ DOMAIN a = 1 .. m /\ \A k \in 1 .. m : a[k] \in Nat
  BY QueueOf
<1>2. \A i, j \in 1 .. m : i <= j => a[i] >= a[j]
  BY <1>1 DEF InOrder
<1> HIDE DEF m
<1>3. ASSUME NEW k \in 1 .. m PROVE (\A i \in k .. m : a[i] < w) <=> a[k] < w
  <2>1. ASSUME a[k] < w, NEW i \in k .. m PROVE a[i] < w
    <3>1. i \in 1 .. m /\ k <= i
      BY <1>1
    <3>2. a[k] >= a[i] /\ a[k] \in Nat /\ a[i] \in Nat
      BY <1>1, <1>2, <3>1
    <3> QED
      BY <2>1, <3>2
  <2>2. k \in k .. m
    BY <1>1
  <2> QED
    BY <2>1, <2>2
<1>4. {k \in DOMAIN a : \A i \in k .. m : a[i] < w} = {k \in DOMAIN a : a[k] < w}
  BY <1>1, <1>3
<1> QED
  BY <1>4 DEF InWindow, Given, m

LEMMA RecentInOrder ==
  ASSUME NEW a \in Seq(Nat), InOrder(a), NEW v \in Nat
  PROVE  InOrder(Recent(a, v))
<1> DEFINE r == Recent(a, v)
           m == Len(a)
<1>1. PICK n \in 0 .. m :
        /\ r \in Seq(Nat)
        /\ Len(r) = m - n
        /\ \A k \in 1 .. m - n : r[k] = a[k + n]
        /\ \A k \in 1 .. n : a[k] >= v
  BY RecentDrops
<1>2. m \in Nat /\ DOMAIN a = 1 .. m
  BY QueueOf
<1>3. \A i, j \in 1 .. m : i <= j => a[i] >= a[j]
  BY <1>2 DEF InOrder
<1> HIDE DEF r, m
<1>4. DOMAIN r = 1 .. m - n
  BY <1>1, QueueOf
<1>5. ASSUME NEW i \in 1 .. m - n, NEW j \in 1 .. m - n, i <= j PROVE r[i] >= r[j]
  <2>1. i + n \in 1 .. m /\ j + n \in 1 .. m /\ i + n <= j + n
    BY <1>2, <1>5
  <2>2. a[i + n] >= a[j + n]
    BY <1>3, <2>1
  <2> QED
    BY <1>1, <2>2
<1>6. InOrder(r)
  BY <1>4, <1>5 DEF InOrder
<1> QED
  BY <1>6 DEF r

LEMMA AppendInOrder ==
  ASSUME NEW a \in Seq(Nat), InOrder(a)
  PROVE  InOrder(Append(a, 0))
<1> DEFINE p == Append(a, 0)
           m == Len(a)
<1>1. /\ p \in Seq(Nat) /\ Len(p) = m + 1
      /\ \A k \in 1 .. m : p[k] = a[k]
      /\ p[m + 1] = 0
  BY AppendProperties
<1>2. m \in Nat /\ DOMAIN a = 1 .. m
  BY QueueOf
<1>3. \A i, j \in 1 .. m : i <= j => a[i] >= a[j]
  BY <1>2 DEF InOrder
<1> HIDE DEF p, m
<1>4. DOMAIN p = 1 .. m + 1 /\ \A k \in 1 .. m + 1 : p[k] \in Nat
  BY <1>1, QueueOf
<1>5. ASSUME NEW i \in 1 .. m + 1, NEW j \in 1 .. m + 1, i <= j PROVE p[i] >= p[j]
  <2>1. CASE j = m + 1
    BY <1>1, <1>4, <2>1
  <2>2. CASE j # m + 1
    <3>1. i \in 1 .. m /\ j \in 1 .. m
      BY <1>2, <1>5, <2>2
    <3> QED
      BY <1>1, <1>3, <1>5, <3>1
  <2> QED
    BY <2>1, <2>2
<1>6. InOrder(p)
  BY <1>4, <1>5 DEF InOrder
<1> QED
  BY <1>6 DEF p

LEMMA AgedInOrder ==
  ASSUME NEW a \in Seq(Age), InOrder(a)
  PROVE  InOrder(Aged(a, Horizon))
<1> DEFINE g == Aged(a, Horizon)
           m == Len(a)
<1>1. m \in Nat /\ DOMAIN a = 1 .. m /\ \A k \in 1 .. m : a[k] \in Nat
  BY AgesAreNumbers, QueueOf
<1>2. /\ g \in Seq(Age) /\ Len(g) = m
      /\ \A k \in 1 .. m : g[k] = IF a[k] + 1 <= Horizon THEN a[k] + 1 ELSE Horizon
  BY AgedQueue
<1>3. \A i, j \in 1 .. m : i <= j => a[i] >= a[j]
  BY <1>1 DEF InOrder
<1> HIDE DEF g, m
<1>4. DOMAIN g = 1 .. m /\ Horizon \in Nat
  BY <1>2, LenProperties, HorizonBounds
<1>5. ASSUME NEW i \in 1 .. m, NEW j \in 1 .. m, i <= j PROVE g[i] >= g[j]
  <2>1. a[i] >= a[j] /\ a[i] \in Nat /\ a[j] \in Nat
    BY <1>1, <1>3, <1>5
  <2> QED
    BY <1>2, <1>4, <2>1
<1>6. InOrder(g)
  BY <1>4, <1>5 DEF InOrder
<1> QED
  BY <1>6 DEF g

-----------------------------------------------------------------------------
(* One limiter *)

\* What the steps below need of a limiter and its slots.
LEMMA LayerFacts ==
  ASSUME NEW l, NEW g, LayerInv(l, g)
  PROVE  /\ l.specs \in Windows /\ l.specs \in Seq(WindowSpec)
         /\ MaxWindow(l.specs) \in Nat /\ MaxWindow(l.specs) <= Horizon
         /\ \A k \in DOMAIN l.specs : /\ l.specs[k].window \in Nat \ {0}
                                      /\ l.specs[k].window <= MaxWindow(l.specs)
                                      /\ l.specs[k].limit \in Nat \ {0}
         /\ l.sent \in Seq(Age) /\ l.sent \in Seq(Nat)
         /\ g \in Seq(Age) /\ g \in Seq(Nat)
         /\ l.cool \in 0 .. RetryAfter
<1>1. l.specs \in Windows /\ l.sent \in Seq(Age) /\ g \in Seq(Age) /\ l.cool \in 0 .. RetryAfter
  BY DEF LayerInv, LimiterTyped
<1>2. l.specs \in Seq(WindowSpec)
  BY <1>1, SpecsTyped
<1>3. MaxWindow(l.specs) \in Nat /\ MaxWindow(l.specs) <= Horizon
  BY <1>1, HorizonBounds
<1>4. l.sent \in Seq(Nat) /\ g \in Seq(Nat)
  BY <1>1, AgesAreNumbers
<1> DEFINE s == l.specs
<1>5. s \in Seq(WindowSpec)
  BY <1>2
<1> HIDE DEF s
<1>6. \A k \in DOMAIN s : s[k].window <= MaxWindow(s)
  BY <1>5, MaxWindowBounds
<1>7. \A k \in DOMAIN s : s[k].window \in Nat \ {0} /\ s[k].limit \in Nat \ {0}
  <2>1. \A k \in DOMAIN s : s[k] \in WindowSpec
    BY <1>5, LenProperties, ElementOfSeq
  <2> QED
    BY <2>1 DEF WindowSpec
<1> QED
  BY <1>1, <1>2, <1>3, <1>4, <1>6, <1>7 DEF s

LEMMA AcquireKeepsLayer ==
  ASSUME NEW l, NEW g, LayerInv(l, g), MayAcquire(l), NEW gap
  PROVE  LayerInv(Acquired(l, gap), Append(Recent(g, Horizon), 0))
<1> DEFINE v == MaxWindow(l.specs)
           p == Recent(l.sent, v)
           q == Recent(g, Horizon)
           n == Acquired(l, gap)
           h == Append(q, 0)
<1>1. /\ DOMAIN n = DOMAIN l /\ n.specs = l.specs /\ n.cool = l.cool
      /\ n.sent = Append(p, 0)
      /\ \A k \in DOMAIN l.specs : InWindow(p, l.specs[k].window) < l.specs[k].limit
  <2>1. DOMAIN l = {"specs", "sent", "cool", "slot", "pace"}
    BY DEF LayerInv, LimiterTyped
  <2>2. Pruned(l).sent = p
    BY <2>1 DEF Pruned
  <2>3. \A k \in DOMAIN l.specs : InWindow(p, l.specs[k].window) < l.specs[k].limit
    BY <2>2 DEF MayAcquire
  <2> QED
    BY <2>1, <2>3 DEF Acquired, Pruned
<1>2. /\ v \in Nat /\ v <= Horizon /\ Horizon \in Nat
      /\ l.sent \in Seq(Age) /\ l.sent \in Seq(Nat) /\ InOrder(l.sent)
      /\ g \in Seq(Age) /\ g \in Seq(Nat)
  BY LayerFacts, HorizonBounds DEF LayerInv
<1>3. \A k \in DOMAIN l.specs : /\ l.specs[k].window \in Nat \ {0} /\ l.specs[k].window <= v
                                /\ l.specs[k].limit \in Nat \ {0}
  BY LayerFacts
<1>4. \A w \in 0 .. v : Given(g, w) <= Given(l.sent, w)
  BY DEF LayerInv, Remembered
<1> DEFINE sent == l.sent
<1>5. Age \in SUBSET Nat /\ 0 \in Age
  BY <1>2 DEF Age
<1>6. p \in Seq(Age) /\ p \in Seq(Nat) /\ q \in Seq(Age) /\ q \in Seq(Nat)
  BY <1>2, <1>5, RecentTyped, AgesAreNumbers
<1>7. InOrder(p)
  BY <1>2, RecentInOrder
<1>8. \A w \in 0 .. v : Given(q, w) <= Given(g, w) /\ Given(sent, w) <= Given(p, w)
  <2>1. sent \in Seq(Nat)
    BY <1>2
  <2> HIDE DEF v, sent
  <2> TAKE w \in 0 .. v
  <2>2. w \in Nat /\ w <= v
    BY <1>2
  <2>3. Given(q, w) <= Given(g, w)
    BY <1>2, <2>2, RecentGiven
  <2>4. Given(sent, w) <= Given(Recent(sent, v), w)
    BY <1>2, <2>1, <2>2, RecentGiven
  <2> QED
    BY <2>3, <2>4 DEF sent
<1>9. \A w \in 0 .. v : Given(q, w) \in Nat /\ Given(g, w) \in Nat /\ Given(p, w) \in Nat /\ Given(sent, w) \in Nat
  <2>1. sent \in Seq(Nat)
    BY <1>2
  <2> HIDE DEF v, p, q, sent
  <2> TAKE w \in 0 .. v
  <2>2. w \in Nat
    BY <1>2
  <2> QED
    BY <1>2, <1>6, <2>1, <2>2, GivenIsNumber
<1>10. \A w \in 0 .. v : Given(h, w) = (IF w = 0 THEN 0 ELSE Given(q, w) + 1)
  <2> HIDE DEF v, q
  <2> QED
    BY <1>2, <1>6, AppendGiven
<1>11. \A w \in 0 .. v : Given(Append(p, 0), w) = (IF w = 0 THEN 0 ELSE Given(p, w) + 1)
  <2> HIDE DEF v, p
  <2> QED
    BY <1>2, <1>6, AppendGiven
<1>12. \A w \in 0 .. v : InWindow(p, w) = Given(p, w)
  BY <1>2, <1>6, <1>7, CountedBack
<1>13. h \in Seq(Age) /\ Append(p, 0) \in Seq(Age)
  BY <1>5, <1>6, AppendProperties
<1>14. InOrder(Append(p, 0))
  BY <1>6, <1>7, AppendInOrder
<1>15. LimiterTyped(n)
  BY <1>1, <1>13 DEF LayerInv, LimiterTyped
<1> HIDE DEF v, p, q, n, h, sent
<1>16. \A w \in 0 .. v : Given(q, w) <= Given(p, w)
  <2> TAKE w \in 0 .. v
  <2>1. Given(g, w) <= Given(sent, w)
    BY <1>4 DEF sent
  <2> QED
    BY <1>8, <1>9, <2>1
<1>17. \A w \in 0 .. v : Given(h, w) <= Given(Append(p, 0), w)
  BY <1>9, <1>10, <1>11, <1>16
<1>18. Remembered(n, h)
  BY <1>1, <1>17 DEF Remembered, v
<1>19. Budget(n, h)
  <2> SUFFICES ASSUME NEW k \in DOMAIN l.specs
               PROVE  Given(h, l.specs[k].window) <= l.specs[k].limit
    BY <1>1 DEF Budget
  <2> DEFINE w == l.specs[k].window
             b == l.specs[k].limit
  <2>1. w \in 0 .. v /\ w # 0 /\ b \in Nat /\ InWindow(p, w) < b
    BY <1>1, <1>2, <1>3
  <2> HIDE DEF w, b
  <2>2. Given(h, w) = Given(q, w) + 1 /\ Given(q, w) <= Given(p, w) /\ Given(p, w) < b
    BY <1>10, <1>12, <1>16, <2>1
  <2>3. Given(q, w) \in Nat /\ Given(p, w) \in Nat
    BY <1>9, <2>1
  <2>4. Given(h, w) <= b
    BY <2>1, <2>2, <2>3
  <2> QED
    BY <2>4 DEF w, b
<1>20. LayerInv(n, h)
  BY <1>1, <1>13, <1>14, <1>15, <1>18, <1>19 DEF LayerInv
<1> QED
  BY <1>20 DEF n, h, q

LEMMA TickKeepsLayer ==
  ASSUME NEW l, NEW g, LayerInv(l, g)
  PROVE  LayerInv(Later(l, Horizon), Recent(Aged(g, Horizon), Horizon))
<1> DEFINE v == MaxWindow(l.specs)
           sent == l.sent
           p == Aged(sent, Horizon)
           q == Aged(g, Horizon)
           n == Later(l, Horizon)
           h == Recent(q, Horizon)
<1>1. /\ DOMAIN n = DOMAIN l /\ n.specs = l.specs /\ n.sent = p
      /\ n.cool = Max({0, l.cool - 1})
      /\ DOMAIN l = {"specs", "sent", "cool", "slot", "pace"}
  BY DEF LayerInv, LimiterTyped, Later
<1>2. /\ v \in Nat /\ v <= Horizon /\ Horizon \in Nat
      /\ sent \in Seq(Age) /\ sent \in Seq(Nat) /\ InOrder(sent)
      /\ g \in Seq(Age) /\ g \in Seq(Nat)
      /\ l.specs \in Windows
      /\ l.cool \in 0 .. RetryAfter
  BY LayerFacts, HorizonBounds DEF LayerInv
<1>3. \A k \in DOMAIN l.specs : /\ l.specs[k].window \in Nat \ {0} /\ l.specs[k].window <= v
                                /\ l.specs[k].limit \in Nat \ {0}
                                /\ Given(g, l.specs[k].window) <= l.specs[k].limit
  BY LayerFacts DEF LayerInv, Budget
<1>4. \A w \in 0 .. v : Given(g, w) <= Given(sent, w)
  BY DEF LayerInv, Remembered
<1>5. n.cool \in 0 .. RetryAfter
  <2> DEFINE c == l.cool - 1
  <2>1. c \in Int /\ c < RetryAfter /\ RetryAfter \in Nat
    BY <1>2, NodeAgentAssumption
  <2> HIDE DEF c
  <2>2. Max({0, c}) = IF 0 >= c THEN 0 ELSE c
    BY <2>1, MaxOfTwo
  <2>3. n.cool = Max({0, c})
    BY <1>1 DEF c
  <2> HIDE DEF n
  <2> QED
    BY <2>1, <2>2, <2>3
<1> HIDE DEF v, sent
<1>6. p \in Seq(Age) /\ q \in Seq(Age)
  BY <1>2, AgedQueue
<1>7. InOrder(p)
  BY <1>2, AgedInOrder
<1>8. \A w \in 1 .. v : Given(p, w) = Given(sent, w - 1) /\ Given(q, w) = Given(g, w - 1)
  <2> TAKE w \in 1 .. v
  <2>1. w \in 1 .. Horizon
    BY <1>2
  <2> QED
    BY <1>2, <2>1, AgedGiven
<1> HIDE DEF p, q
<1>9. Age \in SUBSET Nat /\ p \in Seq(Nat) /\ q \in Seq(Nat)
  BY <1>2, <1>6, AgesAreNumbers DEF Age
<1>10. h \in Seq(Age)
  BY <1>2, <1>6, <1>9, RecentTyped
<1>11. h \in Seq(Nat)
  BY <1>10, AgesAreNumbers
<1>12. ASSUME NEW w \in 0 .. v
       PROVE  /\ Given(h, w) <= Given(q, w)
              /\ Given(h, w) \in Nat /\ Given(q, w) \in Nat /\ Given(p, w) \in Nat /\ Given(g, w) \in Nat
  <2>1. w \in Nat
    BY <1>2
  <2>2. Given(h, w) <= Given(q, w)
    BY <1>2, <1>9, <2>1, RecentGiven
  <2> HIDE DEF h
  <2> QED
    BY <1>2, <1>9, <1>11, <2>1, <2>2, GivenIsNumber
<1>13. LimiterTyped(n)
  BY <1>1, <1>2, <1>5, <1>6 DEF LimiterTyped
<1>14. Given(h, 0) = 0
  BY <1>11, NoneGiven
<1> HIDE DEF n, h
<1>15. ASSUME NEW w \in 0 .. v PROVE Given(h, w) <= Given(p, w)
  <2>1. CASE w = 0
    BY <1>12, <1>14, <2>1
  <2>2. CASE w # 0
    <3> DEFINE u == w - 1
    <3>1. w \in 1 .. v /\ u \in 0 .. v
      BY <1>2, <2>2
    <3>2. Given(p, w) = Given(sent, u) /\ Given(q, w) = Given(g, u)
      BY <1>8, <3>1
    <3> HIDE DEF u
    <3>3. Given(g, u) <= Given(sent, u)
      BY <1>4, <3>1
    <3>4. Given(h, w) <= Given(q, w) /\ Given(h, w) \in Nat /\ Given(q, w) \in Nat /\ Given(p, w) \in Nat
      BY <1>12
    <3> QED
      BY <3>2, <3>3, <3>4
  <2> QED
    BY <2>1, <2>2
<1>16. Remembered(n, h)
  BY <1>1, <1>15 DEF Remembered, v
<1>17. Budget(n, h)
  <2> SUFFICES ASSUME NEW k \in DOMAIN l.specs
               PROVE  Given(h, l.specs[k].window) <= l.specs[k].limit
    BY <1>1 DEF Budget
  <2> DEFINE w == l.specs[k].window
             b == l.specs[k].limit
             u == w - 1
  <2>1. w \in 1 .. v /\ w \in 0 .. v /\ b \in Nat /\ Given(g, w) <= b
    BY <1>2, <1>3
  <2> HIDE DEF w, b
  <2>2. u \in Nat /\ u \in 0 .. v /\ u < w /\ w \in Nat
    BY <1>2, <2>1
  <2>3. Given(q, w) = Given(g, u)
    BY <1>8, <2>1
  <2> HIDE DEF u
  <2>4. Given(g, u) <= Given(g, w)
    <3>1. \A k_1 \in DOMAIN g : g[k_1] \in Nat /\ k_1 + 0 = k_1
      BY <1>2, QueueOf
    <3>2. \A k_1 \in DOMAIN g : g[k_1] < u => k_1 + 0 \in DOMAIN g /\ g[k_1 + 0] < w
      BY <2>2, <3>1
    <3>3. 0 \in Int
      OBVIOUS
    <3> QED
      BY <1>2, <2>2, <3>2, <3>3, GivenShift
  <2>5. Given(h, w) <= Given(q, w) /\ Given(h, w) \in Nat /\ Given(q, w) \in Nat /\ Given(g, w) \in Nat
    BY <1>12, <2>1
  <2>6. Given(h, w) <= b
    BY <2>1, <2>3, <2>4, <2>5
  <2> QED
    BY <2>6 DEF w, b
<1>18. LayerInv(n, h)
  <2>1. n.sent = p /\ InOrder(p)
    BY <1>1, <1>7
  <2> QED
    BY <2>1, <1>10, <1>13, <1>16, <1>17 DEF LayerInv
<1> QED
  BY <1>18 DEF n, h, q

LEMMA UpdateKeepsLayer ==
  ASSUME NEW l, NEW g, LayerInv(l, g), NEW specs \in Windows \cup {<<>>}
  PROVE  LayerInv(UpdateSpecs(l, specs), IF UpdateSpecs(l, specs).specs = l.specs THEN g ELSE <<>>)
<1> DEFINE n == UpdateSpecs(l, specs)
           none == <<>>
<1>1. DOMAIN l = {"specs", "sent", "cool", "slot", "pace"}
  BY DEF LayerInv, LimiterTyped
<1>2. CASE n.specs = l.specs
  <2>1. DOMAIN n = DOMAIN l /\ n.specs = l.specs /\ n.sent = l.sent /\ n.cool = l.cool
    BY <1>1, <1>2 DEF UpdateSpecs
  <2> HIDE DEF n
  <2>2. LayerInv(n, g)
    BY <2>1 DEF LayerInv, LimiterTyped, Remembered, Budget
  <2> QED
    BY <1>2, <2>2 DEF n
<1>3. CASE n.specs # l.specs
  <2>1. specs # <<>> /\ specs \in Windows
    BY <1>3 DEF UpdateSpecs
  <2>2. DOMAIN n = DOMAIN l /\ n.specs = specs /\ n.sent = l.sent /\ n.cool = l.cool
    BY <1>1, <2>1 DEF UpdateSpecs
  <2> HIDE DEF n
  <2>3. LimiterTyped(n) /\ InOrder(n.sent) /\ n.sent \in Seq(Nat)
    BY <2>1, <2>2, LayerFacts DEF LayerInv, LimiterTyped
  <2>4. none \in Seq(Age) /\ none \in Seq(Nat) /\ DOMAIN none = {}
    BY EmptySeq
  <2> HIDE DEF none
  <2>5. \A w : Given(none, w) = 0
    <3> TAKE w
    <3>1. {k \in DOMAIN none : none[k] < w} = {}
      BY <2>4
    <3> QED
      BY <3>1, FS_EmptySet DEF Given
  <2>6. specs \in Seq(WindowSpec) /\ MaxWindow(specs) \in Nat
    BY <2>1, SpecsTyped, MaxWindowBounds
  <2>7. Remembered(n, none)
    <3>1. ASSUME NEW w \in 0 .. MaxWindow(specs) PROVE Given(n.sent, w) \in Nat
      <4> DEFINE a == n.sent
      <4>1. a \in Seq(Nat) /\ w \in Nat
        BY <2>3, <2>6
      <4> HIDE DEF a
      <4>2. Given(a, w) \in Nat
        BY <4>1, GivenIsNumber
      <4> QED
        BY <4>2 DEF a
    <3>2. \A w \in 0 .. MaxWindow(specs) : Given(none, w) <= Given(n.sent, w)
      BY <2>5, <3>1
    <3> QED
      BY <2>2, <3>2 DEF Remembered
  <2>8. Budget(n, none)
    <3>1. \A k \in DOMAIN specs : specs[k].limit \in Nat
      <4>1. \A k \in DOMAIN specs : specs[k] \in WindowSpec
        BY <2>6, LenProperties, ElementOfSeq
      <4> QED
        BY <4>1 DEF WindowSpec
    <3> QED
      BY <2>2, <2>5, <3>1 DEF Budget
  <2>9. LayerInv(n, none)
    BY <2>3, <2>4, <2>7, <2>8 DEF LayerInv
  <2> QED
    BY <1>3, <2>9 DEF n, none
<1> QED
  BY <1>2, <1>3

LEMMA CooldownKeepsLayer ==
  ASSUME NEW l, NEW g, LayerInv(l, g)
  PROVE  LayerInv(Cooldown(l, RetryAfter), g) /\ Cooldown(l, RetryAfter).specs = l.specs
<1> DEFINE n == Cooldown(l, RetryAfter)
<1>1. DOMAIN l = {"specs", "sent", "cool", "slot", "pace"} /\ l.cool \in 0 .. RetryAfter
  BY DEF LayerInv, LimiterTyped
<1>2. DOMAIN n = DOMAIN l /\ n.specs = l.specs /\ n.sent = l.sent /\ n.cool = Max({l.cool, RetryAfter})
  BY <1>1 DEF Cooldown
<1>3. Max({l.cool, RetryAfter}) \in 0 .. RetryAfter
  <2> DEFINE c == l.cool
  <2>1. c \in Int /\ RetryAfter \in Nat /\ c \in 0 .. RetryAfter
    BY <1>1, NodeAgentAssumption
  <2> HIDE DEF c
  <2>2. Max({c, RetryAfter}) = IF c >= RetryAfter THEN c ELSE RetryAfter
    BY <2>1, MaxOfTwo
  <2>3. Max({c, RetryAfter}) \in 0 .. RetryAfter
    BY <2>1, <2>2
  <2> QED
    BY <2>3 DEF c
<1> HIDE DEF n
<1>4. LayerInv(n, g)
  BY <1>2, <1>3 DEF LayerInv, LimiterTyped, Remembered, Budget
<1> QED
  BY <1>2, <1>4 DEF n

-----------------------------------------------------------------------------
(* Steps *)

LEMMA TaskTyped ==
  ASSUME NEW at \in {"new", "method", "app", "sent", "done"}, NEW n \in 0 .. MAX_TRIES
  PROVE  Task(at, n) \in TaskRecord
BY NodeAgentAssumption DEF Task, TaskRecord

LEMMA DoneTyped == Done \in TaskRecord
<1>1. 0 \in 0 .. MAX_TRIES
  BY NodeAgentAssumption
<1> QED
  BY <1>1, TaskTyped DEF Done

\* Where only the task of j changes, tasks stay typed.
LEMMA OneTask ==
  ASSUME TasksTyped, NEW j \in Job, NEW t \in TaskRecord, job' = [job EXCEPT ![j] = t],
         loop' = loop, api_key' = api_key, key_bad' \in BOOLEAN, file' = file
  PROVE  TasksTyped'
<1>1. job' \in [Job -> TaskRecord]
  BY DEF TasksTyped
<1> QED
  BY <1>1 DEF TasksTyped

LEMMA SameLimits ==
  ASSUME LimitsInv, UNCHANGED limits
  PROVE  LimitsInv'
BY DEF LimitsInv, limits

LEMMA AcquireKeepsLimits ==
  ASSUME LimitsInv, NEW l \in Layer, NEW gap, Acquire(l, gap)
  PROVE  LimitsInv'
<1>1. /\ DOMAIN limiter = Layer /\ DOMAIN grants = Layer
      /\ \A k \in Layer : LayerInv(limiter[k], grants[k])
  BY DEF LimitsInv
<1>2. /\ limiter' = [limiter EXCEPT ![l] = Acquired(limiter[l], gap)]
      /\ grants' = [grants EXCEPT ![l] = Append(Recent(grants[l], Horizon), 0)]
      /\ MayAcquire(limiter[l])
  BY DEF Acquire
<1> DEFINE n == Acquired(limiter[l], gap)
           h == Append(Recent(grants[l], Horizon), 0)
<1>3. LayerInv(n, h)
  BY <1>1, <1>2, AcquireKeepsLayer
<1>4. limiter' = [limiter EXCEPT ![l] = n] /\ grants' = [grants EXCEPT ![l] = h]
  BY <1>2
<1> HIDE DEF n, h
<1>5. /\ DOMAIN limiter' = Layer /\ DOMAIN grants' = Layer
      /\ limiter'[l] = n /\ grants'[l] = h
      /\ \A k \in Layer \ {l} : limiter'[k] = limiter[k] /\ grants'[k] = grants[k]
  BY <1>1, <1>4
<1>6. \A k \in Layer : LayerInv(limiter'[k], grants'[k])
  <2> TAKE k \in Layer
  <2>1. CASE k = l
    BY <1>3, <1>5, <2>1
  <2>2. CASE k # l
    <3>1. limiter'[k] = limiter[k] /\ grants'[k] = grants[k]
      BY <1>5, <2>2
    <3> QED
      BY <1>1, <3>1
  <2> QED
    BY <2>1, <2>2
<1> QED
  BY <1>5, <1>6 DEF LimitsInv

LEMMA TickKeepsLimits ==
  ASSUME LimitsInv, Tick
  PROVE  LimitsInv'
<1>1. \A k \in Layer : LayerInv(limiter[k], grants[k])
  BY DEF LimitsInv
<1>2. /\ DOMAIN limiter' = Layer /\ DOMAIN grants' = Layer
      /\ \A k \in Layer : /\ limiter'[k] = Later(limiter[k], Horizon)
                          /\ grants'[k] = Recent(Aged(grants[k], Horizon), Horizon)
  BY DEF Tick
<1>3. \A k \in Layer : LayerInv(limiter'[k], grants'[k])
  <2> TAKE k \in Layer
  <2>1. LayerInv(Later(limiter[k], Horizon), Recent(Aged(grants[k], Horizon), Horizon))
    BY <1>1, TickKeepsLayer
  <2> QED
    BY <1>2, <2>1
<1> QED
  BY <1>2, <1>3 DEF LimitsInv

\* Limits that an answer's headers declare, for both layers.
LEMMA AdoptKeepsLayers ==
  ASSUME LimitsInv, NEW specs \in Declared, NEW k \in Layer
  PROVE  LayerInv(Adopted(specs)[k], GrantsUnder(Adopted(specs))[k])
<1>1. LayerInv(limiter[k], grants[k])
  BY DEF LimitsInv
<1>2. specs[k] \in Windows \cup {<<>>}
  BY DEF Declared
<1>3. Adopted(specs)[k] = UpdateSpecs(limiter[k], specs[k])
  BY DEF Adopted
<1>4. GrantsUnder(Adopted(specs))[k] =
        IF UpdateSpecs(limiter[k], specs[k]).specs = limiter[k].specs THEN grants[k] ELSE <<>>
  BY <1>3 DEF GrantsUnder
<1> DEFINE l == limiter[k]
           g == grants[k]
           s == specs[k]
<1>5. LayerInv(l, g) /\ s \in Windows \cup {<<>>}
  BY <1>1, <1>2
<1> HIDE DEF l, g, s
<1>6. LayerInv(UpdateSpecs(l, s), IF UpdateSpecs(l, s).specs = l.specs THEN g ELSE <<>>)
  BY <1>5, UpdateKeepsLayer
<1> QED
  BY <1>3, <1>4, <1>6 DEF l, g, s

LEMMA AdoptKeepsLimits ==
  ASSUME LimitsInv, NEW specs \in Declared,
         limiter' = Adopted(specs), grants' = GrantsUnder(Adopted(specs))
  PROVE  LimitsInv'
<1>1. \A k \in Layer : LayerInv(Adopted(specs)[k], GrantsUnder(Adopted(specs))[k])
  BY AdoptKeepsLayers
<1>2. DOMAIN Adopted(specs) = Layer /\ DOMAIN GrantsUnder(Adopted(specs)) = Layer
  BY DEF Adopted, GrantsUnder
<1> QED
  BY <1>1, <1>2 DEF LimitsInv

LEMMA ThrottleKeepsLimits ==
  ASSUME LimitsInv, NEW specs \in Declared, NEW l \in Layer,
         limiter' = [Adopted(specs) EXCEPT ![l] = Cooldown(@, RetryAfter)],
         grants' = GrantsUnder(Adopted(specs))
  PROVE  LimitsInv'
<1> DEFINE a == Adopted(specs)
           h == GrantsUnder(Adopted(specs))
<1>1. \A k \in Layer : LayerInv(a[k], h[k])
  BY AdoptKeepsLayers
<1>2. DOMAIN a = Layer /\ DOMAIN h = Layer
  BY DEF Adopted, GrantsUnder
<1>3. limiter' = [a EXCEPT ![l] = Cooldown(a[l], RetryAfter)] /\ grants' = h
  OBVIOUS
<1> HIDE DEF a, h
<1>4. LayerInv(Cooldown(a[l], RetryAfter), h[l])
  BY <1>1, CooldownKeepsLayer
<1>5. \A k \in Layer : limiter'[k] = IF k = l THEN Cooldown(a[l], RetryAfter) ELSE a[k]
  BY <1>2, <1>3
<1>6. DOMAIN limiter' = Layer /\ DOMAIN grants' = Layer
  BY <1>2, <1>3
<1>7. \A k \in Layer : LayerInv(limiter'[k], grants'[k])
  <2> TAKE k \in Layer
  <2>1. CASE k = l
    BY <1>3, <1>4, <1>5, <2>1
  <2>2. CASE k # l
    BY <1>1, <1>3, <1>5, <2>2
  <2> QED
    BY <2>1, <2>2
<1> QED
  BY <1>6, <1>7 DEF LimitsInv

LEMMA TriesBounded ==
  ASSUME TasksTyped, NEW j \in Job
  PROVE  /\ job[j] \in TaskRecord
         /\ job[j].attempts \in 0 .. MAX_TRIES
         /\ DOMAIN job = Job
         /\ api_key \in Key /\ key_bad \in BOOLEAN
BY DEF TasksTyped, TaskRecord

LEMMA TaskStepKeepsInv ==
  ASSUME NodeInv, NEW j \in Job, TaskStep(j)
  PROVE  NodeInv'
<1>1. TasksTyped /\ LimitsInv
  BY DEF NodeInv
<1>2. /\ job[j] \in TaskRecord
      /\ job[j].attempts \in 0 .. MAX_TRIES
      /\ DOMAIN job = Job
      /\ api_key \in Key /\ key_bad \in BOOLEAN
  BY <1>1, TriesBounded
<1>3. CASE AcquireMethod(j)
  <2>1. PICK gap \in Gaps(limiter["method"]) : Acquire("method", gap)
    BY <1>3 DEF AcquireMethod
  <2>2. LimitsInv'
    BY <1>1, <2>1, AcquireKeepsLimits DEF Layer
  <2> DEFINE t == [job[j] EXCEPT !.at = "app"]
  <2>3. t \in TaskRecord
    BY <1>2 DEF TaskRecord
  <2>4. job' = [job EXCEPT ![j] = t] /\ UNCHANGED <<loop, api_key, key_bad, file>>
    BY <1>3 DEF AcquireMethod, keys
  <2> HIDE DEF t
  <2>5. TasksTyped'
    BY <1>1, <1>2, <2>3, <2>4, OneTask
  <2> QED
    BY <2>2, <2>5 DEF NodeInv
<1>4. CASE AcquireAppAndSend(j)
  <2>1. PICK gap \in Gaps(limiter["app"]) : Acquire("app", gap)
    BY <1>4 DEF AcquireAppAndSend
  <2>2. LimitsInv'
    BY <1>1, <2>1, AcquireKeepsLimits DEF Layer
  <2> DEFINE t == [job[j] EXCEPT !.at = "sent", !.key = api_key]
  <2>3. t \in TaskRecord
    BY <1>2 DEF TaskRecord
  <2>4. job' = [job EXCEPT ![j] = t] /\ UNCHANGED <<loop, api_key, key_bad, file>>
    <3>1. job' = [job EXCEPT ![j].at = "sent", ![j].key = api_key]
      BY <1>4 DEF AcquireAppAndSend
    <3>2. job' = [job EXCEPT ![j] = t]
      BY <1>2, <3>1
    <3> QED
      BY <1>4, <3>2 DEF AcquireAppAndSend, keys
  <2> HIDE DEF t
  <2>5. TasksTyped'
    BY <1>1, <1>2, <2>3, <2>4, OneTask
  <2> QED
    BY <2>2, <2>5 DEF NodeInv
<1>5. ASSUME NEW specs \in Declared, AnswerEnds(j, specs) PROVE NodeInv'
  <2>1. LimitsInv'
    BY <1>1, <1>5, AdoptKeepsLimits DEF AnswerEnds
  <2>2. job' = [job EXCEPT ![j] = Done] /\ UNCHANGED <<loop, api_key, key_bad, file>>
    BY <1>5 DEF AnswerEnds, keys
  <2>3. TasksTyped'
    BY <1>1, <1>2, <2>2, DoneTyped, OneTask
  <2> QED
    BY <2>1, <2>3 DEF NodeInv
<1>6. ASSUME NEW specs \in Declared, NEW l \in Layer, AnswerThrottled(j, specs, l) PROVE NodeInv'
  <2>1. LimitsInv'
    BY <1>1, <1>6, ThrottleKeepsLimits DEF AnswerThrottled
  <2> DEFINE t == Task("method", job[j].attempts)
  <2>2. t \in TaskRecord
    BY <1>2, TaskTyped
  <2>3. job' = [job EXCEPT ![j] = t] /\ UNCHANGED <<loop, api_key, key_bad, file>>
    BY <1>6 DEF AnswerThrottled, keys
  <2> HIDE DEF t
  <2>4. TasksTyped'
    BY <1>1, <1>2, <2>2, <2>3, OneTask
  <2> QED
    BY <2>1, <2>4 DEF NodeInv
<1>7. ASSUME NEW specs \in Declared, AnswerKeyRejected(j, specs) PROVE NodeInv'
  <2>1. LimitsInv'
    BY <1>1, <1>7, AdoptKeepsLimits DEF AnswerKeyRejected
  <2>2. job' = [job EXCEPT ![j] = Done] /\ UNCHANGED <<loop, api_key, file>>
    BY <1>7 DEF AnswerKeyRejected
  <2>3. key_bad' \in BOOLEAN
    BY <1>7 DEF AnswerKeyRejected
  <2>4. TasksTyped'
    BY <1>1, <2>2, <2>3, DoneTyped, OneTask
  <2> QED
    BY <2>1, <2>4 DEF NodeInv
<1>8. ASSUME NEW specs \in Declared, AnswerFailed(j, specs) PROVE NodeInv'
  <2>1. LimitsInv'
    BY <1>1, <1>8, AdoptKeepsLimits DEF AnswerFailed
  <2> DEFINE t == IF job[j].attempts >= MAX_TRIES THEN Done ELSE Task("method", job[j].attempts + 1)
  <2>2. t \in TaskRecord
    <3>1. CASE job[j].attempts >= MAX_TRIES
      BY <3>1, DoneTyped
    <3>2. CASE ~(job[j].attempts >= MAX_TRIES)
      <4> DEFINE n == job[j].attempts + 1
      <4>1. n \in 0 .. MAX_TRIES
        BY <1>2, <3>2, NodeAgentAssumption
      <4> HIDE DEF n
      <4>2. Task("method", n) \in TaskRecord
        BY <4>1, TaskTyped
      <4> QED
        BY <3>2, <4>2 DEF n
    <3> QED
      BY <3>1, <3>2
  <2>3. job' = [job EXCEPT ![j] = t] /\ UNCHANGED <<loop, api_key, key_bad, file>>
    BY <1>8 DEF AnswerFailed, keys
  <2> HIDE DEF t
  <2>4. TasksTyped'
    BY <1>1, <1>2, <2>2, <2>3, OneTask
  <2> QED
    BY <2>1, <2>4 DEF NodeInv
<1> QED
  BY <1>3, <1>4, <1>5, <1>6, <1>7, <1>8 DEF TaskStep, Answer

LEMMA NodeInitInv ==
  ASSUME NodeInit
  PROVE  NodeInv
<1> DEFINE none == <<>>
           l0(pace) == [specs |-> DefaultSpecs, sent |-> none, cool |-> 0, slot |-> 0, pace |-> pace]
<1>1. TasksTyped
  <2>1. 0 \in 0 .. MAX_TRIES
    BY NodeAgentAssumption
  <2>2. Task("new", 0) \in TaskRecord
    BY <2>1, TaskTyped
  <2> QED
    BY <2>2, NodeAgentAssumption DEF NodeInit, TasksTyped
<1>2. /\ DOMAIN limiter = Layer /\ DOMAIN grants = Layer
      /\ \A l \in Layer : limiter[l] = l0(l = "app") /\ grants[l] = none
  BY DEF NodeInit, NewLimiter
<1>3. none \in Seq(Age) /\ none \in Seq(Nat) /\ DOMAIN none = {}
  BY EmptySeq
<1>4. DefaultSpecs \in Windows
  BY DEF Windows
<1>5. DefaultSpecs \in Seq(WindowSpec)
  BY <1>4, SpecsTyped
<1> HIDE DEF none
<1>6. \A w : Given(none, w) = 0
  <2> TAKE w
  <2>1. {k \in DOMAIN none : none[k] < w} = {}
    BY <1>3
  <2> QED
    BY <2>1, FS_EmptySet DEF Given
<1>7. \A k \in DOMAIN DefaultSpecs : DefaultSpecs[k].limit \in Nat
  <2>1. \A k \in DOMAIN DefaultSpecs : DefaultSpecs[k] \in WindowSpec
    BY <1>5, LenProperties, ElementOfSeq
  <2> QED
    BY <2>1 DEF WindowSpec
<1>8. ASSUME NEW l \in Layer PROVE LayerInv(limiter[l], grants[l])
  <2> DEFINE r == limiter[l]
  <2>1. r = l0(l = "app") /\ grants[l] = none
    BY <1>2
  <2>2. /\ DOMAIN r = {"specs", "sent", "cool", "slot", "pace"}
        /\ r.specs = DefaultSpecs /\ r.sent = none /\ r.cool = 0
    BY <2>1
  <2> HIDE DEF r, l0
  <2>3. LimiterTyped(r) /\ InOrder(none)
    BY <1>3, <1>4, <2>2, NodeAgentAssumption DEF LimiterTyped, InOrder
  <2>4. Remembered(r, none)
    BY <1>6, <2>2 DEF Remembered
  <2>5. Budget(r, none)
    BY <1>6, <1>7, <2>2 DEF Budget
  <2>6. LayerInv(r, none)
    BY <1>3, <2>2, <2>3, <2>4, <2>5 DEF LayerInv
  <2> QED
    BY <2>1, <2>6 DEF r
<1>9. LimitsInv
  BY <1>2, <1>8 DEF LimitsInv
<1> QED
  BY <1>1, <1>9 DEF NodeInv

LEMMA NodeNextKeepsInv ==
  ASSUME NodeInv, [NodeNext]_nvars
  PROVE  NodeInv'
<1>1. TasksTyped /\ LimitsInv
  BY DEF NodeInv
<1>2. CASE LoopTop
  <2>1. LimitsInv'
    BY <1>1, <1>2, SameLimits DEF LoopTop
  <2>2. TasksTyped'
    BY <1>1, <1>2 DEF LoopTop, keys, TasksTyped
  <2> QED
    BY <2>1, <2>2 DEF NodeInv
<1>3. ASSUME NEW J \in SUBSET Job, PollAnswered(J) PROVE NodeInv'
  <2>1. LimitsInv'
    BY <1>1, <1>3, SameLimits DEF PollAnswered
  <2>2. 1 \in 0 .. MAX_TRIES
    BY NodeAgentAssumption
  <2>3. Task("method", 1) \in TaskRecord
    BY <2>2, TaskTyped
  <2>4. job' \in [Job -> TaskRecord]
    BY <1>1, <1>3, <2>3 DEF PollAnswered, TasksTyped
  <2>5. TasksTyped'
    BY <1>1, <1>3, <2>4 DEF PollAnswered, keys, TasksTyped
  <2> QED
    BY <2>1, <2>5 DEF NodeInv
<1>4. CASE PauseLooks
  <2>1. LimitsInv'
    BY <1>1, <1>4, SameLimits DEF PauseLooks
  <2>2. /\ job' = job /\ file' = file /\ loop' = "top"
        /\ api_key' \in {api_key, file.key} /\ key_bad' \in {key_bad, FALSE}
    BY <1>4 DEF PauseLooks, keys
  <2>3. TasksTyped'
    BY <1>1, <2>2 DEF TasksTyped
  <2> QED
    BY <2>1, <2>3 DEF NodeInv
<1>5. CASE \E j \in Job : TaskStep(j)
  BY <1>5, TaskStepKeepsInv
<1>6. CASE SaveBegins
  <2>1. LimitsInv'
    BY <1>1, <1>6, SameLimits DEF SaveBegins
  <2>2. file' = [file EXCEPT !.whole = FALSE, !.mtime = @ + 1] /\ UNCHANGED <<job, loop, keys>>
    BY <1>6 DEF SaveBegins
  <2>3. TasksTyped'
    BY <1>1, <2>2 DEF keys, TasksTyped
  <2> QED
    BY <2>1, <2>3 DEF NodeInv
<1>7. ASSUME NEW k \in Key, SaveEnds(k) PROVE NodeInv'
  <2>1. LimitsInv'
    BY <1>1, <1>7, SameLimits DEF SaveEnds
  <2>2. TasksTyped'
    BY <1>1, <1>7 DEF SaveEnds, keys, TasksTyped
  <2> QED
    BY <2>1, <2>2 DEF NodeInv
<1>8. CASE Tick
  <2>1. LimitsInv'
    BY <1>1, <1>8, TickKeepsLimits
  <2>2. TasksTyped'
    BY <1>1, <1>8 DEF Tick, keys, TasksTyped
  <2> QED
    BY <2>1, <2>2 DEF NodeInv
<1>9. CASE UNCHANGED nvars
  <2>1. LimitsInv'
    BY <1>1, <1>9, SameLimits DEF nvars
  <2>2. TasksTyped'
    BY <1>1, <1>9 DEF nvars, keys, TasksTyped
  <2> QED
    BY <2>1, <2>2 DEF NodeInv
<1> QED
  BY <1>2, <1>3, <1>4, <1>5, <1>6, <1>7, <1>8, <1>9 DEF NodeNext

-----------------------------------------------------------------------------
(* Theorems *)

\* In every state of the node: tasks and limiters are well formed, the queue of a
\* limiter (ratelimit.rs, sent) is in order, it remembers every slot that a
\* window in force reaches, and no window is over its limit.
THEOREM NodeInvariant == NodeSpec => []NodeInv
<1>1. NodeInit => NodeInv
  BY NodeInitInv
<1>2. NodeInv /\ [NodeNext]_nvars => NodeInv'
  BY NodeNextKeepsInv
<1> QED
  BY <1>1, <1>2, PTL DEF NodeSpec

\* Types, and no job is tried more than MAX_TRIES times (executor.rs, execute),
\* however errors, throttling and rejected keys alternate.
THEOREM NodeTypeCorrect == NodeSpec => []NodeTypeOK
<1>1. NodeInv => NodeTypeOK
  <2> SUFFICES ASSUME NodeInv PROVE NodeTypeOK
    OBVIOUS
  <2>1. \A l \in Layer : /\ limiter[l].specs \in Windows
                         /\ limiter[l].sent \in Seq(0 .. Horizon)
                         /\ limiter[l].cool \in 0 .. RetryAfter
    BY DEF NodeInv, LimitsInv, LayerInv, LimiterTyped, Age
  <2>2. \A j \in Job : job[j] \in TaskRecord
    BY DEF NodeInv, TasksTyped
  <2> QED
    BY <2>1, <2>2 DEF NodeInv, TasksTyped, TaskRecord, NodeTypeOK
<1> QED
  BY <1>1, NodeInvariant, PTL

\* RateLimiter::acquire never gives more slots in a window than its limit, for
\* any number and width of windows, any number of contending tasks, and any
\* change of the windows by the headers of answers.
THEOREM BudgetHolds == NodeSpec => []SlotsWithinBudget
<1>1. NodeInv => SlotsWithinBudget
  BY DEF NodeInv, LimitsInv, LayerInv, Budget, SlotsWithinBudget
<1> QED
  BY <1>1, NodeInvariant, PTL
=============================================================================
