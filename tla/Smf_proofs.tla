----------------------------- MODULE Smf_proofs -----------------------------
(***************************************************************************)
(* What Smf claims, for every number of modules, every limit and all       *)
(* loads: while nothing is under way and no module has a rise to report,   *)
(* the modules together draw no more than MAX_CURRENT or the core knows of *)
(* the emergency; and without POP the module that is turned off is the one *)
(* whose report exceeded the limit.                                        *)
(***************************************************************************)
EXTENDS Smf, FiniteSetTheorems, WellFoundedInduction, TLAPS

-----------------------------------------------------------------------------
(* Sums.  The fold that adds up over a set is a function on its subsets,   *)
(* defined by taking out one chosen element after the other.               *)

Pick(s) == CHOOSE x \in s : TRUE

\* g is that function, for the summands f.
Adds(g, S, f) == g = [s \in SUBSET S |-> IF s = {} THEN 0 ELSE f[Pick(s)] + g[s \ {Pick(s)}]]

\* v is the sum of f over S.
Total(f, S, v) == \E g : Adds(g, S, f) /\ v = g[S]

\* Induction over a set of natural numbers.
LEMMA Induct ==
  ASSUME NEW T, 0 \in T, \A n \in Nat : n \in T => n + 1 \in T
  PROVE  \A n \in Nat : n \in T
<1> SUFFICES ASSUME Nat \ T # {} PROVE FALSE
  OBVIOUS
<1> DEFINE Less == {p \in Nat \X Nat : p[1] < p[2]}
<1>1. Less = OpToRel(<, Nat)
  BY Zenon DEF OpToRel
<1>2. IsWellFoundedOn(Less, Nat)
  BY <1>1, NatLessThanWellFounded, Zenon
<1>3. PICK i \in Nat \ T : \A j \in Nat \ T : ~(<<j, i>> \in Less)
  <2>1. Nat \ T \subseteq Nat
    OBVIOUS
  <2> QED
    BY <1>2, <2>1, WFMin, Zenon
<1>4. i # 0 /\ i - 1 \in Nat /\ (i - 1) + 1 = i
  BY <1>3
<1>5. <<i - 1, i>> \in Less
  BY <1>3, <1>4
<1> HIDE DEF Less
<1>6. i - 1 \in T
  BY <1>3, <1>4, <1>5, Zenon
<1> QED
  BY <1>3, <1>4, <1>6, Zenon

\* The element taken out is one of the set.
LEMMA PickIn == ASSUME NEW s, s # {} PROVE Pick(s) \in s
BY DEF Pick

\* There is such a function for any summands.
LEMMA AddsExists ==
  ASSUME NEW S, IsFiniteSet(S), NEW f
  PROVE  \E g : Adds(g, S, f)
<1> DEFINE D(n) == {s \in SUBSET S : Cardinality(s) <= n}
           Rule(g, n) == g = [s \in D(n) |-> IF s = {} THEN 0 ELSE f[Pick(s)] + g[s \ {Pick(s)}]]
           T == {n \in Nat : \E g : Rule(g, n)}
<1>0. \A s \in SUBSET S : /\ IsFiniteSet(s) /\ Cardinality(s) \in Nat
                          /\ Cardinality(s) = 0 <=> s = {}
                          /\ s # {} => /\ s \ {Pick(s)} \in SUBSET S
                                       /\ Cardinality(s \ {Pick(s)}) = Cardinality(s) - 1
  BY FS_Subset, FS_CardinalityType, FS_EmptySet, FS_RemoveElement, PickIn
<1>1. 0 \in T
  <2>0. {} \in SUBSET S /\ Cardinality({}) = 0
    BY FS_EmptySet
  <2>1. D(0) = {{}}
    <3>1. \A s \in D(0) : s = {}
      <4> SUFFICES ASSUME NEW s \in D(0) PROVE Cardinality(s) = 0
        BY <1>0
      <4>1. Cardinality(s) \in Nat /\ Cardinality(s) <= 0
        BY <1>0
      <4> QED
        BY <4>1
    <3>2. {} \in D(0)
      BY <2>0
    <3> HIDE DEF D
    <3> QED
      BY <3>1, <3>2
  <2>2. Rule([s \in D(0) |-> 0], 0)
    BY <2>1
  <2> QED
    BY <2>2
<1>2. \A n \in Nat : n \in T => n + 1 \in T
  <2> SUFFICES ASSUME NEW n \in Nat, n \in T PROVE n + 1 \in T
    OBVIOUS
  <2>1. PICK g : Rule(g, n)
    OBVIOUS
  <2> DEFINE h == [s \in D(n + 1) |-> IF s = {} THEN 0 ELSE f[Pick(s)] + g[s \ {Pick(s)}]]
  <2>2. \A s \in D(n + 1) : s # {} => s \ {Pick(s)} \in D(n)
    BY <1>0
  <2>3. \A s \in D(n) : s \in D(n + 1)
    <3> SUFFICES ASSUME NEW s \in D(n) PROVE Cardinality(s) <= n + 1
      OBVIOUS
    <3>1. Cardinality(s) \in Nat /\ Cardinality(s) <= n
      BY <1>0
    <3> QED
      BY <3>1
  <2>4. \A s \in D(n) : h[s] = g[s]
    <3> SUFFICES ASSUME NEW s \in D(n) PROVE h[s] = g[s]
      OBVIOUS
    <3>1. h[s] = IF s = {} THEN 0 ELSE f[Pick(s)] + g[s \ {Pick(s)}]
      BY <2>3
    <3>2. g[s] = IF s = {} THEN 0 ELSE f[Pick(s)] + g[s \ {Pick(s)}]
      BY <2>1
    <3> QED
      BY <3>1, <3>2
  <2>5. h = [s \in D(n + 1) |-> IF s = {} THEN 0 ELSE f[Pick(s)] + h[s \ {Pick(s)}]]
    <3> HIDE DEF D
    <3>1. \A s \in D(n + 1) : s # {} => h[s \ {Pick(s)}] = g[s \ {Pick(s)}]
      BY <2>2, <2>4, Zenon
    <3> QED
      BY <3>1
  <2>6. Rule(h, n + 1)
    BY <2>5, Zenon
  <2> HIDE DEF Rule, h
  <2> QED
    BY <2>6
<1>3. Cardinality(S) \in T
  <2> HIDE DEF T
  <2>1. \A n \in Nat : n \in T
    BY <1>1, <1>2, Induct, Zenon
  <2> QED
    BY <2>1, FS_CardinalityType
<1>4. D(Cardinality(S)) = SUBSET S
  BY FS_Subset, <1>0
<1> QED
  BY <1>3, <1>4 DEF Adds

\* The sum of nothing.
LEMMA AddsEmpty ==
  ASSUME NEW S, NEW f, NEW g, Adds(g, S, f)
  PROVE  g[{}] = 0
<1>1. {} \in SUBSET S
  OBVIOUS
<1>2. g[{}] = IF {} = {} THEN 0 ELSE f[Pick({})] + g[{} \ {Pick({})}]
  BY <1>1, Zenon DEF Adds
<1> QED
  BY <1>2, Zenon

\* A step of it.
LEMMA AddsStep ==
  ASSUME NEW S, IsFiniteSet(S), NEW f, NEW g, Adds(g, S, f), NEW s \in SUBSET S
  PROVE  /\ s = {} => g[s] = 0
         /\ s # {} => /\ Pick(s) \in s /\ s \ {Pick(s)} \in SUBSET S
                      /\ Cardinality(s) \in Nat
                      /\ Cardinality(s \ {Pick(s)}) = Cardinality(s) - 1
                      /\ g[s] = f[Pick(s)] + g[s \ {Pick(s)}]
<1>1. IsFiniteSet(s)
  BY FS_Subset
<1>2. g[s] = IF s = {} THEN 0 ELSE f[Pick(s)] + g[s \ {Pick(s)}]
  BY Zenon DEF Adds
<1>3. s # {} => Pick(s) \in s
  BY PickIn, Zenon
<1>4. Cardinality(s) \in Nat
  BY <1>1, FS_CardinalityType
<1>5. s # {} => Cardinality(s \ {Pick(s)}) = Cardinality(s) - 1
  BY <1>1, <1>3, FS_RemoveElement
<1> QED
  BY <1>2, <1>3, <1>4, <1>5

\* A sum of natural numbers that each exceed others by c at most exceeds their
\* sum by c for each.
LEMMA AddsBound ==
  ASSUME NEW S, IsFiniteSet(S), NEW f, NEW e, NEW c \in Nat,
         \A a \in S : f[a] \in Nat /\ e[a] \in Nat /\ f[a] <= e[a] + c,
         NEW g, Adds(g, S, f), NEW h, Adds(h, S, e)
  PROVE  g[S] \in Nat /\ h[S] \in Nat /\ g[S] <= h[S] + Cardinality(S) * c
<1> DEFINE Good(s) == g[s] \in Nat /\ h[s] \in Nat /\ g[s] <= h[s] + Cardinality(s) * c
           T == {n \in Nat : \A s \in SUBSET S : Cardinality(s) = n => Good(s)}
<1>0. \A s \in SUBSET S : Cardinality(s) = 0 => s = {}
  BY FS_Subset, FS_EmptySet
<1>1. 0 \in T
  <2>1. g[{}] = 0 /\ h[{}] = 0 /\ Cardinality({}) = 0
    BY AddsEmpty, FS_EmptySet, Zenon
  <2>2. Good({})
    BY <2>1
  <2> HIDE DEF Good
  <2> QED
    BY <1>0, <2>2
<1>2. \A n \in Nat : n \in T => n + 1 \in T
  <2> SUFFICES ASSUME NEW n \in Nat, n \in T, NEW s \in SUBSET S, Cardinality(s) = n + 1
               PROVE  Good(s)
    OBVIOUS
  <2> DEFINE x == Pick(s)
             r == s \ {Pick(s)}
  <2>0. s = {} => Cardinality(s) = 0
    BY FS_EmptySet, Zenon
  <2>1. s # {}
    BY <2>0
  <2>2. /\ x \in s /\ r \in SUBSET S /\ Cardinality(r) = n
        /\ g[s] = f[x] + g[r] /\ h[s] = e[x] + h[r]
    BY <2>1, AddsStep
  <2>3. Good(r)
    BY <2>2
  <2>4. f[x] \in Nat /\ e[x] \in Nat /\ f[x] <= e[x] + c
    BY <2>2
  <2>5. (n + 1) * c = n * c + c /\ n * c \in Nat
    OBVIOUS
  <2> HIDE DEF x, r
  <2>6. g[r] \in Nat /\ h[r] \in Nat /\ g[r] <= h[r] + n * c
    BY <2>2, <2>3
  <2> QED
    BY <2>2, <2>4, <2>5, <2>6
<1>3. Cardinality(S) \in T
  <2> HIDE DEF T
  <2>1. \A n \in Nat : n \in T
    BY <1>1, <1>2, Induct, Zenon
  <2> QED
    BY <2>1, FS_CardinalityType
<1> QED
  BY <1>3

\* The summands e are f but for that of a, which is v.
Differs(f, e, S, a, v) ==
  /\ v \in Nat
  /\ \A b \in S : f[b] \in Nat /\ (b = a => e[b] = v) /\ (b # a => e[b] = f[b])

\* The sum y is x with that change.
Moved(x, y, f, S, a, v) ==
  x \in Nat /\ (a \in S => y = x - f[a] + v) /\ (a \notin S => y = x)

\* When one summand changes, so does the sum.
LEMMA AddsChange ==
  ASSUME NEW S, IsFiniteSet(S), NEW f, NEW e, NEW a, NEW v, Differs(f, e, S, a, v),
         NEW g, Adds(g, S, f), NEW h, Adds(h, S, e)
  PROVE  Moved(g[S], h[S], f, S, a, v)
<1> DEFINE Good(s) == g[s] \in Nat /\ h[s] = IF a \in s THEN g[s] - f[a] + v ELSE g[s]
           T == {n \in Nat : \A s \in SUBSET S : Cardinality(s) = n => Good(s)}
<1>0. \A s \in SUBSET S : Cardinality(s) = 0 => s = {}
  BY FS_Subset, FS_EmptySet
<1>1. 0 \in T
  <2>1. g[{}] = 0 /\ h[{}] = 0
    BY AddsEmpty, Zenon
  <2>2. Good({})
    BY <2>1
  <2> HIDE DEF Good
  <2> QED
    BY <1>0, <2>2
<1>2. \A n \in Nat : n \in T => n + 1 \in T
  <2> SUFFICES ASSUME NEW n \in Nat, n \in T, NEW s \in SUBSET S, Cardinality(s) = n + 1
               PROVE  Good(s)
    OBVIOUS
  <2> DEFINE x == Pick(s)
             r == s \ {Pick(s)}
  <2>0. s = {} => Cardinality(s) = 0
    BY FS_EmptySet, Zenon
  <2>1. s # {}
    BY <2>0
  <2>2. /\ x \in s /\ r \in SUBSET S /\ Cardinality(r) = n
        /\ g[s] = f[x] + g[r] /\ h[s] = e[x] + h[r]
    BY <2>1, AddsStep
  <2>3. Good(r)
    BY <2>2
  <2>4. f[x] \in Nat /\ v \in Nat /\ e[x] = IF x = a THEN v ELSE f[x]
    BY <2>2 DEF Differs
  <2>5. a \in s <=> a = x \/ a \in r
    BY <2>2
  <2>6. x \notin r /\ (a \in r => f[a] \in Nat)
    BY <2>2 DEF Differs
  <2>7. g[r] \in Nat /\ h[r] = IF a \in r THEN g[r] - f[a] + v ELSE g[r]
    BY <2>3
  <2> HIDE DEF x, r
  <2>8. CASE a \in r
    BY <2>2, <2>4, <2>5, <2>6, <2>7, <2>8
  <2>9. CASE a = x
    BY <2>2, <2>4, <2>5, <2>6, <2>7, <2>9
  <2>10. CASE a # x /\ a \notin r
    BY <2>2, <2>4, <2>5, <2>7, <2>10
  <2> QED
    BY <2>8, <2>9, <2>10
<1>3. Cardinality(S) \in T
  <2> HIDE DEF T
  <2>1. \A n \in Nat : n \in T
    BY <1>1, <1>2, Induct, Zenon
  <2> QED
    BY <2>1, FS_CardinalityType
<1> QED
  BY <1>3 DEF Moved

\* What the core adds up is the sum of the currents it knows.
LEMMA SumOfIs ==
  ASSUME num \in Nat, NEW m
  PROVE  Total([a \in 1..num |-> m[a].current], 1..num, SumOf(m))
<1> DEFINE S == 1..num
           f == [a \in S |-> m[a].current]
           Rule(g) == g = [s \in SUBSET S |->
                             IF s = {} THEN 0
                             ELSE m[CHOOSE x \in s : TRUE].current + g[s \ {CHOOSE x \in s : TRUE}]]
           r == CHOOSE g : Rule(g)
<1>1. SumOf(m) = r[S]
  BY DEF SumOf, MapThenSumSet, MapThenFoldSet
<1>2. \A s \in SUBSET S : s # {} => f[Pick(s)] = m[Pick(s)].current
  BY PickIn
<1>3. \A g : Rule(g) <=> Adds(g, S, f)
  <2> SUFFICES ASSUME NEW g PROVE Rule(g) <=> Adds(g, S, f)
    OBVIOUS
  <2> HIDE DEF S, f
  <2> QED
    BY <1>2 DEF Pick, Adds
<1>4. \E g : Adds(g, S, f)
  <2>1. IsFiniteSet(S)
    BY FS_Interval
  <2> HIDE DEF S, f
  <2> QED
    BY <2>1, AddsExists, Zenon
<1> HIDE DEF Rule
<1>5. Rule(r)
  BY <1>3, <1>4, Zenon
<1> QED
  BY <1>1, <1>3, <1>5, Zenon DEF Total

\* What the modules draw together is the sum of what each of them draws.
LEMMA TotalDrawIs == Total([a \in Addr |-> Draw(a)], Addr, TotalDraw)
<1> DEFINE f == [a \in Addr |-> Draw(a)]
           Rule(g) == g = [s \in SUBSET Addr |->
                             IF s = {} THEN 0
                             ELSE Draw(CHOOSE x \in s : TRUE) + g[s \ {CHOOSE x \in s : TRUE}]]
           r == CHOOSE g : Rule(g)
<1>1. TotalDraw = r[Addr]
  BY DEF TotalDraw, MapThenSumSet, MapThenFoldSet
<1>2. \A s \in SUBSET Addr : s # {} => f[Pick(s)] = Draw(Pick(s))
  BY PickIn
<1>3. \A g : Rule(g) <=> Adds(g, Addr, f)
  <2> SUFFICES ASSUME NEW g PROVE Rule(g) <=> Adds(g, Addr, f)
    OBVIOUS
  <2> HIDE DEF f
  <2> QED
    BY <1>2 DEF Pick, Adds
<1>4. \E g : Adds(g, Addr, f)
  <2>1. IsFiniteSet(Addr)
    BY FS_Interval, SmfAssumption DEF Addr
  <2> HIDE DEF f
  <2> QED
    BY <2>1, AddsExists, Zenon
<1> HIDE DEF Rule
<1>5. Rule(r)
  BY <1>3, <1>4, Zenon
<1> QED
  BY <1>1, <1>3, <1>5, Zenon DEF Total

\* Sums of natural numbers that each exceed others by c at most.
LEMMA TotalBound ==
  ASSUME NEW S, IsFiniteSet(S), NEW f, NEW e, NEW c \in Nat, NEW v, NEW w,
         \A a \in S : f[a] \in Nat /\ e[a] \in Nat /\ f[a] <= e[a] + c,
         Total(f, S, v), Total(e, S, w)
  PROVE  v \in Nat /\ w \in Nat /\ v <= w + Cardinality(S) * c
<1>1. PICK g : Adds(g, S, f) /\ v = g[S]
  BY Zenon DEF Total
<1>2. PICK h : Adds(h, S, e) /\ w = h[S]
  BY Zenon DEF Total
<1>3. g[S] \in Nat /\ h[S] \in Nat /\ g[S] <= h[S] + Cardinality(S) * c
  BY <1>1, <1>2, AddsBound, Zenon
<1> QED
  BY <1>1, <1>2, <1>3, Zenon

\* A sum in which one summand has changed.
LEMMA TotalChange ==
  ASSUME NEW S, IsFiniteSet(S), NEW f, NEW e, NEW a, NEW v, Differs(f, e, S, a, v),
         NEW x, NEW y, Total(f, S, x), Total(e, S, y)
  PROVE  Moved(x, y, f, S, a, v)
<1>1. PICK g : Adds(g, S, f) /\ x = g[S]
  BY Zenon DEF Total
<1>2. PICK h : Adds(h, S, e) /\ y = h[S]
  BY Zenon DEF Total
<1>3. Moved(g[S], h[S], f, S, a, v)
  BY <1>1, <1>2, AddsChange, Zenon
<1> QED
  BY <1>1, <1>2, <1>3, Zenon

\* The sum is a natural number.
LEMMA SumOfNat ==
  ASSUME num \in Nat, NEW m, \A a \in 1..num : m[a].current \in Nat
  PROVE  SumOf(m) \in Nat
<1> DEFINE S == 1..num
           f == [a \in S |-> m[a].current]
           v == SumOf(m)
<1>1. Total(f, S, v)
  BY SumOfIs, Zenon
<1>2. \A a \in S : f[a] \in Nat /\ f[a] \in Nat /\ f[a] <= f[a] + 0
  OBVIOUS
<1>3. IsFiniteSet(S) /\ 0 \in Nat
  BY FS_Interval
<1> HIDE DEF f, S, v
<1>4. v \in Nat /\ v \in Nat /\ v <= v + Cardinality(S) * 0
  BY <1>1, <1>2, <1>3, TotalBound, Zenon
<1> QED
  BY <1>4 DEF v

\* The share of one module leaves the others theirs.
LEMMA ShareBound ==
  ASSUME num \in 1..N, NEW s \in Nat
  PROVE  /\ Share(s) \in 0..MAX_CURRENT
         /\ s <= MAX_CURRENT => Share(s) <= MAX_CURRENT - s /\ num * Share(s) <= MAX_CURRENT - s
<1>0. MAX_CURRENT \in Nat /\ num \in Nat /\ num >= 1
  BY SmfAssumption
<1>1. CASE s >= MAX_CURRENT
  BY <1>0, <1>1 DEF Share
<1>2. CASE s < MAX_CURRENT
  <2> DEFINE d == MAX_CURRENT - s
             q == d \div num
  <2>1. d \in Nat /\ d + s = MAX_CURRENT /\ Share(s) = q
    BY <1>0, <1>2 DEF Share
  <2>2. q \in Nat /\ num * q <= d /\ q <= num * q
    <3>1. \A x, y \in Nat : y >= 1 => x \div y \in Nat /\ y * (x \div y) <= x
      BY SMTT(30)
    <3>2. \A x, y \in Nat : y >= 1 => x <= y * x
      BY SMTT(30)
    <3> QED
      BY <1>0, <2>1, <3>1, <3>2
  <2> HIDE DEF d, q
  <2>3. num * q \in Nat
    BY <1>0, <2>2
  <2>4. q <= d
    BY <2>1, <2>2, <2>3
  <2> QED
    BY <1>0, <2>1, <2>2, <2>3, <2>4
<1> QED
  BY <1>0, <1>1, <1>2

-----------------------------------------------------------------------------
(* Types *)

DownMsg == [type : {"load", "req"}, addr : {0}, value : {0}]
           \cup [type : {"mcub"}, addr : {0}, value : 0..MAX_CURRENT]
           \cup [type : {"on", "off"}, addr : 0..N, value : {0}]
UpMsg   == [type : {"link", "switch"}, addr : Addr, value : {0, 1}]
           \cup [type : {"current"}, addr : Addr, value : Loads]

\* Both directions carry messages of their kinds only.
TypeInv == TypeOK /\ down \in Seq(DownMsg) /\ up \in Seq(UpMsg)

\* The assumptions on the sizes, as the steps need them.
LEMMA Sizes == /\ N \in Nat /\ N >= 1 /\ MAX_CURRENT \in Nat /\ MaxEvents \in Nat
               /\ Loads \subseteq Nat /\ 0 \in Loads
BY SmfAssumption

\* There is a lowest priority.
LEMMA LowestIn == Min(Priorities) \in Priorities
<1> DEFINE Less == {p \in Nat \X Nat : p[1] < p[2]}
<1>0. Priorities \subseteq Nat /\ Priorities # {}
  BY SmfAssumption
<1>1. Less = OpToRel(<, Nat)
  BY Zenon DEF OpToRel
<1>2. IsWellFoundedOn(Less, Nat)
  BY <1>1, NatLessThanWellFounded, Zenon
<1>3. PICK i \in Priorities : \A j \in Priorities : ~(<<j, i>> \in Less)
  BY <1>0, <1>2, WFMin, Zenon
<1>4. \A j \in Nat : j < i => <<j, i>> \in Less
  BY <1>0
<1> HIDE DEF Less
<1>5. \A j \in Priorities : ~(j < i)
  BY <1>0, <1>3, <1>4, Zenon
<1>6. \A j \in Priorities : i <= j
  BY <1>0, <1>5
<1> QED
  BY <1>6 DEF Min

\* The elements of a finite set in some order.
LEMMA SetToSeqIn ==
  ASSUME NEW S, IsFiniteSet(S)
  PROVE  SetToSeq(S) \in Seq(S)
<1>1. Cardinality(S) \in Nat /\ ExistsBijection(1..Cardinality(S), S)
  BY FS_CardinalityType
<1>2. \E f \in [1..Cardinality(S) -> S] : IsInjective(f)
  BY <1>1 DEF ExistsBijection, Bijection, Injection, IsInjective
<1>3. SetToSeq(S) \in [1..Cardinality(S) -> S]
  BY <1>2 DEF SetToSeq
<1> QED
  BY <1>1, <1>3

\* Messages as the code makes them.
LEMMA Messages ==
  /\ Msg("load", 0, 0) \in DownMsg /\ Msg("req", 0, 0) \in DownMsg
  /\ \A v \in 0..MAX_CURRENT : Msg("mcub", 0, v) \in DownMsg
  /\ \A a \in 0..N : Msg("on", a, 0) \in DownMsg /\ Msg("off", a, 0) \in DownMsg
  /\ \A a \in Addr : \A b \in BOOLEAN : /\ Msg("link", a, OnOff(b)) \in UpMsg
                                        /\ Msg("switch", a, OnOff(b)) \in UpMsg
  /\ \A a \in Addr, v \in Loads : Msg("current", a, v) \in UpMsg
BY DEF Msg, DownMsg, UpMsg, OnOff

\* What is taken from the line is one of them.
LEMMA Taken ==
  ASSUME TypeInv
  PROVE  /\ up # <<>> => /\ Head(up) \in UpMsg /\ Tail(up) \in Seq(UpMsg)
                         /\ Head(up).addr \in Addr
                         /\ Head(up).type = "current" => Head(up).value \in Loads
         /\ down # <<>> => /\ Head(down) \in DownMsg /\ Tail(down) \in Seq(DownMsg)
                           /\ Head(down).addr \in 0..N
                           /\ Head(down).type = "mcub" => Head(down).value \in 0..MAX_CURRENT
<1>1. up \in Seq(UpMsg) /\ down \in Seq(DownMsg)
  BY DEF TypeInv
<1>2. up # <<>> => Head(up) \in UpMsg /\ Tail(up) \in Seq(UpMsg)
  BY <1>1
<1>3. down # <<>> => Head(down) \in DownMsg /\ Tail(down) \in Seq(DownMsg)
  BY <1>1
<1>4. \A m \in UpMsg : m.addr \in Addr /\ (m.type = "current" => m.value \in Loads)
  BY DEF UpMsg
<1>5. \A m \in DownMsg : m.addr \in 0..N /\ (m.type = "mcub" => m.value \in 0..MAX_CURRENT)
  BY SmfAssumption DEF DownMsg
<1> QED
  BY <1>2, <1>3, <1>4, <1>5

\* A module draws one of the loads.
LEMMA DrawIn == ASSUME TypeOK PROVE \A a \in Addr : Draw(a) \in Loads
<1>1. load \in [Addr -> Loads] /\ 0 \in Loads
  BY SmfAssumption, Zenon DEF TypeOK
<1> QED
  BY <1>1 DEF Draw

\* The core starts with nothing linked, with types in order.
LEMMA TypeInit == ASSUME Init PROVE TypeInv
<1>1. Unlinked \in [Addr -> Entry]
  BY LowestIn DEF Unlinked, Entry
<1>2. 0 \in Loads /\ N \in Nat /\ MAX_CURRENT \in Nat /\ MaxEvents \in Nat
  BY SmfAssumption
<1>3. TypeOK
  <2>1. modules \in [Addr -> Entry] /\ num \in 0..N /\ sum \in Nat /\ mcub \in 0..MAX_CURRENT
    BY <1>1, <1>2 DEF Init
  <2>2. culprit \in 0..N /\ pop \in BOOLEAN /\ emerg \in BOOLEAN
    <3>1. culprit \in 0..N
      BY <1>2 DEF Init
    <3>2. pop \in BOOLEAN /\ emerg \in BOOLEAN
      BY Zenon DEF Init
    <3> QED
      BY <3>1, <3>2, Zenon
  <2>3. timer \in {"unset", "running", "elapsed"} /\ events \in 0..MaxEvents
    BY <1>2 DEF Init
  <2>4. load \in [Addr -> Loads] /\ relay \in [Addr -> BOOLEAN]
    BY DEF Init
  <2>5. told \in [Addr -> 0..MAX_CURRENT] /\ reported \in [Addr -> Loads]
    BY <1>2 DEF Init
  <2>6. asked \subseteq Addr /\ cut \in BOOLEAN
    BY DEF Init
  <2> QED
    BY <2>1, <2>2, <2>3, <2>4, <2>5, <2>6, Zenon DEF TypeOK
<1>4. down \in Seq(DownMsg) /\ up \in Seq(UpMsg)
  <2>1. down = <<Msg("load", 0, 0)>> /\ up = <<>>
    BY DEF Init
  <2> QED
    BY <2>1, Messages
<1> QED
  BY <1>3, <1>4 DEF TypeInv

\* The module to be turned off by priority is one of those linked.
LEMMA ExpendableIn == ASSUME TypeOK PROVE Expendable \subseteq 0..N
<1>1. num \in 0..N /\ N \in Nat
  BY Sizes, Zenon DEF TypeOK
<1> QED
  BY <1>1 DEF Expendable

\* One line after another.
LEMMA Joined ==
  ASSUME NEW S, NEW s \in Seq(S), NEW t \in Seq(S)
  PROVE  /\ Len(s) \in Nat /\ Len(t) \in Nat /\ Len(s \o t) = Len(s) + Len(t)
         /\ DOMAIN s = 1..Len(s) /\ DOMAIN (s \o t) = 1..(Len(s) + Len(t))
         /\ \A i \in 1..(Len(s) + Len(t)) : (s \o t)[i] = IF i <= Len(s) THEN s[i] ELSE t[i - Len(s)]
OBVIOUS

\* One message more.
LEMMA Longer ==
  ASSUME NEW S, NEW s \in Seq(S), NEW x \in S
  PROVE  /\ \A i \in DOMAIN Append(s, x) : \/ i \in DOMAIN s /\ Append(s, x)[i] = s[i]
                                           \/ i = Len(s) + 1 /\ Append(s, x)[i] = x
         /\ \A i \in DOMAIN s : i \in DOMAIN Append(s, x) /\ Append(s, x)[i] = s[i]
         /\ Len(s) + 1 \in DOMAIN Append(s, x) /\ Append(s, x)[Len(s) + 1] = x
OBVIOUS

\* A message or two at the end of a line.
LEMMA AppendNew ==
  ASSUME NEW S, NEW s \in Seq(S), NEW x \in S, NEW y \in S
  PROVE  /\ s \o <<x>> \o <<y>> = s \o <<x, y>>
         /\ s \o <<x>> \o <<>> \o <<y>> = s \o <<x, y>>
         /\ s \o <<>> \o <<x>> \o <<y>> = s \o <<x, y>>
         /\ s \o <<>> \o <<>> \o <<x>> = s \o <<x>>
         /\ <<x, y>> \in Seq(S) /\ <<x>> \in Seq(S)
<1>1. <<x, y>> \in Seq(S) /\ <<x>> \in Seq(S) /\ <<y>> \in Seq(S)
  OBVIOUS
<1>2. s \o <<x>> \o <<y>> = s \o <<x, y>>
  <2> DEFINE t == s \o <<x>>
             u == t \o <<y>>
             v == s \o <<x, y>>
  <2>1. t \in Seq(S) /\ Len(t) = Len(s) + 1 /\ \A i \in 1..Len(s) : t[i] = s[i]
    OBVIOUS
  <2>2. t[Len(s) + 1] = x
    OBVIOUS
  <2> HIDE DEF t
  <2>3. u \in Seq(S) /\ Len(u) = Len(t) + 1 /\ u[Len(t) + 1] = y /\ \A i \in 1..Len(t) : u[i] = t[i]
    BY <2>1
  <2>4. v \in Seq(S) /\ Len(v) = Len(s) + 2 /\ \A i \in 1..Len(s) : v[i] = s[i]
    OBVIOUS
  <2>5. v[Len(s) + 1] = x /\ v[Len(s) + 2] = y
    OBVIOUS
  <2> HIDE DEF u, v
  <2>6. \A i \in 1..(Len(s) + 2) : u[i] = v[i]
    BY <2>1, <2>2, <2>3, <2>4, <2>5
  <2>7. u = v
    BY <2>1, <2>3, <2>4, <2>6
  <2> QED
    BY <2>7 DEF u, v, t
<1>3. s \o <<>> = s
  OBVIOUS
<1>5. s \o <<x>> \o <<>> = s \o <<x>>
  OBVIOUS
<1>4. s \o <<x>> \o <<>> \o <<y>> = s \o <<x, y>>
  BY <1>2, <1>5, Zenon
<1>6. s \o <<>> \o <<x>> \o <<y>> = s \o <<x, y>>
  BY <1>2, <1>3, Zenon
<1>7. s \o <<>> \o <<>> \o <<x>> = s \o <<x>>
  BY <1>3, Zenon
<1> QED BY <1>1, <1>2, <1>4, <1>6, <1>7, Zenon

\* What a report of a current comes to, whatever it is.
LEMMA ReceiveCurrentEffect ==
  ASSUME TypeInv, ReceiveCurrent
  PROVE  /\ num \in 1..N /\ num' = num
         /\ up # <<>> /\ up' = Tail(up) /\ Head(up).type = "current"
         /\ Head(up).addr \in Addr /\ Head(up).value \in Loads
         /\ modules' = [modules EXCEPT ![Head(up).addr].current = Head(up).value]
         /\ sum' = SumOf(modules') /\ sum' \in Nat
         /\ mcub' = Share(sum') /\ mcub' \in 0..MAX_CURRENT
         /\ emerg' = (sum' > MAX_CURRENT)
         /\ culprit' \in 0..N
         /\ \E l \in Seq(DownMsg) :
              /\ down' = down \o l
              /\ Len(l) > 0 /\ l[Len(l)] = Msg("mcub", 0, mcub')
              /\ \A i \in DOMAIN l : l[i].type \in {"off", "req", "mcub"}
              /\ \A i \in DOMAIN l : l[i].type = "mcub" => i = Len(l)
<1> DEFINE a == Head(up).addr
           v == Head(up).value
<1>0. TypeOK /\ N \in Nat
  BY Sizes, Zenon DEF TypeInv
<1>1. /\ num > 0 /\ num' = num /\ up # <<>> /\ up' = Tail(up) /\ Head(up).type = "current"
      /\ modules' = [modules EXCEPT ![a].current = v]
      /\ sum' = SumOf(modules') /\ mcub' = Share(sum')
      /\ overloadProtectionCheck(sum', Suspect(a, v))
  BY Zenon DEF ReceiveCurrent, Received
<1>2. num \in 1..N
  <2>1. num \in 0..N
    BY <1>0, Zenon DEF TypeOK
  <2> QED
    BY <1>0, <1>1, <2>1
<1>3. a \in Addr /\ v \in Loads
  BY <1>1, Taken, Zenon
<1>4. sum' \in Nat
  <2>1. modules \in [Addr -> Entry] /\ Loads \subseteq Nat
    BY <1>0, SmfAssumption, Zenon DEF TypeOK
  <2>2. \A b \in Addr : modules'[b].current \in Nat
    BY <1>1, <1>3, <2>1 DEF Entry
  <2>3. \A b \in 1..num : modules'[b].current \in Nat
    BY <1>0, <1>2, <2>2 DEF Addr
  <2>4. num \in Nat
    BY <1>2
  <2>5. SumOf(modules') \in Nat
    BY <2>3, <2>4, SumOfNat, Zenon
  <2> QED
    BY <1>1, <2>5
<1>5. mcub' \in 0..MAX_CURRENT
  BY <1>1, <1>2, <1>4, ShareBound, Zenon
<1>6. Suspect(a, v) \in 0..N
  <2>1. culprit \in 0..N
    BY <1>0, Zenon DEF TypeOK
  <2> QED
    BY <1>0, <1>3, <2>1 DEF Suspect, Addr
<1> HIDE DEF a, v
<1>7. culprit' \in 0..N /\ emerg' = (sum' > MAX_CURRENT)
  <2>1. /\ emerg' = (sum' > MAX_CURRENT)
        /\ \/ culprit' = Suspect(a, v)
           \/ Expendable # {} /\ culprit' = CHOOSE b \in Expendable : TRUE
    BY <1>1 DEF overloadProtectionCheck
  <2>2. Expendable # {} => (CHOOSE b \in Expendable : TRUE) \in 0..N
    BY <1>0, ExpendableIn
  <2> QED
    BY <1>6, <2>1, <2>2
<1>8. \E l \in Seq(DownMsg) :
        /\ down' = down \o l
        /\ Len(l) > 0 /\ l[Len(l)] = Msg("mcub", 0, mcub')
        /\ \A i \in DOMAIN l : l[i].type \in {"off", "req", "mcub"}
        /\ \A i \in DOMAIN l : l[i].type = "mcub" => i = Len(l)
  <2> DEFINE off == Msg("off", culprit', 0)
             req == Msg("req", 0, 0)
             new == Msg("mcub", 0, mcub')
  <2>1. off \in DownMsg /\ req \in DownMsg /\ new \in DownMsg
    BY <1>5, <1>7, Messages, Zenon
  <2>2. off.type = "off" /\ req.type = "req" /\ new.type = "mcub"
    BY DEF Msg
  <2>3. down \in Seq(DownMsg)
    BY Zenon DEF TypeInv
  <2>4. \/ down' = down \o <<off>> \o <<>> \o <<new>>
        \/ down' = down \o <<>> \o <<req>> \o <<new>>
        \/ down' = down \o <<>> \o <<>> \o <<new>>
    BY <1>1 DEF overloadProtectionCheck
  <2> HIDE DEF off, req, new
  <2>5. CASE down' = down \o <<off>> \o <<>> \o <<new>>
    <3> DEFINE l == <<off, new>>
    <3>0. /\ down \o <<off>> \o <<new>> = down \o <<off, new>>
          /\ down \o <<off>> \o <<>> \o <<new>> = down \o <<off, new>>
          /\ down \o <<>> \o <<off>> \o <<new>> = down \o <<off, new>>
          /\ down \o <<>> \o <<>> \o <<off>> = down \o <<off>>
          /\ <<off, new>> \in Seq(DownMsg) /\ <<off>> \in Seq(DownMsg)
      BY <2>1, <2>3, AppendNew, Zenon
    <3>1. down' = down \o l /\ l \in Seq(DownMsg)
      BY <2>5, <3>0, Zenon
    <3>2. Len(l) = 2 /\ DOMAIN l = {1, 2} /\ l[1] = off /\ l[2] = new
      OBVIOUS
    <3> HIDE DEF l
    <3>3. Len(l) > 0 /\ l[Len(l)] = new
      BY <3>2
    <3>4. \A i \in DOMAIN l : /\ l[i].type \in {"off", "req", "mcub"}
                              /\ l[i].type = "mcub" => i = Len(l)
      BY <2>2, <3>2
    <3> QED
      BY <3>1, <3>3, <3>4, Zenon DEF new
  <2>6. CASE down' = down \o <<>> \o <<req>> \o <<new>>
    <3> DEFINE l == <<req, new>>
    <3>0. /\ down \o <<req>> \o <<new>> = down \o <<req, new>>
          /\ down \o <<req>> \o <<>> \o <<new>> = down \o <<req, new>>
          /\ down \o <<>> \o <<req>> \o <<new>> = down \o <<req, new>>
          /\ down \o <<>> \o <<>> \o <<req>> = down \o <<req>>
          /\ <<req, new>> \in Seq(DownMsg) /\ <<req>> \in Seq(DownMsg)
      BY <2>1, <2>3, AppendNew, Zenon
    <3>1. down' = down \o l /\ l \in Seq(DownMsg)
      BY <2>6, <3>0, Zenon
    <3>2. Len(l) = 2 /\ DOMAIN l = {1, 2} /\ l[1] = req /\ l[2] = new
      OBVIOUS
    <3> HIDE DEF l
    <3>3. Len(l) > 0 /\ l[Len(l)] = new
      BY <3>2
    <3>4. \A i \in DOMAIN l : /\ l[i].type \in {"off", "req", "mcub"}
                              /\ l[i].type = "mcub" => i = Len(l)
      BY <2>2, <3>2
    <3> QED
      BY <3>1, <3>3, <3>4, Zenon DEF new
  <2>7. CASE down' = down \o <<>> \o <<>> \o <<new>>
    <3> DEFINE l == <<new>>
    <3>0. down \o <<>> \o <<>> \o <<new>> = down \o <<new>> /\ <<new>> \in Seq(DownMsg)
      BY <2>1, <2>3, AppendNew
    <3>1. down' = down \o l /\ l \in Seq(DownMsg)
      BY <2>7, <3>0, Zenon
    <3>2. Len(l) = 1 /\ DOMAIN l = {1} /\ l[1] = new
      OBVIOUS
    <3> HIDE DEF l
    <3>3. Len(l) > 0 /\ l[Len(l)] = new
      BY <3>2
    <3>4. \A i \in DOMAIN l : /\ l[i].type \in {"off", "req", "mcub"}
                              /\ l[i].type = "mcub" => i = Len(l)
      BY <2>2, <3>2
    <3> QED
      BY <3>1, <3>3, <3>4, Zenon DEF new
  <2> QED
    BY <2>4, <2>5, <2>6, <2>7
<1> QED
  BY <1>1, <1>2, <1>3, <1>4, <1>5, <1>7, <1>8, Zenon DEF a, v

\* What the delivery of a message does to the line from the modules: a whole round
\* of links, the changes of switches, or nothing.
LEMMA DeliverEffect ==
  ASSUME TypeInv, Deliver
  PROVE  /\ down # <<>> /\ down' = Tail(down)
         /\ UNCHANGED <<core, pop, load, reported, events>>
         /\ relay' \in [Addr -> BOOLEAN] /\ cut' \in BOOLEAN
         /\ \/ /\ Head(down).type = "load" /\ ~Linking
               /\ up' = up \o [i \in Addr |-> Msg("link", N + 1 - i, OnOff(relay[N + 1 - i]))]
               /\ UNCHANGED <<relay, told, asked>>
            \/ /\ Head(down).type = "req" /\ asked' = Addr /\ UNCHANGED <<up, relay, told>>
            \/ /\ Head(down).type = "mcub" /\ told' = [a \in Addr |-> Head(down).value]
               /\ UNCHANGED <<up, relay, asked>>
            \/ /\ Head(down).type \in {"on", "off"} /\ UNCHANGED <<told, asked>>
               /\ \E l \in Seq(UpMsg) : /\ up' = up \o l
                                        /\ \A i \in DOMAIN l : l[i].type = "switch"
<1> DEFINE m == Head(down)
<1>0. TypeOK
  BY Zenon DEF TypeInv
<1>1. relay \in [Addr -> BOOLEAN] /\ cut \in BOOLEAN /\ emerg \in BOOLEAN
  BY <1>0, Zenon DEF TypeOK
<1>2. down # <<>> /\ down' = Tail(down) /\ UNCHANGED <<core, pop, load, reported, events>>
  BY Zenon DEF Deliver
<1>3. CASE m.type = "load" /\ ~Linking /\ Len(up) + N <= MaxLine + N
      /\ up' = up \o [i \in Addr |-> Msg("link", N + 1 - i, OnOff(relay[N + 1 - i]))]
      /\ UNCHANGED <<relay, told, asked, cut>>
  BY <1>1, <1>2, <1>3, Zenon
<1>4. CASE m.type = "req" /\ asked' = Addr /\ UNCHANGED <<up, relay, told, cut>>
  BY <1>1, <1>2, <1>4, Zenon
<1>5. CASE m.type = "mcub" /\ told' = [a \in Addr |-> m.value] /\ UNCHANGED <<up, relay, asked, cut>>
  BY <1>1, <1>2, <1>5, Zenon
<1>6. CASE /\ m.type \in {"on", "off"} /\ Len(up) < MaxLine + N
           /\ relay' = [a \in Addr |-> IF a \in Addressed(m.addr) THEN m.type = "on" ELSE relay[a]]
           /\ up' = up \o SetToSeq({Msg("switch", a, OnOff(m.type = "on")) :
                                      a \in {b \in Addressed(m.addr) : relay'[b] # relay[b]}})
           /\ cut' = (cut \/ (emerg /\ m.type = "off" /\ m.addr \in {0, culprit}))
           /\ UNCHANGED <<told, asked>>
  <2>1. relay' \in [Addr -> BOOLEAN] /\ cut' \in BOOLEAN
    BY <1>1, <1>6
  <2> DEFINE S == {Msg("switch", a, OnOff(m.type = "on")) :
                     a \in {b \in Addressed(m.addr) : relay'[b] # relay[b]}}
  <2>2. Addressed(m.addr) \subseteq Addr
    <3>1. m.addr \in 0..N
      BY <1>2, Taken, Zenon
    <3> QED
      BY <3>1, Sizes DEF Addressed, Addr
  <2>3. S \subseteq UpMsg /\ \A x \in S : x.type = "switch"
    <3>1. (m.type = "on") \in BOOLEAN
      OBVIOUS
    <3>2. \A a \in Addr : Msg("switch", a, OnOff(m.type = "on")) \in UpMsg
      BY <3>1, Messages, Zenon
    <3>3. \A a \in Addr : Msg("switch", a, OnOff(m.type = "on")).type = "switch"
      BY DEF Msg
    <3> QED
      BY <2>2, <3>2, <3>3
  <2>4. IsFiniteSet(S)
    <3> DEFINE B == {b \in Addressed(m.addr) : relay'[b] # relay[b]}
               f(a) == Msg("switch", a, OnOff(m.type = "on"))
    <3>1. IsFiniteSet(Addr)
      BY FS_Interval, Sizes DEF Addr
    <3>2. B \in SUBSET Addr
      BY <2>2
    <3>3. IsFiniteSet(B)
      BY <3>1, <3>2, FS_Subset, Zenon
    <3>4. S = {f(a) : a \in B}
      OBVIOUS
    <3> HIDE DEF B, S
    <3>5. [a \in B |-> f(a)] \in Surjection(B, S)
      BY <3>4 DEF Surjection
    <3> QED
      BY <3>3, <3>5, FS_Surjection DEF ExistsSurjection
  <2> DEFINE l == SetToSeq(S)
  <2>5. l \in Seq(S)
    <3> HIDE DEF S
    <3> QED
      BY <2>4, SetToSeqIn, Zenon
  <2>6. up' = up \o l
    BY <1>6, Zenon
  <2> HIDE DEF l, S
  <2>7. l \in Seq(UpMsg) /\ \A i \in DOMAIN l : l[i].type = "switch"
    BY <2>3, <2>5
  <2> QED
    BY <1>2, <1>6, <2>1, <2>6, <2>7, Zenon
<1> QED
  BY <1>3, <1>4, <1>5, <1>6, Zenon DEF Deliver

\* A delivery leaves both lines and the modules in order.
LEMMA TypeDeliver == ASSUME TypeInv, Deliver PROVE TypeInv'
<1>0. TypeOK
  BY Zenon DEF TypeInv
<1>1. down \in Seq(DownMsg) /\ up \in Seq(UpMsg)
  BY Zenon DEF TypeInv
<1>2. /\ UNCHANGED <<core, pop, load, reported, events>>
      /\ relay' \in [Addr -> BOOLEAN] /\ cut' \in BOOLEAN
      /\ down # <<>> /\ down' = Tail(down)
  BY DeliverEffect, Zenon
<1>3. down' \in Seq(DownMsg)
  BY <1>2, Taken, Zenon
<1>4. relay \in [Addr -> BOOLEAN]
  BY <1>0, Zenon DEF TypeOK
<1>5. told' \in [Addr -> 0..MAX_CURRENT] /\ asked' \subseteq Addr /\ up' \in Seq(UpMsg)
  <2>1. told \in [Addr -> 0..MAX_CURRENT] /\ asked \subseteq Addr
    BY <1>0, Zenon DEF TypeOK
  <2>2. CASE /\ up' = up \o [i \in Addr |-> Msg("link", N + 1 - i, OnOff(relay[N + 1 - i]))]
             /\ UNCHANGED <<relay, told, asked>>
    <3> DEFINE l == [i \in Addr |-> Msg("link", N + 1 - i, OnOff(relay[N + 1 - i]))]
    <3>1. \A i \in Addr : N + 1 - i \in Addr
      BY Sizes DEF Addr
    <3>2. \A i \in Addr : Msg("link", N + 1 - i, OnOff(relay[N + 1 - i])) \in UpMsg
      BY <1>4, <3>1, Messages
    <3>3. l \in [1..N -> UpMsg]
      BY <3>2 DEF Addr
    <3>4. l \in Seq(UpMsg)
      BY <3>3, Sizes
    <3> HIDE DEF l
    <3>5. up' \in Seq(UpMsg)
      BY <1>1, <2>2, <3>4 DEF l
    <3> QED
      BY <2>1, <2>2, <3>5
  <2>3. CASE asked' = Addr /\ UNCHANGED <<up, relay, told>>
    BY <1>1, <2>1, <2>3
  <2>4. CASE Head(down).type = "mcub" /\ told' = [a \in Addr |-> Head(down).value] /\ UNCHANGED <<up, asked>>
    <3>1. Head(down).value \in 0..MAX_CURRENT
      BY <1>2, <2>4, Taken, Zenon
    <3> QED
      BY <1>1, <2>1, <2>4, <3>1
  <2>5. CASE UNCHANGED <<told, asked>> /\ \E l \in Seq(UpMsg) : up' = up \o l
    BY <1>1, <2>1, <2>5
  <2> QED
    BY <2>2, <2>3, <2>4, <2>5, DeliverEffect, Zenon
<1>6. TypeOK'
  BY <1>0, <1>2, <1>5, Zenon DEF TypeOK, core
<1> QED
  BY <1>3, <1>5, <1>6, Zenon DEF TypeInv

\* A step that concerns neither line's contents nor what the modules keep.
LEMMA TypeReceiveCurrent == ASSUME TypeInv, ReceiveCurrent PROVE TypeInv'
<1>0. TypeOK
  BY Zenon DEF TypeInv
<1>1. /\ num' = num /\ sum' \in Nat /\ mcub' \in 0..MAX_CURRENT /\ culprit' \in 0..N
      /\ emerg' = (sum' > MAX_CURRENT) /\ up # <<>> /\ up' = Tail(up)
      /\ Head(up).addr \in Addr /\ Head(up).value \in Loads
      /\ modules' = [modules EXCEPT ![Head(up).addr].current = Head(up).value]
  BY ReceiveCurrentEffect, Zenon
<1>2. emerg' \in BOOLEAN
  BY <1>1
<1>3. modules' \in [Addr -> Entry]
  <2>1. modules \in [Addr -> Entry]
    BY <1>0, Zenon DEF TypeOK
  <2> QED
    BY <1>1, <2>1, Sizes DEF Entry
<1>4. timer' \in {"unset", "running", "elapsed"}
  <2>1. timer \in {"unset", "running", "elapsed"}
    BY <1>0, Zenon DEF TypeOK
  <2>2. timer' = "running" \/ timer' = timer
    BY Zenon DEF ReceiveCurrent, overloadProtectionCheck
  <2> QED
    BY <2>1, <2>2
<1>5. cut' \in BOOLEAN
  <2>1. cut \in BOOLEAN /\ cut' = (cut /\ emerg')
    BY <1>0, Zenon DEF TypeOK, ReceiveCurrent
  <2> QED
    BY <1>2, <2>1, Zenon
<1>6. down' \in Seq(DownMsg) /\ up' \in Seq(UpMsg)
  <2>1. down \in Seq(DownMsg) /\ up \in Seq(UpMsg)
    BY Zenon DEF TypeInv
  <2>2. \E l \in Seq(DownMsg) : down' = down \o l
    BY ReceiveCurrentEffect, Zenon
  <2> QED
    BY <1>1, <2>1, <2>2
<1>7. UNCHANGED <<pop, chain, events>>
  BY Zenon DEF ReceiveCurrent
<1>8. TypeOK'
  BY <1>0, <1>1, <1>2, <1>3, <1>4, <1>5, <1>7, Zenon DEF TypeOK, chain
<1> QED
  BY <1>6, <1>8, Zenon DEF TypeInv

-----------------------------------------------------------------------------
(* Rounds of links *)

\* A message of that type is on its way to the modules.
Sends(type) == \E i \in DOMAIN down : down[i].type = type

\* The next k link messages of a round are at p + 1 and after, in the order in which
\* the last module is the first; once some were taken the others are next.  The
\* modules linked since and those to come are no more than there are, and unless
\* another round was asked for they are all.
Round(p, k) ==
  /\ \A i \in DOMAIN up : up[i].type = "link" <=> i \in (p + 1)..(p + k)
  /\ \A i \in (p + 1)..(p + k) : i \in DOMAIN up /\ up[i].addr = p + k + 1 - i
  /\ k < N => p = 0 /\ num + k <= N
  /\ ~Sends("load") => k = N \/ num + k = N

RoundInv == \E p \in 0..Len(up), k \in 0..N : Round(p, k)

\* The next link message is that of a module after those linked already.
LEMMA RoundHead ==
  ASSUME TypeInv, up # <<>>, NEW p \in 0..Len(up), NEW k \in 0..N, Round(p, k)
  PROVE  /\ Head(up).type = "link" => p = 0 /\ k >= 1 /\ Head(up).addr = k
         /\ Head(up).type # "link" => k = 0 \/ p >= 1
<1>1. up \in Seq(UpMsg) /\ N \in Nat /\ p \in Nat /\ k \in Nat
  <2>1. up \in Seq(UpMsg) /\ N \in Nat
    BY Sizes, Zenon DEF TypeInv
  <2> QED
    BY <2>1
<1>2. 1 \in DOMAIN up /\ Head(up) = up[1]
  BY <1>1
<1>3. Head(up).type = "link" <=> 1 \in (p + 1)..(p + k)
  BY <1>2, Zenon DEF Round
<1>4. 1 \in (p + 1)..(p + k) => up[1].addr = p + k + 1 - 1
  BY Zenon DEF Round
<1> QED
  BY <1>1, <1>2, <1>3, <1>4

\* When the next message is taken the round goes on with the others.
LEMMA RoundTail ==
  ASSUME TypeInv, up # <<>>, up' = Tail(up), NEW p \in 0..Len(up), NEW k \in 0..N, Round(p, k),
         NEW q \in Nat, NEW r \in Nat,
         IF Head(up).type = "link" THEN q = 0 /\ r = k - 1
         ELSE r = k /\ q = IF p >= 1 THEN p - 1 ELSE 0
  PROVE  /\ q \in 0..Len(up')
         /\ \A i \in DOMAIN up' : up'[i].type = "link" <=> i \in (q + 1)..(q + r)
         /\ \A i \in (q + 1)..(q + r) : i \in DOMAIN up' /\ up'[i].addr = q + r + 1 - i
<1>1. up \in Seq(UpMsg) /\ p \in Nat /\ k \in Nat
  <2>1. up \in Seq(UpMsg)
    BY Zenon DEF TypeInv
  <2> QED
    BY <2>1
<1>2. /\ \A i \in DOMAIN up : up[i].type = "link" <=> i \in (p + 1)..(p + k)
      /\ \A i \in (p + 1)..(p + k) : i \in DOMAIN up /\ up[i].addr = p + k + 1 - i
  BY Zenon DEF Round
<1>3. /\ Len(up') = Len(up) - 1 /\ Len(up) \in Nat /\ DOMAIN up = 1..Len(up)
      /\ DOMAIN up' = 1..(Len(up) - 1)
      /\ \A i \in DOMAIN up' : up'[i] = up[i + 1]
  BY <1>1
<1>4. /\ Head(up).type = "link" => p = 0 /\ k >= 1
      /\ Head(up).type # "link" => k = 0 \/ p >= 1
  BY RoundHead, Zenon
<1>5. r = 0 \/ (q + 1 = p /\ r = k) \/ (p = 0 /\ q = 0 /\ r = k - 1)
  BY <1>1, <1>4
<1>6. q \in 0..Len(up')
  BY <1>1, <1>3, <1>4
<1>7. ASSUME NEW i \in DOMAIN up' PROVE up'[i].type = "link" <=> i \in (q + 1)..(q + r)
  <2>1. i \in Nat /\ i + 1 \in DOMAIN up /\ up'[i] = up[i + 1]
    BY <1>3
  <2>2. up[i + 1].type = "link" <=> i + 1 \in (p + 1)..(p + k)
    BY <1>2, <2>1, Zenon
  <2>3. i >= 1
    BY <1>3
  <2>4. i + 1 \in (p + 1)..(p + k) <=> i \in (q + 1)..(q + r)
    BY <1>1, <1>4, <2>1, <2>3
  <2> QED
    BY <2>1, <2>2, <2>4
<1>8. ASSUME NEW i \in (q + 1)..(q + r) PROVE i \in DOMAIN up' /\ up'[i].addr = q + r + 1 - i
  <2>1. i \in Nat /\ i >= 1 /\ i + 1 \in (p + 1)..(p + k)
    BY <1>1, <1>4
  <2>2. i + 1 \in DOMAIN up /\ up[i + 1].addr = p + k + 1 - (i + 1)
    BY <1>2, <2>1, Zenon
  <2>3. i \in DOMAIN up' /\ up'[i] = up[i + 1]
    BY <1>3, <2>1, <2>2
  <2>4. p + k + 1 - (i + 1) = q + r + 1 - i
    BY <1>1, <1>4, <2>1
  <2> QED
    BY <2>2, <2>3, <2>4
<1> QED
  BY <1>6, <1>7, <1>8

\* Messages of other kinds that follow the round leave it as it is.
LEMMA RoundAppend ==
  ASSUME TypeInv, NEW p \in 0..Len(up), NEW k \in 0..N, Round(p, k),
         NEW l \in Seq(UpMsg), up' = up \o l, \A i \in DOMAIN l : l[i].type # "link"
  PROVE  /\ p \in 0..Len(up')
         /\ \A i \in DOMAIN up' : up'[i].type = "link" <=> i \in (p + 1)..(p + k)
         /\ \A i \in (p + 1)..(p + k) : i \in DOMAIN up' /\ up'[i].addr = p + k + 1 - i
<1>1. up \in Seq(UpMsg) /\ p \in Nat /\ k \in Nat
  <2>1. up \in Seq(UpMsg)
    BY Zenon DEF TypeInv
  <2> QED
    BY <2>1
<1>2. /\ \A i \in DOMAIN up : up[i].type = "link" <=> i \in (p + 1)..(p + k)
      /\ \A i \in (p + 1)..(p + k) : i \in DOMAIN up /\ up[i].addr = p + k + 1 - i
  BY Zenon DEF Round
<1>3. /\ Len(up) \in Nat /\ Len(l) \in Nat /\ Len(up') = Len(up) + Len(l)
      /\ DOMAIN up = 1..Len(up) /\ DOMAIN up' = 1..Len(up') /\ DOMAIN l = 1..Len(l)
      /\ \A i \in 1..Len(up') : up'[i] = IF i <= Len(up) THEN up[i] ELSE l[i - Len(up)]
  BY <1>1
<1>4. \A i \in DOMAIN up' : \/ i \in DOMAIN up /\ up'[i] = up[i]
                            \/ i \notin DOMAIN up /\ up'[i].type # "link"
  <2> SUFFICES ASSUME NEW i \in DOMAIN up', i \notin DOMAIN up
               PROVE  up'[i].type # "link"
    BY <1>3
  <2>1. i - Len(up) \in DOMAIN l /\ up'[i] = l[i - Len(up)]
    BY <1>3
  <2> QED
    BY <2>1
<1>5. \A i \in DOMAIN up : i \in DOMAIN up'
  BY <1>3
<1>6. p \in 0..Len(up')
  BY <1>1, <1>3
<1> QED
  BY <1>2, <1>4, <1>5, <1>6, Zenon

\* A message of that type is on its way unless it was the only one and is taken.
LEMMA SendsAppend ==
  ASSUME TypeInv, NEW l \in Seq(DownMsg), down' = down \o l, NEW t
  PROVE  /\ Sends(t)' <=> Sends(t) \/ \E i \in DOMAIN l : l[i].type = t
<1>1. down \in Seq(DownMsg)
  BY Zenon DEF TypeInv
<1>2. /\ Len(down) \in Nat /\ Len(l) \in Nat /\ Len(down') = Len(down) + Len(l)
      /\ DOMAIN down = 1..Len(down) /\ DOMAIN down' = 1..Len(down') /\ DOMAIN l = 1..Len(l)
      /\ \A i \in 1..Len(down') : down'[i] = IF i <= Len(down) THEN down[i] ELSE l[i - Len(down)]
  BY <1>1
<1>3. ASSUME NEW i \in DOMAIN down' PROVE \/ i \in DOMAIN down /\ down'[i] = down[i]
                                          \/ \E j \in DOMAIN l : down'[i] = l[j]
  <2>1. CASE i <= Len(down)
    BY <1>2, <2>1
  <2>2. CASE ~(i <= Len(down))
    <3>1. i - Len(down) \in DOMAIN l /\ down'[i] = l[i - Len(down)]
      BY <1>2, <2>2
    <3> QED
      BY <3>1
  <2> QED
    BY <2>1, <2>2
<1>4. ASSUME NEW i \in DOMAIN down PROVE i \in DOMAIN down' /\ down'[i] = down[i]
  BY <1>2
<1>5. ASSUME NEW j \in DOMAIN l PROVE \E i \in DOMAIN down' : down'[i] = l[j]
  <2>1. j + Len(down) \in DOMAIN down' /\ ~(j + Len(down) <= Len(down))
        /\ (j + Len(down)) - Len(down) = j
    BY <1>2
  <2>2. down'[j + Len(down)] = l[j]
    BY <1>2, <2>1
  <2> QED
    BY <2>1, <2>2
<1> QED
  BY <1>3, <1>4, <1>5, Zenon DEF Sends

\* One more message.
LEMMA SendsOne ==
  ASSUME TypeInv, NEW m \in DownMsg, down' = Append(down, m), NEW t
  PROVE  Sends(t)' <=> Sends(t) \/ m.type = t
<1>1. down \in Seq(DownMsg)
  BY Zenon DEF TypeInv
<1>2. down' = down \o <<m>> /\ <<m>> \in Seq(DownMsg) /\ DOMAIN <<m>> = {1} /\ <<m>>[1] = m
  BY <1>1
<1>3. Sends(t)' <=> Sends(t) \/ \E i \in DOMAIN <<m>> : <<m>>[i].type = t
  BY <1>2, SendsAppend, Zenon
<1> QED
  BY <1>2, <1>3

\* The next message is taken.
LEMMA SendsTail ==
  ASSUME TypeInv, down # <<>>, down' = Tail(down), NEW t
  PROVE  Sends(t) <=> Sends(t)' \/ Head(down).type = t
<1>1. down \in Seq(DownMsg)
  BY Zenon DEF TypeInv
<1>2. /\ Len(down) \in Nat /\ Len(down) >= 1 /\ Len(down') = Len(down) - 1
      /\ DOMAIN down = 1..Len(down) /\ DOMAIN down' = 1..Len(down') /\ Head(down) = down[1]
      /\ \A i \in 1..Len(down') : down'[i] = down[i + 1]
  BY <1>1
<1>3. ASSUME NEW i \in DOMAIN down' PROVE i + 1 \in DOMAIN down /\ down[i + 1] = down'[i]
  BY <1>2
<1>4. ASSUME NEW i \in DOMAIN down PROVE i = 1 \/ \E j \in DOMAIN down' : down'[j] = down[i]
  <2>1. CASE i # 1
    <3>1. i - 1 \in DOMAIN down' /\ (i - 1) + 1 = i
      BY <1>2, <2>1
    <3>2. down'[i - 1] = down[i]
      BY <1>2, <3>1
    <3> QED
      BY <3>1, <3>2
  <2> QED
    BY <2>1
<1>5. 1 \in DOMAIN down
  BY <1>2
<1>6. Sends(t) => Sends(t)' \/ Head(down).type = t
  BY <1>2, <1>4, Zenon DEF Sends
<1>7. Sends(t)' => Sends(t)
  BY <1>3, Zenon DEF Sends
<1>8. Head(down).type = t => Sends(t)
  BY <1>2, <1>5, Zenon DEF Sends
<1> QED
  BY <1>6, <1>7, <1>8, Zenon

\* The steps that leave the messages from the modules and the count of those linked.
LEMMA RoundSame ==
  ASSUME TypeInv, RoundInv, up' = up, num' = num \/ num' = 0, Sends("load") => Sends("load")',
         num' = 0 => num' = num \/ Sends("load")'
  PROVE  RoundInv'
<1>1. PICK p \in 0..Len(up), k \in 0..N : Round(p, k)
  BY Zenon DEF RoundInv
<1>2. num \in 0..N /\ N \in Nat
  BY Sizes, Zenon DEF TypeInv, TypeOK
<1>3. k < N => p = 0 /\ num' + k <= N
  BY <1>1, <1>2 DEF Round
<1>4. ~Sends("load")' => k = N \/ num' + k = N
  BY <1>1, Zenon DEF Round
<1>5. Round(p, k)'
  BY <1>1, <1>3, <1>4, Zenon DEF Round
<1> QED
  BY <1>1, <1>5, Zenon DEF RoundInv

\* The steps that take a message other than a link.
LEMMA RoundTaken ==
  ASSUME TypeInv, RoundInv, up # <<>>, up' = Tail(up), Head(up).type # "link", num' = num,
         Sends("load") => Sends("load")'
  PROVE  RoundInv'
<1>1. PICK p \in 0..Len(up), k \in 0..N : Round(p, k)
  BY Zenon DEF RoundInv
<1>2. p \in Nat /\ k \in Nat
  <2>1. up \in Seq(UpMsg)
    BY Zenon DEF TypeInv
  <2> QED
    BY <2>1
<1> DEFINE q == IF p >= 1 THEN p - 1 ELSE 0
<1>3. q \in Nat /\ (p = 0 => q = 0)
  BY <1>2
<1> HIDE DEF q
<1>4. /\ q \in 0..Len(up')
      /\ \A i \in DOMAIN up' : up'[i].type = "link" <=> i \in (q + 1)..(q + k)
      /\ \A i \in (q + 1)..(q + k) : i \in DOMAIN up' /\ up'[i].addr = q + k + 1 - i
  <2>1. IF Head(up).type = "link" THEN q = 0 /\ k = k - 1
        ELSE k = k /\ q = IF p >= 1 THEN p - 1 ELSE 0
    BY Zenon DEF q
  <2> QED
    BY <1>1, <1>2, <1>3, <2>1, RoundTail, Zenon
<1>5. k < N => q = 0 /\ num' + k <= N
  BY <1>1, <1>3, Zenon DEF Round
<1>6. ~Sends("load")' => k = N \/ num' + k = N
  BY <1>1, Zenon DEF Round
<1>7. Round(q, k)'
  BY <1>4, <1>5, <1>6, Zenon DEF Round
<1> QED
  BY <1>1, <1>4, <1>7, Zenon DEF RoundInv

\* The steps after which messages other than links follow.
LEMMA RoundLonger ==
  ASSUME TypeInv, RoundInv, NEW l \in Seq(UpMsg), up' = up \o l,
         \A i \in DOMAIN l : l[i].type # "link", num' = num, Sends("load") => Sends("load")'
  PROVE  RoundInv'
<1>1. PICK p \in 0..Len(up), k \in 0..N : Round(p, k)
  BY Zenon DEF RoundInv
<1>2. /\ p \in 0..Len(up')
      /\ \A i \in DOMAIN up' : up'[i].type = "link" <=> i \in (p + 1)..(p + k)
      /\ \A i \in (p + 1)..(p + k) : i \in DOMAIN up' /\ up'[i].addr = p + k + 1 - i
  BY <1>1, RoundAppend, Zenon
<1>3. Round(p, k)'
  BY <1>1, <1>2, Zenon DEF Round
<1> QED
  BY <1>1, <1>2, <1>3, Zenon DEF RoundInv

\* A link of the module that is next.
LEMMA RoundLink ==
  ASSUME TypeInv, RoundInv, Link
  PROVE  RoundInv' /\ num' \in 0..N /\ (Sends("load")' <=> Sends("load"))
<1> DEFINE a == Head(up).addr
<1>0. /\ up # <<>> /\ up' = Tail(up) /\ Head(up).type = "link"
      /\ num' = (IF a = N THEN 1 ELSE num + 1)
      /\ (IF a = 1 THEN down' = Append(down, Msg("req", 0, 0)) ELSE UNCHANGED down)
  BY Zenon DEF Link, Received, requestModulesData
<1>1. PICK p \in 0..Len(up), k \in 0..N : Round(p, k)
  BY Zenon DEF RoundInv
<1>2. num \in 0..N /\ N \in Nat /\ N >= 1
  BY Sizes, Zenon DEF TypeInv, TypeOK
<1>3. p = 0 /\ k >= 1 /\ a = k
  BY <1>0, <1>1, RoundHead, Zenon
<1> HIDE DEF a
<1>4. (Sends("load")' <=> Sends("load"))
  <2>1. CASE a = 1
    <3>1. Msg("req", 0, 0) \in DownMsg /\ Msg("req", 0, 0).type # "load"
      BY Messages DEF Msg
    <3>2. down' = Append(down, Msg("req", 0, 0))
      BY <1>0, <2>1
    <3> QED
      BY <3>1, <3>2, SendsOne, Zenon
  <2>2. CASE a # 1
    <3>1. down' = down
      BY <1>0, <2>2
    <3> QED
      BY <3>1, Zenon DEF Sends
  <2> QED
    BY <2>1, <2>2, Zenon
<1>5. k - 1 \in 0..N /\ k - 1 \in Nat
  BY <1>2, <1>3
<1>6. /\ 0 \in 0..Len(up')
      /\ \A i \in DOMAIN up' : up'[i].type = "link" <=> i \in (0 + 1)..(0 + (k - 1))
      /\ \A i \in (0 + 1)..(0 + (k - 1)) : i \in DOMAIN up' /\ up'[i].addr = 0 + (k - 1) + 1 - i
  <2> DEFINE r == k - 1
             q == 0
  <2>1. q \in Nat /\ r \in Nat
    BY <1>5
  <2>2. IF Head(up).type = "link" THEN q = 0 /\ r = k - 1
        ELSE r = k /\ q = IF p >= 1 THEN p - 1 ELSE 0
    BY <1>0, Zenon
  <2> HIDE DEF q, r
  <2>3. /\ q \in 0..Len(up')
        /\ \A i \in DOMAIN up' : up'[i].type = "link" <=> i \in (q + 1)..(q + r)
        /\ \A i \in (q + 1)..(q + r) : i \in DOMAIN up' /\ up'[i].addr = q + r + 1 - i
    BY <1>0, <1>1, <2>1, <2>2, RoundTail, Zenon
  <2> QED
    BY <2>3, Zenon DEF q, r
<1>7. k < N => num + k <= N
  BY <1>1, Zenon DEF Round
<1>8. k - 1 < N => 0 = 0 /\ num' + (k - 1) <= N
  BY <1>0, <1>2, <1>3, <1>7
<1>9. ~Sends("load")' => k - 1 = N \/ num' + (k - 1) = N
  <2>1. ~Sends("load") => k = N \/ num + k = N
    BY <1>1, Zenon DEF Round
  <2>2. num' + (k - 1) = (IF k = N THEN N ELSE num + k)
    BY <1>0, <1>2, <1>3
  <2>3. k = N \/ num + k = N => num' + (k - 1) = N
    BY <1>2, <2>2
  <2> QED
    BY <1>4, <2>1, <2>3, Zenon
<1>10. Round(0, k - 1)'
  BY <1>6, <1>8, <1>9, Zenon DEF Round
<1>11. num' \in 0..N
  BY <1>0, <1>2, <1>3, <1>7
<1> QED
  BY <1>4, <1>5, <1>6, <1>10, <1>11, Zenon DEF RoundInv

-----------------------------------------------------------------------------
(* Every step keeps the types and the round of links. *)

\* A step that only changes the lines, and those as it may.
LEMMA TypeRest ==
  ASSUME TypeInv, down' \in Seq(DownMsg), up' \in Seq(UpMsg),
         modules' \in [Addr -> Entry], num' \in 0..N, pop' \in BOOLEAN,
         timer' \in {"unset", "running", "elapsed"},
         load' \in [Addr -> Loads], reported' \in [Addr -> Loads], asked' \subseteq Addr,
         events' \in 0..MaxEvents,
         UNCHANGED <<sum, mcub, culprit, emerg, relay, told, cut>>
  PROVE  TypeInv'
BY Zenon DEF TypeInv, TypeOK

\* Every step keeps the types.
LEMMA TypeStep == ASSUME TypeInv, RoundInv, [Next]_vars PROVE TypeInv'
<1>0. TypeOK
  BY Zenon DEF TypeInv
<1>1. down \in Seq(DownMsg) /\ up \in Seq(UpMsg)
  BY Zenon DEF TypeInv
<1>2. /\ modules \in [Addr -> Entry] /\ num \in 0..N /\ events \in 0..MaxEvents
      /\ pop \in BOOLEAN /\ load \in [Addr -> Loads] /\ reported \in [Addr -> Loads]
      /\ asked \subseteq Addr /\ timer \in {"unset", "running", "elapsed"}
  BY <1>0, Zenon DEF TypeOK
<1>3. \A m \in DownMsg : Append(down, m) \in Seq(DownMsg)
  BY <1>1
<1>4. \A m \in UpMsg : Append(up, m) \in Seq(UpMsg)
  BY <1>1
<1>5. Msg("load", 0, 0) \in DownMsg /\ Msg("req", 0, 0) \in DownMsg
  BY Messages, Zenon
<1>6. Event => events' \in 0..MaxEvents
  BY <1>2, Sizes DEF Event
<1>7. up # <<>> => Tail(up) \in Seq(UpMsg) /\ Head(up).addr \in Addr
  BY Taken, Zenon
<1>8. ASSUME Link PROVE TypeInv'
  <2> DEFINE a == Head(up).addr
             e == [current |-> 0, priority |-> Min(Priorities), state |-> Head(up).value = 1]
  <2>1. /\ up # <<>> /\ up' = Tail(up)
        /\ modules' = [modules EXCEPT ![a] = e]
        /\ (down' = Append(down, Msg("req", 0, 0)) \/ down' = down)
        /\ UNCHANGED <<sum, mcub, culprit, emerg, timer, pop, chain, cut, events>>
    BY <1>8, Zenon DEF Link, Received, requestModulesData
  <2>2. e \in Entry
    BY LowestIn DEF Entry
  <2>3. modules' \in [Addr -> Entry]
    <3> HIDE DEF a, e
    <3> QED
      BY <1>2, <2>1, <2>2
  <2>4. num' \in 0..N
    BY <1>8, RoundLink, Zenon
  <2>5. down' \in Seq(DownMsg)
    BY <1>1, <1>3, <1>5, <2>1, Zenon
  <2> QED
    BY <1>2, <1>7, <2>1, <2>3, <2>4, <2>5, TypeRest, Zenon DEF chain
<1>9. ASSUME SwitchState PROVE TypeInv'
  <2> DEFINE a == Head(up).addr
             b == (Head(up).value = 1)
  <2>1. /\ up # <<>> /\ up' = Tail(up)
        /\ modules' = [modules EXCEPT ![a].state = b]
        /\ UNCHANGED <<num, sum, mcub, culprit, emerg, timer, pop, down, chain, cut, events>>
    BY <1>9, Zenon DEF SwitchState, Received
  <2>2. modules' \in [Addr -> Entry]
    <3>1. b \in BOOLEAN
      OBVIOUS
    <3> HIDE DEF a, b
    <3> QED
      BY <1>2, <2>1, <3>1 DEF Entry
  <2> QED
    BY <1>1, <1>2, <1>7, <2>1, <2>2, TypeRest, Zenon DEF chain
<1>10. ASSUME ReceiveCurrent PROVE TypeInv'
  BY <1>10, TypeReceiveCurrent
<1>11. ASSUME DivideByZero PROVE TypeInv'
  <2>1. /\ modules' = Unlinked /\ num' = 0 /\ sum' = 0 /\ mcub' = 0 /\ culprit' = 0
        /\ emerg' = FALSE /\ timer' = "unset" /\ cut' = FALSE
        /\ down' = <<Msg("load", 0, 0)>> /\ up' = <<>> /\ UNCHANGED <<pop, chain, events>>
    BY <1>11, Zenon DEF DivideByZero
  <2>2. Unlinked \in [Addr -> Entry]
    BY LowestIn DEF Unlinked, Entry
  <2>3. num' \in 0..N /\ sum' \in Nat /\ mcub' \in 0..MAX_CURRENT /\ culprit' \in 0..N
    BY <2>1, Sizes
  <2>4. down' \in Seq(DownMsg) /\ up' \in Seq(UpMsg)
    BY <1>5, <2>1
  <2>5. emerg' \in BOOLEAN /\ cut' \in BOOLEAN /\ timer' \in {"unset", "running", "elapsed"}
    BY <2>1
  <2>6. TypeOK'
    BY <1>0, <2>1, <2>2, <2>3, <2>5, Zenon DEF TypeOK, chain
  <2> QED
    BY <2>4, <2>6, Zenon DEF TypeInv
<1>12. ASSUME LiveCheckFails PROVE TypeInv'
  <2>1. /\ Event /\ num' = 0 /\ down' = Append(down, Msg("load", 0, 0))
        /\ UNCHANGED <<modules, sum, mcub, culprit, emerg, timer, pop, up, chain, cut>>
    BY <1>12, Zenon DEF LiveCheckFails
  <2>2. num' \in 0..N
    BY <2>1, Sizes
  <2> QED
    BY <1>1, <1>2, <1>3, <1>5, <1>6, <2>1, <2>2, TypeRest, Zenon DEF chain
<1>13. ASSUME DoModulesAction PROVE TypeInv'
  <2>1. PICK a \in Addr, act \in {"on", "off"} : down' = Append(down, Msg(act, a, 0))
    BY <1>13, Zenon DEF DoModulesAction
  <2>2. Event /\ UNCHANGED <<core, pop, up, chain, cut>>
    BY <1>13, Zenon DEF DoModulesAction
  <2>3. Msg(act, a, 0) \in DownMsg
    BY <2>1, Sizes DEF Msg, DownMsg, Addr
  <2> QED
    BY <1>1, <1>2, <1>3, <1>6, <2>1, <2>2, <2>3, TypeRest, Zenon DEF chain, core
<1>14. ASSUME Configure PROVE TypeInv'
  <2>1. /\ Event
        /\ \/ pop' = ~pop /\ UNCHANGED modules
           \/ \E a \in Addr, p \in Priorities :
                modules' = [modules EXCEPT ![a].priority = p] /\ UNCHANGED pop
        /\ UNCHANGED <<num, sum, mcub, culprit, emerg, timer, down, up, chain, cut>>
    BY <1>14, Zenon DEF Configure
  <2>2. modules' \in [Addr -> Entry]
    BY <1>2, <2>1 DEF Entry
  <2>3. pop' \in BOOLEAN
    BY <1>2, <2>1
  <2> QED
    BY <1>1, <1>2, <1>6, <2>1, <2>2, <2>3, TypeRest, Zenon DEF chain
<1>15. ASSUME Second PROVE TypeInv'
  <2>1. timer' \in {"unset", "running", "elapsed"}
    BY <1>15 DEF Second
  <2> QED
    BY <1>1, <1>2, <1>15, <2>1, TypeRest, Zenon DEF chain, Second
<1>16. ASSUME Deliver PROVE TypeInv'
  BY <1>16, TypeDeliver
<1>17. ASSUME LoadChanges PROVE TypeInv'
  <2>1. load' \in [Addr -> Loads]
    <3>1. PICK a \in Addr, l \in Loads : load' = [load EXCEPT ![a] = l]
      BY <1>17, Zenon DEF LoadChanges
    <3> QED
      BY <1>2, <3>1
  <2> QED
    BY <1>1, <1>2, <1>6, <1>17, <2>1, TypeRest, Zenon DEF core, LoadChanges
<1>18. ASSUME NEW a \in Addr, Report(a) PROVE TypeInv'
  <2>1. /\ up' = Append(up, Msg("current", a, Draw(a)))
        /\ reported' = [reported EXCEPT ![a] = Draw(a)] /\ asked' = asked \ {a}
        /\ (UNCHANGED events \/ Event)
        /\ UNCHANGED <<core, pop, down, load, relay, told, cut>>
    BY <1>18, Zenon DEF Report
  <2>2. Draw(a) \in Loads
    BY <1>0, DrawIn, Zenon
  <2>3. Msg("current", a, Draw(a)) \in UpMsg
    BY <2>2, Messages, Zenon
  <2>4. reported' \in [Addr -> Loads] /\ asked' \subseteq Addr
    BY <1>2, <2>1, <2>2
  <2>5. events' \in 0..MaxEvents
    BY <1>2, <1>6, <2>1
  <2> QED
    BY <1>1, <1>2, <1>4, <2>1, <2>3, <2>4, <2>5, TypeRest, Zenon DEF core
<1>19. ASSUME UNCHANGED vars PROVE TypeInv'
  BY <1>1, <1>2, <1>19, TypeRest, Zenon DEF vars, core, chain
<1> QED
  BY <1>8, <1>9, <1>10, <1>11, <1>12, <1>13, <1>14, <1>15, <1>16, <1>17, <1>18, <1>19, Zenon
     DEF Next, UartStep

\* A round that begins is at the end of the line, with a link for every module.
LEMMA RoundBegins ==
  ASSUME TypeInv, ~Linking, num' = num,
         up' = up \o [i \in Addr |-> Msg("link", N + 1 - i, OnOff(relay[N + 1 - i]))]
  PROVE  RoundInv'
<1> DEFINE l == [i \in Addr |-> Msg("link", N + 1 - i, OnOff(relay[N + 1 - i]))]
<1>0. PICK p \in Nat : p = Len(up)
  <2>1. up \in Seq(UpMsg)
    BY Zenon DEF TypeInv
  <2> QED
    BY <2>1
<1>1. up \in Seq(UpMsg) /\ N \in Nat /\ num \in 0..N
  BY Sizes, Zenon DEF TypeInv, TypeOK
<1>2. \A i \in 1..N : l[i].type = "link" /\ l[i].addr = N + 1 - i
  BY DEF Msg, Addr
<1>3. l \in Seq(UpMsg) /\ Len(l) = N
  <2>1. \A i \in Addr : N + 1 - i \in Addr
    BY Sizes DEF Addr
  <2>2. relay \in [Addr -> BOOLEAN]
    BY Zenon DEF TypeInv, TypeOK
  <2>3. \A i \in Addr : Msg("link", N + 1 - i, OnOff(relay[N + 1 - i])) \in UpMsg
    BY <2>1, <2>2, Messages
  <2>4. l \in [1..N -> UpMsg]
    BY <2>3 DEF Addr
  <2> QED
    BY <1>1, <2>4
<1> HIDE DEF l
<1>4. /\ p \in Nat /\ DOMAIN up = 1..p /\ Len(up') = p + N /\ DOMAIN up' = 1..(p + N)
      /\ \A i \in 1..(p + N) : up'[i] = IF i <= p THEN up[i] ELSE l[i - p]
  <2>1. up' = up \o l
    BY Zenon DEF l
  <2>2. /\ Len(up \o l) = Len(up) + Len(l)
        /\ DOMAIN up = 1..Len(up) /\ DOMAIN (up \o l) = 1..(Len(up) + Len(l))
        /\ \A i \in 1..(Len(up) + Len(l)) :
             (up \o l)[i] = IF i <= Len(up) THEN up[i] ELSE l[i - Len(up)]
    BY <1>1, <1>3, Joined, Zenon
  <2> QED
    BY <1>0, <1>3, <2>1, <2>2, Zenon
<1>5. \A i \in 1..p : up[i].type # "link"
  BY <1>4, Zenon DEF Linking
<1>6. \A i \in DOMAIN up' : up'[i].type = "link" <=> i \in (p + 1)..(p + N)
  <2> SUFFICES ASSUME NEW i \in DOMAIN up'
               PROVE  up'[i].type = "link" <=> i \in (p + 1)..(p + N)
    OBVIOUS
  <2>1. CASE i <= p
    BY <1>1, <1>4, <1>5, <2>1
  <2>2. CASE ~(i <= p)
    <3>0. i \in 1..(p + N)
      BY <1>4
    <3>1. i - p \in 1..N /\ i \in (p + 1)..(p + N)
      BY <1>1, <2>2, <3>0
    <3>2. up'[i] = l[i - p]
      BY <1>4, <2>2, <3>0
    <3> QED
      BY <1>2, <3>1, <3>2
  <2> QED
    BY <2>1, <2>2
<1>7. \A i \in (p + 1)..(p + N) : i \in DOMAIN up' /\ up'[i].addr = p + N + 1 - i
  <2> SUFFICES ASSUME NEW i \in (p + 1)..(p + N)
               PROVE  i \in DOMAIN up' /\ up'[i].addr = p + N + 1 - i
    OBVIOUS
  <2>1. i - p \in 1..N /\ ~(i <= p) /\ i \in 1..(p + N) /\ N + 1 - (i - p) = p + N + 1 - i
    BY <1>1, <1>4
  <2>2. up'[i] = l[i - p] /\ l[i - p].addr = N + 1 - (i - p)
    BY <1>2, <1>4, <2>1
  <2> QED
    BY <1>4, <2>1, <2>2
<1>8. p \in 0..Len(up') /\ N \in 0..N /\ ~(N < N)
  BY <1>1, <1>4
<1>9. Round(p, N)'
  BY <1>6, <1>7, <1>8, Zenon DEF Round
<1> QED
  BY <1>8, <1>9, Zenon DEF RoundInv

\* Nothing is linked at the start, and a round has been asked for.
LEMMA RoundInit == ASSUME Init PROVE RoundInv
<1>1. up = <<>> /\ down = <<Msg("load", 0, 0)>> /\ num = 0
  BY Zenon DEF Init
<1>2. Sends("load")
  BY <1>1 DEF Sends, Msg
<1>3. Round(0, 0)
  <2>1. DOMAIN up = {} /\ \A i : i \notin (0 + 1)..(0 + 0)
    BY <1>1
  <2>2. num + 0 <= N
    BY <1>1, Sizes
  <2> QED
    BY <1>2, <2>1, <2>2, Zenon DEF Round
<1>4. 0 \in 0..Len(up) /\ 0 \in 0..N
  BY <1>1, Sizes
<1> QED
  BY <1>3, <1>4, Zenon DEF RoundInv

\* A restart of the core throws away what was on the line and asks for a round.
LEMMA RoundRestart ==
  ASSUME up' = <<>>, down' = <<Msg("load", 0, 0)>>, num' = 0
  PROVE  RoundInv'
<1>2. Sends("load")'
  BY DEF Sends, Msg
<1>3. Round(0, 0)'
  <2>1. DOMAIN up' = {} /\ \A i : i \notin (0 + 1)..(0 + 0)
    OBVIOUS
  <2>2. num' + 0 <= N
    BY Sizes
  <2> QED
    BY <1>2, <2>1, <2>2, Zenon DEF Round
<1>4. 0 \in 0..Len(up') /\ 0 \in 0..N
  BY Sizes
<1> QED
  BY <1>3, <1>4, Zenon DEF RoundInv

\* Every step keeps the round in order.
LEMMA RoundStep == ASSUME TypeInv, RoundInv, [Next]_vars PROVE RoundInv'
<1>1. ASSUME UNCHANGED down PROVE Sends("load") => Sends("load")'
  BY <1>1, Zenon DEF Sends
<1>2. ASSUME NEW m \in DownMsg, down' = Append(down, m) PROVE Sends("load") => Sends("load")'
  BY <1>2, SendsOne, Zenon
<1>3. num \in 0..N
  BY Zenon DEF TypeInv, TypeOK
<1>8. ASSUME Link PROVE RoundInv'
  BY <1>8, RoundLink, Zenon
<1>9. ASSUME SwitchState PROVE RoundInv'
  <2>1. /\ up # <<>> /\ up' = Tail(up) /\ Head(up).type # "link"
        /\ num' = num /\ UNCHANGED down
    BY <1>9 DEF SwitchState, Received
  <2> QED
    BY <1>1, <2>1, RoundTaken, Zenon
<1>10. ASSUME ReceiveCurrent PROVE RoundInv'
  <2>1. /\ up # <<>> /\ up' = Tail(up) /\ Head(up).type = "current" /\ num' = num
        /\ \E l \in Seq(DownMsg) : down' = down \o l
    BY <1>10, ReceiveCurrentEffect, Zenon
  <2>2. Head(up).type # "link"
    BY <2>1
  <2>3. Sends("load") => Sends("load")'
    BY <2>1, SendsAppend, Zenon
  <2> QED
    BY <2>1, <2>2, <2>3, RoundTaken, Zenon
<1>11. ASSUME DivideByZero PROVE RoundInv'
  BY <1>11, RoundRestart, Zenon DEF DivideByZero
<1>12. ASSUME LiveCheckFails PROVE RoundInv'
  <2>1. up' = up /\ num' = 0 /\ down' = Append(down, Msg("load", 0, 0))
    BY <1>12, Zenon DEF LiveCheckFails
  <2>2. Msg("load", 0, 0) \in DownMsg /\ Msg("load", 0, 0).type = "load"
    BY Messages DEF Msg
  <2>3. Sends("load")'
    BY <2>1, <2>2, SendsOne, Zenon
  <2> QED
    BY <2>1, <2>3, RoundSame, Zenon
<1>13. ASSUME DoModulesAction PROVE RoundInv'
  <2>1. PICK a \in Addr, act \in {"on", "off"} : down' = Append(down, Msg(act, a, 0))
    BY <1>13, Zenon DEF DoModulesAction
  <2>2. up' = up /\ num' = num
    BY <1>13, Zenon DEF DoModulesAction, core
  <2>3. Msg(act, a, 0) \in DownMsg
    BY <2>1, Sizes DEF Msg, DownMsg, Addr
  <2> QED
    BY <1>2, <2>1, <2>2, <2>3, RoundSame, Zenon
<1>14. ASSUME Configure \/ Second PROVE RoundInv'
  <2>1. up' = up /\ num' = num /\ UNCHANGED down
    BY <1>14, Zenon DEF Configure, Second
  <2> QED
    BY <1>1, <2>1, RoundSame, Zenon
<1>15. ASSUME Deliver PROVE RoundInv'
  <2>1. down # <<>> /\ down' = Tail(down) /\ num' = num
    BY <1>15, DeliverEffect, Zenon DEF core
  <2>2. CASE /\ ~Linking
             /\ up' = up \o [i \in Addr |-> Msg("link", N + 1 - i, OnOff(relay[N + 1 - i]))]
    BY <2>1, <2>2, RoundBegins, Zenon
  <2>3. ASSUME Head(down).type # "load" PROVE Sends("load") => Sends("load")'
    BY <2>1, <2>3, SendsTail, Zenon
  <2>4. CASE Head(down).type \in {"req", "mcub"} /\ up' = up
    <3>1. Head(down).type # "load"
      BY <2>4
    <3> QED
      BY <2>1, <2>3, <2>4, <3>1, RoundSame, Zenon
  <2>5. CASE /\ Head(down).type \in {"on", "off"}
             /\ \E l \in Seq(UpMsg) : /\ up' = up \o l
                                      /\ \A i \in DOMAIN l : l[i].type = "switch"
    <3>1. Head(down).type # "load"
      BY <2>5
    <3>2. PICK l \in Seq(UpMsg) : up' = up \o l /\ \A i \in DOMAIN l : l[i].type # "link"
      BY <2>5
    <3> QED
      BY <2>1, <2>3, <3>1, <3>2, RoundLonger, Zenon
  <2>6. \/ /\ Head(down).type = "load" /\ ~Linking
           /\ up' = up \o [i \in Addr |-> Msg("link", N + 1 - i, OnOff(relay[N + 1 - i]))]
        \/ /\ Head(down).type = "req" /\ up' = up
        \/ /\ Head(down).type = "mcub" /\ up' = up
        \/ /\ Head(down).type \in {"on", "off"}
           /\ \E l \in Seq(UpMsg) : /\ up' = up \o l
                                    /\ \A i \in DOMAIN l : l[i].type = "switch"
    BY <1>15, DeliverEffect, Zenon
  <2> QED
    BY <2>2, <2>4, <2>5, <2>6, Zenon
<1>16. ASSUME LoadChanges \/ UNCHANGED vars PROVE RoundInv'
  <2>1. up' = up /\ num' = num /\ UNCHANGED down
    BY <1>16, Zenon DEF LoadChanges, vars, core
  <2> QED
    BY <1>1, <2>1, RoundSame, Zenon
<1>17. ASSUME NEW a \in Addr, Report(a) PROVE RoundInv'
  <2>1. up' = Append(up, Msg("current", a, Draw(a))) /\ num' = num /\ UNCHANGED down
    BY <1>17, Zenon DEF Report, core
  <2>2. Draw(a) \in Loads
    BY DrawIn, Zenon DEF TypeInv
  <2>3. Msg("current", a, Draw(a)) \in UpMsg /\ Msg("current", a, Draw(a)).type # "link"
    BY <2>2, Messages DEF Msg
  <2> DEFINE m == Msg("current", a, Draw(a))
             l == <<m>>
  <2>4. up \in Seq(UpMsg) /\ m \in UpMsg
    BY <2>3, Zenon DEF TypeInv
  <2> HIDE DEF m
  <2>5. l \in Seq(UpMsg) /\ up' = up \o l /\ \A i \in DOMAIN l : l[i] = m
    BY <2>1, <2>4 DEF m
  <2> HIDE DEF l
  <2>6. \A i \in DOMAIN l : l[i].type # "link"
    BY <2>3, <2>5, Zenon DEF m
  <2> QED
    BY <1>1, <2>1, <2>5, <2>6, RoundLonger, Zenon
<1> QED
  BY <1>8, <1>9, <1>10, <1>11, <1>12, <1>13, <1>14, <1>15, <1>16, <1>17, Zenon
     DEF Next, UartStep

-----------------------------------------------------------------------------
(* The limit, and who exceeded it *)

\* An emergency is a sum above the limit, and a rise that need not be reported fits
\* below the limit by itself.
LimitInv == /\ emerg = (sum > MAX_CURRENT)
            /\ sum <= MAX_CURRENT => mcub <= MAX_CURRENT - sum

\* At the start nothing is granted.
LEMMA LimitInit == ASSUME Init PROVE LimitInv
<1>1. sum = 0 /\ mcub = 0 /\ emerg = FALSE
  BY Zenon DEF Init
<1>2. (0 > MAX_CURRENT) = FALSE /\ 0 <= MAX_CURRENT - 0
  BY Sizes
<1> QED
  BY <1>1, <1>2, Zenon DEF LimitInv

\* Every step keeps the limit.
LEMMA LimitStep == ASSUME TypeInv, LimitInv, [Next]_vars PROVE LimitInv'
<1>1. CASE UNCHANGED <<sum, mcub, emerg>>
  BY <1>1, Zenon DEF LimitInv
<1>2. CASE ReceiveCurrent
  <2>1. /\ num \in 1..N /\ sum' \in Nat /\ mcub' = Share(sum')
        /\ emerg' = (sum' > MAX_CURRENT)
    BY <1>2, ReceiveCurrentEffect, Zenon
  <2>2. sum' <= MAX_CURRENT => Share(sum') <= MAX_CURRENT - sum'
    BY <2>1, ShareBound, Zenon
  <2> QED
    BY <2>1, <2>2, Zenon DEF LimitInv
<1>3. CASE DivideByZero
  <2>1. sum' = 0 /\ mcub' = 0 /\ emerg' = FALSE
    BY <1>3, Zenon DEF DivideByZero
  <2>2. (0 > MAX_CURRENT) = FALSE /\ 0 <= MAX_CURRENT - 0
    BY Sizes
  <2> QED
    BY <2>1, <2>2, Zenon DEF LimitInv
<1>4. \/ ReceiveCurrent \/ DivideByZero \/ UNCHANGED <<sum, mcub, emerg>>
  BY Zenon DEF Next, UartStep, Link, SwitchState, LiveCheckFails, DoModulesAction, Configure,
     Second, Deliver, LoadChanges, Report, core, vars
<1> QED
  BY <1>1, <1>2, <1>3, <1>4, Zenon

\* Without POP, the report that begins an emergency is that of the module it turns off.
LEMMA CulpritStep ==
  ASSUME TypeInv, LimitInv, ReceiveCurrent, emerg', ~emerg, ~pop, sum = SumOf(modules)
  PROVE  culprit' = Head(up).addr
<1> DEFINE a == Head(up).addr
           v == Head(up).value
           S == 1..num
           f == [b \in S |-> modules[b].current]
           e == [b \in S |-> modules'[b].current]
           x == SumOf(modules)
           y == SumOf(modules')
<1>1. /\ num \in 1..N /\ a \in Addr /\ v \in Loads
      /\ modules' = [modules EXCEPT ![a].current = v]
      /\ sum' = y /\ sum' \in Nat /\ emerg' = (sum' > MAX_CURRENT)
  BY ReceiveCurrentEffect, Zenon
<1>2. culprit' = Suspect(a, v)
  BY Zenon DEF ReceiveCurrent, overloadProtectionCheck
<1>3. /\ modules \in [Addr -> Entry] /\ sum \in Nat /\ mcub \in 0..MAX_CURRENT
  BY Zenon DEF TypeInv, TypeOK
<1>4. S \subseteq Addr /\ num \in Nat /\ IsFiniteSet(S) /\ v \in Nat
  <2>1. num \in Nat /\ num \in Int /\ num <= N /\ 1 \in Int
    BY <1>1, Sizes
  <2>2. IsFiniteSet(S)
    BY <2>1, FS_Interval, Zenon
  <2>3. S \subseteq Addr
    BY <2>1, Sizes DEF Addr
  <2>4. v \in Nat
    BY <1>1, Sizes
  <2> QED
    BY <2>1, <2>2, <2>3, <2>4, Zenon
<1>5. Differs(f, e, S, a, v)
  <2> HIDE DEF a, v, S
  <2>1. \A b \in Addr : /\ modules[b].current \in Nat
                        /\ modules'[b].current = IF b = a THEN v ELSE modules[b].current
    BY <1>1, <1>3 DEF Entry
  <2> QED
    BY <1>4, <2>1 DEF Differs
<1>6. Total(f, S, x) /\ Total(e, S, y)
  BY <1>4, SumOfIs, Zenon
<1>7. modules[a].current \in Nat /\ (a \in S => f[a] = modules[a].current)
  BY <1>1, <1>3 DEF Entry
<1> HIDE DEF a, v, S, f, e, x, y
<1>8. x \in Nat /\ (a \in S => y = x - f[a] + v) /\ (a \notin S => y = x)
  <2>1. Moved(x, y, f, S, a, v)
    BY <1>4, <1>5, <1>6, TotalChange, Zenon
  <2> QED
    BY <2>1, Zenon DEF Moved
<1>9. x = sum
  BY Zenon DEF x
<1>10. sum <= MAX_CURRENT /\ mcub <= MAX_CURRENT - sum /\ sum' > MAX_CURRENT
  <2>1. ~(sum > MAX_CURRENT)
    BY Zenon DEF LimitInv
  <2>2. sum <= MAX_CURRENT
    BY <1>3, <2>1, Sizes
  <2> QED
    BY <1>1, <2>2, Zenon DEF LimitInv
<1>11. a \in S
  BY <1>1, <1>3, <1>8, <1>9, <1>10, Sizes
<1>12. v >= modules[a].current + mcub
  <2>1. sum' = sum - modules[a].current + v
    BY <1>1, <1>7, <1>8, <1>9, <1>11, Zenon
  <2>2. mcub \in Nat /\ MAX_CURRENT \in Nat
    BY <1>3, Sizes
  <2> QED
    BY <1>3, <1>4, <1>7, <1>10, <2>1, <2>2
<1> QED
  BY <1>2, <1>12, Zenon DEF Suspect, a

-----------------------------------------------------------------------------
(* Reports under way *)

\* A report of that module is on its way to the core.
Coming(a) == \E i \in DOMAIN up : up[i].type = "current" /\ up[i].addr = a

\* Of each module there is one report under way at most, and it is its last one.
ReportInv ==
  \A i \in DOMAIN up : up[i].type = "current" =>
    /\ up[i].value = reported[up[i].addr]
    /\ \A j \in DOMAIN up : up[j].type = "current" /\ up[j].addr = up[i].addr => j = i

\* The positions of what is left when a message is taken.
LEMMA UpTail ==
  ASSUME TypeInv, up # <<>>, up' = Tail(up)
  PROVE  /\ 1 \in DOMAIN up /\ Head(up) = up[1]
         /\ \A i \in DOMAIN up' : i \in Nat /\ i + 1 \in DOMAIN up /\ up'[i] = up[i + 1]
         /\ \A i \in DOMAIN up : i # 1 => i - 1 \in DOMAIN up' /\ up'[i - 1] = up[i]
<1>1. up \in Seq(UpMsg)
  BY Zenon DEF TypeInv
<1>2. /\ Len(up) \in Nat /\ Len(up) >= 1 /\ Len(up') = Len(up) - 1
      /\ DOMAIN up = 1..Len(up) /\ DOMAIN up' = 1..Len(up') /\ Head(up) = up[1]
      /\ \A i \in 1..Len(up') : up'[i] = up[i + 1]
  BY <1>1
<1>3. ASSUME NEW i \in DOMAIN up, i # 1 PROVE i - 1 \in DOMAIN up' /\ up'[i - 1] = up[i]
  <2>1. i - 1 \in DOMAIN up' /\ (i - 1) + 1 = i
    BY <1>2, <1>3
  <2>2. up'[i - 1] = up[(i - 1) + 1]
    BY <1>2, <2>1, Zenon
  <2> QED
    BY <2>1, <2>2
<1>4. ASSUME NEW i \in DOMAIN up' PROVE i \in Nat /\ i + 1 \in DOMAIN up /\ up'[i] = up[i + 1]
  BY <1>2
<1>5. 1 \in DOMAIN up
  BY <1>2
<1> QED
  BY <1>2, <1>3, <1>4, <1>5, Zenon

\* The positions when messages follow.
LEMMA UpLonger ==
  ASSUME TypeInv, NEW l \in Seq(UpMsg), up' = up \o l
  PROVE  /\ \A i \in DOMAIN up' : \/ i \in DOMAIN up /\ up'[i] = up[i]
                                  \/ \E j \in DOMAIN l : up'[i] = l[j]
         /\ \A i \in DOMAIN up : i \in DOMAIN up' /\ up'[i] = up[i]
<1>1. up \in Seq(UpMsg)
  BY Zenon DEF TypeInv
<1>2. /\ Len(up) \in Nat /\ Len(l) \in Nat /\ DOMAIN up = 1..Len(up) /\ DOMAIN l = 1..Len(l)
      /\ DOMAIN up' = 1..(Len(up) + Len(l))
      /\ \A i \in 1..(Len(up) + Len(l)) : up'[i] = IF i <= Len(up) THEN up[i] ELSE l[i - Len(up)]
  BY <1>1, Joined
<1>3. ASSUME NEW i \in DOMAIN up' PROVE \/ i \in DOMAIN up /\ up'[i] = up[i]
                                        \/ \E j \in DOMAIN l : up'[i] = l[j]
  <2>1. CASE i <= Len(up)
    BY <1>2, <2>1
  <2>2. CASE ~(i <= Len(up))
    <3>1. i - Len(up) \in DOMAIN l /\ up'[i] = l[i - Len(up)]
      BY <1>2, <2>2
    <3> QED
      BY <3>1
  <2> QED
    BY <2>1, <2>2
<1>4. ASSUME NEW i \in DOMAIN up PROVE i \in DOMAIN up' /\ up'[i] = up[i]
  BY <1>2
<1> QED
  BY <1>3, <1>4, Zenon

\* When a message is taken the others remain what they are.
LEMMA ReportTaken ==
  ASSUME TypeInv, ReportInv, up # <<>>, up' = Tail(up), UNCHANGED reported
  PROVE  ReportInv'
<1> SUFFICES ASSUME NEW i \in DOMAIN up', up'[i].type = "current"
             PROVE  /\ up'[i].value = reported'[up'[i].addr]
                    /\ \A j \in DOMAIN up' :
                         up'[j].type = "current" /\ up'[j].addr = up'[i].addr => j = i
  BY Zenon DEF ReportInv
<1>1. i \in Nat /\ i + 1 \in DOMAIN up /\ up'[i] = up[i + 1]
  BY UpTail, Zenon
<1>2. /\ up[i + 1].value = reported[up[i + 1].addr]
      /\ \A j \in DOMAIN up : up[j].type = "current" /\ up[j].addr = up[i + 1].addr => j = i + 1
  BY <1>1, Zenon DEF ReportInv
<1>3. ASSUME NEW j \in DOMAIN up', up'[j].type = "current", up'[j].addr = up'[i].addr
      PROVE  j = i
  <2>1. j \in Nat /\ j + 1 \in DOMAIN up /\ up'[j] = up[j + 1]
    BY UpTail, Zenon
  <2>2. j + 1 = i + 1
    BY <1>1, <1>2, <1>3, <2>1, Zenon
  <2> QED
    BY <1>1, <2>1, <2>2
<1> QED
  BY <1>1, <1>2, <1>3, Zenon

\* Messages of other kinds may follow.
LEMMA ReportLonger ==
  ASSUME TypeInv, ReportInv, NEW l \in Seq(UpMsg), up' = up \o l,
         \A i \in DOMAIN l : l[i].type # "current", UNCHANGED reported
  PROVE  ReportInv'
<1>1. ASSUME NEW i \in DOMAIN up', up'[i].type = "current"
      PROVE  i \in DOMAIN up /\ up'[i] = up[i]
  <2>1. \/ i \in DOMAIN up /\ up'[i] = up[i]
        \/ \E j \in DOMAIN l : up'[i] = l[j]
    BY UpLonger, Zenon
  <2>2. \A j \in DOMAIN l : up'[i] # l[j]
    BY <1>1
  <2> QED
    BY <2>1, <2>2, Zenon
<1> SUFFICES ASSUME NEW i \in DOMAIN up', up'[i].type = "current"
             PROVE  /\ up'[i].value = reported'[up'[i].addr]
                    /\ \A j \in DOMAIN up' :
                         up'[j].type = "current" /\ up'[j].addr = up'[i].addr => j = i
  BY Zenon DEF ReportInv
<1>2. i \in DOMAIN up /\ up'[i] = up[i]
  BY <1>1, Zenon
<1>3. /\ up[i].value = reported[up[i].addr]
      /\ \A j \in DOMAIN up : up[j].type = "current" /\ up[j].addr = up[i].addr => j = i
  BY <1>2, Zenon DEF ReportInv
<1>4. ASSUME NEW j \in DOMAIN up', up'[j].type = "current", up'[j].addr = up'[i].addr
      PROVE  j = i
  <2>1. j \in DOMAIN up /\ up'[j] = up[j]
    BY <1>1, <1>4, Zenon
  <2> QED
    BY <1>2, <1>3, <1>4, <2>1, Zenon
<1> QED
  BY <1>2, <1>3, <1>4, Zenon

\* A module that reports has no report under way.
LEMMA ReportReport == ASSUME TypeInv, ReportInv, NEW a \in Addr, Report(a) PROVE ReportInv'
<1> DEFINE m == Msg("current", a, Draw(a))
<1>1. /\ \A i \in DOMAIN up : up[i].addr # a \/ up[i].type # "current"
      /\ up' = Append(up, m)
      /\ reported' = [reported EXCEPT ![a] = Draw(a)]
  BY Zenon DEF Report
<1>2. up \in Seq(UpMsg) /\ reported \in [Addr -> Loads]
  BY Zenon DEF TypeInv, TypeOK
<1>3. m.type = "current" /\ m.addr = a /\ m.value = Draw(a) /\ m \in UpMsg
  <2>1. Draw(a) \in Loads
    BY DrawIn, Zenon DEF TypeInv
  <2>2. m \in UpMsg
    BY <2>1, Messages, Zenon
  <2> QED
    BY <2>2 DEF Msg
<1>4. \A i \in DOMAIN up : up[i].addr \in Addr
  <2>1. \A x \in UpMsg : x.addr \in Addr
    BY DEF UpMsg
  <2> QED
    BY <1>2, <2>1
<1> HIDE DEF m
<1>5. \A i \in DOMAIN up' : \/ i \in DOMAIN up /\ up'[i] = up[i]
                            \/ i = Len(up) + 1 /\ up'[i] = m
  <2>1. \A i \in DOMAIN Append(up, m) : \/ i \in DOMAIN up /\ Append(up, m)[i] = up[i]
                                        \/ i = Len(up) + 1 /\ Append(up, m)[i] = m
    BY <1>2, <1>3, Longer, Zenon
  <2>2. up' = Append(up, m)
    BY <1>1, Zenon
  <2> QED
    BY <2>1, <2>2
<1>6. reported'[a] = Draw(a) /\ \A b \in Addr : b # a => reported'[b] = reported[b]
  BY <1>1, <1>2
<1> SUFFICES ASSUME NEW i \in DOMAIN up', up'[i].type = "current"
             PROVE  /\ up'[i].value = reported'[up'[i].addr]
                    /\ \A j \in DOMAIN up' :
                         up'[j].type = "current" /\ up'[j].addr = up'[i].addr => j = i
  BY Zenon DEF ReportInv
<1>7. CASE i \in DOMAIN up /\ up'[i] = up[i]
  <2>1. /\ up[i].value = reported[up[i].addr] /\ up[i].addr # a /\ up[i].addr \in Addr
        /\ \A j \in DOMAIN up : up[j].type = "current" /\ up[j].addr = up[i].addr => j = i
    BY <1>1, <1>4, <1>7, Zenon DEF ReportInv
  <2> QED
    BY <1>3, <1>5, <1>6, <1>7, <2>1, Zenon
<1>8. CASE i = Len(up) + 1 /\ up'[i] = m
  BY <1>1, <1>3, <1>5, <1>6, <1>8, Zenon
<1> QED
  BY <1>5, <1>7, <1>8, Zenon

\* Every step keeps the reports in order.
LEMMA ReportStep == ASSUME TypeInv, ReportInv, [Next]_vars PROVE ReportInv'
<1>1. CASE UNCHANGED <<up, reported>>
  BY <1>1, Zenon DEF ReportInv
<1>2. CASE Link \/ SwitchState \/ ReceiveCurrent
  <2>1. up # <<>> /\ up' = Tail(up) /\ UNCHANGED reported
    BY <1>2, Zenon DEF Link, SwitchState, ReceiveCurrent, Received, chain
  <2> QED
    BY <2>1, ReportTaken, Zenon
<1>3. CASE DivideByZero
  <2>1. DOMAIN up' = {}
    BY <1>3 DEF DivideByZero
  <2> QED
    BY <2>1, Zenon DEF ReportInv
<1>4. CASE Deliver
  <2>1. UNCHANGED reported
    BY <1>4, DeliverEffect, Zenon
  <2>2. \/ up' = up
        \/ \E l \in Seq(UpMsg) : up' = up \o l /\ \A i \in DOMAIN l : l[i].type # "current"
    <3>1. CASE up' = up \o [i \in Addr |-> Msg("link", N + 1 - i, OnOff(relay[N + 1 - i]))]
      <4> DEFINE l == [i \in Addr |-> Msg("link", N + 1 - i, OnOff(relay[N + 1 - i]))]
      <4>1. l \in Seq(UpMsg)
        <5>1. \A i \in Addr : N + 1 - i \in Addr
          BY Sizes DEF Addr
        <5>2. relay \in [Addr -> BOOLEAN]
          BY Zenon DEF TypeInv, TypeOK
        <5>3. \A i \in Addr : Msg("link", N + 1 - i, OnOff(relay[N + 1 - i])) \in UpMsg
          BY <5>1, <5>2, Messages
        <5>4. l \in [1..N -> UpMsg]
          BY <5>3 DEF Addr
        <5> QED
          BY <5>4, Sizes
      <4>2. \A i \in DOMAIN l : l[i].type # "current"
        BY DEF Msg
      <4>3. up' = up \o l
        BY <3>1, Zenon
      <4> HIDE DEF l
      <4> QED
        BY <4>1, <4>2, <4>3, Zenon
    <3>2. CASE \E l \in Seq(UpMsg) : up' = up \o l /\ \A i \in DOMAIN l : l[i].type = "switch"
      BY <3>2
    <3>3. \/ up' = up
          \/ up' = up \o [i \in Addr |-> Msg("link", N + 1 - i, OnOff(relay[N + 1 - i]))]
          \/ \E l \in Seq(UpMsg) : up' = up \o l /\ \A i \in DOMAIN l : l[i].type = "switch"
      BY <1>4, DeliverEffect, Zenon
    <3> QED
      BY <3>1, <3>2, <3>3, Zenon
  <2> QED
    BY <1>1, <2>1, <2>2, ReportLonger, Zenon
<1>5. ASSUME NEW a \in Addr, Report(a) PROVE ReportInv'
  BY <1>5, ReportReport, Zenon
<1>6. CASE LiveCheckFails \/ DoModulesAction \/ Configure \/ Second \/ LoadChanges \/ UNCHANGED vars
  <2>1. UNCHANGED <<up, reported>>
    BY <1>6, Zenon DEF LiveCheckFails, DoModulesAction, Configure, Second, LoadChanges, vars, chain
  <2> QED
    BY <1>1, <2>1, Zenon
<1> QED
  BY <1>2, <1>3, <1>4, <1>5, <1>6, Zenon DEF Next, UartStep

-----------------------------------------------------------------------------
(* What the core knows when no round is under way *)

\* No round of links was asked for or is under way.
Linked == ~Sends("load") /\ ~Linking

\* The module was asked for its current, or is about to be, or its answer is on its way.
Awaited(a) == Sends("req") \/ a \in asked \/ Coming(a)

\* The currents the core has.
Currents == [a \in Addr |-> modules[a].current]

\* What the modules were told last, or will be told last, is mcub.
Promised ==
  /\ \A i \in DOMAIN down :
       down[i].type = "mcub" /\ (\A j \in DOMAIN down : j > i => down[j].type # "mcub")
         => down[i].value = mcub
  /\ ~Sends("mcub") => \A a \in Addr : told[a] = mcub

\* The sum is that of the currents the core has, the shares of all modules fit below
\* the limit, and they are or will be told them.
Known == /\ Total(Currents, Addr, sum)
         /\ sum <= MAX_CURRENT => N * mcub <= MAX_CURRENT - sum
         /\ Promised

\* The core has the last report of a module from which nothing is awaited, and it knows
\* the sum once nothing is awaited from any.
HeardInv ==
  Linked => /\ \A a \in Addr : Awaited(a) \/ modules[a].current = reported[a]
            /\ (\E a \in Addr : Awaited(a)) \/ Known

\* When no round is due or under way every module is linked.
LEMMA LinkedNum == ASSUME TypeInv, RoundInv, Linked PROVE num = N
<1>1. PICK p \in 0..Len(up), k \in 0..N : Round(p, k)
  BY Zenon DEF RoundInv
<1>2. p \in Nat /\ k \in Nat /\ N \in Nat /\ N >= 1 /\ num \in Nat
  <2>1. up \in Seq(UpMsg) /\ num \in 0..N
    BY Zenon DEF TypeInv, TypeOK
  <2> QED
    BY <2>1, Sizes
<1>3. k = 0
  <2> SUFFICES ASSUME k # 0 PROVE FALSE
    OBVIOUS
  <2>1. p + 1 \in (p + 1)..(p + k)
    BY <1>2
  <2>2. p + 1 \in DOMAIN up /\ up[p + 1].type = "link"
    BY <1>1, <2>1, Zenon DEF Round
  <2> QED
    BY <2>2, Zenon DEF Linked, Linking
<1>4. k = N \/ num + k = N
  BY <1>1, Zenon DEF Round, Linked
<1> QED
  BY <1>2, <1>3, <1>4

\* With the last link of a round the currents are asked for.
LEMMA LinkAsks == ASSUME TypeInv, RoundInv, Link, Linked' PROVE Sends("req")'
<1>1. PICK p \in 0..Len(up), k \in 0..N : Round(p, k)
  BY Zenon DEF RoundInv
<1>2. /\ up # <<>> /\ up' = Tail(up) /\ Head(up).type = "link"
      /\ (IF Head(up).addr = 1 THEN down' = Append(down, Msg("req", 0, 0)) ELSE UNCHANGED down)
  BY Zenon DEF Link, Received, requestModulesData
<1>3. p = 0 /\ k >= 1 /\ Head(up).addr = k
  BY <1>1, <1>2, RoundHead, Zenon
<1>4. k = 1
  <2> SUFFICES ASSUME k # 1 PROVE FALSE
    OBVIOUS
  <2>1. 2 \in (p + 1)..(p + k)
    BY <1>3
  <2>2. 2 \in DOMAIN up /\ up[2].type = "link"
    BY <1>1, <2>1, Zenon DEF Round
  <2>3. 2 - 1 \in DOMAIN up' /\ up'[2 - 1] = up[2]
    BY <1>2, <2>2, UpTail
  <2>4. Linking'
    BY <2>2, <2>3, Zenon DEF Linking
  <2> QED
    BY <2>4, Zenon DEF Linked
<1>5. down' = Append(down, Msg("req", 0, 0))
  BY <1>2, <1>3, <1>4
<1>6. Msg("req", 0, 0) \in DownMsg /\ Msg("req", 0, 0).type = "req"
  BY Messages DEF Msg
<1> QED
  BY <1>5, <1>6, SendsOne, Zenon

\* A report under way stays so while messages follow it.
LEMMA ComingLonger ==
  ASSUME TypeInv, NEW l \in Seq(UpMsg), up' = up \o l, NEW a
  PROVE  /\ Coming(a) => Coming(a)'
         /\ Linking => Linking'
<1>1. \A i \in DOMAIN up : i \in DOMAIN up' /\ up'[i] = up[i]
  BY UpLonger, Zenon
<1> QED
  BY <1>1, Zenon DEF Coming, Linking

\* When another message is taken it is still under way.
LEMMA ComingTail ==
  ASSUME TypeInv, up # <<>>, up' = Tail(up), NEW a
  PROVE  /\ Coming(a) => Coming(a)' \/ (Head(up).type = "current" /\ Head(up).addr = a)
         /\ Linking => Linking' \/ Head(up).type = "link"
<1>1. /\ Head(up) = up[1]
      /\ \A i \in DOMAIN up : i # 1 => i - 1 \in DOMAIN up' /\ up'[i - 1] = up[i]
  BY UpTail, Zenon
<1>2. ASSUME Coming(a) PROVE Coming(a)' \/ (Head(up).type = "current" /\ Head(up).addr = a)
  <2>1. PICK i \in DOMAIN up : up[i].type = "current" /\ up[i].addr = a
    BY <1>2, Zenon DEF Coming
  <2> QED
    BY <1>1, <2>1, Zenon DEF Coming
<1>3. ASSUME Linking PROVE Linking' \/ Head(up).type = "link"
  <2>1. PICK i \in DOMAIN up : up[i].type = "link"
    BY <1>3, Zenon DEF Linking
  <2> QED
    BY <1>1, <2>1, Zenon DEF Linking
<1> QED
  BY <1>2, <1>3, Zenon

\* Messages of other kinds leave the promise as it is.
LEMMA PromisedAppend ==
  ASSUME TypeInv, Promised, NEW m \in DownMsg, down' = Append(down, m), m.type # "mcub",
         UNCHANGED <<told, mcub>>
  PROVE  Promised'
<1>1. down \in Seq(DownMsg)
  BY Zenon DEF TypeInv
<1>2. /\ \A i \in DOMAIN down' : \/ i \in DOMAIN down /\ down'[i] = down[i]
                                 \/ i = Len(down) + 1 /\ down'[i] = m
      /\ \A i \in DOMAIN down : i \in DOMAIN down' /\ down'[i] = down[i]
  <2>1. /\ \A i \in DOMAIN Append(down, m) : \/ i \in DOMAIN down /\ Append(down, m)[i] = down[i]
                                             \/ i = Len(down) + 1 /\ Append(down, m)[i] = m
        /\ \A i \in DOMAIN down : i \in DOMAIN Append(down, m) /\ Append(down, m)[i] = down[i]
        /\ Len(down) + 1 \in DOMAIN Append(down, m) /\ Append(down, m)[Len(down) + 1] = m
    BY <1>1, Longer, Zenon
  <2> QED
    BY <2>1, Zenon
<1>3. Sends("mcub")' <=> Sends("mcub")
  BY SendsOne, Zenon
<1>4. ASSUME NEW i \in DOMAIN down', down'[i].type = "mcub",
             \A j \in DOMAIN down' : j > i => down'[j].type # "mcub"
      PROVE  down'[i].value = mcub'
  <2>1. i \in DOMAIN down /\ down'[i] = down[i]
    BY <1>2, <1>4, Zenon
  <2>2. \A j \in DOMAIN down : j > i => down[j].type # "mcub"
    BY <1>2, <1>4, Zenon
  <2>3. down[i].value = mcub
    BY <1>4, <2>1, <2>2, Zenon DEF Promised
  <2> QED
    BY <2>1, <2>3, Zenon
<1> QED
  BY <1>3, <1>4, Zenon DEF Promised

\* The modules are told what was promised them.
LEMMA PromisedTail ==
  ASSUME TypeInv, Promised, down # <<>>, down' = Tail(down), UNCHANGED mcub,
         IF Head(down).type = "mcub" THEN told' = [a \in Addr |-> Head(down).value] ELSE UNCHANGED told
  PROVE  Promised'
<1>1. /\ 1 \in DOMAIN down /\ Head(down) = down[1]
      /\ \A i \in DOMAIN down' : i \in Nat /\ i + 1 \in DOMAIN down /\ down'[i] = down[i + 1]
      /\ \A i \in DOMAIN down : i \in Nat /\ i >= 1
      /\ \A i \in DOMAIN down : i # 1 => i - 1 \in DOMAIN down' /\ down'[i - 1] = down[i]
  <2>1. down \in Seq(DownMsg)
    BY Zenon DEF TypeInv
  <2>2. /\ Len(down) \in Nat /\ Len(down) >= 1 /\ Len(down') = Len(down) - 1
        /\ DOMAIN down = 1..Len(down) /\ DOMAIN down' = 1..Len(down') /\ Head(down) = down[1]
        /\ \A i \in 1..Len(down') : down'[i] = down[i + 1]
    BY <2>1
  <2>3. ASSUME NEW i \in DOMAIN down, i # 1 PROVE i - 1 \in DOMAIN down' /\ down'[i - 1] = down[i]
    <3>1. i - 1 \in DOMAIN down' /\ (i - 1) + 1 = i
      BY <2>2, <2>3
    <3>2. down'[i - 1] = down[(i - 1) + 1]
      BY <2>2, <3>1, Zenon
    <3> QED
      BY <3>1, <3>2
  <2>4. ASSUME NEW i \in DOMAIN down' PROVE i \in Nat /\ i + 1 \in DOMAIN down /\ down'[i] = down[i + 1]
    BY <2>2
  <2>5. 1 \in DOMAIN down /\ \A i \in DOMAIN down : i \in Nat /\ i >= 1
    BY <2>2
  <2> QED
    BY <2>2, <2>3, <2>4, <2>5, Zenon
<1>2. ASSUME NEW i \in DOMAIN down', down'[i].type = "mcub",
             \A j \in DOMAIN down' : j > i => down'[j].type # "mcub"
      PROVE  down'[i].value = mcub'
  <2>1. i \in Nat /\ i + 1 \in DOMAIN down /\ down'[i] = down[i + 1]
    BY <1>1, Zenon
  <2>2. ASSUME NEW j \in DOMAIN down, j > i + 1 PROVE down[j].type # "mcub"
    <3>1. j \in Nat /\ j # 1 /\ j - 1 > i
      BY <1>1, <2>1, <2>2
    <3>2. j - 1 \in DOMAIN down' /\ down'[j - 1] = down[j]
      BY <1>1, <3>1, Zenon
    <3> QED
      BY <1>2, <3>1, <3>2, Zenon
  <2>3. down[i + 1].value = mcub
    BY <1>2, <2>1, <2>2, Zenon DEF Promised
  <2> QED
    BY <2>1, <2>3, Zenon
<1>3. ASSUME ~Sends("mcub")', NEW a \in Addr PROVE told'[a] = mcub'
  <2>1. Sends("mcub") <=> Head(down).type = "mcub"
    BY <1>3, SendsTail, Zenon
  <2>2. CASE Head(down).type = "mcub"
    <3>1. \A j \in DOMAIN down : j > 1 => down[j].type # "mcub"
      <4> SUFFICES ASSUME NEW j \in DOMAIN down, j > 1, down[j].type = "mcub" PROVE FALSE
        OBVIOUS
      <4>1. j # 1
        BY <1>1
      <4>2. j - 1 \in DOMAIN down' /\ down'[j - 1] = down[j]
        BY <1>1, <4>1, Zenon
      <4> QED
        BY <1>3, <4>2, Zenon DEF Sends
    <3>2. down[1].value = mcub
      BY <1>1, <2>2, <3>1, Zenon DEF Promised
    <3>3. told' = [b \in Addr |-> Head(down).value]
      BY <2>2
    <3> QED
      BY <1>1, <3>2, <3>3
  <2>3. CASE Head(down).type # "mcub"
    <3>1. told' = told
      BY <2>3
    <3>2. told[a] = mcub
      BY <2>1, <2>3, Zenon DEF Promised
    <3> QED
      BY <3>1, <3>2
  <2> QED
    BY <2>2, <2>3
<1> QED
  BY <1>2, <1>3, Zenon DEF Promised

\* What the core knows it goes on knowing while the currents and the sum stay the same.
LEMMA HeardKept ==
  ASSUME HeardInv, Linked' => Linked, \A a \in Addr : Awaited(a) => Awaited(a)',
         \A a \in Addr : modules'[a].current = modules[a].current,
         UNCHANGED <<reported, sum, mcub>>, Promised => Promised'
  PROVE  HeardInv'
<1> SUFFICES ASSUME Linked'
             PROVE  /\ \A a \in Addr : Awaited(a)' \/ modules'[a].current = reported'[a]
                    /\ (\E a \in Addr : Awaited(a)') \/ Known'
  BY Zenon DEF HeardInv
<1>1. /\ \A a \in Addr : Awaited(a) \/ modules[a].current = reported[a]
      /\ (\E a \in Addr : Awaited(a)) \/ Known
  BY Zenon DEF HeardInv
<1>2. Currents' = Currents
  BY DEF Currents
<1>3. Known => Known'
  BY <1>2, Zenon DEF Known
<1>4. \A a \in Addr : modules'[a].current = modules[a].current /\ reported'[a] = reported[a]
  BY Zenon
<1> QED
  BY <1>1, <1>3, <1>4, Zenon

\* It waits for all modules after it asked all of them.
LEMMA HeardAsked ==
  ASSUME Linked' => Sends("req")' \/ asked' = Addr
  PROVE  HeardInv'
<1> SUFFICES ASSUME Linked'
             PROVE  /\ \A a \in Addr : Awaited(a)' \/ modules'[a].current = reported'[a]
                    /\ (\E a \in Addr : Awaited(a)') \/ Known'
  BY Zenon DEF HeardInv
<1>1. \A a \in Addr : Awaited(a)'
  BY DEF Awaited
<1>2. 1 \in Addr
  BY Sizes DEF Addr
<1> QED
  BY <1>1, <1>2, Zenon

\* It has not yet been told anything when it starts.
LEMMA HeardInit == ASSUME Init PROVE HeardInv /\ ReportInv
<1>1. up = <<>> /\ down = <<Msg("load", 0, 0)>>
  BY Zenon DEF Init
<1>2. Sends("load")
  BY <1>1 DEF Sends, Msg
<1>3. ReportInv
  BY <1>1 DEF ReportInv
<1> QED
  BY <1>2, <1>3, Zenon DEF HeardInv, Linked

\* A delivery leaves what the core knows as it is, or asks for it anew.
LEMMA HeardDeliver ==
  ASSUME TypeInv, HeardInv, Deliver
  PROVE  HeardInv'
<1>1. /\ down # <<>> /\ down' = Tail(down)
      /\ UNCHANGED <<core, pop, load, reported, events>>
      /\ relay' \in [Addr -> BOOLEAN] /\ cut' \in BOOLEAN
      /\ \/ /\ Head(down).type = "load" /\ ~Linking
            /\ up' = up \o [i \in Addr |-> Msg("link", N + 1 - i, OnOff(relay[N + 1 - i]))]
            /\ UNCHANGED <<relay, told, asked>>
         \/ /\ Head(down).type = "req" /\ asked' = Addr /\ UNCHANGED <<up, relay, told>>
         \/ /\ Head(down).type = "mcub" /\ told' = [a \in Addr |-> Head(down).value]
            /\ UNCHANGED <<up, relay, asked>>
         \/ /\ Head(down).type \in {"on", "off"} /\ UNCHANGED <<told, asked>>
            /\ \E l \in Seq(UpMsg) : /\ up' = up \o l
                                     /\ \A i \in DOMAIN l : l[i].type = "switch"
  BY DeliverEffect, Zenon
<1>2. UNCHANGED <<modules, reported, sum, mcub>>
  BY <1>1, Zenon DEF core
<1>3. \A a \in Addr : modules'[a].current = modules[a].current
  BY <1>2
<1>4. CASE Head(down).type = "load" /\ ~Linking
           /\ up' = up \o [i \in Addr |-> Msg("link", N + 1 - i, OnOff(relay[N + 1 - i]))]
  <2> DEFINE l == [i \in Addr |-> Msg("link", N + 1 - i, OnOff(relay[N + 1 - i]))]
  <2>1. relay \in [Addr -> BOOLEAN] /\ up \in Seq(UpMsg) /\ N \in Nat /\ N >= 1
    BY Sizes, Zenon DEF TypeInv, TypeOK
  <2>2. \A i \in Addr : N + 1 - i \in Addr
    BY <2>1 DEF Addr
  <2>3. \A i \in Addr : Msg("link", N + 1 - i, OnOff(relay[N + 1 - i])) \in UpMsg
    BY <2>1, <2>2, Messages
  <2>4. l \in Seq(UpMsg) /\ Len(l) = N
    <3>1. l \in [1..N -> UpMsg]
      BY <2>3 DEF Addr
    <3> QED
      BY <2>1, <3>1
  <2>5. 1 \in Addr
    BY <2>1 DEF Addr
  <2>6. l[1].type = "link"
    BY <2>5 DEF Msg
  <2> HIDE DEF l
  <2>7. /\ Len(up) \in Nat /\ Len(l) \in Nat /\ Len(up \o l) = Len(up) + Len(l)
        /\ DOMAIN up = 1..Len(up) /\ DOMAIN (up \o l) = 1..(Len(up) + Len(l))
        /\ \A i \in 1..(Len(up) + Len(l)) : (up \o l)[i] = IF i <= Len(up) THEN up[i] ELSE l[i - Len(up)]
    BY <2>1, <2>4, Joined, Zenon
  <2>8. Len(up) + 1 \in DOMAIN (up \o l) /\ (up \o l)[Len(up) + 1] = l[1]
    BY <2>1, <2>4, <2>7
  <2>9. up' = up \o l
    BY <1>4, Zenon DEF l
  <2>10. Linking'
    BY <2>6, <2>8, <2>9, Zenon DEF Linking
  <2> QED
    BY <2>10, Zenon DEF HeardInv, Linked
<1>5. CASE Head(down).type = "req" /\ asked' = Addr
  BY <1>5, HeardAsked, Zenon
<1>6. CASE \/ Head(down).type = "mcub" /\ told' = [a \in Addr |-> Head(down).value]
              /\ UNCHANGED <<up, asked>>
           \/ /\ Head(down).type \in {"on", "off"} /\ UNCHANGED <<told, asked>>
              /\ \E l \in Seq(UpMsg) : up' = up \o l
  <2>1. Head(down).type # "load" /\ Head(down).type # "req"
    BY <1>6
  <2>2. \A t : Sends(t) <=> Sends(t)' \/ Head(down).type = t
    BY <1>1, SendsTail, Zenon
  <2>3. \A a \in Addr : Coming(a) => Coming(a)'
    <3>1. CASE up' = up
      BY <3>1, Zenon DEF Coming
    <3>2. ASSUME NEW l \in Seq(UpMsg), up' = up \o l PROVE \A a \in Addr : Coming(a) => Coming(a)'
      BY <3>2, ComingLonger, Zenon
    <3> QED
      BY <1>6, <3>1, <3>2, Zenon
  <2>4. Linking => Linking'
    <3>1. CASE up' = up
      BY <3>1, Zenon DEF Linking
    <3>2. ASSUME NEW l \in Seq(UpMsg), up' = up \o l PROVE Linking => Linking'
      BY <3>2, ComingLonger, Zenon
    <3> QED
      BY <1>6, <3>1, <3>2, Zenon
  <2>5. Linked' => Linked
    BY <2>1, <2>2, <2>4, Zenon DEF Linked
  <2>6. asked' = asked
    BY <1>6, Zenon
  <2>7. \A a \in Addr : Awaited(a) => Awaited(a)'
    BY <2>1, <2>2, <2>3, <2>6, Zenon DEF Awaited
  <2>8. IF Head(down).type = "mcub" THEN told' = [a \in Addr |-> Head(down).value] ELSE UNCHANGED told
    BY <1>6
  <2>9. Promised => Promised'
    BY <1>1, <1>2, <2>8, PromisedTail, Zenon
  <2> QED
    BY <1>2, <1>3, <2>5, <2>7, <2>9, HeardKept, Zenon
<1> QED
  BY <1>1, <1>4, <1>5, <1>6, Zenon

\* A report of a module is on its way to the core.
LEMMA HeardReport ==
  ASSUME TypeInv, HeardInv, NEW a \in Addr, Report(a)
  PROVE  HeardInv'
<1> DEFINE m == Msg("current", a, Draw(a))
<1>1. /\ up' = Append(up, m) /\ reported' = [reported EXCEPT ![a] = Draw(a)]
      /\ asked' = asked \ {a} /\ UNCHANGED <<modules, sum, mcub, down, told>>
  BY Zenon DEF Report, core
<1>2. up \in Seq(UpMsg) /\ reported \in [Addr -> Loads] /\ TypeOK
  BY Zenon DEF TypeInv, TypeOK
<1>3. m \in UpMsg
  <2>1. Draw(a) \in Loads
    BY <1>2, DrawIn, Zenon
  <2> QED
    BY <2>1, Messages, Zenon
<1>4. m.type = "current" /\ m.addr = a
  BY DEF Msg
<1> HIDE DEF m
<1>5. Coming(a)'
  <2>1. /\ \A i \in DOMAIN Append(up, m) : \/ i \in DOMAIN up /\ Append(up, m)[i] = up[i]
                                           \/ i = Len(up) + 1 /\ Append(up, m)[i] = m
        /\ \A i \in DOMAIN up : i \in DOMAIN Append(up, m) /\ Append(up, m)[i] = up[i]
        /\ Len(up) + 1 \in DOMAIN Append(up, m) /\ Append(up, m)[Len(up) + 1] = m
    BY <1>2, <1>3, Longer, Zenon
  <2> QED
    BY <1>1, <1>4, <2>1, Zenon DEF Coming
<1>6. <<m>> \in Seq(UpMsg) /\ Append(up, m) = up \o <<m>>
  BY <1>2, <1>3
<1>7. (\A b \in Addr : Coming(b) => Coming(b)') /\ (Linking => Linking')
  BY <1>1, <1>6, ComingLonger, Zenon
<1>8. \A t : Sends(t)' <=> Sends(t)
  BY <1>1, Zenon DEF Sends
<1>9. \A b \in Addr : b # a => reported'[b] = reported[b]
  BY <1>1, <1>2
<1>10. \A b \in Addr : b # a => (Awaited(b) => Awaited(b)')
  <2>1. \A b \in Addr : b # a => (b \in asked => b \in asked')
    BY <1>1
  <2> QED
    BY <1>7, <1>8, <2>1, Zenon DEF Awaited
<1>11. Linked' => Linked
  BY <1>7, <1>8, Zenon DEF Linked
<1>12. Awaited(a)'
  BY <1>5, Zenon DEF Awaited
<1>13. \A b \in Addr : modules'[b].current = modules[b].current
  BY <1>1
<1> QED
  <2> SUFFICES ASSUME Linked'
               PROVE  /\ \A b \in Addr : Awaited(b)' \/ modules'[b].current = reported'[b]
                      /\ (\E b \in Addr : Awaited(b)') \/ Known'
    BY Zenon DEF HeardInv
  <2>1. \A b \in Addr : Awaited(b) \/ modules[b].current = reported[b]
    BY <1>11, Zenon DEF HeardInv
  <2>2. ASSUME NEW b \in Addr PROVE Awaited(b)' \/ modules'[b].current = reported'[b]
    BY <1>9, <1>10, <1>12, <1>13, <2>1, Zenon
  <2> QED
    BY <1>12, <2>2, Zenon

\* The promise is renewed with the broadcast at the end of the line.
LEMMA PromisedAnew ==
  ASSUME TypeInv, NEW l \in Seq(DownMsg), down' = down \o l,
         Len(l) > 0, l[Len(l)] = Msg("mcub", 0, mcub')
  PROVE  Promised'
<1>1. down \in Seq(DownMsg)
  BY Zenon DEF TypeInv
<1>2. /\ Len(down) \in Nat /\ Len(l) \in Nat /\ Len(down \o l) = Len(down) + Len(l)
      /\ DOMAIN down = 1..Len(down) /\ DOMAIN (down \o l) = 1..(Len(down) + Len(l))
      /\ \A i \in 1..(Len(down) + Len(l)) :
           (down \o l)[i] = IF i <= Len(down) THEN down[i] ELSE l[i - Len(down)]
  BY <1>1, Joined, Zenon
<1> DEFINE n == Len(down) + Len(l)
<1>3. n \in DOMAIN (down \o l) /\ (down \o l)[n] = l[Len(l)]
  BY <1>2
<1>4. l[Len(l)].type = "mcub" /\ l[Len(l)].value = mcub'
  BY DEF Msg
<1>5. \A i \in DOMAIN (down \o l) : i # n => n > i
  <2>1. n \in Nat /\ DOMAIN (down \o l) = 1..n
    BY <1>2
  <2> HIDE DEF n
  <2>2. \A i \in 1..n : i # n => n > i
    BY <2>1
  <2> QED
    BY <2>1, <2>2, Zenon
<1> HIDE DEF n
<1>6. n \in DOMAIN down' /\ down'[n].type = "mcub" /\ down'[n].value = mcub'
  BY <1>3, <1>4, Zenon
<1>7. \A i \in DOMAIN down' : i # n => n > i
  BY <1>5, Zenon
<1>8. ASSUME NEW i \in DOMAIN down', down'[i].type = "mcub",
             \A j \in DOMAIN down' : j > i => down'[j].type # "mcub"
      PROVE  down'[i].value = mcub'
  BY <1>6, <1>7, <1>8, Zenon
<1>9. Sends("mcub")'
  BY <1>6, Zenon DEF Sends
<1> QED
  BY <1>8, <1>9, Zenon DEF Promised

\* With the last report that was awaited the core knows the sum.
LEMMA HeardReceive ==
  ASSUME TypeInv, RoundInv, ReportInv, HeardInv, ReceiveCurrent
  PROVE  HeardInv'
<1> DEFINE a == Head(up).addr
           v == Head(up).value
<1>1. /\ num \in 1..N /\ num' = num
      /\ up # <<>> /\ up' = Tail(up) /\ Head(up).type = "current"
      /\ a \in Addr /\ v \in Loads
      /\ modules' = [modules EXCEPT ![a].current = v]
      /\ sum' = SumOf(modules') /\ sum' \in Nat
      /\ mcub' = Share(sum') /\ mcub' \in 0..MAX_CURRENT
      /\ emerg' = (sum' > MAX_CURRENT)
      /\ culprit' \in 0..N
      /\ \E l \in Seq(DownMsg) :
           /\ down' = down \o l
           /\ Len(l) > 0 /\ l[Len(l)] = Msg("mcub", 0, mcub')
           /\ \A i \in DOMAIN l : l[i].type \in {"off", "req", "mcub"}
           /\ \A i \in DOMAIN l : l[i].type = "mcub" => i = Len(l)
  BY ReceiveCurrentEffect, Zenon
<1>2. asked' = asked /\ reported' = reported
  BY Zenon DEF ReceiveCurrent, chain
<1>3. PICK l \in Seq(DownMsg) :
        down' = down \o l /\ Len(l) > 0 /\ l[Len(l)] = Msg("mcub", 0, mcub')
  BY <1>1, Zenon
<1>4. \A t : Sends(t) => Sends(t)'
  BY <1>3, SendsAppend, Zenon
<1>5. /\ \A b \in Addr : Coming(b) => Coming(b)' \/ b = a
      /\ Linking => Linking'
  <2>1. Head(up).type # "link"
    BY <1>1
  <2>2. /\ \A b \in Addr : Coming(b) => Coming(b)' \/ (Head(up).type = "current" /\ Head(up).addr = b)
        /\ Linking => Linking' \/ Head(up).type = "link"
    BY <1>1, ComingTail, Zenon
  <2> QED
    BY <2>1, <2>2, Zenon
<1> SUFFICES ASSUME Linked'
             PROVE  /\ \A b \in Addr : Awaited(b)' \/ modules'[b].current = reported'[b]
                    /\ (\E b \in Addr : Awaited(b)') \/ Known'
  BY Zenon DEF HeardInv
<1>6. Linked
  BY <1>4, <1>5, Zenon DEF Linked
<1>7. num = N
  BY <1>6, LinkedNum, Zenon
<1>8. reported[a] = v
  <2>1. 1 \in DOMAIN up /\ Head(up) = up[1]
    BY <1>1, UpTail, Zenon
  <2> QED
    BY <1>1, <2>1, Zenon DEF ReportInv
<1>9. /\ modules'[a].current = v
      /\ \A b \in Addr : b # a => modules'[b].current = modules[b].current
  <2>1. modules \in [Addr -> Entry]
    BY Zenon DEF TypeInv, TypeOK
  <2> QED
    BY <1>1, <2>1 DEF Entry
<1>10. \A b \in Addr : b # a => (Awaited(b) => Awaited(b)')
  BY <1>2, <1>4, <1>5, Zenon DEF Awaited
<1>11. \A b \in Addr : Awaited(b) \/ modules[b].current = reported[b]
  BY <1>6, Zenon DEF HeardInv
<1>12. ASSUME NEW b \in Addr PROVE Awaited(b)' \/ modules'[b].current = reported'[b]
  BY <1>2, <1>8, <1>9, <1>10, <1>11, Zenon
<1>13. Known'
  <2>1. num \in Nat /\ 1..num = Addr
    BY <1>7, Sizes DEF Addr
  <2>2. Total([b \in 1..num |-> modules'[b].current], 1..num, SumOf(modules'))
    BY <2>1, SumOfIs, Zenon
  <2>3. Currents' = [b \in Addr |-> modules'[b].current] /\ Addr' = Addr
    BY DEF Currents, Addr
  <2>4. Total(Currents', Addr, sum')
    BY <1>1, <2>1, <2>2, <2>3, Zenon
  <2>5. sum' <= MAX_CURRENT => N * mcub' <= MAX_CURRENT - sum'
    <3>1. sum' <= MAX_CURRENT => num * Share(sum') <= MAX_CURRENT - sum'
      BY <1>1, ShareBound, Zenon
    <3> QED
      BY <1>1, <1>7, <3>1, Zenon
  <2>6. Promised'
    BY <1>3, PromisedAnew, Zenon
  <2>7. Total(Currents, Addr, sum)'
    BY <2>4 DEF Total, Adds
  <2> QED
    BY <2>5, <2>6, <2>7, Zenon DEF Known
<1> QED
  BY <1>12, <1>13, Zenon

\* A message that changes no current leaves what the core knows as it is.
LEMMA HeardOther ==
  ASSUME TypeInv, HeardInv,
         SwitchState \/ DoModulesAction \/ Configure \/ Second \/ LoadChanges \/ UNCHANGED vars
  PROVE  HeardInv'
<1>1. UNCHANGED <<reported, sum, mcub, asked, told>>
  BY Zenon DEF SwitchState, DoModulesAction, Configure, Second, LoadChanges, vars, core, chain
<1>2. modules \in [Addr -> Entry] /\ up \in Seq(UpMsg)
  BY Zenon DEF TypeInv, TypeOK
<1>3. \A a \in Addr : modules'[a].current = modules[a].current
  <2>1. CASE modules' = modules
    BY <2>1
  <2>2. CASE SwitchState
    <3>1. modules' = [modules EXCEPT ![Head(up).addr].state = (Head(up).value = 1)]
      BY <2>2, Zenon DEF SwitchState
    <3> QED
      BY <1>2, <3>1 DEF Entry
  <2>3. CASE Configure
    <3>1. \/ modules' = modules
          \/ \E b \in Addr, p \in Priorities : modules' = [modules EXCEPT ![b].priority = p]
      BY <2>3, Zenon DEF Configure
    <3>2. ASSUME NEW b \in Addr, NEW p \in Priorities, modules' = [modules EXCEPT ![b].priority = p]
          PROVE  \A a \in Addr : modules'[a].current = modules[a].current
      BY <1>2, <3>2 DEF Entry
    <3> QED
      BY <2>1, <3>1, <3>2, Zenon
  <2> QED
    BY <2>1, <2>2, <2>3, Zenon DEF DoModulesAction, Second, LoadChanges, vars, core
<1>4. (\A a \in Addr : Coming(a) => Coming(a)') /\ (Linking => Linking')
  <2>1. CASE up' = up
    BY <2>1, Zenon DEF Coming, Linking
  <2>2. CASE SwitchState
    <3>1. up # <<>> /\ Head(up).type = "switch" /\ up' = Tail(up)
      BY <2>2, Zenon DEF SwitchState, Received
    <3>2. Head(up).type # "link" /\ Head(up).type # "current"
      BY <3>1
    <3>3. /\ \A a \in Addr : Coming(a) => Coming(a)' \/ (Head(up).type = "current" /\ Head(up).addr = a)
          /\ Linking => Linking' \/ Head(up).type = "link"
      BY <3>1, ComingTail, Zenon
    <3> QED
      BY <3>2, <3>3, Zenon
  <2> QED
    BY <2>1, <2>2, Zenon DEF DoModulesAction, Configure, Second, LoadChanges, vars
<1>5. (\A t : Sends(t) => Sends(t)') /\ (Promised => Promised')
  <2>1. CASE down' = down
    BY <1>1, <2>1, Zenon DEF Sends, Promised
  <2>2. CASE DoModulesAction
    <3>1. PICK a \in Addr, act \in {"on", "off"} : down' = Append(down, Msg(act, a, 0))
      BY <2>2, Zenon DEF DoModulesAction
    <3> DEFINE m == Msg(act, a, 0)
    <3>2. m \in DownMsg
      BY DEF Msg, DownMsg, Addr
    <3>3. m.type # "mcub"
      BY DEF Msg
    <3>4. down' = Append(down, m)
      BY <3>1, Zenon
    <3> HIDE DEF m
    <3>5. \A t : Sends(t)' <=> Sends(t) \/ m.type = t
      BY <3>2, <3>4, SendsOne, Zenon
    <3>6. Promised => Promised'
      BY <1>1, <3>2, <3>3, <3>4, PromisedAppend, Zenon
    <3> QED
      BY <3>5, <3>6, Zenon
  <2> QED
    BY <2>1, <2>2, Zenon DEF SwitchState, Configure, Second, LoadChanges, vars
<1>6. Linked' => Linked
  BY <1>4, <1>5, Zenon DEF Linked
<1>7. \A a \in Addr : Awaited(a) => Awaited(a)'
  BY <1>1, <1>4, <1>5, Zenon DEF Awaited
<1> QED
  BY <1>1, <1>3, <1>5, <1>6, <1>7, HeardKept, Zenon

\* Every step keeps what the core knows.
LEMMA HeardStep ==
  ASSUME TypeInv, RoundInv, ReportInv, HeardInv, [Next]_vars
  PROVE  HeardInv'
<1>1. CASE Link
  <2>1. Linked' => Sends("req")'
    BY <1>1, LinkAsks, Zenon
  <2> QED
    BY <2>1, HeardAsked, Zenon
<1>2. CASE ReceiveCurrent
  BY <1>2, HeardReceive, Zenon
<1>3. CASE DivideByZero
  <2>1. down' = <<Msg("load", 0, 0)>>
    BY <1>3, Zenon DEF DivideByZero
  <2>2. Sends("load")'
    BY <2>1 DEF Sends, Msg
  <2> QED
    BY <2>2, Zenon DEF HeardInv, Linked
<1>4. CASE LiveCheckFails
  <2>1. down' = Append(down, Msg("load", 0, 0))
    BY <1>4, Zenon DEF LiveCheckFails
  <2>2. Msg("load", 0, 0) \in DownMsg /\ Msg("load", 0, 0).type = "load"
    BY Messages DEF Msg
  <2>3. Sends("load")'
    BY <2>1, <2>2, SendsOne, Zenon
  <2> QED
    BY <2>3, Zenon DEF HeardInv, Linked
<1>5. CASE Deliver
  BY <1>5, HeardDeliver, Zenon
<1>6. ASSUME NEW a \in Addr, Report(a) PROVE HeardInv'
  BY <1>6, HeardReport, Zenon
<1>7. CASE SwitchState \/ DoModulesAction \/ Configure \/ Second \/ LoadChanges \/ UNCHANGED vars
  BY <1>7, HeardOther, Zenon
<1> QED
  BY <1>1, <1>2, <1>3, <1>4, <1>5, <1>6, <1>7, Zenon DEF Next, UartStep

-----------------------------------------------------------------------------
(* What the modules draw when nothing is under way *)

\* What a module keeps to itself is less than the share it was told.
LEMMA KeptBelow ==
  ASSUME TypeInv, NEW a \in Addr, ~Rise(a)
  PROVE  Draw(a) <= reported[a] + told[a]
<1>1. Draw(a) \in Nat /\ reported[a] \in Nat /\ told[a] \in Nat
  <2>1. TypeOK /\ Loads \subseteq Nat /\ reported \in [Addr -> Loads] /\ told \in [Addr -> 0..MAX_CURRENT]
    BY Sizes, Zenon DEF TypeInv, TypeOK
  <2>2. Draw(a) \in Nat /\ reported[a] \in Nat
    BY <2>1, DrawIn
  <2>3. told[a] \in 0..MAX_CURRENT
    BY <2>1
  <2> QED
    BY <2>2, <2>3, Sizes
<1>2. ~(Draw(a) > reported[a] /\ Draw(a) >= reported[a] + told[a])
  BY Zenon DEF Rise
<1> QED
  BY <1>1, <1>2

\* In silence the core knows the last reports of all modules and their sum, and has
\* told them the share that fits below the limit.
LEMMA SilentKnown ==
  ASSUME HeardInv, Silent
  PROVE  Known /\ \A a \in Addr : modules[a].current = reported[a] /\ told[a] = mcub
<1>1. down = <<>> /\ up = <<>> /\ asked = {}
  BY Zenon DEF Silent
<1>2. (\A t : ~Sends(t)) /\ ~Linking /\ \A a \in Addr : ~Coming(a)
  BY <1>1 DEF Sends, Linking, Coming
<1>3. Linked
  BY <1>2, Zenon DEF Linked
<1>4. \A a \in Addr : ~Awaited(a)
  BY <1>1, <1>2 DEF Awaited
<1>5. Known /\ \A a \in Addr : modules[a].current = reported[a]
  BY <1>3, <1>4, Zenon DEF HeardInv
<1> QED
  BY <1>2, <1>5, Zenon DEF Known, Promised

\* So all of them together stay below the limit, unless the last sum was beyond it.
LEMMA Silence ==
  ASSUME TypeInv, HeardInv, LimitInv
  PROVE  SilenceIsSafe
<1>1. TypeOK /\ emerg = (sum > MAX_CURRENT)
  BY Zenon DEF TypeInv, LimitInv
<1> SUFFICES ASSUME Silent, ~emerg PROVE TotalDraw <= MAX_CURRENT
  BY <1>1, Zenon DEF SilenceIsSafe
<1>2. Known /\ \A a \in Addr : modules[a].current = reported[a] /\ told[a] = mcub
  BY SilentKnown, Zenon
<1> DEFINE f == [a \in Addr |-> Draw(a)]
<1>3. IsFiniteSet(Addr) /\ Cardinality(Addr) = N
  BY FS_Interval, Sizes DEF Addr
<1>4. mcub \in Nat /\ sum \in Nat /\ MAX_CURRENT \in Nat /\ N \in Nat
  <2>1. mcub \in 0..MAX_CURRENT /\ sum \in Nat
    BY <1>1, Zenon DEF TypeOK
  <2> QED
    BY <2>1, Sizes
<1>5. ASSUME NEW a \in Addr
      PROVE  f[a] \in Nat /\ Currents[a] \in Nat /\ f[a] <= Currents[a] + mcub
  <2>1. Draw(a) \in Nat /\ reported[a] \in Nat
    <3>1. Draw(a) \in Loads /\ Loads \subseteq Nat /\ reported \in [Addr -> Loads]
      BY <1>1, DrawIn, Sizes, Zenon DEF TypeOK
    <3> QED
      BY <3>1
  <2>2. ~Rise(a)
    BY Zenon DEF Silent
  <2>3. Draw(a) <= reported[a] + told[a]
    BY <2>2, KeptBelow, Zenon
  <2>4. Currents[a] = reported[a] /\ told[a] = mcub
    BY <1>2 DEF Currents
  <2>5. f[a] = Draw(a)
    OBVIOUS
  <2> HIDE DEF f
  <2> QED
    BY <2>1, <2>3, <2>4, <2>5
<1>6. Total(f, Addr, TotalDraw) /\ Total(Currents, Addr, sum)
  BY <1>2, TotalDrawIs, Zenon DEF Known
<1> HIDE DEF f
<1>7. TotalDraw \in Nat /\ sum \in Nat /\ TotalDraw <= sum + Cardinality(Addr) * mcub
  <2>1. \A a \in Addr : f[a] \in Nat /\ Currents[a] \in Nat /\ f[a] <= Currents[a] + mcub
    BY <1>5
  <2> QED
    BY <1>3, <1>4, <1>6, <2>1, TotalBound, Zenon
<1>8. sum <= MAX_CURRENT
  <2>1. ~(sum > MAX_CURRENT)
    BY <1>1, Zenon
  <2> QED
    BY <1>4, <2>1
<1>9. N * mcub <= MAX_CURRENT - sum
  BY <1>2, <1>8, Zenon DEF Known
<1>10. TotalDraw <= sum + N * mcub
  BY <1>3, <1>7, Zenon
<1>11. N * mcub \in Nat
  BY <1>4
<1> QED
  BY <1>4, <1>7, <1>9, <1>10, <1>11

-----------------------------------------------------------------------------
(* The theorems *)

\* The strengthening of what is claimed: types, the rounds of links, the limit, the
\* reports under way and what the core knows.
IInv == TypeInv /\ RoundInv /\ LimitInv /\ ReportInv /\ HeardInv

\* The core starts with all of them true.
LEMMA Starts == Init => IInv
<1> SUFFICES ASSUME Init PROVE IInv
  OBVIOUS
<1> QED
  BY TypeInit, RoundInit, LimitInit, HeardInit, Zenon DEF IInv

\* Every step keeps them.
LEMMA Steps == IInv /\ [Next]_vars => IInv'
<1> SUFFICES ASSUME IInv, [Next]_vars PROVE IInv'
  OBVIOUS
<1>1. TypeInv /\ RoundInv /\ LimitInv /\ ReportInv /\ HeardInv
  BY Zenon DEF IInv
<1>2. TypeInv'
  BY <1>1, TypeStep, Zenon
<1>3. RoundInv'
  BY <1>1, RoundStep, Zenon
<1>4. LimitInv'
  BY <1>1, LimitStep, Zenon
<1>5. ReportInv'
  BY <1>1, ReportStep, Zenon
<1>6. HeardInv'
  BY <1>1, HeardStep, Zenon
<1> QED
  BY <1>2, <1>3, <1>4, <1>5, <1>6, Zenon DEF IInv

\* They hold of every behaviour of the core and its modules.
LEMMA Always == Spec => []IInv
BY Starts, Steps, PTL DEF Spec

\* The variables keep their types, and no message is under way that its handler
\* (CMD_UPDATE_DATA, addModule(), setModuleSwitchState()) does not know: in particular the
\* shares stay within 0..MAX_CURRENT, and no more modules are linked than there are.
THEOREM TypeCorrect == Spec => []TypeInv
<1>1. IInv => TypeInv
  BY Zenon DEF IInv
<1> QED
  BY <1>1, Always, PTL

\* Whatever the modules do and however often they are linked anew: once nothing is under
\* way and no module has a rise to report, they draw together no more than MAX_CURRENT, or
\* overloadProtectionCheck() has set emerg_triggered.
THEOREM SilenceCorrect == Spec => []SilenceIsSafe
<1>1. IInv => SilenceIsSafe
  <2> SUFFICES ASSUME IInv PROVE SilenceIsSafe
    OBVIOUS
  <2>1. TypeInv /\ HeardInv /\ LimitInv
    BY Zenon DEF IInv
  <2> QED
    BY <2>1, Silence, Zenon
<1> QED
  BY <1>1, Always, PTL

\* Without enable_pop the report that takes the sum beyond MAX_CURRENT is a rise of at least
\* mcub, so the suspicion of CMD_UPDATE_DATA falls on the module that made it, and the first
\* check of the emergency turns that one off.
THEOREM CulpritCorrect == Spec => CulpritRose
<1>1. IInv /\ [Next]_vars
        => [ReceiveCurrent /\ emerg' /\ ~emerg /\ ~pop /\ sum = SumOf(modules)
              => culprit' = Head(up).addr]_vars
  <2> SUFFICES ASSUME IInv, ReceiveCurrent, emerg', ~emerg, ~pop, sum = SumOf(modules)
               PROVE  culprit' = Head(up).addr
    BY Zenon
  <2>1. TypeInv /\ LimitInv
    BY Zenon DEF IInv
  <2> QED
    BY <2>1, CulpritStep, Zenon
<1> QED
  BY <1>1, Always, PTL DEF Spec, CulpritRose
=============================================================================
