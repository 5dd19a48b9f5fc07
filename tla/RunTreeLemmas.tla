---------------------------- MODULE RunTreeLemmas -----------------------------
(***************************************************************************)
(* Lemmas for the proofs about RunTree: induction, the functions of run.c  *)
(* that its operations share (run_lookup, run_consolidate, run_add_entry), *)
(* and what an array of runs shows of the locations of the clusters.       *)
(*                                                                         *)
(* Induction over numbers is proved from the pigeonhole principle for      *)
(* finite sets.  From it follow that the recursive functions of RunTree    *)
(* are defined, and what holds of every round of their loops.              *)
(*                                                                         *)
(* The last part is about run_add_entry: in an array in order it replaces  *)
(* the locations of the range that is added and keeps the array in order,  *)
(* also when it calls itself for what the overwritten run had after the    *)
(* range; and when memory runs out it may lose clusters after the start of *)
(* the range, or show them as clusters next to it, and nothing else.       *)
(***************************************************************************)
EXTENDS RunTree, FiniteSetTheorems, SequenceTheorems, TLAPS

(* Induction, said of a set of numbers: a set that has 0 and with each     *)
(* number the next has them all, since adding 1 would otherwise map a      *)
(* finite part of it into a smaller one.                                   *)
LEMMA SetInduction ==
  ASSUME NEW T \in SUBSET Nat, 0 \in T, \A n \in T : n + 1 \in T
  PROVE  T = Nat
<1> SUFFICES ASSUME NEW m \in Nat, m \notin T PROVE FALSE
  OBVIOUS
<1> DEFINE A == T \cap 0 .. m
           next == [n \in A |-> n + 1]
<1>1. IsFiniteSet(A)
  <2>1. IsFiniteSet(0 .. m)
    BY FS_Interval
  <2> QED BY <2>1, FS_Subset, A \in SUBSET (0 .. m)
<1>2. IsFiniteSet(A \ {0}) /\ Cardinality(A \ {0}) < Cardinality(A)
  <2>1. 0 \in A
    OBVIOUS
  <2> HIDE DEF A
  <2>2. Cardinality(A) \in Nat
    BY <1>1, FS_CardinalityType
  <2>3. IsFiniteSet(A \ {0}) /\ Cardinality(A \ {0}) = Cardinality(A) - 1
    BY <1>1, <2>1, FS_RemoveElement
  <2> QED BY <2>2, <2>3
<1>3. next \in [A -> A \ {0}]
  OBVIOUS
<1>4. \E x, y \in A : x # y /\ next[x] = next[y]
  <2> HIDE DEF A, next
  <2> QED BY <1>1, <1>2, <1>3, FS_PigeonHole
<1> QED BY <1>4

(* A set of numbers that is not empty has a least one.                     *)
LEMMA LeastExists ==
  ASSUME NEW T \in SUBSET Nat, NEW t \in T
  PROVE  \E n \in T : \A k \in T : n <= k
<1> SUFFICES ASSUME \A n \in T : \E k \in T : k < n PROVE FALSE
  OBVIOUS
<1> DEFINE B == {n \in Nat : \A k \in T : n <= k}
<1>1. 0 \in B
  OBVIOUS
<1>2. \A n \in B : n + 1 \in B
  OBVIOUS
<1>3. B = Nat
  <2> HIDE DEF B
  <2>1. B \in SUBSET Nat
    BY DEF B
  <2> QED BY <1>1, <1>2, <2>1, SetInduction
<1> QED BY <1>3

Loop(f, S, Stop, out, step) == f = [x \in S |-> IF x \in Stop THEN out[x] ELSE f[step[x]]]

(* A loop that stops has a result: the function that follows it from every *)
(* state exists, if a measure goes down with each step.                    *)
LEMMA LoopIsDefined ==
  ASSUME NEW S, NEW Stop, NEW out, NEW step, NEW m,
         \A x \in S : m[x] \in Nat,
         \A x \in S \ Stop : step[x] \in S /\ m[step[x]] < m[x]
  PROVE  \E f : Loop(f, S, Stop, out, step)
<1> DEFINE Below(n) == {x \in S : m[x] < n}
           Solves(f, n) == f = [x \in Below(n) |-> IF x \in Stop THEN out[x] ELSE f[step[x]]]
<1>1. \A n \in Nat : \E f : Solves(f, n)
  <2> DEFINE T == {n \in Nat : \E f : Solves(f, n)}
  <2>1. 0 \in T
    <3>1. Below(0) = {}
      OBVIOUS
    <3>2. Solves([x \in Below(0) |-> x], 0)
      BY <3>1
    <3> QED BY <3>2
  <2>2. ASSUME NEW n \in T PROVE n + 1 \in T
    <3> PICK f : Solves(f, n)
      OBVIOUS
    <3> DEFINE g == [x \in Below(n + 1) |-> IF x \in Stop THEN out[x] ELSE f[step[x]]]
    <3>1. \A x \in Below(n) : g[x] = f[x]
      OBVIOUS
    <3>2. \A x \in Below(n + 1) \ Stop : step[x] \in Below(n)
      OBVIOUS
    <3>3. Solves(g, n + 1)
      BY <3>1, <3>2
    <3> HIDE DEF g, Solves
    <3> QED BY <3>3
  <2>3. T = Nat
    <3> HIDE DEF T
    <3>1. T \in SUBSET Nat
      BY DEF T
    <3> QED BY <2>1, <2>2, <3>1, SetInduction
  <2> QED BY <2>3
<1>2. \A n \in Nat : \A p, q \in Nat : \A f, g :
        n <= p /\ n <= q /\ Solves(f, p) /\ Solves(g, q) => \A x \in Below(n) : f[x] = g[x]
  <2> DEFINE Agree(n) == \A p, q \in Nat : \A f, g :
        n <= p /\ n <= q /\ Solves(f, p) /\ Solves(g, q) => \A x \in Below(n) : f[x] = g[x]
  <2> DEFINE T == {n \in Nat : Agree(n)}
  <2>1. 0 \in T
    OBVIOUS
  <2>2. ASSUME NEW n \in T PROVE n + 1 \in T
    <3> SUFFICES ASSUME NEW p \in Nat, NEW q \in Nat, NEW f, NEW g, n + 1 <= p, n + 1 <= q,
                        Solves(f, p), Solves(g, q), NEW x \in Below(n + 1)
                 PROVE  f[x] = g[x]
      OBVIOUS
    <3>1. x \in Below(p) /\ x \in Below(q)
      OBVIOUS
    <3>2. CASE x \in Stop
      BY <3>1, <3>2
    <3>3. CASE x \notin Stop
      <4>1. step[x] \in Below(n)
        BY <3>3
      <4>2. n <= p /\ n <= q
        OBVIOUS
      <4>3. Agree(n)
        OBVIOUS
      <4>4. f[step[x]] = g[step[x]]
        <5> HIDE DEF Solves, Below
        <5> QED BY <4>1, <4>2, <4>3
      <4> QED BY <3>1, <3>3, <4>4
    <3> QED BY <3>2, <3>3
  <2>3. T = Nat
    <3> HIDE DEF T
    <3>1. T \in SUBSET Nat
      BY DEF T
    <3> QED BY <2>1, <2>2, <3>1, SetInduction
  <2> QED BY <2>3
<1> DEFINE sol(n) == CHOOSE f : Solves(f, n)
           F == [x \in S |-> sol(m[x] + 1)[x]]
<1>3. \A n \in Nat : Solves(sol(n), n)
  BY <1>1
<1> HIDE DEF sol
<1>4. ASSUME NEW x \in S PROVE F[x] = IF x \in Stop THEN out[x] ELSE F[step[x]]
  <2>1. x \in Below(m[x] + 1) /\ m[x] + 1 \in Nat
    OBVIOUS
  <2>2. F[x] = IF x \in Stop THEN out[x] ELSE sol(m[x] + 1)[step[x]]
    BY <2>1, <1>3
  <2>3. ASSUME x \notin Stop PROVE sol(m[x] + 1)[step[x]] = F[step[x]]
    <3> DEFINE y == step[x]
    <3>1. y \in S /\ m[y] + 1 \in Nat /\ m[y] + 1 <= m[x] + 1 /\ y \in Below(m[y] + 1)
      BY <2>3
    <3>2. Solves(sol(m[x] + 1), m[x] + 1) /\ Solves(sol(m[y] + 1), m[y] + 1)
      BY <3>1, <2>1, <1>3
    <3> HIDE DEF y, Solves, Below
    <3>3. sol(m[x] + 1)[y] = sol(m[y] + 1)[y]
      BY <3>1, <3>2, <2>1, <1>2
    <3> QED BY <3>1, <3>3 DEF y
  <2> QED BY <2>2, <2>3
<1>5. F = [x \in S |-> IF x \in Stop THEN out[x] ELSE F[step[x]]]
  <2> HIDE DEF sol
  <2>1. F = [x \in S |-> F[x]]
    OBVIOUS
  <2> HIDE DEF F
  <2> QED BY <2>1, <1>4
<1> QED BY <1>5 DEF Loop
-----------------------------------------------------------------------------
(* The numbers of a run, and its end in the file.                          *)
LEMMA RunFacts ==
  ASSUME NEW r \in Runs
  PROVE  /\ r.vcn \in Nat /\ r.len \in Nat \ {0} /\ r.lcn \in Nat \cup {Sparse}
         /\ End(r) = r.vcn + r.len /\ End(r) <= LastVcn + 1
         /\ LastVcn \in Nat
BY RunTreeConstants DEF Runs, Vcns, Lens, Fits, End

(* A range that lies in the file is a run.                                 *)
LEMMA RunIsRun ==
  ASSUME NEW vcn \in Nat, NEW len \in Nat \ {0}, NEW lcn \in Nat \cup {Sparse}, vcn + len <= LastVcn + 1
  PROVE  /\ Run(vcn, len, lcn) \in Runs
         /\ Run(vcn, len, lcn).vcn = vcn /\ Run(vcn, len, lcn).len = len
         /\ Run(vcn, len, lcn).lcn = lcn /\ End(Run(vcn, len, lcn)) = vcn + len
BY RunTreeConstants DEF Runs, Run, Vcns, Lens, Fits, End

(* An array of runs, index by index.                                       *)
LEMMA TreeFacts ==
  ASSUME NEW rs \in Trees
  PROVE  /\ Len(rs) \in Nat /\ DOMAIN rs = 1 .. Len(rs)
         /\ \A i \in 1 .. Len(rs) : rs[i] \in Runs
         /\ rs # <<>> <=> Len(rs) > 0
BY DEF Trees

(* The numbers of the runs of an array.                                    *)
LEMMA TreeTypes ==
  ASSUME NEW rs \in Trees
  PROVE  /\ Len(rs) \in Nat
         /\ \A i \in 1 .. Len(rs) :
              /\ rs[i].vcn \in Nat /\ rs[i].len \in Nat \ {0} /\ rs[i].lcn \in Nat \cup {Sparse}
              /\ End(rs[i]) \in Nat /\ rs[i].vcn < End(rs[i]) /\ End(rs[i]) = rs[i].vcn + rs[i].len
              /\ End(rs[i]) <= LastVcn + 1
<1>1. Len(rs) \in Nat /\ \A i \in 1 .. Len(rs) : rs[i] \in Runs
  BY TreeFacts
<1>2. ASSUME NEW i \in 1 .. Len(rs)
      PROVE  /\ rs[i].vcn \in Nat /\ rs[i].len \in Nat \ {0} /\ rs[i].lcn \in Nat \cup {Sparse}
             /\ End(rs[i]) \in Nat /\ rs[i].vcn < End(rs[i]) /\ End(rs[i]) = rs[i].vcn + rs[i].len
             /\ End(rs[i]) <= LastVcn + 1
  BY <1>1, RunFacts
<1> QED BY <1>1, <1>2

(* In an array in order each run ends before the next ones start.          *)
LEMMA OrderFacts ==
  ASSUME NEW rs \in Trees, InOrder(rs)
  PROVE  \A i, j \in 1 .. Len(rs) :
           /\ i < j => End(rs[i]) <= rs[j].vcn
           /\ rs[i].vcn \in Nat /\ End(rs[i]) \in Nat /\ rs[i].vcn < End(rs[i])
<1> SUFFICES ASSUME NEW i \in 1 .. Len(rs)
             PROVE  rs[i].vcn \in Nat /\ End(rs[i]) \in Nat /\ rs[i].vcn < End(rs[i])
  BY TreeFacts DEF InOrder
<1>1. rs[i] \in Runs
  BY TreeFacts
<1> QED BY <1>1, RunFacts

(* The bisection does what its loop says.                                  *)
LEMMA BisectIs ==
  ASSUME NEW rs, NEW vcn, NEW min \in Nat \ {0}, NEW max \in Nat
  PROVE  LET mid == min + (max - min) \div 2 IN
         Bisect(rs, vcn)[<<min, max>>] =
           IF min > max THEN Place(max + 1)
           ELSE IF vcn < rs[mid].vcn THEN Bisect(rs, vcn)[<<min, mid - 1>>]
           ELSE IF vcn >= End(rs[mid]) THEN Bisect(rs, vcn)[<<mid + 1, max>>]
           ELSE Found(mid)
<1> DEFINE S == (Nat \ {0}) \X Nat
           Mid(s) == s[1] + (s[2] - s[1]) \div 2
           Left(s) == vcn < rs[Mid(s)].vcn
           Right(s) == vcn >= End(rs[Mid(s)])
           Body(g, s) == IF s[1] > s[2] THEN Place(s[2] + 1)
                         ELSE IF Left(s) THEN g[<<s[1], Mid(s) - 1>>]
                         ELSE IF Right(s) THEN g[<<Mid(s) + 1, s[2]>>]
                         ELSE Found(Mid(s))
           Stop == {s \in S : s[1] > s[2] \/ (~ Left(s) /\ ~ Right(s))}
           out == [s \in S |-> IF s[1] > s[2] THEN Place(s[2] + 1) ELSE Found(Mid(s))]
           step == [s \in S |-> IF Left(s) THEN <<s[1], Mid(s) - 1>> ELSE <<Mid(s) + 1, s[2]>>]
           m == [s \in S |-> IF s[1] > s[2] THEN 0 ELSE s[2] - s[1] + 1]
<1>1. Bisect(rs, vcn) = CHOOSE g : g = [s \in S |-> Body(g, s)]
  BY DEF Bisect
<1>2. \A s \in S : m[s] \in Nat
  OBVIOUS
<1>3. \A s \in S \ Stop : step[s] \in S /\ m[step[s]] < m[s]
  <2> SUFFICES ASSUME NEW a \in Nat \ {0}, NEW b \in Nat, <<a, b>> \notin Stop
               PROVE  step[<<a, b>>] \in S /\ m[step[<<a, b>>]] < m[<<a, b>>]
    <3> HIDE DEF Stop, step, m
    <3> QED OBVIOUS
  <2> DEFINE c == Mid(<<a, b>>)
  <2>1. a <= b /\ (Left(<<a, b>>) \/ Right(<<a, b>>))
    OBVIOUS
  <2>2. c \in Nat /\ a <= c /\ c <= b
    BY <2>1
  <2>3. CASE Left(<<a, b>>)
    <3>1. step[<<a, b>>] = <<a, c - 1>> /\ m[<<a, b>>] = b - a + 1
      BY <2>1, <2>3
    <3> HIDE DEF c, step
    <3>2. <<a, c - 1>> \in S /\ m[<<a, c - 1>>] < b - a + 1
      BY <2>1, <2>2
    <3> QED BY <3>1, <3>2
  <2>4. CASE ~ Left(<<a, b>>)
    <3>1. step[<<a, b>>] = <<c + 1, b>> /\ m[<<a, b>>] = b - a + 1
      BY <2>1, <2>4
    <3> HIDE DEF c, step
    <3>2. <<c + 1, b>> \in S /\ m[<<c + 1, b>>] < b - a + 1
      BY <2>1, <2>2
    <3> QED BY <3>1, <3>2
  <2> QED BY <2>3, <2>4
<1>4. PICK f : Loop(f, S, Stop, out, step)
  <2> HIDE DEF S, Stop, out, step, m
  <2> QED BY <1>2, <1>3, LoopIsDefined
<1>5. f = [s \in S |-> Body(f, s)]
  <2>1. \A s \in S : f[s] = Body(f, s)
    BY <1>4 DEF Loop
  <2>2. f = [s \in S |-> f[s]]
    BY <1>4 DEF Loop
  <2> HIDE DEF Body
  <2> QED BY <2>1, <2>2
<1>6. Bisect(rs, vcn) = [s \in S |-> Body(Bisect(rs, vcn), s)]
  <2> HIDE DEF Body
  <2> QED BY <1>1, <1>5
<1>7. <<min, max>> \in S /\ <<min, max>>[1] = min /\ <<min, max>>[2] = max
  OBVIOUS
<1>8. Bisect(rs, vcn)[<<min, max>>] = Body(Bisect(rs, vcn), <<min, max>>)
  <2> HIDE DEF Body
  <2> QED BY <1>6, <1>7
<1> QED BY <1>7, <1>8

Covers(r, v) == r.vcn <= v /\ v < End(r)

(* The answer to a lookup: a run that has the cluster, or the place of it. *)
Finds(rs, vcn, at) ==
  \/ at.found /\ at.index \in 1 .. Len(rs) /\ Covers(rs[at.index], vcn)
  \/ ~ at.found /\ at.index \in 1 .. Len(rs) + 1
AtPlace(rs, vcn, at) ==
  ~ at.found => \A i \in 1 .. Len(rs) :
    /\ i < at.index => End(rs[i]) <= vcn
    /\ i >= at.index => rs[i].vcn > vcn

(* The loop of run_lookup, from bounds that have not left the answer out.  *)
LEMMA BisectFinds ==
  ASSUME NEW rs \in Trees, NEW vcn \in Nat
  PROVE  \A min \in Nat \ {0}, max \in Nat : max <= Len(rs) /\ min <= max + 1 =>
           LET at == Bisect(rs, vcn)[<<min, max>>] IN
           /\ Finds(rs, vcn, at)
           /\ /\ InOrder(rs)
              /\ \A i \in 1 .. Len(rs) : i < min => End(rs[i]) <= vcn
              /\ \A i \in 1 .. Len(rs) : i > max => rs[i].vcn > vcn
              => AtPlace(rs, vcn, at)
<1> DEFINE Good(min, max) ==
             LET at == Bisect(rs, vcn)[<<min, max>>] IN
             /\ Finds(rs, vcn, at)
             /\ /\ InOrder(rs)
                /\ \A i \in 1 .. Len(rs) : i < min => End(rs[i]) <= vcn
                /\ \A i \in 1 .. Len(rs) : i > max => rs[i].vcn > vcn
                => AtPlace(rs, vcn, at)
           T == {n \in Nat : \A min \in Nat \ {0}, max \in Nat :
                    max <= Len(rs) /\ min <= max + 1 /\ max - min < n => Good(min, max)}
<1>1. ASSUME NEW min \in Nat \ {0}, NEW max \in Nat, max <= Len(rs), min = max + 1
      PROVE  Good(min, max)
  <2>1. Bisect(rs, vcn)[<<min, max>>] = Place(max + 1)
    <3>1. min > max
      BY <1>1
    <3> QED BY <3>1, BisectIs
  <2> QED BY <2>1, <1>1, TreeFacts DEF Finds, AtPlace, Place
<1>2. 0 \in T
  <2> HIDE DEF Good
  <2>1. \A min \in Nat \ {0}, max \in Nat : min <= max + 1 /\ max - min < 0 => min = max + 1
    OBVIOUS
  <2> QED BY <1>1, <2>1
<1>3. ASSUME NEW n \in T PROVE n + 1 \in T
  <2> SUFFICES ASSUME NEW min \in Nat \ {0}, NEW max \in Nat, max <= Len(rs), min <= max,
                      max - min < n + 1
               PROVE  Good(min, max)
    <3> HIDE DEF Good
    <3>1. \A a \in Nat \ {0}, b \in Nat : a <= b + 1 => a <= b \/ a = b + 1
      OBVIOUS
    <3> QED BY <1>1, <3>1
  <2>4. ASSUME NEW x \in Nat \ {0}, NEW y \in Nat, y <= Len(rs), x <= y + 1, y - x < max - min
        PROVE  Good(x, y)
    <3> HIDE DEF Good
    <3>1. n \in Nat /\ y - x < n
      BY <2>4
    <3> QED BY <2>4, <3>1
  <2> HIDE DEF T, Good
  <2> DEFINE mid == min + (max - min) \div 2
             at == Bisect(rs, vcn)[<<min, max>>]
  <2>1. mid \in Nat \ {0} /\ min <= mid /\ mid <= max /\ mid - 1 \in Nat
    OBVIOUS
  <2>3. at = IF vcn < rs[mid].vcn THEN Bisect(rs, vcn)[<<min, mid - 1>>]
             ELSE IF vcn >= End(rs[mid]) THEN Bisect(rs, vcn)[<<mid + 1, max>>]
             ELSE Found(mid)
    BY BisectIs
  <2> HIDE DEF mid, at
  <2>2. mid \in 1 .. Len(rs) /\ rs[mid] \in Runs
    BY <2>1, TreeFacts
  <2>5. rs[mid].vcn \in Nat /\ End(rs[mid]) \in Nat
    <3> DEFINE q == rs[mid]
    <3>1. q \in Runs
      BY <2>2
    <3> HIDE DEF q
    <3>2. q.vcn \in Nat /\ End(q) \in Nat
      BY <3>1, RunFacts
    <3> QED BY <3>2 DEF q
  <2>6. CASE vcn < rs[mid].vcn
    <3>1. Good(min, mid - 1)
      <4>1. /\ mid - 1 \in Nat /\ mid - 1 <= Len(rs) /\ min <= (mid - 1) + 1
            /\ (mid - 1) - min < max - min
        BY <2>1, TreeFacts
      <4> QED BY <2>4, <4>1
    <3>2. ASSUME InOrder(rs), NEW i \in 1 .. Len(rs), i > mid - 1 PROVE rs[i].vcn > vcn
      <4>1. /\ mid < i => End(rs[mid]) <= rs[i].vcn
            /\ rs[i].vcn \in Nat /\ rs[mid].vcn < End(rs[mid])
        BY <2>2, <3>2, OrderFacts
      <4>2. mid = i \/ mid < i
        BY <2>1, <3>2
      <4> QED BY <2>5, <2>6, <4>1, <4>2
    <3>3. Bisect(rs, vcn)[<<min, max>>] = Bisect(rs, vcn)[<<min, mid - 1>>]
      BY <2>3, <2>6 DEF at
    <3> QED BY <3>1, <3>2, <3>3 DEF Good
  <2>7. CASE vcn >= rs[mid].vcn /\ vcn >= End(rs[mid])
    <3>1. Good(mid + 1, max)
      BY <2>1, <2>4
    <3>2. ASSUME InOrder(rs), NEW i \in 1 .. Len(rs), i < mid + 1 PROVE End(rs[i]) <= vcn
      <4>1. /\ i < mid => End(rs[i]) <= rs[mid].vcn
            /\ End(rs[i]) \in Nat
        BY <2>2, <3>2, OrderFacts
      <4>2. mid = i \/ i < mid
        BY <2>1, <3>2
      <4> QED BY <2>5, <2>7, <4>1, <4>2
    <3>3. Bisect(rs, vcn)[<<min, max>>] = Bisect(rs, vcn)[<<mid + 1, max>>]
      BY <2>3, <2>5, <2>7 DEF at
    <3> QED BY <3>1, <3>2, <3>3 DEF Good
  <2>8. CASE vcn >= rs[mid].vcn /\ vcn < End(rs[mid])
    <3>1. at = Found(mid)
      <4>1. ~ (vcn < rs[mid].vcn) /\ ~ (vcn >= End(rs[mid]))
        BY <2>5, <2>8
      <4> QED BY <2>3, <4>1
    <3> QED BY <2>2, <2>8, <3>1 DEF at, Found, Finds, Covers, AtPlace, Good
  <2> QED BY <2>5, <2>6, <2>7, <2>8
<1>4. T = Nat
  <2> HIDE DEF T
  <2>1. T \in SUBSET Nat
    BY DEF T
  <2> QED BY <1>2, <1>3, <2>1, SetInduction
<1>5. ASSUME NEW min \in Nat \ {0}, NEW max \in Nat, max <= Len(rs), min <= max + 1
      PROVE  Good(min, max)
  <2>1. max + 1 \in T
    <3> HIDE DEF T
    <3> QED BY <1>4
  <2>2. max - min < max + 1
    OBVIOUS
  <2> HIDE DEF Good
  <2> QED BY <1>5, <2>1, <2>2
<1> QED BY <1>5

(* The answer of a lookup has the cluster, in whatever order the runs are, *)
(* and in an array in order its place is between its neighbours.           *)
LEMMA LookupAnswers ==
  ASSUME NEW rs \in Trees, NEW vcn \in Nat
  PROVE  /\ Finds(rs, vcn, Lookup(rs, vcn))
         /\ InOrder(rs) => AtPlace(rs, vcn, Lookup(rs, vcn))
<1> DEFINE n == Len(rs)
<1>1. CASE rs = <<>>
  BY <1>1, TreeFacts DEF Lookup, Place, Finds, AtPlace
<1>2. CASE rs # <<>>
  <2>1. n \in Nat \ {0} /\ rs[1] \in Runs /\ rs[n] \in Runs /\ Last(rs) = rs[n]
    BY <1>2, TreeFacts DEF Last
  <2>7. /\ rs[1].vcn \in Nat /\ End(rs[1]) \in Nat /\ rs[n].vcn \in Nat /\ End(rs[n]) \in Nat
        /\ rs[1].vcn < End(rs[1]) /\ rs[n].vcn < End(rs[n])
    <3>1. 1 \in 1 .. Len(rs) /\ n \in 1 .. Len(rs)
      BY <2>1
    <3> HIDE DEF n
    <3> QED BY <3>1, TreeTypes
  <2>8. Lookup(rs, vcn) =
          IF vcn < rs[1].vcn THEN Place(1)
          ELSE IF vcn < End(rs[1]) THEN Found(1)
          ELSE IF vcn >= End(rs[n]) THEN Place(n + 1)
          ELSE IF vcn >= rs[n].vcn THEN Found(n)
          ELSE Bisect(rs, vcn)[<<1, n>>]
    BY <1>2, <2>1 DEF Lookup
  <2> HIDE DEF n
  <2>2. CASE vcn < rs[1].vcn
    <3>1. Lookup(rs, vcn) = Place(1)
      BY <2>2, <2>7, <2>8
    <3>2. InOrder(rs) => \A i \in 1 .. n : rs[i].vcn > vcn
      BY <2>1, <2>2, OrderFacts DEF n
    <3> QED BY <2>1, <3>1, <3>2 DEF Place, Finds, AtPlace, n
  <2>3. CASE vcn >= rs[1].vcn /\ vcn < End(rs[1])
    <3>1. Lookup(rs, vcn) = Found(1)
      BY <2>3, <2>7, <2>8
    <3> QED BY <2>1, <2>3, <3>1 DEF Found, Finds, AtPlace, Covers, n
  <2>4. CASE vcn >= End(rs[1]) /\ vcn >= End(rs[n])
    <3>1. Lookup(rs, vcn) = Place(n + 1)
      BY <2>4, <2>7, <2>8
    <3>2. InOrder(rs) => \A i \in 1 .. n : End(rs[i]) <= vcn
      BY <2>1, <2>4, OrderFacts DEF n
    <3> QED BY <2>1, <3>1, <3>2 DEF Place, Finds, AtPlace, n
  <2>5. CASE vcn >= End(rs[1]) /\ vcn < End(rs[n]) /\ vcn >= rs[n].vcn
    <3>1. Lookup(rs, vcn) = Found(n)
      BY <2>5, <2>7, <2>8
    <3> QED BY <2>1, <2>5, <3>1 DEF Found, Finds, AtPlace, Covers, n
  <2>6. CASE vcn >= End(rs[1]) /\ vcn < End(rs[n]) /\ vcn < rs[n].vcn
    <3>1. Lookup(rs, vcn) = Bisect(rs, vcn)[<<1, n>>]
      BY <2>6, <2>7, <2>8
    <3>2. /\ \A i \in 1 .. n : i < 1 => End(rs[i]) <= vcn
          /\ \A i \in 1 .. n : i > n => rs[i].vcn > vcn
      BY <2>1
    <3> QED BY <2>1, <3>1, <3>2, BisectFinds DEF n
  <2> QED BY <2>2, <2>3, <2>4, <2>5, <2>6, <2>7
<1> QED BY <1>1, <1>2
-----------------------------------------------------------------------------
(* A hole is a hole throughout, and clusters go on one by one.             *)
LEMMA AtFacts ==
  ASSUME NEW lcn \in Nat \cup {Sparse}, NEW n \in Nat
  PROVE  /\ At(lcn, n) \in Nat \cup {Sparse}
         /\ At(lcn, n) = Sparse <=> lcn = Sparse
         /\ lcn # Sparse => At(lcn, n) = lcn + n
         /\ At(lcn, n) # Unmapped
BY DEF At, Sparse, Unmapped

(* Going on by n and then by m is going on by n + m.                       *)
LEMMA AtAt ==
  ASSUME NEW lcn \in Nat \cup {Sparse}, NEW n \in Nat, NEW m \in Nat
  PROVE  At(At(lcn, n), m) = At(lcn, n + m)
<1>1. CASE lcn = Sparse
  BY <1>1 DEF At
<1>2. CASE lcn # Sparse
  <2>1. lcn \in Nat /\ lcn + n # Sparse
    BY <1>2 DEF Sparse
  <2> QED BY <1>2, <2>1 DEF At
<1> QED BY <1>1, <1>2

(* The part of a run from a cluster on.                                    *)
LEMMA AfterIsRun ==
  ASSUME NEW r \in Runs, NEW vcn \in Nat, r.vcn <= vcn
  PROVE  /\ After(r, vcn).vcn = vcn /\ After(r, vcn).len = End(r) - vcn
         /\ After(r, vcn).lcn = At(r.lcn, vcn - r.vcn) /\ End(After(r, vcn)) = End(r)
         /\ vcn < End(r) => After(r, vcn) \in Runs
<1> DEFINE len == End(r) - vcn
           lcn == At(r.lcn, vcn - r.vcn)
<1>1. After(r, vcn) = Run(vcn, len, lcn)
  BY DEF After
<1>2. len \in Int /\ vcn + len = End(r) /\ End(r) <= LastVcn + 1 /\ vcn - r.vcn \in Nat
  BY RunFacts
<1>3. lcn \in Nat \cup {Sparse}
  BY <1>2, RunFacts, AtFacts
<1>4. /\ Run(vcn, len, lcn).vcn = vcn /\ Run(vcn, len, lcn).len = len
      /\ Run(vcn, len, lcn).lcn = lcn /\ End(Run(vcn, len, lcn)) = vcn + len
  BY DEF Run, End
<1>5. vcn < End(r) => Run(vcn, len, lcn) \in Runs
  <2> SUFFICES ASSUME vcn < End(r) PROVE Run(vcn, len, lcn) \in Runs
    OBVIOUS
  <2>1. len \in Nat \ {0} /\ vcn + len <= LastVcn + 1
    BY <1>2, RunFacts
  <2> HIDE DEF len, lcn
  <2> QED BY <1>3, <2>1, RunIsRun
<1> HIDE DEF len, lcn
<1>6. End(After(r, vcn)) = End(r)
  BY <1>1, <1>2, <1>4
<1> QED BY <1>1, <1>4, <1>5, <1>6 DEF len, lcn

(* The part of a run before a cluster.                                     *)
LEMMA BeforeIsRun ==
  ASSUME NEW r \in Runs, NEW vcn \in Nat, r.vcn < vcn, vcn <= End(r)
  PROVE  /\ Before(r, vcn) \in Runs
         /\ Before(r, vcn).vcn = r.vcn /\ Before(r, vcn).lcn = r.lcn
         /\ Before(r, vcn).len = vcn - r.vcn /\ End(Before(r, vcn)) = vcn
<1> DEFINE len == vcn - r.vcn
<1>1. Before(r, vcn) = Run(r.vcn, len, r.lcn)
  BY DEF Before, Run, Runs
<1>2. /\ r.vcn \in Nat /\ len \in Nat \ {0} /\ r.lcn \in Nat \cup {Sparse}
      /\ r.vcn + len = vcn /\ vcn <= LastVcn + 1
  BY RunFacts
<1>3. len = vcn - r.vcn
  OBVIOUS
<1> HIDE DEF len
<1> DEFINE a == r.vcn
           l == r.lcn
<1>4. a \in Nat /\ len \in Nat \ {0} /\ l \in Nat \cup {Sparse} /\ a + len <= LastVcn + 1
  BY <1>2
<1> HIDE DEF a, l
<1>5. /\ Run(a, len, l) \in Runs
      /\ Run(a, len, l).vcn = a /\ Run(a, len, l).len = len
      /\ Run(a, len, l).lcn = l /\ End(Run(a, len, l)) = a + len
  BY <1>4, RunIsRun
<1> QED BY <1>1, <1>2, <1>3, <1>5 DEF a, l

(* An array without its i-th run, index by index.                          *)
LEMMA RemoveFacts ==
  ASSUME NEW rs \in Trees, NEW i \in 1 .. Len(rs)
  PROVE  /\ RemoveAt(rs, i) \in Trees /\ Len(RemoveAt(rs, i)) = Len(rs) - 1
         /\ \A j \in 1 .. Len(rs) - 1 : RemoveAt(rs, i)[j] = IF j < i THEN rs[j] ELSE rs[j + 1]
<1> DEFINE a == SubSeq(rs, 1, i - 1)
           b == SubSeq(rs, i + 1, Len(rs))
<1>1. Len(rs) \in Nat /\ i - 1 \in Int /\ i + 1 \in Int
  BY TreeFacts
<1>2. /\ a \in Seq(Runs) /\ Len(a) = i - 1
      /\ \A j \in 1 .. i - 1 : a[j] = rs[j]
  <2>1. \A j \in 1 .. i - 1 : rs[j] \in Runs
    BY TreeFacts
  <2> QED BY <1>1, <2>1, SubSeqProperties
<1>3. /\ b \in Seq(Runs) /\ Len(b) = Len(rs) - i
      /\ \A j \in 1 .. Len(rs) - i : b[j] = rs[i + j]
  <2>1. \A j \in i + 1 .. Len(rs) : rs[j] \in Runs
    BY TreeFacts
  <2> QED BY <1>1, <2>1, SubSeqProperties
<1>4. RemoveAt(rs, i) = a \o b
  BY DEF RemoveAt
<1> HIDE DEF a, b
<1>5. /\ a \o b \in Seq(Runs) /\ Len(a \o b) = Len(a) + Len(b)
      /\ \A j \in 1 .. Len(a) + Len(b) : (a \o b)[j] = IF j <= Len(a) THEN a[j] ELSE b[j - Len(a)]
  BY <1>2, <1>3, ConcatProperties
<1>6. RemoveAt(rs, i) \in Trees /\ Len(RemoveAt(rs, i)) = Len(rs) - 1
  BY <1>1, <1>2, <1>3, <1>4, <1>5 DEF Trees
<1>7. ASSUME NEW j \in 1 .. Len(rs) - 1
      PROVE  RemoveAt(rs, i)[j] = IF j < i THEN rs[j] ELSE rs[j + 1]
  <2>1. CASE j < i
    <3>1. j \in 1 .. i - 1 /\ j \in 1 .. Len(a) + Len(b)
      BY <1>1, <1>2, <1>3, <2>1
    <3> QED BY <1>2, <1>4, <1>5, <2>1, <3>1
  <2>2. CASE ~ (j < i)
    <3>1. j - Len(a) = j + 1 - i /\ j + 1 - i \in 1 .. Len(rs) - i /\ j \in 1 .. Len(a) + Len(b) /\ ~ (j <= Len(a))
      BY <1>1, <1>2, <1>3, <2>2
    <3>2. RemoveAt(rs, i)[j] = b[j + 1 - i]
      BY <1>4, <1>5, <3>1
    <3>3. i + (j + 1 - i) = j + 1
      BY <1>1
    <3> QED BY <1>3, <2>2, <3>1, <3>2, <3>3
  <2> QED BY <2>1, <2>2
<1> QED BY <1>6, <1>7

(* An array with one run more, index by index.                             *)
LEMMA InsertFacts ==
  ASSUME NEW rs \in Trees, NEW i \in 1 .. Len(rs) + 1, NEW r \in Runs
  PROVE  /\ InsertAt(rs, i, r) \in Trees /\ Len(InsertAt(rs, i, r)) = Len(rs) + 1
         /\ \A j \in 1 .. Len(rs) + 1 :
              InsertAt(rs, i, r)[j] = IF j < i THEN rs[j] ELSE IF j = i THEN r ELSE rs[j - 1]
<1> DEFINE a == SubSeq(rs, 1, i - 1)
           b == SubSeq(rs, i, Len(rs))
<1>1. Len(rs) \in Nat /\ i - 1 \in Int /\ i \in Int
  BY TreeFacts
<1>2. /\ a \in Seq(Runs) /\ Len(a) = i - 1
      /\ \A j \in 1 .. i - 1 : a[j] = rs[j]
  <2>1. \A j \in 1 .. i - 1 : rs[j] \in Runs
    BY TreeFacts
  <2> QED BY <1>1, <2>1, SubSeqProperties
<1>3. /\ b \in Seq(Runs) /\ Len(b) = Len(rs) - i + 1
      /\ \A j \in 1 .. Len(rs) - i + 1 : b[j] = rs[i + j - 1]
  <2>1. \A j \in i .. Len(rs) : rs[j] \in Runs
    BY TreeFacts
  <2> QED BY <1>1, <2>1, SubSeqProperties
<1>4. <<r>> \in Seq(Runs) /\ Len(<<r>>) = 1 /\ <<r>>[1] = r
  OBVIOUS
<1>5. InsertAt(rs, i, r) = (a \o <<r>>) \o b
  BY DEF InsertAt
<1> DEFINE c == <<r>>
<1> HIDE DEF a, b, c
<1>6. /\ a \o c \in Seq(Runs) /\ Len(a \o c) = Len(a) + Len(c)
      /\ \A j \in 1 .. Len(a) + Len(c) : (a \o c)[j] = IF j <= Len(a) THEN a[j] ELSE c[j - Len(a)]
  BY <1>2, <1>4, ConcatProperties DEF c
<1> DEFINE d == a \o c
<1> HIDE DEF d
<1>7. /\ d \o b \in Seq(Runs) /\ Len(d \o b) = Len(d) + Len(b)
      /\ \A j \in 1 .. Len(d) + Len(b) : (d \o b)[j] = IF j <= Len(d) THEN d[j] ELSE b[j - Len(d)]
  <2>1. d \in Seq(Runs)
    BY <1>6 DEF d
  <2> QED BY <1>3, <2>1, ConcatProperties
<1>8. Len(d) = i /\ \A j \in 1 .. i : d[j] = IF j < i THEN rs[j] ELSE r
  BY <1>1, <1>2, <1>4, <1>6 DEF d, c
<1>9. InsertAt(rs, i, r) = d \o b
  BY <1>5 DEF d, c
<1>10. InsertAt(rs, i, r) \in Trees /\ Len(InsertAt(rs, i, r)) = Len(rs) + 1
  BY <1>1, <1>3, <1>7, <1>8, <1>9 DEF Trees
<1>11. ASSUME NEW j \in 1 .. Len(rs) + 1
       PROVE  InsertAt(rs, i, r)[j] = IF j < i THEN rs[j] ELSE IF j = i THEN r ELSE rs[j - 1]
  <2>1. CASE j <= i
    BY <1>1, <1>3, <1>7, <1>8, <1>9, <2>1
  <2>2. CASE j > i
    <3>1. j - i \in 1 .. Len(rs) - i + 1 /\ i + (j - i) - 1 = j - 1
      BY <1>1, <2>2
    <3>2. InsertAt(rs, i, r)[j] = b[j - i]
      <4>1. j \in 1 .. Len(d) + Len(b) /\ ~ (j <= Len(d)) /\ j - Len(d) = j - i
        BY <1>1, <1>3, <1>8, <2>2
      <4> QED BY <1>7, <1>9, <4>1
    <3> QED BY <1>3, <2>2, <3>1, <3>2
  <2> QED BY <2>1, <2>2
<1> QED BY <1>10, <1>11

(* An array with one run replaced.                                         *)
LEMMA ExceptFacts ==
  ASSUME NEW rs \in Trees, NEW i \in 1 .. Len(rs), NEW r \in Runs
  PROVE  /\ [rs EXCEPT ![i] = r] \in Trees /\ Len([rs EXCEPT ![i] = r]) = Len(rs)
         /\ \A j \in 1 .. Len(rs) : [rs EXCEPT ![i] = r][j] = IF j = i THEN r ELSE rs[j]
BY ExceptSeq DEF Trees
-----------------------------------------------------------------------------
(* What a pass of run_consolidate asks of the i-th run and the next, and   *)
(* what it makes of them.                                                  *)
Cut(rs, i) == After(rs[i + 1], End(rs[i]))
Settled(rs, i) == i >= Len(rs) \/ rs[i + 1].vcn > End(rs[i])
Eaten(rs, i) == Cut(rs, i).len <= 0
Unlike(rs, i) == (Cut(rs, i).lcn = Sparse) # (rs[i].lcn = Sparse)
Apart(rs, i) == Cut(rs, i).lcn \notin {Sparse, rs[i].lcn + rs[i].len}
Shortened(rs, i) == [rs EXCEPT ![i + 1] = Cut(rs, i)]
Joined(rs, i) == RemoveAt([rs EXCEPT ![i].len = @ + Cut(rs, i).len], i + 1)

(* Of two runs that touch or overlap: what the second has after the first. *)
LEMMA CutFacts ==
  ASSUME NEW rs \in Trees, NEW i \in Nat \ {0}, ~ Settled(rs, i)
  PROVE  /\ i \in 1 .. Len(rs) /\ i + 1 \in 1 .. Len(rs) /\ rs[i] \in Runs /\ rs[i + 1] \in Runs
         /\ End(rs[i]) \in Nat /\ rs[i + 1].vcn <= End(rs[i])
         /\ Cut(rs, i).vcn = End(rs[i]) /\ Cut(rs, i).len = End(rs[i + 1]) - End(rs[i])
         /\ Cut(rs, i).lcn = At(rs[i + 1].lcn, End(rs[i]) - rs[i + 1].vcn)
         /\ End(Cut(rs, i)) = End(rs[i + 1])
         /\ ~ Eaten(rs, i) => Cut(rs, i) \in Runs
<1>1. i \in 1 .. Len(rs) /\ i + 1 \in 1 .. Len(rs) /\ rs[i] \in Runs /\ rs[i + 1] \in Runs
  BY TreeFacts DEF Settled
<1>2. /\ End(rs[i]) \in Nat /\ rs[i].vcn \in Nat /\ rs[i + 1].vcn \in Nat
      /\ End(rs[i + 1]) \in Nat
  BY <1>1, TreeTypes
<1>3. rs[i + 1].vcn <= End(rs[i])
  BY <1>1, <1>2 DEF Settled
<1>4. ~ Eaten(rs, i) => End(rs[i]) < End(rs[i + 1])
  BY <1>1, <1>2, <1>3, AfterIsRun DEF Eaten, Cut
<1> QED BY <1>1, <1>2, <1>3, <1>4, AfterIsRun DEF Cut

(* The array with the second run cut.                                      *)
LEMMA ShortenedFacts ==
  ASSUME NEW rs \in Trees, NEW i \in Nat \ {0}, ~ Settled(rs, i), ~ Eaten(rs, i)
  PROVE  /\ Shortened(rs, i) \in Trees /\ Len(Shortened(rs, i)) = Len(rs)
         /\ \A j \in 1 .. Len(rs) : Shortened(rs, i)[j] = IF j = i + 1 THEN Cut(rs, i) ELSE rs[j]
<1>1. i + 1 \in 1 .. Len(rs) /\ Cut(rs, i) \in Runs
  BY CutFacts
<1> DEFINE k == i + 1
           n == Cut(rs, i)
           e == [rs EXCEPT ![k] = n]
<1>2. k \in 1 .. Len(rs) /\ n \in Runs
  BY <1>1
<1>3. Shortened(rs, i) = e
  BY DEF Shortened
<1> HIDE DEF k, n
<1>4. e \in Trees /\ Len(e) = Len(rs) /\ \A j \in 1 .. Len(rs) : e[j] = IF j = k THEN n ELSE rs[j]
  BY <1>2, ExceptFacts
<1> HIDE DEF e
<1> QED BY <1>3, <1>4 DEF k, n

(* The array with the second run joined to the first.                      *)
LEMMA JoinedFacts ==
  ASSUME NEW rs \in Trees, NEW i \in Nat \ {0}, ~ Settled(rs, i), ~ Eaten(rs, i)
  PROVE  /\ Joined(rs, i) \in Trees /\ Len(Joined(rs, i)) = Len(rs) - 1
         /\ Joined(rs, i)[i].vcn = rs[i].vcn /\ Joined(rs, i)[i].lcn = rs[i].lcn
         /\ End(Joined(rs, i)[i]) = End(rs[i + 1])
         /\ \A j \in 1 .. Len(rs) - 1 : j # i =>
              Joined(rs, i)[j] = IF j < i THEN rs[j] ELSE rs[j + 1]
<1> DEFINE len == rs[i].len + Cut(rs, i).len
           r == Run(rs[i].vcn, len, rs[i].lcn)
<1>1. /\ i \in 1 .. Len(rs) /\ i + 1 \in 1 .. Len(rs) /\ rs[i] \in Runs /\ rs[i + 1] \in Runs
      /\ Cut(rs, i).len = End(rs[i + 1]) - End(rs[i]) /\ Cut(rs, i).len > 0
  BY CutFacts, RunFacts DEF Eaten
<1>2. /\ rs[i].vcn \in Nat /\ len \in Nat \ {0} /\ rs[i].vcn + len = End(rs[i + 1])
      /\ rs[i].lcn \in Nat \cup {Sparse} /\ rs[i].vcn + len <= LastVcn + 1
  <2>1. /\ rs[i].vcn \in Nat /\ rs[i].len \in Nat \ {0} /\ End(rs[i]) = rs[i].vcn + rs[i].len
        /\ rs[i].lcn \in Nat \cup {Sparse}
    BY <1>1, RunFacts
  <2>2. End(rs[i + 1]) \in Nat /\ End(rs[i + 1]) <= LastVcn + 1
    BY <1>1, RunFacts
  <2> QED BY <1>1, <2>1, <2>2
<1>3. [rs EXCEPT ![i].len = @ + Cut(rs, i).len] = [rs EXCEPT ![i] = r]
  <2>1. [rs[i] EXCEPT !.len = @ + Cut(rs, i).len] = r
    BY <1>1 DEF Run, Runs
  <2> QED BY <2>1
<1> HIDE DEF len
<1>4. /\ r \in Runs /\ r.vcn = rs[i].vcn /\ r.lcn = rs[i].lcn /\ End(r) = End(rs[i + 1])
  <2> DEFINE a == rs[i].vcn
             l == rs[i].lcn
  <2>1. a \in Nat /\ len \in Nat \ {0} /\ l \in Nat \cup {Sparse} /\ a + len <= LastVcn + 1
    BY <1>2
  <2> HIDE DEF a, l
  <2>2. /\ Run(a, len, l) \in Runs /\ Run(a, len, l).vcn = a
        /\ Run(a, len, l).lcn = l /\ End(Run(a, len, l)) = a + len
    BY <2>1, RunIsRun
  <2> QED BY <1>2, <2>2 DEF a, l
<1> HIDE DEF r
<1> DEFINE e == [rs EXCEPT ![i] = r]
<1>5. e \in Trees /\ Len(e) = Len(rs) /\ \A j \in 1 .. Len(rs) : e[j] = IF j = i THEN r ELSE rs[j]
  BY <1>1, <1>4, ExceptFacts
<1>6. Joined(rs, i) = RemoveAt(e, i + 1)
  BY <1>3 DEF Joined
<1> HIDE DEF e
<1>7. /\ RemoveAt(e, i + 1) \in Trees /\ Len(RemoveAt(e, i + 1)) = Len(rs) - 1
      /\ \A j \in 1 .. Len(rs) - 1 : RemoveAt(e, i + 1)[j] = IF j < i + 1 THEN e[j] ELSE e[j + 1]
  BY <1>1, <1>5, RemoveFacts
<1>8. Len(rs) \in Nat
  BY TreeFacts
<1> QED BY <1>1, <1>4, <1>5, <1>6, <1>7, <1>8

(* run_consolidate, one round of its loop after another.                   *)
LEMMA ConsolidateIs ==
  ASSUME NEW rs \in Trees, NEW i \in Nat \ {0}
  PROVE  Consolidate[<<rs, i>>] =
           IF Settled(rs, i) THEN rs
           ELSE IF Eaten(rs, i) THEN Consolidate[<<RemoveAt(rs, i + 1), i>>]
           ELSE IF Unlike(rs, i) THEN Consolidate[<<Shortened(rs, i), i + 1>>]
           ELSE IF Apart(rs, i) THEN Shortened(rs, i)
           ELSE Consolidate[<<Joined(rs, i), i>>]
<1> DEFINE S == Trees \X (Nat \ {0})
           Body(g, s) ==
             IF Settled(s[1], s[2]) THEN s[1]
             ELSE IF Eaten(s[1], s[2]) THEN g[<<RemoveAt(s[1], s[2] + 1), s[2]>>]
             ELSE IF Unlike(s[1], s[2]) THEN g[<<Shortened(s[1], s[2]), s[2] + 1>>]
             ELSE IF Apart(s[1], s[2]) THEN Shortened(s[1], s[2])
             ELSE g[<<Joined(s[1], s[2]), s[2]>>]
           Stop == {s \in S : \/ Settled(s[1], s[2])
                              \/ ~ Eaten(s[1], s[2]) /\ ~ Unlike(s[1], s[2]) /\ Apart(s[1], s[2])}
           out == [s \in S |-> IF Settled(s[1], s[2]) THEN s[1] ELSE Shortened(s[1], s[2])]
           step == [s \in S |-> IF Eaten(s[1], s[2]) THEN <<RemoveAt(s[1], s[2] + 1), s[2]>>
                                ELSE IF Unlike(s[1], s[2]) THEN <<Shortened(s[1], s[2]), s[2] + 1>>
                                ELSE <<Joined(s[1], s[2]), s[2]>>]
           m == [s \in S |-> IF s[2] >= Len(s[1]) THEN 0 ELSE Len(s[1]) - s[2]]
<1>1. Consolidate = CHOOSE g : g = [s \in S |-> Body(g, s)]
  BY DEF Consolidate, Settled, Eaten, Unlike, Apart, Joined, Shortened, Cut
<1>2. \A s \in S : m[s] \in Nat
  <2> SUFFICES ASSUME NEW t \in Trees, NEW j \in Nat \ {0} PROVE m[<<t, j>>] \in Nat
    OBVIOUS
  <2>1. Len(t) \in Nat
    BY TreeFacts
  <2> QED BY <2>1
<1>3. \A s \in S \ Stop : step[s] \in S /\ m[step[s]] < m[s]
  <2> SUFFICES ASSUME NEW t \in Trees, NEW j \in Nat \ {0}, <<t, j>> \notin Stop
               PROVE  step[<<t, j>>] \in S /\ m[step[<<t, j>>]] < m[<<t, j>>]
    <3> HIDE DEF Stop, step, m
    <3> QED OBVIOUS
  <2>1. ~ Settled(t, j) /\ (Eaten(t, j) \/ Unlike(t, j) \/ ~ Apart(t, j))
    <3>1. <<t, j>> \in S /\ <<t, j>>[1] = t /\ <<t, j>>[2] = j
      OBVIOUS
    <3> HIDE DEF S
    <3> QED BY <3>1
  <2>2. j + 1 \in 1 .. Len(t) /\ Len(t) \in Nat
    BY <2>1, CutFacts, TreeFacts
  <2>3. m[<<t, j>>] = Len(t) - j
    BY <2>2
  <2>4. CASE Eaten(t, j)
    <3>1. step[<<t, j>>] = <<RemoveAt(t, j + 1), j>>
      BY <2>4
    <3>2. RemoveAt(t, j + 1) \in Trees /\ Len(RemoveAt(t, j + 1)) = Len(t) - 1
      BY <2>2, RemoveFacts
    <3>3. m[<<RemoveAt(t, j + 1), j>>] < Len(t) - j
      BY <2>2, <3>2
    <3> HIDE DEF step, m
    <3> QED BY <2>3, <3>1, <3>2, <3>3
  <2>5. CASE ~ Eaten(t, j) /\ Unlike(t, j)
    <3> DEFINE c == Shortened(t, j)
    <3>1. step[<<t, j>>] = <<c, j + 1>>
      BY <2>5
    <3>2. c \in Trees /\ Len(c) = Len(t)
      BY <2>1, <2>5, ShortenedFacts
    <3> HIDE DEF c
    <3>3. m[<<c, j + 1>>] < Len(t) - j
      BY <2>2, <3>2
    <3> HIDE DEF step, m
    <3> QED BY <2>3, <3>1, <3>2, <3>3
  <2>6. CASE ~ Eaten(t, j) /\ ~ Unlike(t, j)
    <3>1. step[<<t, j>>] = <<Joined(t, j), j>>
      BY <2>6
    <3>2. Joined(t, j) \in Trees /\ Len(Joined(t, j)) = Len(t) - 1
      BY <2>1, <2>6, JoinedFacts
    <3>3. m[<<Joined(t, j), j>>] < Len(t) - j
      BY <2>2, <3>2
    <3> HIDE DEF step, m
    <3> QED BY <2>3, <3>1, <3>2, <3>3
  <2> QED BY <2>4, <2>5, <2>6
<1>4. PICK f : Loop(f, S, Stop, out, step)
  <2> HIDE DEF S, Stop, out, step, m
  <2> QED BY <1>2, <1>3, LoopIsDefined
<1>5. f = [s \in S |-> Body(f, s)]
  <2>1. \A s \in S : f[s] = Body(f, s)
    <3> SUFFICES ASSUME NEW s \in S PROVE f[s] = Body(f, s)
      OBVIOUS
    <3>1. f[s] = IF s \in Stop THEN out[s] ELSE f[step[s]]
      <4> HIDE DEF S, Stop, out, step
      <4> QED BY <1>4 DEF Loop
    <3> QED BY <3>1
  <2>2. f = [s \in S |-> f[s]]
    <3> HIDE DEF S, Stop, out, step
    <3> QED BY <1>4 DEF Loop
  <2> HIDE DEF Body
  <2> QED BY <2>1, <2>2
<1>6. Consolidate = [s \in S |-> Body(Consolidate, s)]
  <2> HIDE DEF Body
  <2> QED BY <1>1, <1>5
<1>7. <<rs, i>> \in S /\ <<rs, i>>[1] = rs /\ <<rs, i>>[2] = i
  OBVIOUS
<1>8. Consolidate[<<rs, i>>] = Body(Consolidate, <<rs, i>>)
  <2> HIDE DEF Body
  <2> QED BY <1>6, <1>7
<1> QED BY <1>7, <1>8
-----------------------------------------------------------------------------
(* Arrays in order but for the k-th run, which may reach into those after  *)
(* it, and then takes precedence.                                          *)
Over(rs, k) ==
  \A i, j \in 1 .. Len(rs) : i < j =>
    IF i = k THEN rs[i].vcn < rs[j].vcn ELSE End(rs[i]) <= rs[j].vcn

Shown(rs, k, v) ==
  IF k \in 1 .. Len(rs) /\ Covers(rs[k], v) THEN At(rs[k].lcn, v - rs[k].vcn) ELSE Location(rs, v)

(* The location of a cluster by the one run that has it.                   *)
LEMMA LocationOf ==
  ASSUME NEW rs \in Trees, NEW v \in Nat
  PROVE  /\ \A i \in 1 .. Len(rs) :
              Covers(rs[i], v) /\ (\A j \in 1 .. Len(rs) : Covers(rs[j], v) => j = i)
              => Location(rs, v) = At(rs[i].lcn, v - rs[i].vcn)
         /\ (\A i \in 1 .. Len(rs) : ~ Covers(rs[i], v)) => Location(rs, v) = Unmapped
<1> DEFINE has == {i \in DOMAIN rs : rs[i].vcn <= v /\ v < End(rs[i])}
<1>1. has = {i \in 1 .. Len(rs) : Covers(rs[i], v)}
  BY TreeFacts DEF Covers
<1>2. Location(rs, v) = IF has = {} THEN Unmapped
                        ELSE At(rs[CHOOSE i \in has : TRUE].lcn, v - rs[CHOOSE i \in has : TRUE].vcn)
  BY DEF Location
<1> HIDE DEF has
<1>3. ASSUME NEW i \in 1 .. Len(rs), Covers(rs[i], v),
             \A j \in 1 .. Len(rs) : Covers(rs[j], v) => j = i
      PROVE  Location(rs, v) = At(rs[i].lcn, v - rs[i].vcn)
  <2>1. has = {i}
    BY <1>1, <1>3
  <2>2. (CHOOSE j \in has : TRUE) = i
    BY <2>1
  <2> QED BY <1>2, <2>1, <2>2
<1>4. ASSUME \A i \in 1 .. Len(rs) : ~ Covers(rs[i], v) PROVE Location(rs, v) = Unmapped
  BY <1>1, <1>2, <1>4
<1> QED BY <1>3, <1>4

(* Where an array shows a cluster, by the run that has it.                 *)
LEMMA ShownOf ==
  ASSUME NEW rs \in Trees, NEW k, Over(rs, k), NEW v \in Nat
  PROVE  /\ \A i \in 1 .. Len(rs) :
              Covers(rs[i], v) /\ (i = k \/ ~ (k \in 1 .. Len(rs) /\ Covers(rs[k], v)))
              => Shown(rs, k, v) = At(rs[i].lcn, v - rs[i].vcn)
         /\ (\A i \in 1 .. Len(rs) : ~ Covers(rs[i], v)) => Shown(rs, k, v) = Unmapped
<1>1. ASSUME NEW i \in 1 .. Len(rs), Covers(rs[i], v), ~ (k \in 1 .. Len(rs) /\ Covers(rs[k], v))
      PROVE  Shown(rs, k, v) = At(rs[i].lcn, v - rs[i].vcn)
  <2>1. \A j \in 1 .. Len(rs) : Covers(rs[j], v) => j = i
    BY <1>1, TreeTypes DEF Over, Covers
  <2> QED BY <1>1, <2>1, LocationOf DEF Shown
<1> QED BY <1>1, LocationOf DEF Shown

(* In an array in order no run comes over another.                         *)
LEMMA InOrderIsOver ==
  ASSUME NEW rs \in Trees, InOrder(rs), NEW k
  PROVE  Over(rs, k) /\ \A v \in Nat : Shown(rs, k, v) = Location(rs, v)
<1>1. Over(rs, k)
  BY OrderFacts DEF Over
<1>2. ASSUME NEW v \in Nat PROVE Shown(rs, k, v) = Location(rs, v)
  <2>1. CASE k \in 1 .. Len(rs) /\ Covers(rs[k], v)
    <3>1. \A j \in 1 .. Len(rs) : Covers(rs[j], v) => j = k
      BY <2>1, OrderFacts, TreeTypes DEF Covers
    <3> QED BY <2>1, <3>1, LocationOf DEF Shown
  <2>2. CASE ~ (k \in 1 .. Len(rs) /\ Covers(rs[k], v))
    BY <2>2 DEF Shown
  <2> QED BY <2>1, <2>2
<1> QED BY <1>1, <1>2

(* In an array in order: one run for a cluster, or none.                   *)
LEMMA LocationInOrder ==
  ASSUME NEW rs \in Trees, InOrder(rs), NEW v \in Nat
  PROVE  /\ \A i \in 1 .. Len(rs) :
              Covers(rs[i], v) => Location(rs, v) = At(rs[i].lcn, v - rs[i].vcn)
         /\ (\A i \in 1 .. Len(rs) : ~ Covers(rs[i], v)) <=> Location(rs, v) = Unmapped
<1>1. ASSUME NEW i \in 1 .. Len(rs), Covers(rs[i], v)
      PROVE  Location(rs, v) = At(rs[i].lcn, v - rs[i].vcn) /\ Location(rs, v) # Unmapped
  <2>1. \A j \in 1 .. Len(rs) : Covers(rs[j], v) => j = i
    BY <1>1, OrderFacts, TreeTypes DEF Covers
  <2>2. Location(rs, v) = At(rs[i].lcn, v - rs[i].vcn)
    BY <1>1, <2>1, LocationOf
  <2>3. v - rs[i].vcn \in Nat /\ rs[i].lcn \in Nat \cup {Sparse}
    BY <1>1, TreeTypes DEF Covers
  <2>4. At(rs[i].lcn, v - rs[i].vcn) # Unmapped
    BY <2>3, AtFacts
  <2> QED BY <2>2, <2>4
<1>2. (\A i \in 1 .. Len(rs) : ~ Covers(rs[i], v)) => Location(rs, v) = Unmapped
  BY LocationOf
<1> QED BY <1>1, <1>2
-----------------------------------------------------------------------------
(* A pass of run_consolidate at the run that reaches too far, by what it   *)
(* finds: the next run is covered, or overlapped, or continues it.         *)
LEMMA EatenKeeps ==
  ASSUME NEW rs \in Trees, NEW i \in Nat \ {0}, Over(rs, i), ~ Settled(rs, i), Eaten(rs, i),
         NEW t, t = RemoveAt(rs, i + 1)
  PROVE  /\ t \in Trees /\ Len(t) = Len(rs) - 1 /\ Over(t, i)
         /\ \A j \in 1 .. i : t[j] = rs[j]
         /\ \A v \in Nat : Shown(t, i, v) = Shown(rs, i, v)
<1>1. /\ i \in 1 .. Len(rs) /\ i + 1 \in 1 .. Len(rs) /\ End(rs[i + 1]) <= End(rs[i])
  BY CutFacts, TreeTypes DEF Eaten
<1>2. /\ t \in Trees /\ Len(t) = Len(rs) - 1
      /\ \A j \in 1 .. Len(rs) - 1 : t[j] = IF j < i + 1 THEN rs[j] ELSE rs[j + 1]
  BY <1>1, RemoveFacts
<1>3. Len(rs) \in Nat
  BY TreeFacts
<1>4. \A j \in 1 .. i : t[j] = rs[j]
  BY <1>1, <1>2, <1>3
<1>5. Over(t, i)
  BY <1>1, <1>2, <1>3 DEF Over
<1>6. ASSUME NEW v \in Nat PROVE Shown(t, i, v) = Shown(rs, i, v)
  <2>1. CASE Covers(rs[i], v)
    BY <1>1, <1>2, <1>4, <2>1 DEF Shown
  <2>2. ASSUME NEW j \in 1 .. Len(rs), Covers(rs[j], v), ~ Covers(rs[i], v)
        PROVE  Shown(t, i, v) = Shown(rs, i, v)
    <3>1. j # i + 1
      BY <1>1, <2>2, TreeTypes DEF Over, Covers
    <3> DEFINE p == IF j < i + 1 THEN j ELSE j - 1
    <3>2. p \in 1 .. Len(t) /\ t[p] = rs[j]
      BY <1>1, <1>2, <1>3, <3>1
    <3>3. Shown(t, i, v) = At(rs[j].lcn, v - rs[j].vcn)
      <4>1. Covers(t[p], v) /\ ~ Covers(t[i], v)
        BY <1>1, <1>4, <2>2, <3>2
      <4>2. t \in Trees
        BY <1>2
      <4> HIDE DEF p
      <4>3. Shown(t, i, v) = At(t[p].lcn, v - t[p].vcn)
        BY <1>5, <3>2, <4>1, <4>2, ShownOf
      <4> QED BY <3>2, <4>3
    <3>4. Shown(rs, i, v) = At(rs[j].lcn, v - rs[j].vcn)
      BY <2>2, ShownOf
    <3> QED BY <3>3, <3>4
  <2>3. CASE \A j \in 1 .. Len(rs) : ~ Covers(rs[j], v)
    <3>1. \A j \in 1 .. Len(t) : ~ Covers(t[j], v)
      BY <1>2, <1>3, <2>3
    <3> QED BY <1>2, <1>5, <2>3, <3>1, ShownOf
  <2> QED BY <2>1, <2>2, <2>3
<1> QED BY <1>2, <1>4, <1>5, <1>6

(* Cutting the second of two runs changes no location.                     *)
LEMMA CutKeeps ==
  ASSUME NEW rs \in Trees, NEW i \in Nat \ {0}, Over(rs, i), ~ Settled(rs, i), ~ Eaten(rs, i),
         NEW t, t = Shortened(rs, i)
  PROVE  /\ t \in Trees /\ Len(t) = Len(rs) /\ InOrder(t)
         /\ \A j \in 1 .. i : t[j] = rs[j]
         /\ \A v \in Nat : Location(t, v) = Shown(rs, i, v)
<1> DEFINE n == Cut(rs, i)
<1>1. /\ i \in 1 .. Len(rs) /\ i + 1 \in 1 .. Len(rs) /\ n \in Runs
      /\ rs[i + 1].vcn <= End(rs[i])
      /\ n.vcn = End(rs[i]) /\ n.lcn = At(rs[i + 1].lcn, End(rs[i]) - rs[i + 1].vcn)
      /\ End(n) = End(rs[i + 1])
  BY CutFacts
<1> HIDE DEF n
<1>2. /\ t \in Trees /\ Len(t) = Len(rs)
      /\ \A j \in 1 .. Len(rs) : t[j] = IF j = i + 1 THEN n ELSE rs[j]
  BY ShortenedFacts DEF n
<1> HIDE DEF n
<1>3. Len(rs) \in Nat /\ End(rs[i]) \in Nat /\ End(rs[i]) < End(rs[i + 1]) /\ End(rs[i + 1]) \in Nat
  <2>1. n.vcn < End(n)
    <3>1. n \in Runs
      BY <1>1
    <3>2. n.vcn \in Nat /\ n.len \in Nat \ {0} /\ End(n) = n.vcn + n.len
      BY <3>1, RunFacts
    <3> QED BY <3>2
  <2>2. /\ Len(rs) \in Nat /\ i \in 1 .. Len(rs) /\ i + 1 \in 1 .. Len(rs)
    BY <1>1, TreeTypes
  <2>3. End(rs[i]) \in Nat /\ End(rs[i + 1]) \in Nat
    BY <2>2, TreeTypes
  <2> QED BY <1>1, <2>1, <2>2, <2>3
<1>4. \A j \in 1 .. i : t[j] = rs[j]
  BY <1>1, <1>2, <1>3
<1>5. ASSUME NEW a \in 1 .. Len(rs), NEW b \in 1 .. Len(rs), a < b PROVE End(t[a]) <= t[b].vcn
  <2>1. CASE a = i + 1
    BY <1>1, <1>2, <1>5, <2>1 DEF Over
  <2>2. CASE a = i /\ b = i + 1
    BY <1>1, <1>2, <1>3, <2>2
  <2>3. CASE a = i /\ b > i + 1
    <3>1. End(rs[i + 1]) <= rs[b].vcn /\ rs[b].vcn \in Nat
      BY <1>1, <2>3, TreeTypes DEF Over
    <3> QED BY <1>1, <1>2, <1>3, <2>3, <3>1
  <2>4. CASE a \notin {i, i + 1} /\ b = i + 1
    <3>1. End(rs[a]) <= rs[i].vcn /\ rs[i].vcn < End(rs[i]) /\ End(rs[a]) \in Nat /\ rs[i].vcn \in Nat
      BY <1>1, <1>5, <2>4, TreeTypes DEF Over
    <3> QED BY <1>1, <1>2, <1>3, <2>4, <3>1
  <2>5. CASE a \notin {i, i + 1} /\ b # i + 1
    BY <1>1, <1>2, <1>5, <2>5 DEF Over
  <2> QED BY <1>1, <1>3, <1>5, <2>1, <2>2, <2>3, <2>4, <2>5
<1>6. InOrder(t)
  BY <1>2, <1>5, TreeFacts DEF InOrder
<1>8. t \in Trees
  BY <1>2
<1>7. ASSUME NEW v \in Nat PROVE Location(t, v) = Shown(rs, i, v)
  <2>1. CASE Covers(rs[i], v)
    <3>1. t[i] = rs[i] /\ i \in 1 .. Len(t) /\ Covers(t[i], v)
      BY <1>1, <1>2, <1>4, <2>1
    <3>2. Location(t, v) = At(t[i].lcn, v - t[i].vcn)
      BY <1>6, <3>1, <1>8, LocationInOrder
    <3>3. Shown(rs, i, v) = At(rs[i].lcn, v - rs[i].vcn)
      BY <1>1, <2>1 DEF Shown
    <3> QED BY <3>1, <3>2, <3>3
  <2>2. CASE Covers(rs[i + 1], v) /\ ~ Covers(rs[i], v)
    <3>1. Shown(rs, i, v) = At(rs[i + 1].lcn, v - rs[i + 1].vcn)
      BY <1>1, <2>2, ShownOf
    <3>2. v >= End(rs[i]) /\ rs[i + 1].vcn \in Nat /\ rs[i + 1].lcn \in Nat \cup {Sparse}
      BY <1>1, <2>2, TreeTypes DEF Covers, Over
    <3>3. Covers(t[i + 1], v) /\ t[i + 1] = n
      BY <1>1, <1>2, <2>2, <3>2 DEF Covers
    <3>4. Location(t, v) = At(n.lcn, v - n.vcn)
      BY <1>1, <1>2, <1>6, <3>3, LocationInOrder
    <3>5. At(At(rs[i + 1].lcn, End(rs[i]) - rs[i + 1].vcn), v - End(rs[i])) =
            At(rs[i + 1].lcn, v - rs[i + 1].vcn)
      <4>1. rs[i + 1].vcn <= End(rs[i])
        BY <1>1
      <4>2. End(rs[i]) \in Nat
        BY <1>3
      <4> DEFINE b == End(rs[i])
                 a == rs[i + 1].vcn
                 l == rs[i + 1].lcn
      <4>3. a \in Nat /\ b \in Nat /\ l \in Nat \cup {Sparse} /\ a <= b /\ b <= v
        BY <3>2, <4>1, <4>2
      <4> HIDE DEF a, b, l
      <4>4. At(At(l, b - a), v - b) = At(l, v - a)
        <5>1. b - a \in Nat /\ v - b \in Nat /\ (b - a) + (v - b) = v - a
          BY <4>3
        <5>2. At(At(l, b - a), v - b) = At(l, (b - a) + (v - b))
          BY <4>3, <5>1, AtAt
        <5> QED BY <5>1, <5>2
      <4> QED BY <4>4 DEF a, b, l
    <3> QED BY <1>1, <3>1, <3>4, <3>5
  <2>3. ASSUME NEW j \in 1 .. Len(rs), Covers(rs[j], v), j \notin {i, i + 1}, ~ Covers(rs[i], v)
        PROVE  Location(t, v) = Shown(rs, i, v)
    <3>1. t[j] = rs[j] /\ j \in 1 .. Len(t)
      BY <1>2, <2>3
    <3>2. Location(t, v) = At(rs[j].lcn, v - rs[j].vcn)
      BY <1>6, <1>8, <2>3, <3>1, LocationInOrder
    <3>3. Shown(rs, i, v) = At(rs[j].lcn, v - rs[j].vcn)
      BY <2>3, ShownOf
    <3> QED BY <3>2, <3>3
  <2>4. CASE \A j \in 1 .. Len(rs) : ~ Covers(rs[j], v)
    <3>1. ~ Covers(n, v)
      BY <1>1, <1>3, <2>4, TreeTypes DEF Covers
    <3>2. \A j \in 1 .. Len(t) : ~ Covers(t[j], v)
      BY <1>2, <2>4, <3>1
    <3> QED BY <1>2, <1>6, <2>4, <3>2, LocationInOrder, ShownOf
  <2> QED BY <1>1, <2>1, <2>2, <2>3, <2>4
<1> QED BY <1>2, <1>4, <1>6, <1>7

(* Joining two runs changes no location.                                   *)
LEMMA JoinKeeps ==
  ASSUME NEW rs \in Trees, NEW i \in Nat \ {0}, NEW k \in {i, i + 1}, Over(rs, k),
         ~ Settled(rs, i), ~ Eaten(rs, i), ~ Unlike(rs, i), ~ Apart(rs, i),
         NEW t, t = Joined(rs, i)
  PROVE  /\ t \in Trees /\ Len(t) = Len(rs) - 1 /\ Over(t, i)
         /\ \A j \in 1 .. i - 1 : t[j] = rs[j]
         /\ t[i].vcn = rs[i].vcn /\ End(t[i]) = End(rs[i + 1]) /\ End(t[i]) >= End(rs[i])
         /\ \A v \in Nat : Shown(t, i, v) = Shown(rs, k, v)
<1>1. /\ i \in 1 .. Len(rs) /\ i + 1 \in 1 .. Len(rs) /\ Len(rs) \in Nat
      /\ rs[i + 1].vcn <= End(rs[i])
  BY CutFacts, TreeFacts
<1>2. /\ rs[i].vcn \in Nat /\ End(rs[i]) \in Nat /\ rs[i].vcn < End(rs[i])
      /\ rs[i + 1].vcn \in Nat /\ End(rs[i + 1]) \in Nat /\ rs[i + 1].vcn < End(rs[i + 1])
  BY <1>1, TreeTypes
<1>3. End(rs[i]) < End(rs[i + 1]) /\ rs[i].vcn < rs[i + 1].vcn
  <2>1. Cut(rs, i).len = End(rs[i + 1]) - End(rs[i])
    BY CutFacts
  <2>2. rs[i].vcn < rs[i + 1].vcn
    BY <1>1, <1>2 DEF Over
  <2> QED BY <1>2, <2>1, <2>2 DEF Eaten
<1>4. t \in Trees /\ Len(t) = Len(rs) - 1
  BY JoinedFacts
<1>5. /\ t[i].vcn = rs[i].vcn /\ t[i].lcn = rs[i].lcn /\ End(t[i]) = End(rs[i + 1])
  BY JoinedFacts
<1>6. \A j \in 1 .. Len(rs) - 1 : j # i => t[j] = IF j < i THEN rs[j] ELSE rs[j + 1]
  BY JoinedFacts
<1>7. i \in 1 .. Len(t) /\ \A j \in 1 .. i - 1 : t[j] = rs[j]
  BY <1>1, <1>4, <1>6
<1> DEFINE Old(j) == IF j < i THEN j ELSE j + 1
<1>8. ASSUME NEW j \in 1 .. Len(t), j # i
      PROVE  Old(j) \in 1 .. Len(rs) /\ Old(j) \notin {i, i + 1} /\ t[j] = rs[Old(j)]
  BY <1>1, <1>4, <1>6, <1>8
<1>9. ASSUME NEW j \in 1 .. Len(rs), j \notin {i, i + 1}
      PROVE  \E p \in 1 .. Len(t) : p # i /\ t[p] = rs[j]
  <2>1. CASE j < i
    BY <1>1, <1>4, <1>6, <2>1
  <2>2. CASE j > i + 1
    <3>1. j - 1 \in 1 .. Len(t) /\ j - 1 # i /\ (j - 1) + 1 = j /\ ~ (j - 1 < i)
      BY <1>1, <1>4, <2>2
    <3>2. t[j - 1] = rs[(j - 1) + 1]
      BY <1>4, <1>6, <3>1
    <3> QED BY <3>1, <3>2
  <2> QED BY <1>1, <1>9, <2>1, <2>2
<1>10. Over(t, i)
  <2> SUFFICES ASSUME NEW a \in 1 .. Len(t), NEW b \in 1 .. Len(t), a < b
               PROVE  IF a = i THEN t[a].vcn < t[b].vcn ELSE End(t[a]) <= t[b].vcn
    BY DEF Over
  <2>1. CASE a = i
    <3>1. t[b] = rs[b + 1] /\ b + 1 \in 1 .. Len(rs) /\ b + 1 > i + 1
      BY <1>1, <1>4, <1>8, <2>1
    <3>2. rs[b + 1].vcn \in Nat
      BY <3>1, TreeTypes
    <3>3. IF i + 1 = k THEN rs[i + 1].vcn < rs[b + 1].vcn ELSE End(rs[i + 1]) <= rs[b + 1].vcn
      BY <1>1, <3>1 DEF Over
    <3>4. rs[i].vcn < rs[b + 1].vcn
      <4>1. /\ rs[i].vcn \in Nat /\ rs[i + 1].vcn \in Nat /\ End(rs[i + 1]) \in Nat
            /\ rs[i].vcn < rs[i + 1].vcn /\ rs[i + 1].vcn < End(rs[i + 1])
        BY <1>2, <1>3
      <4> DEFINE x == rs[i].vcn
                 y == rs[i + 1].vcn
                 e == End(rs[i + 1])
                 z == rs[b + 1].vcn
      <4>2. y < z \/ e <= z
        BY <3>3
      <4>3. x \in Nat /\ y \in Nat /\ e \in Nat /\ z \in Nat /\ x < y /\ y < e
        BY <3>2, <4>1
      <4> HIDE DEF x, y, e, z
      <4>4. x < z
        BY <4>2, <4>3
      <4> QED BY <4>4 DEF x, z
    <3> QED BY <1>5, <2>1, <3>1, <3>4
  <2>2. CASE a < i /\ b = i
    <3>1. t[a] = rs[a] /\ a \in 1 .. Len(rs) /\ a # k
      BY <1>1, <1>4, <1>6, <2>2
    <3>2. End(rs[a]) <= rs[i].vcn
      BY <1>1, <2>2, <3>1 DEF Over
    <3> QED BY <1>5, <2>2, <3>1, <3>2
  <2>3. CASE a # i /\ b # i
    <3>1. /\ Old(a) \in 1 .. Len(rs) /\ Old(a) \notin {i, i + 1} /\ t[a] = rs[Old(a)]
          /\ Old(b) \in 1 .. Len(rs) /\ t[b] = rs[Old(b)]
      BY <1>8, <2>3
    <3>2. Old(a) < Old(b)
      BY <1>1
    <3> HIDE DEF Old
    <3>3. End(rs[Old(a)]) <= rs[Old(b)].vcn
      BY <3>1, <3>2 DEF Over
    <3> QED BY <2>3, <3>1, <3>3
  <2> QED BY <1>1, <1>4, <2>1, <2>2, <2>3
<1> HIDE DEF Old
<1>11. ASSUME NEW v \in Nat
       PROVE  Covers(t[i], v) <=> Covers(rs[i], v) \/ Covers(rs[i + 1], v)
  BY <1>1, <1>2, <1>3, <1>5 DEF Covers
<1>12. ASSUME NEW v \in Nat, Covers(rs[i + 1], v)
       PROVE  At(rs[i + 1].lcn, v - rs[i + 1].vcn) = At(rs[i].lcn, v - rs[i].vcn)
  <2> DEFINE a == rs[i + 1].vcn
             l == rs[i + 1].lcn
             b == rs[i].vcn
             m == rs[i].lcn
             e == End(rs[i])
  <2>1. /\ a \in Nat /\ b \in Nat /\ e \in Nat /\ a <= e /\ b < a
    BY <1>1, <1>2, <1>3
  <2>2. l \in Nat \cup {Sparse} /\ m \in Nat \cup {Sparse} /\ rs[i].len = e - b
    <3>1. rs[i + 1].lcn \in Nat \cup {Sparse} /\ rs[i].lcn \in Nat \cup {Sparse}
      BY <1>1, TreeTypes
    <3>2. rs[i].len \in Nat /\ End(rs[i]) = rs[i].vcn + rs[i].len /\ rs[i].vcn \in Nat
      BY <1>1, TreeTypes
    <3>3. rs[i].len = End(rs[i]) - rs[i].vcn
      BY <3>2
    <3> QED BY <3>1, <3>3
  <2>3. Cut(rs, i).lcn = At(l, e - a)
    BY CutFacts
  <2>4. ((At(l, e - a) = Sparse) <=> (m = Sparse)) /\ At(l, e - a) \in {Sparse, m + (e - b)}
    BY <2>2, <2>3 DEF Unlike, Apart
  <2>5. a <= v
    BY <1>12 DEF Covers
  <2> HIDE DEF a, l, b, m, e
  <2>6. e - a \in Nat /\ v - a \in Nat /\ v - b \in Nat
    BY <2>1, <2>5
  <2>7. At(l, v - a) = At(m, v - b)
    <3>1. CASE m = Sparse
      <4>1. l = Sparse
        BY <2>2, <2>4, <2>6, <3>1, AtFacts
      <4> QED BY <3>1, <4>1 DEF At
    <3>2. CASE m # Sparse
      <4>1. l # Sparse /\ At(l, e - a) = l + (e - a) /\ At(l, e - a) # Sparse
        BY <2>2, <2>4, <2>6, <3>2, AtFacts
      <4>2. l + (e - a) = m + (e - b) /\ l \in Nat /\ m \in Nat
        BY <2>2, <2>4, <3>2, <4>1
      <4>3. At(l, v - a) = l + (v - a) /\ At(m, v - b) = m + (v - b)
        BY <3>2, <4>1 DEF At
      <4> QED BY <2>1, <2>6, <4>2, <4>3
    <3> QED BY <3>1, <3>2
  <2> QED BY <2>7 DEF a, l, b, m, e
<1>13. ASSUME NEW v \in Nat PROVE Shown(t, i, v) = Shown(rs, k, v)
  <2>1. CASE Covers(rs[i], v) \/ Covers(rs[i + 1], v)
    <3>1. Shown(t, i, v) = At(rs[i].lcn, v - rs[i].vcn)
      BY <1>5, <1>7, <1>11, <2>1 DEF Shown
    <3>2. k \in 1 .. Len(rs)
      BY <1>1
    <3>3. CASE Covers(rs[k], v)
      <4>1. Shown(rs, k, v) = At(rs[k].lcn, v - rs[k].vcn)
        BY <3>2, <3>3 DEF Shown
      <4> QED BY <1>12, <3>1, <3>3, <4>1
    <3>4. CASE ~ Covers(rs[k], v)
      <4>1. PICK j \in {i, i + 1} : Covers(rs[j], v)
        BY <2>1
      <4>2. j \in 1 .. Len(rs)
        BY <1>1
      <4>3. Shown(rs, k, v) = At(rs[j].lcn, v - rs[j].vcn)
        BY <3>4, <4>1, <4>2, ShownOf
      <4> QED BY <1>12, <3>1, <4>1, <4>3
    <3> QED BY <3>3, <3>4
  <2>2. ASSUME NEW j \in 1 .. Len(rs), Covers(rs[j], v), ~ Covers(rs[i], v), ~ Covers(rs[i + 1], v)
        PROVE  Shown(t, i, v) = Shown(rs, k, v)
    <3>1. j \notin {i, i + 1} /\ ~ Covers(rs[k], v)
      BY <2>2
    <3>2. PICK p \in 1 .. Len(t) : p # i /\ t[p] = rs[j]
      BY <1>9, <3>1
    <3>3. Covers(t[p], v) /\ ~ Covers(t[i], v)
      BY <1>11, <2>2, <3>2
    <3>4. Shown(t, i, v) = At(t[p].lcn, v - t[p].vcn)
      BY <1>4, <1>10, <3>3, ShownOf
    <3>5. Shown(rs, k, v) = At(rs[j].lcn, v - rs[j].vcn)
      BY <2>2, <3>1, ShownOf
    <3> QED BY <3>2, <3>4, <3>5
  <2>3. CASE \A j \in 1 .. Len(rs) : ~ Covers(rs[j], v)
    <3>1. ~ Covers(t[i], v)
      BY <1>1, <1>11, <2>3
    <3>2. \A j \in 1 .. Len(t) : ~ Covers(t[j], v)
      BY <1>8, <2>3, <3>1
    <3>3. Shown(t, i, v) = Unmapped
      BY <1>4, <1>10, <3>2, ShownOf
    <3>4. Shown(rs, k, v) = Unmapped
      BY <2>3, ShownOf
    <3> QED BY <3>3, <3>4
  <2> QED BY <2>1, <2>2, <2>3
<1>14. End(t[i]) >= End(rs[i])
  BY <1>2, <1>3, <1>5
<1> QED BY <1>4, <1>5, <1>7, <1>10, <1>13, <1>14

(* Induction over states with a measure.                                   *)
LEMMA MeasureInduction ==
  ASSUME NEW S, NEW m, \A x \in S : m[x] \in Nat, NEW G \in SUBSET S,
         \A x \in S : (\A y \in S : m[y] < m[x] => y \in G) => x \in G
  PROVE  G = S
<1> DEFINE T == {n \in Nat : \A x \in S : m[x] < n => x \in G}
<1>1. 0 \in T
  OBVIOUS
<1>2. ASSUME NEW n \in T PROVE n + 1 \in T
  <2> SUFFICES ASSUME NEW x \in S, m[x] < n + 1 PROVE x \in G
    OBVIOUS
  <2>1. \A y \in S : m[y] < m[x] => y \in G
    OBVIOUS
  <2> QED BY <2>1
<1>3. T = Nat
  <2> HIDE DEF T
  <2>1. T \in SUBSET Nat
    BY DEF T
  <2> QED BY <1>1, <1>2, <2>1, SetInduction
<1>4. ASSUME NEW x \in S PROVE x \in G
  <2>1. m[x] \in Nat /\ m[x] + 1 \in Nat /\ m[x] < m[x] + 1
    OBVIOUS
  <2> QED BY <1>3, <2>1
<1> QED BY <1>4

(* run_consolidate leaves runs, each of at least one cluster.              *)
LEMMA ConsolidateIsTree ==
  ASSUME NEW rs \in Trees, NEW i \in Nat \ {0}
  PROVE  Consolidate[<<rs, i>>] \in Trees
<1> DEFINE S == Trees \X (Nat \ {0})
           m == [s \in S |-> IF s[2] >= Len(s[1]) THEN 0 ELSE Len(s[1]) - s[2]]
           G == {s \in S : Consolidate[s] \in Trees}
<1>1. \A s \in S : m[s] \in Nat
  <2> SUFFICES ASSUME NEW t \in Trees, NEW j \in Nat \ {0} PROVE m[<<t, j>>] \in Nat
    OBVIOUS
  <2>1. Len(t) \in Nat
    BY TreeFacts
  <2> QED BY <2>1
<1>2. ASSUME NEW x \in S, \A y \in S : m[y] < m[x] => y \in G
      PROVE  x \in G
  <2> SUFFICES ASSUME NEW t \in Trees, NEW j \in Nat \ {0}, x = <<t, j>>
               PROVE  Consolidate[<<t, j>>] \in Trees
    OBVIOUS
  <2>1. \A u \in Trees, k \in Nat \ {0} : m[<<u, k>>] < m[<<t, j>>] => Consolidate[<<u, k>>] \in Trees
    BY <1>2
  <2>2. CASE Settled(t, j)
    BY <2>2, ConsolidateIs
  <2>3. CASE ~ Settled(t, j)
    <3>1. m[<<t, j>>] = Len(t) - j /\ j < Len(t) /\ Len(t) \in Nat
      BY <2>3, TreeFacts DEF Settled
    <3> DEFINE q == j + 1
    <3>2. /\ q \in Nat \ {0}
          /\ \A u \in Trees : Len(u) = Len(t) - 1 => m[<<u, j>>] < m[<<t, j>>]
          /\ \A u \in Trees : Len(u) = Len(t) => m[<<u, q>>] < m[<<t, j>>]
      BY <3>1
    <3> HIDE DEF m, G, S
    <3>3. CASE Eaten(t, j)
      <4>1. RemoveAt(t, j + 1) \in Trees /\ Len(RemoveAt(t, j + 1)) = Len(t) - 1
        BY <2>3, CutFacts, RemoveFacts
      <4>2. Consolidate[<<RemoveAt(t, j + 1), j>>] \in Trees
        BY <2>1, <3>2, <4>1
      <4> QED BY <2>3, <3>3, <4>2, ConsolidateIs
    <3>4. CASE ~ Eaten(t, j)
      <4>1. Shortened(t, j) \in Trees /\ Len(Shortened(t, j)) = Len(t)
        BY <2>3, <3>4, ShortenedFacts
      <4>2. Joined(t, j) \in Trees /\ Len(Joined(t, j)) = Len(t) - 1
        BY <2>3, <3>4, JoinedFacts
      <4>3. Consolidate[<<Shortened(t, j), j + 1>>] \in Trees
        <5> HIDE DEF q
        <5>2. Consolidate[<<Shortened(t, j), q>>] \in Trees
          BY <2>1, <3>2, <4>1
        <5> QED BY <5>2 DEF q
      <4>4. Consolidate[<<Joined(t, j), j>>] \in Trees
        BY <2>1, <3>2, <4>2
      <4> QED BY <2>3, <3>4, <4>1, <4>3, <4>4, ConsolidateIs
    <3> QED BY <3>3, <3>4
  <2> QED BY <2>2, <2>3
<1>3. G = S
  <2> HIDE DEF S, m, G
  <2>1. G \in SUBSET S
    BY DEF G
  <2> QED BY <1>1, <1>2, <2>1, MeasureInduction
<1> QED BY <1>3

(* Where a pass of run_consolidate ends, the array is in order up to       *)
(* there.                                                                  *)
LEMMA SettledInOrder ==
  ASSUME NEW rs \in Trees, NEW i \in Nat \ {0}, Over(rs, i), Settled(rs, i)
  PROVE  InOrder(rs)
<1> SUFFICES ASSUME NEW a \in 1 .. Len(rs), NEW b \in 1 .. Len(rs), a < b
             PROVE  End(rs[a]) <= rs[b].vcn
  BY TreeFacts DEF InOrder
<1>1. CASE a # i
  BY <1>1 DEF Over
<1>2. CASE a = i
  <2>1. Len(rs) \in Nat /\ i + 1 \in 1 .. Len(rs)
    BY <1>2, TreeFacts
  <2>2. rs[i + 1].vcn > End(rs[i])
    BY <2>1 DEF Settled
  <2>3. /\ End(rs[i]) \in Nat /\ rs[i + 1].vcn \in Nat /\ End(rs[i + 1]) \in Nat /\ rs[b].vcn \in Nat
        /\ rs[i + 1].vcn < End(rs[i + 1])
    BY <1>2, <2>1, TreeTypes
  <2>4. CASE b = i + 1
    BY <1>2, <2>2, <2>3, <2>4
  <2>5. CASE b # i + 1
    <3>1. End(rs[i + 1]) <= rs[b].vcn
      BY <1>2, <2>1, <2>5 DEF Over
    <3> QED BY <1>2, <2>2, <2>3, <3>1
  <2> QED BY <2>4, <2>5
<1> QED BY <1>1, <1>2

(* What run_consolidate makes of an array in which the i-th run reaches    *)
(* too far: one in order that shows the same, and no run up to the i-th    *)
(* starts elsewhere or ends before.                                        *)
Puts(rs, i, c) ==
  /\ c \in Trees /\ InOrder(c)
  /\ \A v \in Nat : Location(c, v) = Shown(rs, i, v)
  /\ \A j \in 1 .. i : j <= Len(rs) =>
       j <= Len(c) /\ c[j].vcn = rs[j].vcn /\ End(c[j]) >= End(rs[j])

(* A pass of run_consolidate puts the array in order and keeps what is     *)
(* shown, with the run it starts from over the others.                     *)
LEMMA ConsolidatePuts ==
  ASSUME NEW rs \in Trees, NEW i \in Nat \ {0}, Over(rs, i)
  PROVE  Puts(rs, i, Consolidate[<<rs, i>>])
<1> DEFINE S == Trees \X (Nat \ {0})
           m == [s \in S |-> IF s[2] >= Len(s[1]) THEN 0 ELSE Len(s[1]) - s[2]]
           G == {s \in S : Over(s[1], s[2]) => Puts(s[1], s[2], Consolidate[s])}
<1>1. \A s \in S : m[s] \in Nat
  <2> SUFFICES ASSUME NEW t \in Trees, NEW j \in Nat \ {0} PROVE m[<<t, j>>] \in Nat
    OBVIOUS
  <2>1. Len(t) \in Nat
    BY TreeFacts
  <2> QED BY <2>1
<1>2. ASSUME NEW x \in S, \A y \in S : m[y] < m[x] => y \in G
      PROVE  x \in G
  <2> SUFFICES ASSUME NEW t \in Trees, NEW j \in Nat \ {0}, x = <<t, j>>, Over(t, j)
               PROVE  Puts(t, j, Consolidate[<<t, j>>])
    OBVIOUS
  <2>1. \A u \in Trees, k \in Nat \ {0} :
          m[<<u, k>>] < m[<<t, j>>] /\ Over(u, k) => Puts(u, k, Consolidate[<<u, k>>])
    BY <1>2
  <2>2. CASE Settled(t, j)
    <3>1. Consolidate[<<t, j>>] = t
      BY <2>2, ConsolidateIs
    <3>2. InOrder(t) /\ \A v \in Nat : Location(t, v) = Shown(t, j, v)
      BY <2>2, SettledInOrder, InOrderIsOver
    <3>3. \A k \in 1 .. j : k <= Len(t) => End(t[k]) >= End(t[k])
      BY TreeTypes
    <3> QED BY <3>1, <3>2, <3>3 DEF Puts
  <2>3. CASE ~ Settled(t, j)
    <3>1. m[<<t, j>>] = Len(t) - j /\ j < Len(t) /\ Len(t) \in Nat
      BY <2>3, TreeFacts DEF Settled
    <3> DEFINE q == j + 1
    <3>2. /\ q \in Nat \ {0}
          /\ \A u \in Trees : Len(u) = Len(t) - 1 => m[<<u, j>>] < m[<<t, j>>]
          /\ \A u \in Trees : Len(u) = Len(t) => m[<<u, q>>] < m[<<t, j>>]
      BY <3>1
    <3> HIDE DEF m, G, S
    <3>3. \A k \in 1 .. j : k \in 1 .. Len(t) /\ End(t[k]) \in Nat
      BY <3>1, TreeTypes
    <3>4. CASE Eaten(t, j)
      <4> DEFINE u == RemoveAt(t, j + 1)
      <4>1. /\ u \in Trees /\ Len(u) = Len(t) - 1 /\ Over(u, j)
            /\ \A k \in 1 .. j : u[k] = t[k]
            /\ \A v \in Nat : Shown(u, j, v) = Shown(t, j, v)
        BY <2>3, <3>4, EatenKeeps
      <4>2. Consolidate[<<t, j>>] = Consolidate[<<u, j>>]
        BY <2>3, <3>4, ConsolidateIs
      <4> HIDE DEF u
      <4>3. Puts(u, j, Consolidate[<<u, j>>])
        BY <2>1, <3>2, <4>1
      <4>4. \A k \in 1 .. j : k <= Len(u)
        BY <3>1, <4>1
      <4> QED BY <4>1, <4>2, <4>3, <4>4 DEF Puts
    <3>5. CASE ~ Eaten(t, j) /\ (Unlike(t, j) \/ Apart(t, j))
      <4> DEFINE u == Shortened(t, j)
      <4>1. /\ u \in Trees /\ Len(u) = Len(t) /\ InOrder(u)
            /\ \A k \in 1 .. j : u[k] = t[k]
            /\ \A v \in Nat : Location(u, v) = Shown(t, j, v)
        BY <2>3, <3>5, CutKeeps
      <4>2. CASE Unlike(t, j)
        <5>1. Consolidate[<<t, j>>] = Consolidate[<<u, j + 1>>]
          BY <2>3, <3>5, <4>2, ConsolidateIs
        <5> HIDE DEF u
        <5>2. j + 1 \in Nat \ {0} /\ j + 1 > j
          OBVIOUS
        <5>3. Over(u, j + 1) /\ \A v \in Nat : Shown(u, j + 1, v) = Location(u, v)
          BY <4>1, InOrderIsOver
        <5>4. Puts(u, j + 1, Consolidate[<<u, j + 1>>])
          <6>1. q \in Nat \ {0} /\ Over(u, q)
            BY <5>2, <5>3
          <6> HIDE DEF q
          <6>2. m[<<u, q>>] < m[<<t, j>>]
            BY <3>2, <4>1
          <6>3. Puts(u, q, Consolidate[<<u, q>>])
            BY <2>1, <4>1, <6>1, <6>2
          <6> QED BY <6>3 DEF q
        <5>5. \A k \in 1 .. j : k \in 1 .. j + 1 /\ k <= Len(u)
          BY <3>1, <4>1
        <5> QED BY <4>1, <5>1, <5>3, <5>4, <5>5 DEF Puts
      <4>3. CASE ~ Unlike(t, j)
        <5>1. Consolidate[<<t, j>>] = u
          BY <2>3, <3>5, <4>3, ConsolidateIs
        <5> HIDE DEF u
        <5> QED BY <3>1, <3>3, <4>1, <5>1 DEF Puts
      <4> QED BY <4>2, <4>3
    <3>6. CASE ~ Eaten(t, j) /\ ~ Unlike(t, j) /\ ~ Apart(t, j)
      <4> DEFINE u == Joined(t, j)
      <4>1. /\ u \in Trees /\ Len(u) = Len(t) - 1 /\ Over(u, j)
            /\ \A k \in 1 .. j - 1 : u[k] = t[k]
            /\ u[j].vcn = t[j].vcn /\ End(u[j]) >= End(t[j])
            /\ \A v \in Nat : Shown(u, j, v) = Shown(t, j, v)
        BY <2>3, <3>6, JoinKeeps
      <4>2. Consolidate[<<t, j>>] = Consolidate[<<u, j>>]
        BY <2>3, <3>6, ConsolidateIs
      <4> HIDE DEF u
      <4> DEFINE c == Consolidate[<<u, j>>]
      <4>3. Puts(u, j, c)
        BY <2>1, <3>2, <4>1
      <4> HIDE DEF c
      <4>4. ASSUME NEW k \in 1 .. j PROVE k <= Len(c) /\ c[k].vcn = t[k].vcn /\ End(c[k]) >= End(t[k])
        <5>1. k <= Len(u) /\ k \in 1 .. Len(u)
          BY <3>1, <4>1
        <5>2. k <= Len(c) /\ c[k].vcn = u[k].vcn /\ End(c[k]) >= End(u[k])
          BY <4>3, <5>1 DEF Puts
        <5>3. k \in 1 .. Len(c) /\ c \in Trees
          BY <4>3, <5>2, TreeFacts DEF Puts
        <5>4. End(c[k]) \in Nat /\ End(u[k]) \in Nat /\ End(t[k]) \in Nat
          BY <3>3, <4>1, <5>1, <5>3, TreeTypes
        <5>5. u[k].vcn = t[k].vcn /\ End(u[k]) >= End(t[k])
          BY <4>1, <5>4
        <5> QED BY <5>2, <5>4, <5>5
      <4> QED BY <4>1, <4>2, <4>3, <4>4 DEF Puts, c
    <3> QED BY <3>4, <3>5, <3>6
  <2> QED BY <2>2, <2>3
<1>3. G = S
  <2> HIDE DEF S, m, G
  <2>1. G \in SUBSET S
    BY DEF G
  <2> QED BY <1>1, <1>2, <2>1, MeasureInduction
<1> QED BY <1>3

(* One run of an array goes from a cluster, or from before it, to another. *)
Spans(rs, from, to) == \E j \in 1 .. Len(rs) : rs[j].vcn <= from /\ End(rs[j]) >= to

(* What run_add_entry needs of the two passes: an array in order that      *)
(* shows the same, with a run that covers the one that was changed.        *)
LEMMA NormalizePuts ==
  ASSUME NEW rs \in Trees, NEW i \in Nat \ {0}, NEW k \in {i, i + 1}, k \in 1 .. Len(rs), Over(rs, k),
         NEW n, n = Normalize(rs, i)
  PROVE  /\ n \in Trees /\ InOrder(n)
         /\ \A v \in Nat : Location(n, v) = Shown(rs, k, v)
         /\ Spans(n, rs[k].vcn, End(rs[k]))
<1> DEFINE c == Consolidate[<<rs, i>>]
<1>1. n = Consolidate[<<c, i + 1>>]
  BY DEF Normalize
<1>2. /\ Len(rs) \in Nat /\ i \in 1 .. Len(rs) /\ rs[i].vcn \in Nat /\ End(rs[i]) \in Nat
      /\ rs[k].vcn \in Nat /\ End(rs[k]) \in Nat
  BY TreeTypes
<1>3. ASSUME c \in Trees, InOrder(c), \A v \in Nat : Location(c, v) = Shown(rs, k, v),
             NEW j \in 1 .. i + 1, j \in 1 .. Len(c), c[j].vcn <= rs[k].vcn, End(c[j]) >= End(rs[k])
      PROVE  /\ n \in Trees /\ InOrder(n)
             /\ \A v \in Nat : Location(n, v) = Shown(rs, k, v)
             /\ Spans(n, rs[k].vcn, End(rs[k]))
  <2> HIDE DEF c
  <2>1. Over(c, i + 1) /\ \A v \in Nat : Shown(c, i + 1, v) = Location(c, v)
    BY <1>3, InOrderIsOver
  <2>2. i + 1 \in Nat \ {0}
    OBVIOUS
  <2>3. Puts(c, i + 1, n)
    BY <1>1, <1>3, <2>1, <2>2, ConsolidatePuts
  <2>4. j <= Len(c) /\ Len(c) \in Nat
    BY <1>3, TreeFacts
  <2>5. n \in Trees /\ j <= Len(n) /\ n[j].vcn = c[j].vcn /\ End(n[j]) >= End(c[j])
    BY <2>3, <2>4 DEF Puts
  <2>6. j \in 1 .. Len(n)
    BY <2>5, TreeFacts
  <2>7. End(n[j]) \in Nat /\ End(c[j]) \in Nat
    BY <1>3, <2>5, <2>6, TreeTypes
  <2>8. End(n[j]) >= End(rs[k])
    BY <1>2, <1>3, <2>5, <2>7
  <2>9. Spans(n, rs[k].vcn, End(rs[k]))
    BY <1>3, <2>5, <2>6, <2>8 DEF Spans
  <2> QED BY <1>3, <2>1, <2>3, <2>5, <2>9 DEF Puts
<1>4. ASSUME NEW d, d = Consolidate[<<rs, k>>]
      PROVE  /\ d \in Trees /\ InOrder(d) /\ \A v \in Nat : Location(d, v) = Shown(rs, k, v)
             /\ k \in 1 .. Len(d) /\ d[k].vcn = rs[k].vcn /\ End(d[k]) >= End(rs[k])
  <2>1. Puts(rs, k, d)
    BY <1>4, ConsolidatePuts
  <2>2. k \in 1 .. k /\ k <= Len(rs)
    BY <1>2
  <2>3. d \in Trees /\ k <= Len(d) /\ d[k].vcn = rs[k].vcn /\ End(d[k]) >= End(rs[k])
    BY <2>1, <2>2 DEF Puts
  <2>4. k \in 1 .. Len(d)
    BY <2>3, TreeFacts
  <2> QED BY <2>1, <2>3, <2>4 DEF Puts
<1>5. CASE k = i
  <2>1. /\ c \in Trees /\ InOrder(c) /\ \A v \in Nat : Location(c, v) = Shown(rs, k, v)
        /\ k \in 1 .. Len(c) /\ c[k].vcn = rs[k].vcn /\ End(c[k]) >= End(rs[k])
    BY <1>4, <1>5
  <2> HIDE DEF c
  <2>2. k \in 1 .. i + 1 /\ c[k].vcn <= rs[k].vcn
    BY <1>2, <1>5, <2>1
  <2> QED BY <1>3, <2>1, <2>2
<1>6. CASE k = i + 1
  <2>1. End(rs[i]) <= rs[k].vcn
    BY <1>2, <1>6 DEF Over
  <2>2. CASE c = rs
    <3>1. /\ n \in Trees /\ InOrder(n) /\ \A v \in Nat : Location(n, v) = Shown(rs, k, v)
          /\ k \in 1 .. Len(n) /\ n[k].vcn = rs[k].vcn /\ End(n[k]) >= End(rs[k])
      BY <1>1, <1>4, <1>6, <2>2
    <3>2. Spans(n, rs[k].vcn, End(rs[k]))
      BY <1>2, <3>1 DEF Spans
    <3> QED BY <3>1, <3>2
  <2>3. CASE c = Consolidate[<<rs, k>>]
    <3>1. /\ c \in Trees /\ InOrder(c) /\ \A v \in Nat : Location(c, v) = Shown(rs, k, v)
          /\ k \in 1 .. Len(c) /\ c[k].vcn = rs[k].vcn /\ End(c[k]) >= End(rs[k])
      BY <1>4, <2>3
    <3> HIDE DEF c
    <3>2. k \in 1 .. i + 1 /\ c[k].vcn <= rs[k].vcn
      BY <1>2, <1>6, <3>1
    <3> QED BY <1>3, <3>1, <3>2
  <2>4. CASE ~ Settled(rs, i)
    <3>1. rs[k].vcn = End(rs[i]) /\ rs[k].vcn < End(rs[k]) /\ rs[k].lcn \in Nat \cup {Sparse}
      BY <1>2, <1>6, <2>1, <2>4, CutFacts, TreeTypes
    <3>2. ~ Eaten(rs, i)
      BY <1>2, <1>6, <2>4, <3>1, CutFacts DEF Eaten
    <3>3. Shortened(rs, i) = rs
      <4>1. Cut(rs, i) = rs[k]
        <5>1. Cut(rs, i) = Run(rs[k].vcn, End(rs[k]) - rs[k].vcn, At(rs[k].lcn, rs[k].vcn - rs[k].vcn))
          BY <1>6, <3>1 DEF Cut, After
        <5>2. rs[k].vcn - rs[k].vcn = 0
          BY <1>2
        <5>3. At(rs[k].lcn, 0) = rs[k].lcn
          BY <3>1 DEF At, Sparse
        <5>4. End(rs[k]) - rs[k].vcn = rs[k].len
          BY <1>2, TreeTypes
        <5>5. rs[k] \in Runs
          BY TreeFacts
        <5>6. Run(rs[k].vcn, rs[k].len, rs[k].lcn) = rs[k]
          BY <5>5 DEF Run, Runs
        <5> QED BY <5>1, <5>2, <5>3, <5>4, <5>6
      <4> DEFINE r == rs[k]
      <4>2. Shortened(rs, i) = [rs EXCEPT ![k] = r]
        BY <1>6, <4>1 DEF Shortened
      <4> QED BY <4>2 DEF Trees
    <3>4. CASE Unlike(rs, i)
      <4>1. c = Consolidate[<<rs, k>>]
        BY <1>6, <2>4, <3>2, <3>3, <3>4, ConsolidateIs
      <4> QED BY <2>3, <4>1
    <3>5. CASE ~ Unlike(rs, i) /\ Apart(rs, i)
      <4>1. c = rs
        BY <2>4, <3>2, <3>3, <3>5, ConsolidateIs
      <4> QED BY <2>2, <4>1
    <3>6. CASE ~ Unlike(rs, i) /\ ~ Apart(rs, i)
      <4> DEFINE t == Joined(rs, i)
      <4>1. /\ t \in Trees /\ Len(t) = Len(rs) - 1 /\ Over(t, i)
            /\ t[i].vcn = rs[i].vcn /\ End(t[i]) = End(rs[k])
            /\ \A v \in Nat : Shown(t, i, v) = Shown(rs, k, v)
        BY <1>6, <2>4, <3>2, <3>6, JoinKeeps
      <4>2. c = Consolidate[<<t, i>>]
        BY <2>4, <3>2, <3>6, ConsolidateIs
      <4> HIDE DEF t, c
      <4>3. Puts(t, i, c)
        BY <4>1, <4>2, ConsolidatePuts
      <4>4. i \in 1 .. i /\ i <= Len(t)
        BY <1>2, <1>6, <4>1
      <4>5. c \in Trees /\ i <= Len(c) /\ c[i].vcn = t[i].vcn /\ End(c[i]) >= End(t[i])
        BY <4>3, <4>4 DEF Puts
      <4>6. i \in 1 .. Len(c) /\ i \in 1 .. i + 1
        BY <4>5, TreeFacts
      <4>7. c[i].vcn <= rs[k].vcn /\ End(c[i]) >= End(rs[k])
        <5>1. c[i].vcn = rs[i].vcn /\ End(c[i]) >= End(rs[k])
          BY <4>1, <4>5
        <5>2. rs[i].vcn < End(rs[i])
          BY <1>2, TreeTypes
        <5> QED BY <1>2, <2>1, <5>1, <5>2
      <4>8. InOrder(c) /\ \A v \in Nat : Location(c, v) = Shown(rs, k, v)
        BY <4>1, <4>3 DEF Puts
      <4> QED BY <1>3, <4>5, <4>6, <4>7, <4>8
    <3> QED BY <3>4, <3>5, <3>6
  <2>5. CASE Settled(rs, i)
    <3>1. c = rs
      BY <2>5, ConsolidateIs
    <3> QED BY <2>2, <3>1
  <2> QED BY <2>4, <2>5
<1> QED BY <1>5, <1>6
-----------------------------------------------------------------------------
(* What run_add_entry works out from its arguments, under the names it has *)
(* in AddEntry.                                                            *)
Spot(a) == Lookup(a.runs, a.vcn)
Added(a) == Run(a.vcn, a.len, a.lcn)
Continues(a) ==
  /\ ~ Spot(a).found /\ Spot(a).index > 1
  /\ End(a.runs[Spot(a).index - 1]) = a.vcn
  /\ After(a.runs[Spot(a).index - 1], a.vcn).lcn = a.lcn
Home(a) == IF Continues(a) THEN Spot(a).index - 1 ELSE Spot(a).index
Inrange(a) == Spot(a).found \/ Continues(a)
Differs(a) == Inrange(a) /\ After(a.runs[Home(a)], a.vcn).lcn # a.lcn
Splits(a) == Differs(a) /\ a.vcn > a.runs[Home(a)].vcn
Halved(a) == [a.runs EXCEPT ![Home(a)] = Before(a.runs[Home(a)], a.vcn)]
Reach(a) == IF End(a.runs[Home(a)]) < End(Added(a)) THEN End(Added(a)) ELSE End(a.runs[Home(a)])
Extended(a) ==
  Run(a.runs[Home(a)].vcn, Reach(a) - a.runs[Home(a)].vcn,
      IF Differs(a) THEN a.lcn ELSE a.runs[Home(a)].lcn)
Widened(a) == [a.runs EXCEPT ![Home(a)] = Extended(a)]
Remnant(a) == After(a.runs[Home(a)], End(Added(a)))

Shrunk(a) == IF Splits(a) THEN Halved(a) ELSE a.runs
NewIndex(a) == IF Splits(a) THEN Home(a) + 1 ELSE Home(a)
Inserted(a) == InsertAt(Shrunk(a), NewIndex(a), Added(a))
Done(a) ==
  IF ~ Inrange(a) \/ Splits(a) THEN Result(TRUE, Normalize(Inserted(a), NewIndex(a)), a.room - 1)
  ELSE Result(TRUE, Normalize(Widened(a), IF Home(a) > 1 THEN Home(a) - 1 ELSE Home(a)), a.room)
Fails(a) == (~ Inrange(a) \/ Splits(a)) /\ a.room = 0
GoesOn(a) == Differs(a) /\ Remnant(a).len > 0
Onward(a) == Addition(Done(a).runs, Done(a).room, Remnant(a))

(* The call of run_add_entry for a run.                                    *)
LEMMA AdditionIs ==
  ASSUME NEW rs \in Trees, NEW room \in Nat, NEW r \in Runs
  PROVE  /\ Addition(rs, room, r) \in Additions
         /\ Addition(rs, room, r).runs = rs /\ Addition(rs, room, r).room = room
         /\ Addition(rs, room, r).vcn = r.vcn /\ Addition(rs, room, r).lcn = r.lcn
         /\ Addition(rs, room, r).len = r.len
BY DEF Addition, Additions, Runs

(* The arguments of run_add_entry.                                         *)
LEMMA AddedFacts ==
  ASSUME NEW a \in Additions
  PROVE  /\ a.runs \in Trees /\ a.room \in Nat /\ a.vcn \in Nat /\ a.len \in Nat \ {0}
         /\ a.lcn \in Nat \cup {Sparse}
         /\ Added(a) \in Runs /\ Added(a).vcn = a.vcn /\ Added(a).lcn = a.lcn /\ Added(a).len = a.len
         /\ End(Added(a)) = a.vcn + a.len /\ a.vcn + a.len <= LastVcn + 1
<1>1. /\ a.runs \in Trees /\ a.room \in Nat /\ a.vcn \in Nat /\ a.len \in Nat \ {0}
      /\ a.lcn \in Nat \cup {Sparse} /\ a.vcn + a.len <= LastVcn + 1
  BY RunTreeConstants DEF Additions, Vcns, Lens, Fits
<1> DEFINE vcn == a.vcn
           len == a.len
           lcn == a.lcn
<1>2. vcn \in Nat /\ len \in Nat \ {0} /\ lcn \in Nat \cup {Sparse} /\ vcn + len <= LastVcn + 1
  BY <1>1
<1>3. Added(a) = Run(vcn, len, lcn)
  BY DEF Added
<1> HIDE DEF vcn, len, lcn
<1>4. /\ Added(a) \in Runs /\ Added(a).vcn = vcn /\ Added(a).lcn = lcn /\ Added(a).len = len
      /\ End(Added(a)) = vcn + len
  BY <1>2, <1>3, RunIsRun
<1> QED BY <1>1, <1>4 DEF vcn, len, lcn

(* The run that the range starts in or continues, if there is one.         *)
LEMMA HomeFacts ==
  ASSUME NEW a \in Additions
  PROVE  /\ Inrange(a) =>
              /\ Home(a) \in 1 .. Len(a.runs) /\ a.runs[Home(a)] \in Runs
              /\ a.runs[Home(a)].vcn <= a.vcn /\ a.vcn <= End(a.runs[Home(a)])
         /\ Differs(a) =>
              /\ Inrange(a) /\ a.vcn < End(a.runs[Home(a)])
         /\ Inrange(a) => After(a.runs[Home(a)], a.vcn).lcn = At(a.runs[Home(a)].lcn, a.vcn - a.runs[Home(a)].vcn)
         /\ ~ Inrange(a) => Home(a) \in 1 .. Len(a.runs) + 1
<1> DEFINE rs == a.runs
           at == Spot(a)
<1>1. rs \in Trees /\ a.vcn \in Nat /\ Len(rs) \in Nat
  BY AddedFacts, TreeFacts
<1>2. Finds(rs, a.vcn, at)
  BY <1>1, LookupAnswers DEF Spot
<1>3. CASE at.found
  <2>1. Home(a) = at.index /\ Inrange(a)
    BY <1>3 DEF Home, Continues, Inrange
  <2>2. at.index \in 1 .. Len(rs) /\ rs[at.index].vcn <= a.vcn /\ a.vcn < End(rs[at.index])
    BY <1>2, <1>3 DEF Finds, Covers
  <2>3. rs[at.index] \in Runs /\ End(rs[at.index]) \in Nat
    BY <1>1, <2>2, TreeFacts, TreeTypes
  <2> QED BY <1>1, <2>1, <2>2, <2>3 DEF After, Run
<1>4. CASE Continues(a)
  <2>1. Home(a) = at.index - 1 /\ Inrange(a) /\ ~ at.found
    BY <1>4 DEF Home, Continues, Inrange
  <2>2. at.index - 1 \in 1 .. Len(rs) /\ a.vcn = End(rs[at.index - 1])
    BY <1>1, <1>2, <1>4 DEF Finds, Continues
  <2>3. rs[at.index - 1] \in Runs /\ rs[at.index - 1].vcn < End(rs[at.index - 1])
        /\ rs[at.index - 1].vcn \in Nat /\ End(rs[at.index - 1]) \in Nat
    BY <1>1, <2>2, TreeFacts, TreeTypes
  <2>4. ~ Differs(a)
    BY <1>4, <2>1 DEF Differs, Continues
  <2> QED BY <1>1, <2>1, <2>2, <2>3, <2>4 DEF After, Run
<1>5. CASE ~ at.found /\ ~ Continues(a)
  <2>1. ~ Inrange(a) /\ ~ Differs(a) /\ Home(a) = at.index
    BY <1>5 DEF Inrange, Differs, Home
  <2> QED BY <1>2, <1>5, <2>1 DEF Finds
<1> QED BY <1>3, <1>4, <1>5

(* In an array in order, no run comes in the way of the range's start.     *)
LEMMA HomeInOrder ==
  ASSUME NEW a \in Additions, InOrder(a.runs)
  PROVE  ~ Inrange(a) => \A j \in 1 .. Len(a.runs) :
           /\ j < Home(a) => End(a.runs[j]) <= a.vcn
           /\ j >= Home(a) => a.runs[j].vcn > a.vcn
<1>1. a.runs \in Trees /\ a.vcn \in Nat
  BY AddedFacts
<1>2. AtPlace(a.runs, a.vcn, Spot(a))
  BY <1>1, LookupAnswers DEF Spot
<1> QED BY <1>2 DEF AtPlace, Inrange, Home

(* The pieces that run_add_entry makes are runs.                           *)
LEMMA PiecesAreRuns ==
  ASSUME NEW a \in Additions, Inrange(a)
  PROVE  LET r == a.runs[Home(a)] IN
         /\ Extended(a) \in Runs /\ Extended(a).vcn = r.vcn /\ End(Extended(a)) = Reach(a)
         /\ Extended(a).lcn = IF Differs(a) THEN a.lcn ELSE r.lcn
         /\ Reach(a) \in Nat /\ Reach(a) >= End(r) /\ Reach(a) >= End(Added(a))
         /\ Reach(a) \in {End(r), End(Added(a))}
         /\ Splits(a) => /\ Before(r, a.vcn) \in Runs /\ Before(r, a.vcn).vcn = r.vcn
                         /\ Before(r, a.vcn).lcn = r.lcn /\ End(Before(r, a.vcn)) = a.vcn
         /\ Remnant(a).vcn = End(Added(a)) /\ Remnant(a).len = End(r) - End(Added(a))
         /\ Remnant(a).lcn = At(r.lcn, End(Added(a)) - r.vcn)
         /\ Remnant(a).len > 0 => Remnant(a) \in Runs /\ End(Remnant(a)) = End(r)
<1> DEFINE r == a.runs[Home(a)]
           e == End(Added(a))
           f == End(r)
           v == r.vcn
           l == IF Differs(a) THEN a.lcn ELSE r.lcn
           n == Reach(a) - v
<1>1. r \in Runs /\ v <= a.vcn /\ a.vcn <= f
  BY HomeFacts
<1>2. /\ v \in Nat /\ f \in Nat /\ e \in Nat /\ a.vcn \in Nat /\ a.vcn < e /\ v < f
      /\ f <= LastVcn + 1 /\ e <= LastVcn + 1
  <2>1. e = a.vcn + a.len /\ a.vcn \in Nat /\ a.len \in Nat \ {0} /\ e <= LastVcn + 1
    BY AddedFacts
  <2>2. v \in Nat /\ r.len \in Nat \ {0} /\ f = v + r.len /\ f <= LastVcn + 1
    BY <1>1, RunFacts
  <2> QED BY <2>1, <2>2
<1>3. Reach(a) = IF f < e THEN e ELSE f
  BY DEF Reach
<1>4. l \in Nat \cup {Sparse}
  BY <1>1, AddedFacts, RunFacts
<1>5. Extended(a) = Run(v, n, l)
  BY DEF Extended
<1>6. n \in Nat \ {0} /\ v + n = Reach(a) /\ Reach(a) <= LastVcn + 1 /\ Reach(a) \in Nat
      /\ Reach(a) >= f /\ Reach(a) >= e /\ Reach(a) \in {f, e}
  BY <1>1, <1>2, <1>3
<1>7. /\ Extended(a) \in Runs /\ Extended(a).vcn = v /\ End(Extended(a)) = Reach(a)
      /\ Extended(a).lcn = l
  <2> HIDE DEF v, n, l
  <2>1. v \in Nat /\ n \in Nat \ {0} /\ l \in Nat \cup {Sparse} /\ v + n <= LastVcn + 1
    BY <1>2, <1>4, <1>6
  <2>2. /\ Run(v, n, l) \in Runs /\ Run(v, n, l).vcn = v /\ End(Run(v, n, l)) = v + n
        /\ Run(v, n, l).lcn = l
    BY <2>1, RunIsRun
  <2> QED BY <1>5, <1>6, <2>2
<1>8. Splits(a) => /\ Before(r, a.vcn) \in Runs /\ Before(r, a.vcn).vcn = r.vcn
                   /\ Before(r, a.vcn).lcn = r.lcn /\ End(Before(r, a.vcn)) = a.vcn
  <2> SUFFICES ASSUME Splits(a)
               PROVE  /\ Before(r, a.vcn) \in Runs /\ Before(r, a.vcn).vcn = r.vcn
                      /\ Before(r, a.vcn).lcn = r.lcn /\ End(Before(r, a.vcn)) = a.vcn
    OBVIOUS
  <2>1. r.vcn < a.vcn
    BY <1>2 DEF Splits
  <2> HIDE DEF r
  <2> QED BY <1>1, <1>2, <2>1, BeforeIsRun
<1>9. /\ Remnant(a).vcn = e /\ Remnant(a).len = f - e /\ Remnant(a).lcn = At(r.lcn, e - r.vcn)
      /\ Remnant(a).len > 0 => Remnant(a) \in Runs /\ End(Remnant(a)) = f
  <2>1. r.vcn <= e /\ e \in Nat /\ r \in Runs
    BY <1>1, <1>2
  <2>2. Remnant(a) = After(r, e)
    BY DEF Remnant
  <2>3. f - e > 0 => e < f
    BY <1>2
  <2> HIDE DEF r, e
  <2>4. /\ After(r, e).vcn = e /\ After(r, e).len = End(r) - e /\ After(r, e).lcn = At(r.lcn, e - r.vcn)
        /\ End(After(r, e)) = End(r)
        /\ e < End(r) => After(r, e) \in Runs
    BY <2>1, AfterIsRun
  <2> QED BY <2>2, <2>3, <2>4
<1> QED BY <1>6, <1>7, <1>8, <1>9

(* The array with the run cut where the range starts.                      *)
LEMMA HalvedFacts ==
  ASSUME NEW a \in Additions, Splits(a)
  PROVE  /\ Halved(a) \in Trees /\ Len(Halved(a)) = Len(a.runs)
         /\ \A j \in 1 .. Len(a.runs) :
              Halved(a)[j] = IF j = Home(a) THEN Before(a.runs[Home(a)], a.vcn) ELSE a.runs[j]
<1> DEFINE b == Before(a.runs[Home(a)], a.vcn)
           rs == a.runs
           i == Home(a)
           e == [rs EXCEPT ![i] = b]
<1>1. Halved(a) = e
  BY DEF Halved
<1>2. rs \in Trees /\ i \in 1 .. Len(rs) /\ b \in Runs
  <2>1. Inrange(a)
    BY DEF Splits, Differs
  <2> QED BY <2>1, AddedFacts, HomeFacts, PiecesAreRuns
<1> HIDE DEF b, rs, i
<1>3. e \in Trees /\ Len(e) = Len(rs) /\ \A j \in 1 .. Len(rs) : e[j] = IF j = i THEN b ELSE rs[j]
  BY <1>2, ExceptFacts
<1> HIDE DEF e
<1> QED BY <1>1, <1>3 DEF rs, b, i

(* The array with the run that the range is written over.                  *)
LEMMA WidenedFacts ==
  ASSUME NEW a \in Additions, Inrange(a)
  PROVE  /\ Widened(a) \in Trees /\ Len(Widened(a)) = Len(a.runs)
         /\ \A j \in 1 .. Len(a.runs) :
              Widened(a)[j] = IF j = Home(a) THEN Extended(a) ELSE a.runs[j]
<1> DEFINE b == Extended(a)
           rs == a.runs
           i == Home(a)
           e == [rs EXCEPT ![i] = b]
<1>1. Widened(a) = e
  BY DEF Widened
<1>2. rs \in Trees /\ i \in 1 .. Len(rs) /\ b \in Runs
  BY AddedFacts, HomeFacts, PiecesAreRuns
<1> HIDE DEF b, rs, i
<1>3. e \in Trees /\ Len(e) = Len(rs) /\ \A j \in 1 .. Len(rs) : e[j] = IF j = i THEN b ELSE rs[j]
  BY <1>2, ExceptFacts
<1> HIDE DEF e
<1> QED BY <1>1, <1>3 DEF rs, b, i

(* Every array that run_add_entry goes through is one of runs of the file. *)
LEMMA NormalizeIsTree ==
  ASSUME NEW rs \in Trees, NEW i \in Nat \ {0}
  PROVE  Normalize(rs, i) \in Trees
<1> DEFINE c == Consolidate[<<rs, i>>]
           k == i + 1
<1>1. c \in Trees /\ k \in Nat \ {0}
  BY ConsolidateIsTree
<1>2. Normalize(rs, i) = Consolidate[<<c, k>>]
  BY DEF Normalize
<1> HIDE DEF c, k
<1> QED BY <1>1, <1>2, ConsolidateIsTree

(* What the overwritten run had after the range is added again, and starts *)
(* later.                                                                  *)
LEMMA StepIsAddition ==
  ASSUME NEW a \in Additions, ~ Fails(a)
  PROVE  /\ Done(a).runs \in Trees /\ Done(a).room \in Nat /\ Done(a).ok
         /\ GoesOn(a) => /\ Onward(a) \in Additions /\ Onward(a).runs = Done(a).runs
                         /\ Onward(a).room = Done(a).room
                         /\ Onward(a).vcn = Remnant(a).vcn /\ Onward(a).lcn = Remnant(a).lcn
                         /\ Onward(a).len = Remnant(a).len /\ Onward(a).vcn > a.vcn
<1>1. /\ a.runs \in Trees /\ a.room \in Nat /\ Len(a.runs) \in Nat /\ Added(a) \in Runs
      /\ End(Added(a)) > a.vcn /\ a.vcn \in Nat
  BY AddedFacts, TreeFacts
<1>2. Done(a).runs \in Trees /\ Done(a).room \in Nat /\ Done(a).ok
  <2>1. CASE ~ Inrange(a)
    <3>1. Home(a) \in 1 .. Len(a.runs) + 1 /\ Home(a) \in Nat \ {0}
      BY <1>1, <2>1, HomeFacts
    <3>2. ~ Splits(a) /\ NewIndex(a) = Home(a) /\ Shrunk(a) = a.runs
      BY <2>1 DEF Splits, Differs, NewIndex, Shrunk
    <3>3. Inserted(a) \in Trees
      BY <1>1, <3>1, <3>2, InsertFacts DEF Inserted
    <3>5. Normalize(Inserted(a), NewIndex(a)) \in Trees
      BY <3>1, <3>2, <3>3, NormalizeIsTree
    <3>4. a.room - 1 \in Nat
      BY <1>1, <2>1 DEF Fails
    <3> QED BY <2>1, <3>4, <3>5 DEF Done, Result
  <2>2. CASE Inrange(a) /\ Splits(a)
    <3>1. Home(a) \in 1 .. Len(a.runs) /\ Home(a) + 1 \in Nat \ {0}
      BY <1>1, <2>2, HomeFacts
    <3>2. Before(a.runs[Home(a)], a.vcn) \in Runs
      BY <2>2, PiecesAreRuns
    <3>3. Shrunk(a) = Halved(a) /\ NewIndex(a) = Home(a) + 1
      BY <2>2 DEF Shrunk, NewIndex
    <3>4. Halved(a) \in Trees /\ Len(Halved(a)) = Len(a.runs)
      BY <2>2, HalvedFacts
    <3>5. Normalize(Inserted(a), NewIndex(a)) \in Trees
      <4>1. NewIndex(a) \in 1 .. Len(Halved(a)) + 1 /\ NewIndex(a) \in Nat \ {0}
        BY <1>1, <3>1, <3>3, <3>4
      <4>2. Inserted(a) \in Trees
        BY <1>1, <3>3, <3>4, <4>1, InsertFacts DEF Inserted
      <4> QED BY <4>1, <4>2, NormalizeIsTree
    <3>6. a.room - 1 \in Nat
      BY <1>1, <2>2 DEF Fails
    <3> QED BY <2>2, <3>5, <3>6 DEF Done, Result
  <2>3. CASE Inrange(a) /\ ~ Splits(a)
    <3>1. Home(a) \in 1 .. Len(a.runs)
      BY <2>3, HomeFacts
    <3>2. Extended(a) \in Runs
      BY <2>3, PiecesAreRuns
    <3>3. Widened(a) \in Trees
      BY <2>3, WidenedFacts
    <3> DEFINE p == IF Home(a) > 1 THEN Home(a) - 1 ELSE Home(a)
    <3>4. p \in Nat \ {0}
      BY <3>1
    <3>5. Done(a) = Result(TRUE, Normalize(Widened(a), p), a.room)
      BY <2>3 DEF Done
    <3> HIDE DEF p
    <3>6. Normalize(Widened(a), p) \in Trees
      BY <3>3, <3>4, NormalizeIsTree
    <3> QED BY <1>1, <3>5, <3>6 DEF Result
  <2> QED BY <2>1, <2>2, <2>3
<1>3. ASSUME GoesOn(a)
      PROVE  /\ Onward(a) \in Additions /\ Onward(a).runs = Done(a).runs
             /\ Onward(a).room = Done(a).room
             /\ Onward(a).vcn = Remnant(a).vcn /\ Onward(a).lcn = Remnant(a).lcn
             /\ Onward(a).len = Remnant(a).len /\ Onward(a).vcn > a.vcn
  <2>1. Inrange(a) /\ Remnant(a).len > 0
    BY <1>3 DEF GoesOn, Differs
  <2>2. Remnant(a) \in Runs /\ Remnant(a).vcn = End(Added(a))
    BY <2>1, PiecesAreRuns
  <2> DEFINE rs == Done(a).runs
             room == Done(a).room
             r == Remnant(a)
  <2>3. rs \in Trees /\ room \in Nat /\ r \in Runs /\ Onward(a) = Addition(rs, room, r)
    BY <1>2, <2>2 DEF Onward
  <2> HIDE DEF rs, room, r
  <2>4. /\ Onward(a) \in Additions /\ Onward(a).runs = rs /\ Onward(a).room = room
        /\ Onward(a).vcn = r.vcn /\ Onward(a).lcn = r.lcn /\ Onward(a).len = r.len
    BY <2>3, AdditionIs
  <2> QED BY <1>1, <2>2, <2>4 DEF rs, room, r
<1> QED BY <1>2, <1>3

(* What one call leaves to the next, and what it has done.                 *)
Once(a) == AddOnce(a, Inrange(a), Home(a))

(* One call, by whether it finds memory and whether something is left.     *)
LEMMA OnceIs ==
  ASSUME NEW a, NEW f
  PROVE  (IF Once(a).done.ok /\ Once(a).tail.len > 0
          THEN f[Addition(Once(a).done.runs, Once(a).done.room, Once(a).tail)]
          ELSE Once(a).done)
         = (IF Fails(a) THEN Result(FALSE, Shrunk(a), a.room)
            ELSE IF GoesOn(a) THEN f[Onward(a)]
            ELSE Done(a))
<1>1. Once(a).done = IF Fails(a) THEN Result(FALSE, Shrunk(a), a.room) ELSE Done(a)
  BY DEF Once, AddOnce, Fails, Done, Inserted, NewIndex, Shrunk, Widened, Extended, Reach, Halved,
         Splits, Differs, Added
<1>2. Once(a).tail = IF Differs(a) THEN Remnant(a) ELSE Run(End(Added(a)), 0, Sparse)
  BY DEF Once, AddOnce, Differs, Remnant, Added
<1>3. Once(a).done.ok <=> ~ Fails(a)
  BY <1>1 DEF Result, Done
<1>4. Once(a).tail.len > 0 <=> GoesOn(a)
  BY <1>2 DEF GoesOn, Run
<1>5. GoesOn(a) => Once(a).tail = Remnant(a)
  BY <1>2 DEF GoesOn
<1> QED BY <1>1, <1>3, <1>4, <1>5 DEF Onward

(* AddEntry is what its body says: the range that it adds next starts      *)
(* after the one before.                                                   *)
LEMMA AddEntryIs ==
  ASSUME NEW a \in Additions
  PROVE  AddEntry[a] = IF Fails(a) THEN Result(FALSE, Shrunk(a), a.room)
                       ELSE IF GoesOn(a) THEN AddEntry[Onward(a)]
                       ELSE Done(a)
<1> DEFINE S == Additions
           Stop == {x \in S : Fails(x) \/ ~ GoesOn(x)}
           out == [x \in S |-> IF Fails(x) THEN Result(FALSE, Shrunk(x), x.room)
                               ELSE Done(x)]
           step == [x \in S |-> Onward(x)]
           m == [x \in S |-> LastVcn + 1 - x.vcn]
           Body(f, x) == IF Fails(x) THEN Result(FALSE, Shrunk(x), x.room)
                         ELSE IF GoesOn(x) THEN f[Onward(x)]
                         ELSE Done(x)
<1> DEFINE Code(f, x) == IF Once(x).done.ok /\ Once(x).tail.len > 0
                         THEN f[Addition(Once(x).done.runs, Once(x).done.room, Once(x).tail)]
                         ELSE Once(x).done
<1>1. AddEntry = CHOOSE f : f = [x \in S |-> Code(f, x)]
  BY DEF AddEntry, Once, Home, Inrange, Continues, Spot
<1>7. ASSUME NEW f, NEW x \in S PROVE Code(f, x) = Body(f, x)
  <2> HIDE DEF S
  <2> QED BY OnceIs
<1>2. \A x \in S : m[x] \in Nat /\ m[x] = LastVcn + 1 - x.vcn
  <2> SUFFICES ASSUME NEW x \in S PROVE LastVcn + 1 - x.vcn \in Nat
    OBVIOUS
  <2>1. x.vcn \in Nat /\ x.len \in Nat /\ x.vcn + x.len <= LastVcn + 1 /\ LastVcn \in Nat
    BY AddedFacts, RunTreeConstants
  <2> QED BY <2>1
<1>3. \A x \in S \ Stop : step[x] \in S /\ m[step[x]] < m[x]
  <2> SUFFICES ASSUME NEW x \in S, x \notin Stop PROVE step[x] \in S /\ m[step[x]] < m[x]
    OBVIOUS
  <2>1. ~ Fails(x) /\ GoesOn(x)
    OBVIOUS
  <2>2. step[x] = Onward(x)
    OBVIOUS
  <2>3. Onward(x) \in S /\ Onward(x).vcn > x.vcn
    BY <2>1, StepIsAddition
  <2>4. x.vcn \in Nat /\ Onward(x).vcn \in Nat /\ LastVcn \in Nat
    BY <2>3, AddedFacts, RunTreeConstants
  <2>5. m[x] = LastVcn + 1 - x.vcn /\ m[Onward(x)] = LastVcn + 1 - Onward(x).vcn
    BY <1>2, <2>3
  <2> HIDE DEF m, step, S
  <2> QED BY <2>2, <2>3, <2>4, <2>5
<1>4. PICK f : Loop(f, S, Stop, out, step)
  <2> HIDE DEF S, Stop, out, step, m
  <2> QED BY <1>2, <1>3, LoopIsDefined
<1>5. f = [x \in S |-> Body(f, x)]
  <2>1. \A x \in S : f[x] = Body(f, x)
    <3> SUFFICES ASSUME NEW x \in S PROVE f[x] = Body(f, x)
      OBVIOUS
    <3>1. f[x] = IF x \in Stop THEN out[x] ELSE f[step[x]]
      <4> HIDE DEF S, Stop, out, step
      <4> QED BY <1>4 DEF Loop
    <3> QED BY <3>1
  <2>2. f = [x \in S |-> f[x]]
    <3> HIDE DEF S, Stop, out, step
    <3> QED BY <1>4 DEF Loop
  <2> HIDE DEF Body
  <2> QED BY <2>1, <2>2
<1>6. AddEntry = [x \in S |-> Code(AddEntry, x)]
  <2>1. f = [x \in S |-> Code(f, x)]
    <3> HIDE DEF S, Body, Code
    <3> QED BY <1>5, <1>7
  <2> HIDE DEF S, Code
  <2> QED BY <1>1, <2>1
<1>8. AddEntry[a] = Code(AddEntry, a)
  <2> HIDE DEF Code
  <2> QED BY <1>6
<1> QED BY <1>7, <1>8
-----------------------------------------------------------------------------
(* A run put in the place of another one that starts with it and does not  *)
(* end after it.                                                           *)
LEMMA ReplaceShows ==
  ASSUME NEW rs \in Trees, InOrder(rs), NEW i \in 1 .. Len(rs), NEW r \in Runs,
         r.vcn = rs[i].vcn, End(r) >= End(rs[i]),
         NEW e \in Trees, Len(e) = Len(rs), \A j \in 1 .. Len(rs) : e[j] = IF j = i THEN r ELSE rs[j]
  PROVE  /\ Over(e, i)
         /\ \A v \in Nat : Shown(e, i, v) = IF Covers(r, v) THEN At(r.lcn, v - r.vcn) ELSE Location(rs, v)
<1>1. Len(rs) \in Nat /\ e[i] = r
  BY TreeFacts
<1>2. Over(e, i)
  <2> SUFFICES ASSUME NEW a \in 1 .. Len(rs), NEW b \in 1 .. Len(rs), a < b
               PROVE  IF a = i THEN e[a].vcn < e[b].vcn ELSE End(e[a]) <= e[b].vcn
    BY DEF Over
  <2>1. /\ End(rs[a]) <= rs[b].vcn /\ rs[a].vcn < End(rs[a]) /\ rs[a].vcn \in Nat /\ End(rs[a]) \in Nat
        /\ rs[b].vcn \in Nat
    BY OrderFacts
  <2>2. e[b].vcn = rs[b].vcn
    OBVIOUS
  <2> QED BY <2>1, <2>2
<1>3. ASSUME NEW v \in Nat, ~ Covers(r, v) PROVE Shown(e, i, v) = Location(rs, v)
  <2>1. ~ Covers(rs[i], v)
    <3>1. End(r) \in Nat /\ End(rs[i]) \in Nat /\ rs[i].vcn \in Nat
      BY RunFacts, TreeTypes
    <3> QED BY <1>3, <3>1 DEF Covers
  <2>2. ASSUME NEW j \in 1 .. Len(rs), Covers(rs[j], v)
        PROVE  Shown(e, i, v) = Location(rs, v)
    <3>1. j # i /\ e[j] = rs[j]
      BY <2>1, <2>2
    <3>2. Shown(e, i, v) = At(e[j].lcn, v - e[j].vcn)
      BY <1>1, <1>2, <1>3, <2>2, <3>1, ShownOf
    <3>3. Location(rs, v) = At(rs[j].lcn, v - rs[j].vcn)
      BY <2>2, LocationInOrder
    <3> QED BY <3>1, <3>2, <3>3
  <2>3. CASE \A j \in 1 .. Len(rs) : ~ Covers(rs[j], v)
    <3>1. \A j \in 1 .. Len(e) : ~ Covers(e[j], v)
      BY <1>3, <2>3
    <3>2. Shown(e, i, v) = Unmapped
      BY <1>2, <3>1, ShownOf
    <3>3. Location(rs, v) = Unmapped
      BY <2>3, LocationInOrder
    <3> QED BY <3>2, <3>3
  <2> QED BY <2>2, <2>3
<1>4. ASSUME NEW v \in Nat, Covers(r, v) PROVE Shown(e, i, v) = At(r.lcn, v - r.vcn)
  BY <1>1, <1>4 DEF Shown
<1> QED BY <1>2, <1>3, <1>4

(* A run put where no run starts, before those that start after it.        *)
LEMMA InsertShows ==
  ASSUME NEW rs \in Trees, InOrder(rs), NEW p \in 1 .. Len(rs) + 1, NEW r \in Runs,
         \A j \in 1 .. Len(rs) : /\ j < p => End(rs[j]) <= r.vcn
                                 /\ j >= p => rs[j].vcn > r.vcn,
         NEW e, e = InsertAt(rs, p, r)
  PROVE  /\ e \in Trees /\ p \in 1 .. Len(e) /\ e[p] = r /\ Over(e, p)
         /\ \A v \in Nat : Shown(e, p, v) = IF Covers(r, v) THEN At(r.lcn, v - r.vcn) ELSE Location(rs, v)
<1>1. /\ e \in Trees /\ Len(e) = Len(rs) + 1
      /\ \A j \in 1 .. Len(rs) + 1 : e[j] = IF j < p THEN rs[j] ELSE IF j = p THEN r ELSE rs[j - 1]
  BY InsertFacts
<1>2. Len(rs) \in Nat /\ p \in 1 .. Len(e) /\ e[p] = r
  BY <1>1, TreeFacts
<1> DEFINE Old(j) == IF j < p THEN j ELSE j - 1
           New(j) == IF j < p THEN j ELSE j + 1
<1>3. ASSUME NEW j \in 1 .. Len(e), j # p PROVE Old(j) \in 1 .. Len(rs) /\ e[j] = rs[Old(j)]
  BY <1>1, <1>2, <1>3
<1>4. ASSUME NEW j \in 1 .. Len(rs) PROVE New(j) \in 1 .. Len(e) /\ New(j) # p /\ e[New(j)] = rs[j]
  <2>1. New(j) \in 1 .. Len(rs) + 1 /\ New(j) # p /\ (New(j) < p <=> j < p)
    BY <1>2
  <2>2. CASE j < p
    BY <1>1, <1>2, <2>1, <2>2
  <2>3. CASE ~ (j < p)
    <3>1. New(j) - 1 = j /\ New(j) = j + 1
      BY <2>3
    <3>2. e[j + 1] = rs[(j + 1) - 1]
      BY <1>1, <2>1, <2>3, <3>1
    <3> QED BY <1>1, <2>1, <3>1, <3>2
  <2> QED BY <2>2, <2>3
<1>5. Over(e, p)
  <2> SUFFICES ASSUME NEW a \in 1 .. Len(e), NEW b \in 1 .. Len(e), a < b
               PROVE  IF a = p THEN e[a].vcn < e[b].vcn ELSE End(e[a]) <= e[b].vcn
    BY DEF Over
  <2>1. CASE a = p
    <3>1. Old(b) \in 1 .. Len(rs) /\ e[b] = rs[Old(b)] /\ Old(b) >= p
      BY <1>2, <1>3, <2>1
    <3> HIDE DEF Old
    <3>2. r.vcn \in Nat /\ rs[Old(b)].vcn \in Nat
      BY <3>1, RunFacts, TreeTypes
    <3> QED BY <1>2, <2>1, <3>1, <3>2
  <2>2. CASE b = p
    <3>1. Old(a) \in 1 .. Len(rs) /\ e[a] = rs[Old(a)] /\ Old(a) < p
      BY <1>2, <1>3, <2>2
    <3> HIDE DEF Old
    <3> QED BY <1>2, <2>2, <3>1
  <2>3. CASE a # p /\ b # p
    <3>1. /\ Old(a) \in 1 .. Len(rs) /\ e[a] = rs[Old(a)]
          /\ Old(b) \in 1 .. Len(rs) /\ e[b] = rs[Old(b)] /\ Old(a) < Old(b)
      BY <1>2, <1>3, <2>3
    <3> HIDE DEF Old
    <3>2. End(rs[Old(a)]) <= rs[Old(b)].vcn
      BY <3>1, OrderFacts
    <3> QED BY <2>3, <3>1, <3>2
  <2> QED BY <2>1, <2>2, <2>3
<1> HIDE DEF Old, New
<1>6. ASSUME NEW v \in Nat, ~ Covers(r, v) PROVE Shown(e, p, v) = Location(rs, v)
  <2>1. ASSUME NEW j \in 1 .. Len(rs), Covers(rs[j], v)
        PROVE  Shown(e, p, v) = Location(rs, v)
    <3> DEFINE k == New(j)
    <3>1. k \in 1 .. Len(e) /\ k # p /\ e[k] = rs[j]
      BY <1>4
    <3> HIDE DEF k
    <3>2. Shown(e, p, v) = At(e[k].lcn, v - e[k].vcn)
      BY <1>1, <1>2, <1>5, <1>6, <2>1, <3>1, ShownOf
    <3>3. Location(rs, v) = At(rs[j].lcn, v - rs[j].vcn)
      BY <2>1, LocationInOrder
    <3> QED BY <3>1, <3>2, <3>3
  <2>2. CASE \A j \in 1 .. Len(rs) : ~ Covers(rs[j], v)
    <3>1. \A j \in 1 .. Len(e) : ~ Covers(e[j], v)
      BY <1>2, <1>3, <1>6, <2>2
    <3>2. Shown(e, p, v) = Unmapped
      BY <1>1, <1>5, <3>1, ShownOf
    <3>3. Location(rs, v) = Unmapped
      BY <2>2, LocationInOrder
    <3> QED BY <3>2, <3>3
  <2> QED BY <2>1, <2>2
<1>7. ASSUME NEW v \in Nat, Covers(r, v) PROVE Shown(e, p, v) = At(r.lcn, v - r.vcn)
  BY <1>2, <1>7 DEF Shown
<1> QED BY <1>1, <1>2, <1>5, <1>6, <1>7

(* A run cut short: the rest of it is lost.                                *)
LEMMA CutShows ==
  ASSUME NEW rs \in Trees, InOrder(rs), NEW i \in 1 .. Len(rs), NEW r \in Runs,
         r.vcn = rs[i].vcn, r.lcn = rs[i].lcn, End(r) <= End(rs[i]),
         NEW e \in Trees, Len(e) = Len(rs), \A j \in 1 .. Len(rs) : e[j] = IF j = i THEN r ELSE rs[j]
  PROVE  /\ InOrder(e)
         /\ \A v \in Nat : Location(e, v) = IF End(r) <= v /\ v < End(rs[i]) THEN Unmapped ELSE Location(rs, v)
<1>1. /\ Len(rs) \in Nat /\ e[i] = r /\ End(r) \in Nat /\ r.vcn \in Nat /\ r.vcn < End(r)
      /\ End(rs[i]) \in Nat
  BY TreeFacts, TreeTypes
<1>2. InOrder(e)
  <2> SUFFICES ASSUME NEW a \in 1 .. Len(rs), NEW b \in 1 .. Len(rs), a < b
               PROVE  End(e[a]) <= e[b].vcn
    BY TreeFacts DEF InOrder
  <2>1. End(rs[a]) <= rs[b].vcn /\ End(rs[a]) \in Nat /\ rs[b].vcn \in Nat
    BY OrderFacts
  <2>2. e[b].vcn = rs[b].vcn
    OBVIOUS
  <2>3. End(e[a]) <= End(rs[a])
    BY <1>1, <2>1
  <2>4. End(e[a]) \in Nat
    BY TreeTypes
  <2> QED BY <2>1, <2>2, <2>3, <2>4
<1>3. ASSUME NEW v \in Nat
      PROVE  Location(e, v) = IF End(r) <= v /\ v < End(rs[i]) THEN Unmapped ELSE Location(rs, v)
  <2>1. CASE End(r) <= v /\ v < End(rs[i])
    <3>1. ASSUME NEW j \in 1 .. Len(rs) PROVE ~ Covers(e[j], v)
      <4>1. CASE j = i
        BY <1>1, <2>1, <4>1 DEF Covers
      <4>2. CASE j # i
        <5>1. Covers(rs[i], v)
          BY <1>1, <2>1 DEF Covers
        <5>2. ~ Covers(rs[j], v)
          <6>1. /\ rs[j].vcn \in Nat /\ End(rs[j]) \in Nat
                /\ j < i => End(rs[j]) <= rs[i].vcn
                /\ i < j => End(rs[i]) <= rs[j].vcn
            BY OrderFacts, TreeTypes
          <6>2. rs[i].vcn <= v /\ v < End(rs[i]) /\ rs[i].vcn \in Nat
            BY <1>1, <5>1 DEF Covers
          <6>3. j < i \/ i < j
            BY <4>2
          <6> QED BY <1>1, <6>1, <6>2, <6>3 DEF Covers
        <5> QED BY <4>2, <5>2
      <4> QED BY <4>1, <4>2
    <3>2. Location(e, v) = Unmapped
      BY <1>2, <3>1, LocationInOrder
    <3> QED BY <2>1, <3>2
  <2>2. CASE ~ (End(r) <= v /\ v < End(rs[i]))
    <3>1. ASSUME NEW j \in 1 .. Len(rs) PROVE Covers(e[j], v) <=> Covers(rs[j], v)
      <4>1. CASE j = i
        BY <1>1, <2>2, <4>1 DEF Covers
      <4>2. CASE j # i
        BY <4>2
      <4> QED BY <4>1, <4>2
    <3>2. ASSUME NEW j \in 1 .. Len(rs), Covers(rs[j], v) PROVE Location(e, v) = Location(rs, v)
      <4>1. Covers(e[j], v) /\ e[j].lcn = rs[j].lcn /\ e[j].vcn = rs[j].vcn
        BY <3>1, <3>2
      <4>2. Location(e, v) = At(e[j].lcn, v - e[j].vcn)
        BY <1>2, <4>1, LocationInOrder
      <4>3. Location(rs, v) = At(rs[j].lcn, v - rs[j].vcn)
        BY <3>2, LocationInOrder
      <4> QED BY <4>1, <4>2, <4>3
    <3>3. CASE \A j \in 1 .. Len(rs) : ~ Covers(rs[j], v)
      <4>1. \A j \in 1 .. Len(e) : ~ Covers(e[j], v)
        BY <3>1, <3>3
      <4>2. Location(e, v) = Unmapped
        BY <1>2, <4>1, LocationInOrder
      <4>3. Location(rs, v) = Unmapped
        BY <3>3, LocationInOrder
      <4> QED BY <4>2, <4>3
    <3>4. Location(e, v) = Location(rs, v)
      <4>1. CASE \E j \in 1 .. Len(rs) : Covers(rs[j], v)
        <5> PICK j \in 1 .. Len(rs) : Covers(rs[j], v)
          BY <4>1
        <5> QED BY <3>2
      <4> QED BY <2>2, <3>3, <4>1
    <3> QED BY <2>2, <3>4
  <2> QED BY <2>1, <2>2
<1> QED BY <1>2, <1>3
-----------------------------------------------------------------------------
(* An array shows another one with a range of it replaced.                 *)
Replaced(n, rs, from, to, lcn) ==
  \A v \in Nat : Location(n, v) = IF from <= v /\ v < to THEN At(lcn, v - from) ELSE Location(rs, v)

(* What one step of run_add_entry shows, by the place of the range: where  *)
(* no run is, or in a run that has it or is continued by it;               *)
LEMMA DoneWithRange ==
  ASSUME NEW a \in Additions, InOrder(a.runs), ~ Fails(a), ~ Differs(a)
  PROVE  InOrder(Done(a).runs) /\ Replaced(Done(a).runs, a.runs, a.vcn, a.vcn + a.len, a.lcn)
<1> DEFINE rs == a.runs
           i == Home(a)
<1>1. /\ rs \in Trees /\ Len(rs) \in Nat /\ Added(a) \in Runs /\ Added(a).vcn = a.vcn
      /\ Added(a).lcn = a.lcn /\ End(Added(a)) = a.vcn + a.len
      /\ a.vcn \in Nat /\ a.len \in Nat \ {0} /\ a.lcn \in Nat \cup {Sparse}
  BY AddedFacts, TreeFacts
<1>2. ~ Splits(a)
  BY DEF Splits
<1>3. CASE ~ Inrange(a)
  <2>1. Done(a).runs = Normalize(Inserted(a), i) /\ Inserted(a) = InsertAt(rs, i, Added(a))
    BY <1>2, <1>3 DEF Done, NewIndex, Inserted, Shrunk, Result
  <2>2. i \in 1 .. Len(rs) + 1
    BY <1>3, HomeFacts
  <2>3. \A j \in 1 .. Len(rs) : /\ j < i => End(rs[j]) <= Added(a).vcn
                                /\ j >= i => rs[j].vcn > Added(a).vcn
    BY <1>1, <1>3, HomeInOrder
  <2> DEFINE e == Inserted(a)
             r == Added(a)
  <2>4. InOrder(rs) /\ r \in Runs
    BY <1>1
  <2> HIDE DEF e, i, rs, r
  <2>5. /\ e \in Trees /\ i \in 1 .. Len(e) /\ e[i] = r /\ Over(e, i)
        /\ \A v \in Nat : Shown(e, i, v) = IF Covers(r, v) THEN At(r.lcn, v - r.vcn) ELSE Location(rs, v)
    BY <1>1, <2>1, <2>2, <2>3, <2>4, InsertShows DEF e, r
  <2>6. i \in Nat \ {0} /\ i \in {i, i + 1}
    BY <1>1, <2>2
  <2>7. /\ InOrder(Done(a).runs)
        /\ \A v \in Nat : Location(Done(a).runs, v) = Shown(e, i, v)
    BY <2>1, <2>5, <2>6, NormalizePuts DEF e
  <2> QED BY <1>1, <2>5, <2>7 DEF Replaced, Covers, r, rs
<1>4. CASE Inrange(a)
  <2> DEFINE p == IF i > 1 THEN i - 1 ELSE i
             e == Widened(a)
             r == Extended(a)
  <2>1. Done(a).runs = Normalize(e, p)
    BY <1>2, <1>4 DEF Done, Result
  <2>2. /\ i \in 1 .. Len(rs) /\ rs[i] \in Runs /\ rs[i].vcn <= a.vcn /\ a.vcn <= End(rs[i])
        /\ At(rs[i].lcn, a.vcn - rs[i].vcn) = a.lcn
    BY <1>4, HomeFacts DEF Differs
  <2>3. /\ r \in Runs /\ r.vcn = rs[i].vcn /\ r.lcn = rs[i].lcn
        /\ End(r) >= End(rs[i]) /\ End(r) >= a.vcn + a.len /\ End(r) \in {End(rs[i]), a.vcn + a.len}
    BY <1>1, <1>4, PiecesAreRuns
  <2>4. e \in Trees /\ Len(e) = Len(rs) /\ \A j \in 1 .. Len(rs) : e[j] = IF j = i THEN r ELSE rs[j]
    BY <1>4, WidenedFacts
  <2>5. InOrder(rs)
    OBVIOUS
  <2>6. p \in Nat \ {0} /\ i \in {p, p + 1} /\ i \in 1 .. Len(e)
    BY <1>1, <2>2, <2>4
  <2> HIDE DEF p, e, r, rs, i
  <2>7. /\ Over(e, i)
        /\ \A v \in Nat : Shown(e, i, v) = IF Covers(r, v) THEN At(r.lcn, v - r.vcn) ELSE Location(rs, v)
    BY <1>1, <2>2, <2>3, <2>4, <2>5, ReplaceShows
  <2>8. /\ InOrder(Done(a).runs)
        /\ \A v \in Nat : Location(Done(a).runs, v) = Shown(e, i, v)
    <3>1. e \in Trees /\ Over(e, i)
      BY <2>4, <2>7
    <3> QED BY <2>1, <2>6, <3>1, NormalizePuts
  <2>9. ASSUME NEW v \in Nat
        PROVE  (IF Covers(r, v) THEN At(r.lcn, v - r.vcn) ELSE Location(rs, v)) =
               IF a.vcn <= v /\ v < a.vcn + a.len THEN At(a.lcn, v - a.vcn) ELSE Location(rs, v)
    <3> DEFINE s == rs[i].vcn
               f == End(rs[i])
               l == rs[i].lcn
               t == a.vcn
               g == a.vcn + a.len
    <3>1. /\ s \in Nat /\ f \in Nat /\ l \in Nat \cup {Sparse} /\ t \in Nat /\ g \in Nat /\ t < g
          /\ s <= t /\ t <= f /\ s < f
      <4>1. s \in Nat /\ f \in Nat /\ l \in Nat \cup {Sparse} /\ s < f
        BY <1>1, <2>2, TreeTypes
      <4> QED BY <1>1, <2>2, <4>1
    <3>2. r.vcn = s /\ r.lcn = l /\ End(r) >= f /\ End(r) >= g /\ End(r) \in {f, g}
      BY <2>3
    <3>3. At(l, t - s) = a.lcn
      BY <2>2
    <3>4. s <= v /\ v < f => Location(rs, v) = At(l, v - s)
      BY <1>1, <2>2, <2>5, LocationInOrder DEF Covers
    <3> HIDE DEF s, f, l, t, g
    <3>5. CASE t <= v /\ v < g
      <4>1. Covers(r, v)
        BY <3>1, <3>2, <3>5 DEF Covers
      <4>2. t - s \in Nat /\ v - t \in Nat /\ (t - s) + (v - t) = v - s
        BY <3>1, <3>5
      <4>3. At(At(l, t - s), v - t) = At(l, (t - s) + (v - t))
        BY <3>1, <4>2, AtAt
      <4> QED BY <3>2, <3>3, <3>5, <4>1, <4>2, <4>3 DEF t, g
    <3>6. CASE ~ (t <= v /\ v < g)
      <4>1. CASE Covers(r, v)
        <5>1. s <= v /\ v < f
          BY <3>1, <3>2, <3>6, <4>1 DEF Covers
        <5> QED BY <3>2, <3>4, <3>6, <4>1, <5>1 DEF t, g
      <4> QED BY <3>6, <4>1 DEF t, g
    <3> QED BY <3>5, <3>6
  <2>10. ASSUME NEW v \in Nat
         PROVE  Location(Done(a).runs, v) =
                  IF a.vcn <= v /\ v < a.vcn + a.len THEN At(a.lcn, v - a.vcn) ELSE Location(rs, v)
    <3>1. Location(Done(a).runs, v) = Shown(e, i, v)
      BY <2>8
    <3>2. Shown(e, i, v) = IF Covers(r, v) THEN At(r.lcn, v - r.vcn) ELSE Location(rs, v)
      BY <2>7
    <3> QED BY <2>9, <3>1, <3>2
  <2> QED BY <2>8, <2>10 DEF Replaced, rs
<1> QED BY <1>3, <1>4

(* in a run that starts with it and has something else;                    *)
LEMMA DoneOver ==
  ASSUME NEW a \in Additions, InOrder(a.runs), ~ Fails(a), Differs(a), ~ Splits(a)
  PROVE  /\ InOrder(Done(a).runs) /\ a.runs[Home(a)].vcn = a.vcn
         /\ Replaced(Done(a).runs, a.runs, a.vcn, Reach(a), a.lcn)
         /\ Spans(Done(a).runs, a.vcn, Reach(a))
<1> DEFINE rs == a.runs
           i == Home(a)
           p == IF i > 1 THEN i - 1 ELSE i
           e == Widened(a)
           r == Extended(a)
<1>1. Inrange(a)
  BY DEF Differs
<1>2. rs \in Trees /\ Len(rs) \in Nat /\ a.vcn \in Nat /\ InOrder(rs)
  BY AddedFacts, TreeFacts
<1>3. i \in 1 .. Len(rs) /\ rs[i].vcn <= a.vcn
  BY <1>1, HomeFacts
<1>4. rs[i].vcn = a.vcn
  <2>1. rs[i].vcn \in Nat
    BY <1>2, <1>3, TreeTypes
  <2> QED BY <1>2, <1>3, <2>1 DEF Splits
<1>5. Done(a).runs = Normalize(e, p)
  BY <1>1 DEF Done, Result
<1>6. r \in Runs /\ r.vcn = a.vcn /\ r.lcn = a.lcn /\ End(r) = Reach(a) /\ End(r) >= End(rs[i])
  BY <1>1, <1>4, PiecesAreRuns
<1>7. e \in Trees /\ Len(e) = Len(rs) /\ \A j \in 1 .. Len(rs) : e[j] = IF j = i THEN r ELSE rs[j]
  BY <1>1, WidenedFacts
<1>8. p \in Nat \ {0} /\ i \in {p, p + 1} /\ i \in 1 .. Len(e)
  BY <1>2, <1>3, <1>7
<1> HIDE DEF p, e, r, rs, i
<1>9. /\ Over(e, i)
      /\ \A v \in Nat : Shown(e, i, v) = IF Covers(r, v) THEN At(r.lcn, v - r.vcn) ELSE Location(rs, v)
  <2>1. r \in Runs /\ r.vcn = rs[i].vcn /\ End(r) >= End(rs[i])
    BY <1>4, <1>6
  <2>2. rs \in Trees /\ InOrder(rs) /\ i \in 1 .. Len(rs)
    BY <1>2, <1>3
  <2> QED BY <1>7, <2>1, <2>2, ReplaceShows
<1>10. /\ InOrder(Done(a).runs)
       /\ \A v \in Nat : Location(Done(a).runs, v) = Shown(e, i, v)
       /\ Spans(Done(a).runs, e[i].vcn, End(e[i]))
  <2> DEFINE n == Done(a).runs
  <2>1. n = Normalize(e, p) /\ e \in Trees /\ Over(e, i)
    BY <1>5, <1>7, <1>9
  <2> HIDE DEF n
  <2>2. /\ InOrder(n) /\ \A v \in Nat : Location(n, v) = Shown(e, i, v)
        /\ Spans(n, e[i].vcn, End(e[i]))
    BY <1>8, <2>1, NormalizePuts
  <2> QED BY <2>2 DEF n
<1>11. e[i] = r
  BY <1>3, <1>7
<1>12. Replaced(Done(a).runs, rs, a.vcn, Reach(a), a.lcn)
  BY <1>6, <1>9, <1>10 DEF Replaced, Covers
<1> QED BY <1>4, <1>6, <1>10, <1>11, <1>12 DEF rs, i

(* in the middle of a run that has something else, which is cut.           *)
LEMMA HalvedShows ==
  ASSUME NEW a \in Additions, InOrder(a.runs), Splits(a)
  PROVE  /\ InOrder(Halved(a))
         /\ \A v \in Nat : Location(Halved(a), v) =
              IF a.vcn <= v /\ v < End(a.runs[Home(a)]) THEN Unmapped ELSE Location(a.runs, v)
<1> DEFINE rs == a.runs
           i == Home(a)
           e == Halved(a)
           r == Before(rs[i], a.vcn)
<1>1. Inrange(a) /\ Differs(a)
  BY DEF Splits, Differs
<1>2. rs \in Trees /\ InOrder(rs)
  BY AddedFacts
<1>3. i \in 1 .. Len(rs) /\ a.vcn <= End(rs[i])
  BY <1>1, HomeFacts
<1>4. r \in Runs /\ r.vcn = rs[i].vcn /\ r.lcn = rs[i].lcn /\ End(r) = a.vcn
  BY <1>1, PiecesAreRuns
<1>5. e \in Trees /\ Len(e) = Len(rs) /\ \A j \in 1 .. Len(rs) : e[j] = IF j = i THEN r ELSE rs[j]
  BY HalvedFacts
<1> HIDE DEF e, r, rs, i
<1>6. /\ InOrder(e)
      /\ \A v \in Nat : Location(e, v) = IF End(r) <= v /\ v < End(rs[i]) THEN Unmapped ELSE Location(rs, v)
  BY <1>2, <1>3, <1>4, <1>5, CutShows
<1> QED BY <1>4, <1>6 DEF e, rs, i

(* or in a run that has something else, of which what follows the range is *)
(* gone for the moment.                                                    *)
LEMMA DoneSplit ==
  ASSUME NEW a \in Additions, InOrder(a.runs), ~ Fails(a), Splits(a)
  PROVE  /\ InOrder(Done(a).runs)
         /\ \A v \in Nat : Location(Done(a).runs, v) =
              IF a.vcn <= v /\ v < a.vcn + a.len THEN At(a.lcn, v - a.vcn)
              ELSE IF a.vcn <= v /\ v < End(a.runs[Home(a)]) THEN Unmapped
              ELSE Location(a.runs, v)
<1> DEFINE rs == a.runs
           i == Home(a)
           h == Halved(a)
           q == i + 1
           e == Inserted(a)
           r == Added(a)
<1>1. Inrange(a) /\ Differs(a)
  BY DEF Splits, Differs
<1>2. /\ rs \in Trees /\ InOrder(rs) /\ Len(rs) \in Nat /\ a.vcn \in Nat
      /\ r \in Runs /\ r.vcn = a.vcn /\ r.lcn = a.lcn /\ End(r) = a.vcn + a.len
  BY AddedFacts, TreeFacts
<1>3. i \in 1 .. Len(rs) /\ a.vcn < End(rs[i])
  BY <1>1, HomeFacts
<1>4. Done(a).runs = Normalize(e, q) /\ e = InsertAt(h, q, r)
  BY DEF Done, NewIndex, Inserted, Shrunk, Result
<1>5. /\ h \in Trees /\ Len(h) = Len(rs)
      /\ \A j \in 1 .. Len(rs) : h[j] = IF j = i THEN Before(rs[i], a.vcn) ELSE rs[j]
  BY HalvedFacts
<1>6. End(Before(rs[i], a.vcn)) = a.vcn
  BY <1>1, PiecesAreRuns
<1>7. /\ InOrder(h)
      /\ \A v \in Nat : Location(h, v) = IF a.vcn <= v /\ v < End(rs[i]) THEN Unmapped ELSE Location(rs, v)
  BY HalvedShows
<1>8. q \in 1 .. Len(h) + 1 /\ q \in Nat \ {0} /\ i < q /\ \A j \in 1 .. Len(rs) : (j < q <=> j <= i)
  BY <1>2, <1>3, <1>5
<1> HIDE DEF e, h, r, rs, i, q
<1>9. ASSUME NEW j \in 1 .. Len(h)
      PROVE  /\ j < q => End(h[j]) <= r.vcn
             /\ j >= q => h[j].vcn > r.vcn
  <2>1. j \in 1 .. Len(rs) /\ End(h[j]) \in Nat /\ h[j].vcn \in Nat /\ i \in 1 .. Len(h)
    BY <1>3, <1>5, TreeTypes
  <2>2. CASE j = i
    BY <1>2, <1>5, <1>6, <1>8, <2>1, <2>2
  <2>3. CASE j < i
    <3>1. End(h[j]) <= h[i].vcn /\ h[i].vcn < End(h[i]) /\ h[i].vcn \in Nat /\ End(h[i]) \in Nat
      BY <1>5, <1>7, <2>1, <2>3, OrderFacts
    <3>2. End(h[i]) = a.vcn
      BY <1>3, <1>5, <1>6
    <3> QED BY <1>2, <1>8, <2>1, <2>3, <3>1, <3>2
  <2>4. CASE j > i
    <3>1. End(rs[i]) <= rs[j].vcn /\ End(rs[i]) \in Nat /\ rs[j].vcn \in Nat /\ h[j] = rs[j]
      BY <1>2, <1>3, <1>5, <2>1, <2>4, OrderFacts
    <3>2. h[j].vcn > r.vcn /\ ~ (j < q)
      BY <1>2, <1>3, <1>8, <2>1, <2>4, <3>1
    <3> QED BY <3>2
  <2> QED BY <1>3, <2>1, <2>2, <2>3, <2>4
<1>10. /\ e \in Trees /\ q \in 1 .. Len(e) /\ Over(e, q)
       /\ \A v \in Nat : Shown(e, q, v) = IF Covers(r, v) THEN At(r.lcn, v - r.vcn) ELSE Location(h, v)
  BY <1>2, <1>4, <1>5, <1>7, <1>8, <1>9, InsertShows
<1>11. InOrder(Done(a).runs) /\ \A v \in Nat : Location(Done(a).runs, v) = Shown(e, q, v)
  <2>1. q \in {q, q + 1}
    OBVIOUS
  <2> QED BY <1>4, <1>8, <1>10, <2>1, NormalizePuts
<1>12. ASSUME NEW v \in Nat
       PROVE  Location(Done(a).runs, v) =
                IF a.vcn <= v /\ v < a.vcn + a.len THEN At(a.lcn, v - a.vcn)
                ELSE IF a.vcn <= v /\ v < End(rs[i]) THEN Unmapped
                ELSE Location(rs, v)
  <2>1. Location(Done(a).runs, v) = IF Covers(r, v) THEN At(r.lcn, v - r.vcn) ELSE Location(h, v)
    BY <1>10, <1>11
  <2>2. Covers(r, v) <=> a.vcn <= v /\ v < a.vcn + a.len
    BY <1>2 DEF Covers
  <2>3. Location(h, v) = IF a.vcn <= v /\ v < End(rs[i]) THEN Unmapped ELSE Location(rs, v)
    BY <1>7
  <2> QED BY <1>2, <2>1, <2>2, <2>3
<1> QED BY <1>11, <1>12 DEF rs, i
-----------------------------------------------------------------------------
(* What run_add_entry promises.  When memory runs out, a cluster from the  *)
(* range's start on may be lost, or be taken for one next to the new ones, *)
(* this only beyond the range and when a run started with it; and nothing  *)
(* has changed if no run had the range's first cluster.                    *)
Keeps(a, n) ==
  /\ n.runs \in Trees /\ InOrder(n.runs) /\ n.room \in Nat
  /\ n.ok => Replaced(n.runs, a.runs, a.vcn, a.vcn + a.len, a.lcn)
  /\ ~ n.ok => \A v \in Nat :
       \/ Location(n.runs, v) = Location(a.runs, v)
       \/ v >= a.vcn /\ Location(n.runs, v) = Unmapped
       \/ /\ v >= a.vcn /\ Location(n.runs, v) = At(a.lcn, v - a.vcn)
          /\ v < a.vcn + a.len \/ \E i \in 1 .. Len(a.runs) : a.runs[i].vcn = a.vcn
  /\ ~ n.ok /\ Location(a.runs, a.vcn) = Unmapped =>
       \A v \in Nat : Location(n.runs, v) = Location(a.runs, v)

(* run_add_entry without memory: at most the rest of a run is lost.        *)
LEMMA FailsKeeps ==
  ASSUME NEW a \in Additions, InOrder(a.runs), Fails(a)
  PROVE  Keeps(a, AddEntry[a])
<1> DEFINE n == AddEntry[a]
<1>1. n = Result(FALSE, Shrunk(a), a.room)
  BY AddEntryIs
<1>2. n.ok = FALSE /\ n.runs = Shrunk(a) /\ n.room = a.room
  BY <1>1 DEF Result
<1> HIDE DEF n
<1>3. a.runs \in Trees /\ a.room \in Nat /\ a.vcn \in Nat
  BY AddedFacts
<1> SUFFICES /\ n.runs \in Trees /\ InOrder(n.runs)
             /\ \A v \in Nat : \/ Location(n.runs, v) = Location(a.runs, v)
                               \/ v >= a.vcn /\ Location(n.runs, v) = Unmapped
             /\ Location(a.runs, a.vcn) = Unmapped =>
                  \A v \in Nat : Location(n.runs, v) = Location(a.runs, v)
  BY <1>2, <1>3 DEF Keeps, n
<1>4. CASE Splits(a)
  <2>1. n.runs = Halved(a) /\ Halved(a) \in Trees /\ Inrange(a) /\ Differs(a)
    BY <1>2, <1>4, HalvedFacts DEF Shrunk, Splits, Differs
  <2>2. Location(a.runs, a.vcn) # Unmapped
    <3>1. Home(a) \in 1 .. Len(a.runs) /\ Covers(a.runs[Home(a)], a.vcn)
      BY <2>1, HomeFacts DEF Covers
    <3> QED BY <1>3, <3>1, LocationInOrder
  <2>3. /\ InOrder(Halved(a))
        /\ \A v \in Nat : Location(Halved(a), v) =
             IF a.vcn <= v /\ v < End(a.runs[Home(a)]) THEN Unmapped ELSE Location(a.runs, v)
    BY <1>4, HalvedShows
  <2> QED BY <1>3, <2>1, <2>2, <2>3
<1>5. CASE ~ Splits(a)
  <2>1. n.runs = a.runs
    BY <1>2, <1>5 DEF Shrunk
  <2> QED BY <1>3, <2>1
<1> QED BY <1>4, <1>5

(* run_add_entry when nothing is left to be added again.                   *)
LEMMA LastKeeps ==
  ASSUME NEW a \in Additions, InOrder(a.runs), ~ Fails(a), ~ GoesOn(a)
  PROVE  Keeps(a, AddEntry[a])
<1> DEFINE n == AddEntry[a]
<1>1. n = Done(a)
  BY AddEntryIs
<1>2. n.ok /\ n.runs \in Trees /\ n.room \in Nat
  BY <1>1, StepIsAddition
<1>3. /\ a.vcn \in Nat /\ a.len \in Nat \ {0} /\ a.runs \in Trees /\ End(Added(a)) = a.vcn + a.len
  BY AddedFacts
<1> HIDE DEF n
<1> SUFFICES InOrder(n.runs) /\ Replaced(n.runs, a.runs, a.vcn, a.vcn + a.len, a.lcn)
  BY <1>2 DEF Keeps, n
<1>4. CASE ~ Differs(a)
  BY <1>1, <1>4, DoneWithRange
<1>5. CASE Differs(a)
  <2>1. Inrange(a) /\ Remnant(a).len <= 0 /\ Remnant(a).len = End(a.runs[Home(a)]) - (a.vcn + a.len)
    <3>1. Inrange(a)
      BY <1>5 DEF Differs
    <3>2. Remnant(a).len = End(a.runs[Home(a)]) - End(Added(a))
      BY <3>1, PiecesAreRuns
    <3>3. a.runs[Home(a)] \in Runs
      BY <3>1, HomeFacts
    <3>4. End(a.runs[Home(a)]) \in Nat
      BY <3>3, RunFacts
    <3> QED BY <1>3, <1>5, <3>1, <3>2, <3>4 DEF GoesOn
  <2>2. End(a.runs[Home(a)]) \in Nat
    BY <1>3, <2>1, HomeFacts, TreeTypes
  <2>3. End(a.runs[Home(a)]) <= a.vcn + a.len
    BY <1>3, <2>1, <2>2
  <2>4. CASE ~ Splits(a)
    <3>1. Reach(a) = a.vcn + a.len
      BY <1>3, <2>2, <2>3 DEF Reach
    <3> QED BY <1>1, <1>5, <2>4, <3>1, DoneOver
  <2>5. CASE Splits(a)
    <3>1. InOrder(n.runs) /\ \A v \in Nat : Location(n.runs, v) =
              IF a.vcn <= v /\ v < a.vcn + a.len THEN At(a.lcn, v - a.vcn)
              ELSE IF a.vcn <= v /\ v < End(a.runs[Home(a)]) THEN Unmapped
              ELSE Location(a.runs, v)
      BY <1>1, <2>5, DoneSplit
    <3> QED BY <1>3, <2>2, <2>3, <3>1 DEF Replaced
  <2> QED BY <2>4, <2>5
<1> QED BY <1>4, <1>5

(* run_add_entry when the rest of a run is added again, if that call keeps *)
(* its promise.                                                            *)
LEMMA OnwardKeeps ==
  ASSUME NEW a \in Additions, InOrder(a.runs), ~ Fails(a), GoesOn(a),
         InOrder(Onward(a).runs) => Keeps(Onward(a), AddEntry[Onward(a)])
  PROVE  Keeps(a, AddEntry[a])
<1> DEFINE n == AddEntry[a]
           y == Onward(a)
           d == Done(a).runs
           rs == a.runs
           r == rs[Home(a)]
           s == r.vcn
           f == End(r)
           l == r.lcn
           t == a.vcn
           e == a.vcn + a.len
           Loc(v) == Location(rs, v)
<1>1. Differs(a) /\ Inrange(a) /\ Remnant(a).len > 0
  BY DEF GoesOn, Differs
<1>2. n = AddEntry[y]
  BY AddEntryIs
<1>3. /\ rs \in Trees /\ t \in Nat /\ a.len \in Nat \ {0} /\ End(Added(a)) = e /\ InOrder(rs)
  BY AddedFacts
<1>4. /\ Home(a) \in 1 .. Len(rs) /\ r \in Runs /\ s <= t /\ t < f
  BY <1>1, HomeFacts
<1>5. s \in Nat /\ f \in Nat /\ l \in Nat \cup {Sparse}
  BY <1>4, RunFacts
<1>6. /\ Remnant(a).vcn = e /\ Remnant(a).len = f - e /\ Remnant(a).lcn = At(l, e - s)
  BY <1>1, <1>3, PiecesAreRuns
<1>7. e \in Nat /\ t < e /\ e < f
  BY <1>1, <1>3, <1>5, <1>6
<1>8. /\ d \in Trees /\ y.runs = d /\ y.vcn = e /\ y.lcn = At(l, e - s) /\ y.len = f - e
      /\ y.vcn + y.len = f
  <2>1. /\ d \in Trees /\ y.runs = d /\ y.vcn = Remnant(a).vcn /\ y.lcn = Remnant(a).lcn
        /\ y.len = Remnant(a).len
    BY StepIsAddition
  <2> QED BY <1>5, <1>6, <1>7, <2>1
<1>9. \A v \in Nat : s <= v /\ v < f => Loc(v) = At(l, v - s)
  BY <1>3, <1>4, LocationInOrder DEF Covers
<1>10. \A v \in Nat : e <= v => At(y.lcn, v - e) = At(l, v - s)
  <2> SUFFICES ASSUME NEW v \in Nat, e <= v PROVE At(At(l, e - s), v - e) = At(l, v - s)
    BY <1>8
  <2> HIDE DEF l, e, s, t
  <2>1. e - s \in Nat /\ v - e \in Nat /\ (e - s) + (v - e) = v - s
    <3>1. t \in Nat /\ s <= t
      BY <1>3, <1>4 DEF t, s, e
    <3> QED BY <1>5, <1>7, <3>1
  <2>2. At(At(l, e - s), v - e) = At(l, (e - s) + (v - e))
    BY <1>5, <2>1, AtAt
  <2> QED BY <2>1, <2>2
<1>11. Location(rs, t) # Unmapped
  BY <1>3, <1>4, LocationInOrder DEF Covers
<1>12. CASE ~ Splits(a)
  <2>1. Reach(a) = f
    BY <1>3, <1>5, <1>7 DEF Reach
  <2>2. /\ InOrder(d) /\ s = t
        /\ \A v \in Nat : Location(d, v) = IF t <= v /\ v < f THEN At(a.lcn, v - t) ELSE Loc(v)
        /\ Spans(d, t, f)
    BY <1>1, <1>12, <2>1, DoneOver DEF Replaced
  <2>3. Keeps(y, n)
    BY <1>2, <1>8, <2>2
  <2>4. ~ \E i \in 1 .. Len(d) : d[i].vcn = e
    <3> SUFFICES ASSUME NEW i \in 1 .. Len(d), d[i].vcn = e PROVE FALSE
      OBVIOUS
    <3> HIDE DEF d, e, t, f
    <3> PICK j \in 1 .. Len(d) : d[j].vcn <= t /\ End(d[j]) >= f
      BY <2>2 DEF Spans
    <3>1. /\ d[i].vcn < End(d[i]) /\ d[i].vcn \in Nat /\ End(d[i]) \in Nat
          /\ d[j].vcn < End(d[j]) /\ d[j].vcn \in Nat /\ End(d[j]) \in Nat
      BY <1>8, TreeTypes
    <3>2. i < j => End(d[i]) <= d[j].vcn
      BY <1>8, <2>2, OrderFacts
    <3>3. j < i => End(d[j]) <= d[i].vcn
      BY <1>8, <2>2, OrderFacts
    <3>4. i = j \/ i < j \/ j < i
      BY <1>8, TreeFacts
    <3>5. t \in Nat /\ e \in Nat /\ f \in Nat
      BY <1>3, <1>5, <1>7 DEF t
    <3> QED BY <1>7, <3>1, <3>2, <3>3, <3>4, <3>5
  <2>5. n.ok => Replaced(n.runs, rs, t, e, a.lcn)
    <3> SUFFICES ASSUME n.ok, NEW v \in Nat
                 PROVE  Location(n.runs, v) = IF t <= v /\ v < e THEN At(a.lcn, v - t) ELSE Loc(v)
      BY DEF Replaced
    <3>1. Location(n.runs, v) = IF e <= v /\ v < f THEN At(y.lcn, v - e) ELSE Location(d, v)
      BY <1>8, <2>3 DEF Keeps, Replaced
    <3> HIDE DEF n, y, d, rs, r, s, f, l, t, e, Loc
    <3>2. t \in Nat
      BY <1>3 DEF t
    <3> QED BY <1>5, <1>7, <1>9, <1>10, <2>2, <3>1, <3>2
  <2>6. ~ n.ok => \A v \in Nat :
          \/ Location(n.runs, v) = Loc(v)
          \/ v >= t /\ Location(n.runs, v) = Unmapped
          \/ /\ v >= t /\ Location(n.runs, v) = At(a.lcn, v - t)
             /\ v < e \/ \E i \in 1 .. Len(rs) : rs[i].vcn = t
    <3> SUFFICES ASSUME ~ n.ok, NEW v \in Nat
                 PROVE  \/ Location(n.runs, v) = Loc(v)
                        \/ v >= t /\ Location(n.runs, v) = Unmapped
                        \/ v >= t /\ Location(n.runs, v) = At(a.lcn, v - t)
      BY <1>4, <2>2
    <3>1. \/ Location(n.runs, v) = Location(d, v)
          \/ v >= e /\ Location(n.runs, v) = Unmapped
          \/ v >= e /\ Location(n.runs, v) = At(y.lcn, v - e) /\ v < f
      BY <1>8, <2>3, <2>4 DEF Keeps
    <3> HIDE DEF n, y, d, rs, r, s, f, l, t, e, Loc
    <3>2. t \in Nat
      BY <1>3 DEF t
    <3> QED BY <1>5, <1>7, <1>9, <1>10, <2>2, <3>1, <3>2
  <2> QED BY <1>11, <2>3, <2>5, <2>6 DEF Keeps
<1>13. CASE Splits(a)
  <2>1. /\ InOrder(d)
        /\ \A v \in Nat : Location(d, v) =
             IF t <= v /\ v < e THEN At(a.lcn, v - t)
             ELSE IF t <= v /\ v < f THEN Unmapped
             ELSE Loc(v)
    BY <1>13, DoneSplit
  <2>2. Keeps(y, n)
    BY <1>2, <1>8, <2>1
  <2>3. Location(d, e) = Unmapped
    <3> HIDE DEF n, y, d, rs, r, s, f, l, t, e, Loc
    <3>1. t \in Nat
      BY <1>3 DEF t
    <3> QED BY <1>5, <1>7, <2>1, <3>1
  <2>4. n.ok => Replaced(n.runs, rs, t, e, a.lcn)
    <3> SUFFICES ASSUME n.ok, NEW v \in Nat
                 PROVE  Location(n.runs, v) = IF t <= v /\ v < e THEN At(a.lcn, v - t) ELSE Loc(v)
      BY DEF Replaced
    <3>1. Location(n.runs, v) = IF e <= v /\ v < f THEN At(y.lcn, v - e) ELSE Location(d, v)
      BY <1>8, <2>2 DEF Keeps, Replaced
    <3> HIDE DEF n, y, d, rs, r, s, f, l, t, e, Loc
    <3>2. t \in Nat
      BY <1>3 DEF t
    <3>3. s <= t
      BY <1>4 DEF s, t, r, rs
    <3> QED BY <1>5, <1>7, <1>9, <1>10, <2>1, <3>1, <3>2, <3>3
  <2>5. ~ n.ok => \A v \in Nat :
          \/ Location(n.runs, v) = Loc(v)
          \/ v >= t /\ Location(n.runs, v) = Unmapped
          \/ v >= t /\ Location(n.runs, v) = At(a.lcn, v - t) /\ v < e
    <3> SUFFICES ASSUME ~ n.ok, NEW v \in Nat
                 PROVE  \/ Location(n.runs, v) = Loc(v)
                        \/ v >= t /\ Location(n.runs, v) = Unmapped
                        \/ v >= t /\ Location(n.runs, v) = At(a.lcn, v - t) /\ v < e
      OBVIOUS
    <3>1. Location(n.runs, v) = Location(d, v)
      BY <1>8, <2>2, <2>3 DEF Keeps
    <3> HIDE DEF n, y, d, rs, r, s, f, l, t, e, Loc
    <3>2. t \in Nat
      BY <1>3 DEF t
    <3> QED BY <1>5, <1>7, <2>1, <3>1, <3>2
  <2> QED BY <1>11, <2>2, <2>4, <2>5 DEF Keeps
<1> QED BY <1>12, <1>13

(* run_add_entry, however often it calls itself: the range replaces what   *)
(* was there, and when memory runs out no other cluster is shown where it  *)
(* is not.                                                                 *)
LEMMA AddEntryKeeps ==
  ASSUME NEW a \in Additions, InOrder(a.runs)
  PROVE  Keeps(a, AddEntry[a])
<1> DEFINE S == Additions
           m == [x \in S |-> LastVcn + 1 - x.vcn]
           G == {x \in S : InOrder(x.runs) => Keeps(x, AddEntry[x])}
<1>1. \A x \in S : m[x] \in Nat /\ m[x] = LastVcn + 1 - x.vcn
  <2> SUFFICES ASSUME NEW x \in S PROVE LastVcn + 1 - x.vcn \in Nat
    OBVIOUS
  <2>1. x.vcn \in Nat /\ x.len \in Nat /\ x.vcn + x.len <= LastVcn + 1 /\ LastVcn \in Nat
    BY AddedFacts, RunTreeConstants
  <2> QED BY <2>1
<1>2. ASSUME NEW x \in S, \A z \in S : m[z] < m[x] => z \in G
      PROVE  x \in G
  <2> SUFFICES ASSUME InOrder(x.runs) PROVE Keeps(x, AddEntry[x])
    OBVIOUS
  <2>1. CASE Fails(x)
    BY <2>1, FailsKeeps
  <2>2. CASE ~ Fails(x) /\ ~ GoesOn(x)
    BY <2>2, LastKeeps
  <2>3. CASE ~ Fails(x) /\ GoesOn(x)
    <3> DEFINE z == Onward(x)
    <3>1. z \in S /\ z.vcn > x.vcn
      BY <2>3, StepIsAddition
    <3>2. x.vcn \in Nat /\ z.vcn \in Nat /\ LastVcn \in Nat
      BY <3>1, AddedFacts, RunTreeConstants
    <3> HIDE DEF z, m
    <3>3. m[z] < m[x]
      BY <1>1, <3>1, <3>2
    <3>4. InOrder(z.runs) => Keeps(z, AddEntry[z])
      BY <1>2, <3>1, <3>3
    <3> QED BY <2>3, <3>4, OnwardKeeps DEF z
  <2> QED BY <2>1, <2>2, <2>3
<1>3. G = S
  <2>1. G \in SUBSET S
    OBVIOUS
  <2>2. \A x \in S : m[x] \in Nat
    BY <1>1
  <2>3. \A x \in S : (\A z \in S : m[z] < m[x] => z \in G) => x \in G
    <3> HIDE DEF S, m, G
    <3> QED BY <1>2
  <2> HIDE DEF S, m, G
  <2> QED BY <2>1, <2>2, <2>3, MeasureInduction
<1> QED BY <1>3
===============================================================================
