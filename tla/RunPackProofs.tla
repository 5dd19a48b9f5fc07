---------------------------- MODULE RunPackProofs -----------------------------
(***************************************************************************)
(* Proofs about RunPack, for numbers of up to eight bytes: what run_pack   *)
(* has written of the runs is read by run_unpack as the same locations,    *)
(* wherever the buffer ended and wherever the reading starts.              *)
(*                                                                         *)
(* The two are followed side by side: after as many entries the reader is  *)
(* at the cluster, and has the location of the last run that is not a      *)
(* hole, where the writer was.                                             *)
(***************************************************************************)
EXTENDS RunTreeProofs, RunPack

-----------------------------------------------------------------------------
(* The numbers of k bytes.                                                 *)
HalfBody(f, k) == IF k = 1 THEN 128 ELSE 256 * f[k - 1]

(* Half is defined: by a function for as many bytes, from one to the next. *)
LEMMA HalfIs == Half = [k \in 1..8 |-> HalfBody(Half, k)]
<1> DEFINE T == {n \in Nat : \E f : f = [k \in 1 .. n |-> HalfBody(f, k)]}
<1>1. 0 \in T
  <2>1. \A f : [k \in 1 .. 0 |-> HalfBody(f, k)] = <<>>
    OBVIOUS
  <2> QED BY <2>1
<1>2. ASSUME NEW n \in T PROVE n + 1 \in T
  <2>1. PICK f : f = [k \in 1 .. n |-> HalfBody(f, k)]
    OBVIOUS
  <2> DEFINE g == [k \in 1 .. n + 1 |-> HalfBody(f, k)]
  <2>2. \A k \in 1 .. n : g[k] = f[k]
    <3> SUFFICES ASSUME NEW k \in 1 .. n PROVE g[k] = f[k]
      OBVIOUS
    <3>1. f[k] = HalfBody(f, k)
      BY <2>1
    <3> QED BY <3>1
  <2>3. ASSUME NEW k \in 1 .. n + 1 PROVE HalfBody(f, k) = HalfBody(g, k)
    <3>1. CASE k = 1
      BY <3>1 DEF HalfBody
    <3>2. CASE k # 1
      <4>1. k - 1 \in 1 .. n
        BY <3>2
      <4> HIDE DEF g
      <4> QED BY <2>2, <4>1 DEF HalfBody
    <3> QED BY <3>1, <3>2
  <2>4. g = [k \in 1 .. n + 1 |-> HalfBody(g, k)]
    BY <2>3
  <2>5. n + 1 \in Nat
    OBVIOUS
  <2> HIDE DEF g
  <2> QED BY <2>4, <2>5
<1>3. T = Nat
  <2> HIDE DEF T
  <2>1. T \in SUBSET Nat
    BY DEF T
  <2> QED BY <1>1, <1>2, <2>1, SetInduction
<1>4. \E f : f = [k \in 1..8 |-> HalfBody(f, k)]
  <2>1. 8 \in T
    <3> HIDE DEF T
    <3> QED BY <1>3
  <2> QED BY <2>1
<1>5. Half = CHOOSE f : f = [k \in 1..8 |-> HalfBody(f, k)]
  BY DEF Half, HalfBody
<1> QED BY <1>4, <1>5

(* Halves are numbers greater than zero.                                   *)
LEMMA HalfFacts ==
  ASSUME NEW k \in 1..8
  PROVE  Half[k] \in Nat \ {0}
<1>1. Half[1] = 128 /\ \A j \in 1..7 : Half[j + 1] = 256 * Half[j]
  <2>1. \A j \in 1..8 : Half[j] = HalfBody(Half, j)
    BY HalfIs
  <2>2. Half[1] = 128
    BY <2>1 DEF HalfBody
  <2>3. ASSUME NEW j \in 1..7 PROVE Half[j + 1] = 256 * Half[j]
    <3>1. j + 1 \in 1..8 /\ j + 1 # 1 /\ (j + 1) - 1 = j
      OBVIOUS
    <3>2. Half[j + 1] = HalfBody(Half, j + 1)
      BY <2>1, <3>1
    <3> QED BY <3>1, <3>2 DEF HalfBody
  <2> QED BY <2>2, <2>3
<1>2. \A n \in Nat : n \in 1..8 => Half[n] \in Nat \ {0}
  <2> DEFINE T == {n \in Nat : n \in 1..8 => Half[n] \in Nat \ {0}}
  <2>1. 0 \in T
    OBVIOUS
  <2>2. ASSUME NEW n \in T PROVE n + 1 \in T
    <3>1. CASE n \in 1..7
      <4>1. Half[n + 1] = 256 * Half[n] /\ Half[n] \in Nat \ {0}
        BY <1>1, <3>1
      <4> QED BY <4>1
    <3>2. CASE n \notin 1..7
      BY <1>1, <3>2
    <3> QED BY <3>1, <3>2
  <2>3. T = Nat
    <3> HIDE DEF T
    <3>1. T \in SUBSET Nat
      BY DEF T
    <3> QED BY <2>1, <2>2, <3>1, SetInduction
  <2> QED BY <2>3
<1> QED BY <1>2

(* The remainder of a number that is not far from zero.                    *)
LEMMA RemainderOf ==
  ASSUME NEW n \in Int, NEW m \in Nat
  PROVE  /\ 0 <= n /\ n < m => n % m = n
         /\ n < 0 /\ - m <= n => n % m = n + m
OBVIOUS

(* run_packed_size, run_pack_s64 and run_unpack_s64: a number is read as   *)
(* it was written, without its sign if it has none.                        *)
LEMMA NumberIsRead ==
  ASSUME NEW n \in Int, Holds(MaxSize, n)
  PROVE  /\ PackedSize(n) \in 1 .. MaxSize /\ Signed(PackedSize(n), n) = n
         /\ n >= 0 => Unsigned(PackedSize(n), n) = n
<1>1. MaxSize \in 1..8
  BY RunPackConstants
<1>2. \E k \in 1 .. MaxSize : Holds(k, n) /\ \A j \in 1 .. k - 1 : ~ Holds(j, n)
  <2> DEFINE T == {k \in 1 .. MaxSize : Holds(k, n)}
  <2>1. T \in SUBSET Nat /\ MaxSize \in T
    BY <1>1
  <2>2. PICK k \in T : \A j \in T : k <= j
    <3> HIDE DEF T
    <3> QED BY <2>1, LeastExists
  <2>3. \A j \in 1 .. k - 1 : ~ Holds(j, n)
    <3> SUFFICES ASSUME NEW j \in 1 .. k - 1, Holds(j, n) PROVE FALSE
      OBVIOUS
    <3>1. j \in T
      BY <1>1
    <3> QED BY <1>1, <2>2, <3>1
  <2> QED BY <2>3
<1> DEFINE k == PackedSize(n)
<1>3. k \in 1 .. MaxSize /\ Holds(k, n)
  BY <1>2 DEF PackedSize
<1> HIDE DEF k
<1> DEFINE h == Half[k]
<1>4. h \in Nat \ {0} /\ - h <= n /\ n < h
  BY <1>1, <1>3, HalfFacts DEF Holds
<1>5. Unsigned(k, n) = n % (2 * h)
  BY DEF Unsigned
<1>6. Signed(k, n) = IF Unsigned(k, n) < h THEN Unsigned(k, n) ELSE Unsigned(k, n) - 2 * h
  BY DEF Signed
<1> HIDE DEF h
<1>7. 2 * h \in Nat /\ (n >= 0 => n < 2 * h) /\ - (2 * h) <= n
  BY <1>4
<1>8. Unsigned(k, n) = IF n >= 0 THEN n ELSE n + 2 * h
  <2>1. CASE n >= 0
    BY <1>5, <1>7, <2>1, RemainderOf
  <2>2. CASE n < 0
    BY <1>5, <1>7, <2>2, RemainderOf
  <2> QED BY <2>1, <2>2
<1>9. Signed(k, n) = n
  BY <1>4, <1>6, <1>8
<1> QED BY <1>3, <1>8, <1>9 DEF k

(* What lies between numbers of the code's, and what is between them.      *)
LEMMA HoldsWithin ==
  ASSUME NEW a \in Nat, NEW b \in Nat, Holds(MaxSize, a), Holds(MaxSize, b)
  PROVE  Holds(MaxSize, a - b) /\ \A x \in 0 .. a : Holds(MaxSize, x)
<1> DEFINE h == Half[MaxSize]
<1>1. h \in Nat /\ a < h /\ b < h
  BY RunPackConstants, HalfFacts DEF Holds
<1> SUFFICES /\ -h <= a - b /\ a - b < h
             /\ \A x \in 0 .. a : -h <= x /\ x < h
  BY DEF Holds
<1> HIDE DEF h
<1> QED BY <1>1
-----------------------------------------------------------------------------
(* run_pack's loop: what it has written after each run.                    *)
Entries == [len : Nat, sparse : BOOLEAN, dlcn : Int]
PackStates == [entries : Seq(Entries), vcns : Nat, left : Int, prev : Nat, full : BOOLEAN]
NothingPacked(size) == [entries |-> <<>>, vcns |-> 0, left |-> size, prev |-> 0, full |-> FALSE]
PackBody(rs, evcn1, size, p, i) == IF i = 0 THEN NothingPacked(size) ELSE PackRun(evcn1, p[i - 1], rs[i])
Packing(p, rs, evcn1, size) == p = [i \in 0 .. Len(rs) |-> PackBody(rs, evcn1, size, p, i)]

(* The rounds of the loop exist, and run_pack is the last of them.         *)
LEMMA PackingExists ==
  ASSUME NEW rs, Len(rs) \in Nat, NEW evcn1, NEW size
  PROVE  \E p : Packing(p, rs, evcn1, size)
<1> DEFINE Body(f, i) == PackBody(rs, evcn1, size, f, i)
           T == {n \in Nat : \E f : f = [i \in 0 .. n |-> Body(f, i)]}
<1>1. 0 \in T
  <2> DEFINE f == [i \in 0 .. 0 |-> NothingPacked(size)]
  <2>1. \A i \in 0 .. 0 : Body(f, i) = NothingPacked(size)
    BY DEF PackBody
  <2>2. f = [i \in 0 .. 0 |-> Body(f, i)]
    <3> HIDE DEF Body
    <3> QED BY <2>1
  <2> HIDE DEF f, Body
  <2> QED BY <2>2
<1>2. ASSUME NEW n \in T PROVE n + 1 \in T
  <2> HIDE DEF Body
  <2>1. PICK f : f = [i \in 0 .. n |-> Body(f, i)]
    OBVIOUS
  <2> DEFINE g == [i \in 0 .. n + 1 |-> Body(f, i)]
  <2>2. \A i \in 0 .. n : g[i] = f[i]
    <3> SUFFICES ASSUME NEW i \in 0 .. n PROVE g[i] = f[i]
      OBVIOUS
    <3>1. f[i] = Body(f, i)
      BY <2>1
    <3> QED BY <3>1
  <2>3. ASSUME NEW i \in 0 .. n + 1 PROVE Body(f, i) = Body(g, i)
    <3>1. CASE i = 0
      BY <3>1 DEF Body, PackBody
    <3>2. CASE i # 0
      <4>1. i - 1 \in 0 .. n
        BY <3>2
      <4> HIDE DEF g
      <4>2. g[i - 1] = f[i - 1]
        BY <2>2, <4>1
      <4> QED BY <4>2 DEF Body, PackBody
    <3> QED BY <3>1, <3>2
  <2>4. g = [i \in 0 .. n + 1 |-> Body(g, i)]
    BY <2>3
  <2>5. n + 1 \in Nat
    OBVIOUS
  <2> HIDE DEF g
  <2> QED BY <2>4, <2>5
<1>3. T = Nat
  <2> HIDE DEF T
  <2>1. T \in SUBSET Nat
    BY DEF T
  <2> QED BY <1>1, <1>2, <2>1, SetInduction
<1>4. Len(rs) \in T
  <2> HIDE DEF T
  <2> QED BY <1>3
<1> HIDE DEF Body
<1>5. \E f : f = [i \in 0 .. Len(rs) |-> Body(f, i)]
  BY <1>4
<1> QED BY <1>5 DEF Packing, Body

(* What run_pack returns is its loop's last round.                         *)
LEMMA PackIs ==
  ASSUME NEW all, NEW svcn, NEW len, NEW size, NEW rs, rs = TruncateHead(all, svcn),
         Len(rs) \in Nat
  PROVE  \E p : Packing(p, rs, svcn + len, size) /\ Pack(all, svcn, len, size) = p[Len(rs)]
<1> DEFINE f == CHOOSE p : Packing(p, rs, svcn + len, size)
<1>1. Packing(f, rs, svcn + len, size)
  BY PackingExists
<1>2. Pack(all, svcn, len, size) = f[Len(rs)]
  BY DEF Pack, Packing, PackBody, NothingPacked
<1> QED BY <1>1, <1>2

(* The loop starts with nothing packed, and each round packs a run.        *)
LEMMA PackingSteps ==
  ASSUME NEW rs, Len(rs) \in Nat, NEW evcn1, NEW size, NEW p, Packing(p, rs, evcn1, size)
  PROVE  /\ p[0] = NothingPacked(size)
         /\ \A i \in 1 .. Len(rs) : p[i] = PackRun(evcn1, p[i - 1], rs[i])
<1>1. \A i \in 0 .. Len(rs) : p[i] = PackBody(rs, evcn1, size, p, i)
  BY DEF Packing
<1> QED BY <1>1 DEF PackBody

(* One round of run_pack's loop: the run does not fit, or is written whole *)
(* up to the end of what is packed.                                        *)
LEMMA PackRunFacts ==
  ASSUME NEW q \in PackStates, NEW r \in Runs, NEW evcn1 \in Nat, r.vcn < evcn1,
         Holds(MaxSize, LastVcn + 1), Holds(MaxSize, q.prev),
         r.lcn # Sparse => Holds(MaxSize, r.lcn),
         NEW len, len = IF End(r) > evcn1 THEN evcn1 - r.vcn ELSE r.len,
         NEW t, t = PackRun(evcn1, q, r)
  PROVE  /\ len \in Nat \ {0} /\ t \in PackStates
         /\ \/ t.full /\ t.entries = q.entries /\ t.vcns = q.vcns /\ t.prev = q.prev
            \/ /\ ~ q.full
               /\ t.entries = Append(q.entries, [len |-> len, sparse |-> r.lcn = Sparse,
                                                 dlcn |-> IF r.lcn = Sparse THEN 0 ELSE r.lcn - q.prev])
               /\ t.vcns = q.vcns + len
               /\ t.prev = IF r.lcn = Sparse THEN q.prev ELSE r.lcn
               /\ ~ t.full => End(r) < evcn1
<1> DEFINE hole == r.lcn = Sparse
           d == r.lcn - q.prev
           offset == IF hole THEN 0 ELSE PackedSize(d)
           left == q.left - 1 - offset - PackedSize(len)
           entry == [len |-> Unsigned(PackedSize(len), len), sparse |-> hole,
                     dlcn |-> IF hole THEN 0 ELSE Signed(offset, d)]
           prev == IF hole THEN q.prev ELSE r.lcn
           full == left = 1 \/ End(r) >= evcn1
           next == [entries |-> Append(q.entries, entry), vcns |-> q.vcns + len, left |-> left,
                    prev |-> prev, full |-> full]
<1>1. t = IF q.full \/ left < 1 THEN [q EXCEPT !.full = TRUE] ELSE next
  BY DEF PackRun
<1>2. /\ r.vcn \in Nat /\ r.len \in Nat \ {0} /\ r.lcn \in Nat \cup {Sparse}
      /\ End(r) = r.vcn + r.len /\ End(r) <= LastVcn + 1 /\ LastVcn \in Nat
  BY RunFacts
<1>3. /\ q.entries \in Seq(Entries) /\ q.vcns \in Nat /\ q.left \in Int /\ q.prev \in Nat
      /\ q.full \in BOOLEAN
  BY DEF PackStates
<1>4. len \in Nat \ {0} /\ len \in 0 .. LastVcn + 1
  BY <1>2
<1>5. Holds(MaxSize, len)
  <2>1. LastVcn + 1 \in Nat
    BY <1>2
  <2> QED BY <1>4, <2>1, HoldsWithin
<1>6. PackedSize(len) \in Int /\ Unsigned(PackedSize(len), len) = len
  <2>1. len \in Int /\ len >= 0 /\ MaxSize \in 1..8
    BY <1>4, RunPackConstants
  <2> QED BY <1>5, <2>1, NumberIsRead
<1>7. ~ hole => d \in Int /\ PackedSize(d) \in Int /\ Signed(PackedSize(d), d) = d
  <2> SUFFICES ASSUME ~ hole PROVE d \in Int /\ PackedSize(d) \in Int /\ Signed(PackedSize(d), d) = d
    OBVIOUS
  <2> DEFINE l == r.lcn
             m == q.prev
  <2>1. l \in Nat /\ m \in Nat /\ Holds(MaxSize, l) /\ Holds(MaxSize, m) /\ d = l - m
    BY <1>2, <1>3
  <2> HIDE DEF l, m, d
  <2>2. d \in Int /\ Holds(MaxSize, d)
    BY <2>1, HoldsWithin
  <2> QED BY <2>2, NumberIsRead, RunPackConstants
<1>8. entry = [len |-> len, sparse |-> hole, dlcn |-> IF hole THEN 0 ELSE d]
  BY <1>6, <1>7
<1>9. entry \in Entries
  BY <1>4, <1>7, <1>8 DEF Entries
<1>10. left \in Int /\ offset \in Int
  <2>1. offset \in Int
    BY <1>7
  <2> HIDE DEF offset
  <2> QED BY <1>3, <1>6, <2>1
<1>11. prev \in Nat
  BY <1>2, <1>3
<1>12. CASE q.full \/ left < 1
  <2>1. t = [q EXCEPT !.full = TRUE]
    BY <1>1, <1>12
  <2>2. /\ t \in PackStates /\ t.full /\ t.entries = q.entries /\ t.vcns = q.vcns
        /\ t.prev = q.prev
    BY <2>1 DEF PackStates
  <2> QED BY <1>4, <2>2
<1>13. CASE ~ (q.full \/ left < 1)
  <2>1. t = next
    BY <1>1, <1>13
  <2>2. Append(q.entries, entry) \in Seq(Entries)
    <3> HIDE DEF entry
    <3> QED BY <1>3, <1>9, AppendProperties
  <2>3. full \in BOOLEAN /\ (~ full => End(r) < evcn1)
    BY <1>2
  <2> HIDE DEF entry, left, prev, full
  <2>4. q.vcns + len \in Nat
    BY <1>3, <1>4
  <2>5. next \in PackStates
    BY <1>10, <1>11, <2>2, <2>3, <2>4 DEF PackStates
  <2>6. /\ next.entries = Append(q.entries, entry) /\ next.vcns = q.vcns + len
        /\ next.prev = prev /\ next.full = full
    OBVIOUS
  <2> HIDE DEF next
  <2> QED BY <1>4, <1>8, <1>13, <2>1, <2>3, <2>5, <2>6 DEF prev
<1> QED BY <1>12, <1>13
-----------------------------------------------------------------------------
(* What is packed: runs that start at s and have every cluster up to e,    *)
(* with locations that differ and are numbers of the code's.               *)
Packs(rs, s, e) ==
  /\ rs \in Trees /\ InOrder(rs) /\ s \in Nat /\ e \in Nat /\ s <= e /\ e <= LastVcn
  /\ \A i \in 1 .. Len(rs) : rs[i].vcn >= s
  /\ \A v \in s .. e : Location(rs, v) # Unmapped
  /\ \A i \in 1 .. Len(rs) : rs[i].lcn # Sparse => rs[i].lcn # 0 /\ Holds(MaxSize, rs[i].lcn)
  /\ \A i, j \in 1 .. Len(rs) : i < j /\ rs[i].lcn # Sparse => rs[i].lcn # rs[j].lcn

(* The cluster after the first k runs, or after e.                         *)
Mark(rs, s, e, k) == IF k = 0 THEN s ELSE IF End(rs[k]) > e + 1 THEN e + 1 ELSE End(rs[k])

(* Since every cluster up to e is mapped, the next run starts where the    *)
(* last one ended.                                                         *)
LEMMA NextTouches ==
  ASSUME NEW rs, NEW s, NEW e, Packs(rs, s, e), NEW i \in Nat, i < Len(rs), i > 0 => End(rs[i]) <= e
  PROVE  /\ i + 1 \in 1 .. Len(rs) /\ rs[i + 1].vcn = Mark(rs, s, e, i)
         /\ Mark(rs, s, e, i) \in s .. e /\ Mark(rs, s, e, i + 1) \in Nat
         /\ Mark(rs, s, e, i) < Mark(rs, s, e, i + 1)
         /\ Mark(rs, s, e, i + 1) - Mark(rs, s, e, i) =
              IF End(rs[i + 1]) > e + 1 THEN (e + 1) - rs[i + 1].vcn ELSE rs[i + 1].len
<1> DEFINE v == Mark(rs, s, e, i)
<1>1. rs \in Trees /\ InOrder(rs) /\ s \in Nat /\ e \in Nat /\ s <= e /\ Len(rs) \in Nat
  BY TreeFacts DEF Packs
<1>2. i + 1 \in 1 .. Len(rs)
  BY <1>1
<1>3. i > 0 => i \in 1 .. Len(rs)
  BY <1>1
<1>4. \A j \in 1 .. Len(rs) : /\ rs[j].vcn \in Nat /\ End(rs[j]) \in Nat /\ rs[j].vcn < End(rs[j])
                              /\ rs[j].vcn >= s /\ End(rs[j]) = rs[j].vcn + rs[j].len
                              /\ rs[j].len \in Nat
  BY <1>1, TreeTypes DEF Packs
<1>5. v = IF i = 0 THEN s ELSE End(rs[i])
  BY <1>1, <1>3, <1>4 DEF Mark
<1>6. v \in s .. e
  <2>1. CASE i = 0
    BY <1>1, <1>5, <2>1
  <2>2. CASE i > 0
    <3> DEFINE x == rs[i].vcn
               y == End(rs[i])
    <3>1. v = y /\ x \in Nat /\ y \in Nat /\ x < y /\ x >= s /\ y <= e
      BY <1>3, <1>4, <1>5, <2>2
    <3> HIDE DEF v, x, y
    <3> QED BY <1>1, <3>1
  <2> QED BY <2>1, <2>2
<1>7. PICK j \in 1 .. Len(rs) : Covers(rs[j], v)
  <2>1. v \in Nat /\ Location(rs, v) # Unmapped
    BY <1>1, <1>6 DEF Packs
  <2> HIDE DEF v
  <2> QED BY <1>1, <2>1, LocationInOrder
<1> HIDE DEF v
<1>8. rs[j].vcn <= v /\ v < End(rs[j]) /\ v \in Nat
  BY <1>1, <1>6, <1>7 DEF Covers
<1>9. ~ (j <= i)
  <2> SUFFICES ASSUME j <= i PROVE FALSE
    OBVIOUS
  <2>1. i \in 1 .. Len(rs) /\ v = End(rs[i])
    BY <1>3, <1>5
  <2>2. CASE j = i
    BY <1>4, <1>8, <2>1, <2>2
  <2>3. CASE j < i
    <3> DEFINE x == End(rs[j])
               y == rs[i].vcn
               z == End(rs[i])
    <3>1. x \in Nat /\ y \in Nat /\ z \in Nat /\ x <= y /\ y < z /\ z < x
      BY <1>1, <1>4, <1>8, <2>1, <2>3, OrderFacts
    <3> HIDE DEF x, y, z
    <3> QED BY <3>1
  <2> QED BY <2>2, <2>3
<1>10. v <= rs[i + 1].vcn
  <2>1. CASE i = 0
    BY <1>2, <1>4, <1>5, <2>1
  <2>2. CASE i > 0
    <3>1. i \in 1 .. Len(rs) /\ i < i + 1 /\ v = End(rs[i])
      BY <1>3, <1>5, <2>2
    <3>2. \A g, h \in 1 .. Len(rs) : g < h => End(rs[g]) <= rs[h].vcn
      BY <1>1, OrderFacts
    <3> QED BY <1>2, <3>1, <3>2
  <2> QED BY <2>1, <2>2
<1>11. j = i + 1
  <2> SUFFICES ASSUME i + 1 < j PROVE FALSE
    BY <1>9
  <2> DEFINE x == rs[i + 1].vcn
             y == End(rs[i + 1])
             z == rs[j].vcn
  <2>1. x \in Nat /\ y \in Nat /\ z \in Nat /\ v <= x /\ x < y /\ y <= z /\ z <= v
    BY <1>1, <1>2, <1>4, <1>8, <1>10, OrderFacts
  <2> HIDE DEF x, y, z
  <2> QED BY <1>8, <2>1
<1> DEFINE x == rs[i + 1].vcn
           y == End(rs[i + 1])
           l == rs[i + 1].len
           w == Mark(rs, s, e, i + 1)
<1>12. x = v /\ x \in Nat /\ y \in Nat /\ x < y /\ y = x + l /\ l \in Nat
  BY <1>2, <1>4, <1>8, <1>10, <1>11
<1>13. w = IF y > e + 1 THEN e + 1 ELSE y
  BY DEF Mark
<1> HIDE DEF x, y, l, w
<1>14. w \in Nat /\ v < w /\ w - v = IF y > e + 1 THEN (e + 1) - x ELSE l
  BY <1>1, <1>6, <1>12, <1>13
<1> QED BY <1>2, <1>6, <1>12, <1>14 DEF v, x, y, l, w

(* The k-th entry, and what the writer is at and has when it writes it.    *)
Entry(p, rs, s, e, k) ==
  [len |-> Mark(rs, s, e, k) - Mark(rs, s, e, k - 1), sparse |-> rs[k].lcn = Sparse,
   dlcn |-> IF rs[k].lcn = Sparse THEN 0 ELSE rs[k].lcn - p[k - 1].prev]

Writes(p, rs, s, e, k) ==
  /\ k \in 1 .. Len(rs) /\ rs[k].vcn = Mark(rs, s, e, k - 1)
  /\ Mark(rs, s, e, k - 1) \in s .. e /\ Mark(rs, s, e, k) \in Nat
  /\ Mark(rs, s, e, k - 1) < Mark(rs, s, e, k)
  /\ p[k - 1].prev \in Nat /\ rs[k].lcn # p[k - 1].prev
  /\ p[k].prev = IF rs[k].lcn = Sparse THEN p[k - 1].prev ELSE rs[k].lcn

(* What run_pack has when it has been through i runs.                      *)
HasPacked(p, rs, s, e, i) ==
  /\ p[i] \in PackStates /\ Len(p[i].entries) <= i
  /\ p[i].vcns = Mark(rs, s, e, Len(p[i].entries)) - s
  /\ ~ p[i].full => /\ Len(p[i].entries) = i /\ (i > 0 => End(rs[i]) <= e)
                    /\ \/ p[i].prev = 0
                       \/ \E j \in 1 .. i : rs[j].lcn # Sparse /\ p[i].prev = rs[j].lcn
  /\ \A k \in 1 .. Len(p[i].entries) :
       Writes(p, rs, s, e, k) /\ p[i].entries[k] = Entry(p, rs, s, e, k)

(* A round writes the entry of the next run, or fills the buffer.          *)
LEMMA RoundPacks ==
  ASSUME NEW rs, NEW s, NEW e, Packs(rs, s, e), NEW size \in Nat, NEW p, Packing(p, rs, e + 1, size),
         NEW i \in Nat, i < Len(rs), HasPacked(p, rs, s, e, i)
  PROVE  HasPacked(p, rs, s, e, i + 1)
<1> DEFINE q == p[i]
           t == p[i + 1]
           r == rs[i + 1]
           n == Len(q.entries)
<1>1. /\ rs \in Trees /\ s \in Nat /\ e \in Nat /\ Len(rs) \in Nat /\ i + 1 \in 1 .. Len(rs)
      /\ r \in Runs
  BY TreeFacts DEF Packs
<1>2. t = PackRun(e + 1, q, r)
  <2>1. (i + 1) - 1 = i
    OBVIOUS
  <2> QED BY <1>1, <2>1, PackingSteps
<1>3. /\ q \in PackStates /\ n <= i /\ n \in Nat /\ q.entries \in Seq(Entries) /\ q.full \in BOOLEAN
      /\ q.vcns = Mark(rs, s, e, n) - s
  BY DEF HasPacked, PackStates
<1>4. CASE q.full
  <2>1. t = [q EXCEPT !.full = TRUE]
    BY <1>2, <1>4 DEF PackRun
  <2>2. /\ t \in PackStates /\ t.full /\ t.entries = q.entries /\ t.vcns = q.vcns
    BY <1>3, <2>1 DEF PackStates
  <2>3. \A k \in 1 .. n : Writes(p, rs, s, e, k) /\ q.entries[k] = Entry(p, rs, s, e, k)
    BY DEF HasPacked
  <2> QED BY <1>3, <2>2, <2>3 DEF HasPacked
<1>5. CASE ~ q.full
  <2>1. /\ n = i /\ (i > 0 => End(rs[i]) <= e)
        /\ \/ q.prev = 0
           \/ \E j \in 1 .. i : rs[j].lcn # Sparse /\ q.prev = rs[j].lcn
    BY <1>5 DEF HasPacked
  <2> DEFINE a == Mark(rs, s, e, i)
             b == Mark(rs, s, e, i + 1)
             c == e + 1
             len == IF End(r) > c THEN c - r.vcn ELSE r.len
  <2>2. r.vcn = a /\ a \in s .. e /\ b \in Nat /\ a < b /\ b - a = len
    <3>1. i \in Nat /\ i < Len(rs) /\ (i > 0 => End(rs[i]) <= e)
      BY <2>1
    <3>2. /\ r.vcn = a /\ a \in s .. e /\ b \in Nat /\ a < b
          /\ b - a = IF End(r) > e + 1 THEN (e + 1) - r.vcn ELSE r.len
      <4> HIDE DEF t, q, n
      <4> QED BY <3>1, NextTouches
    <3> QED BY <3>2
  <2>3. q.prev \in Nat /\ r.lcn # q.prev /\ Holds(MaxSize, q.prev)
    <3>1. CASE q.prev = 0
      <4>1. r.lcn # 0
        BY <1>1 DEF Packs, Sparse
      <4>2. Holds(MaxSize, 0)
        <5>1. LastVcn + 1 \in Nat /\ 0 \in 0 .. LastVcn + 1
          BY RunTreeConstants
        <5> QED BY <5>1, RunPackConstants, HoldsWithin
      <4> QED BY <3>1, <4>1, <4>2
    <3>2. CASE q.prev # 0
      <4>1. PICK j \in 1 .. i : rs[j].lcn # Sparse /\ q.prev = rs[j].lcn
        BY <2>1, <3>2
      <4>2. j \in 1 .. Len(rs) /\ j < i + 1
        BY <1>1
      <4>3. rs[j].lcn # r.lcn /\ Holds(MaxSize, rs[j].lcn)
        BY <1>1, <4>1, <4>2 DEF Packs
      <4>4. rs[j].lcn \in Nat \cup {Sparse}
        BY <1>1, <4>2, TreeTypes
      <4> QED BY <4>1, <4>3, <4>4
    <3> QED BY <3>1, <3>2
  <2>4. r.lcn # Sparse => Holds(MaxSize, r.lcn)
    BY <1>1 DEF Packs
  <2>5. e + 1 \in Nat /\ r.vcn < e + 1
    BY <1>1, <2>2
  <2> DEFINE entry == [len |-> len, sparse |-> r.lcn = Sparse,
                       dlcn |-> IF r.lcn = Sparse THEN 0 ELSE r.lcn - q.prev]
  <2>6. /\ len \in Nat \ {0} /\ t \in PackStates
        /\ \/ t.full /\ t.entries = q.entries /\ t.vcns = q.vcns /\ t.prev = q.prev
           \/ /\ t.entries = Append(q.entries, entry)
              /\ t.vcns = q.vcns + len
              /\ t.prev = IF r.lcn = Sparse THEN q.prev ELSE r.lcn
              /\ ~ t.full => End(r) < e + 1
    <3>1. len = IF End(r) > c THEN c - r.vcn ELSE r.len
      OBVIOUS
    <3>2. /\ q \in PackStates /\ r \in Runs /\ c \in Nat /\ r.vcn < c /\ t = PackRun(c, q, r)
          /\ Holds(MaxSize, LastVcn + 1) /\ Holds(MaxSize, q.prev)
          /\ r.lcn # Sparse => Holds(MaxSize, r.lcn)
      BY <1>1, <1>2, <1>3, <2>3, <2>4, <2>5, RunPackConstants
    <3> HIDE DEF t, q, r, len, c
    <3>3. /\ len \in Nat \ {0} /\ t \in PackStates
          /\ \/ t.full /\ t.entries = q.entries /\ t.vcns = q.vcns /\ t.prev = q.prev
             \/ /\ t.entries = Append(q.entries, entry)
                /\ t.vcns = q.vcns + len
                /\ t.prev = IF r.lcn = Sparse THEN q.prev ELSE r.lcn
                /\ ~ t.full => End(r) < c
      BY <3>1, <3>2, PackRunFacts
    <3> QED BY <3>3 DEF c
  <2>7. \A k \in 1 .. n : Writes(p, rs, s, e, k) /\ q.entries[k] = Entry(p, rs, s, e, k)
    BY DEF HasPacked
  <2>8. CASE t.full /\ t.entries = q.entries /\ t.vcns = q.vcns /\ t.prev = q.prev
    BY <1>3, <2>6, <2>7, <2>8 DEF HasPacked
  <2>9. CASE /\ t.entries = Append(q.entries, entry)
             /\ t.vcns = q.vcns + len
             /\ t.prev = IF r.lcn = Sparse THEN q.prev ELSE r.lcn
             /\ ~ t.full => End(r) < e + 1
    <3> HIDE DEF len
    <3>1. (i + 1) - 1 = i /\ i + 1 \in Nat
      OBVIOUS
    <3>2. Writes(p, rs, s, e, i + 1)
      BY <1>1, <2>2, <2>3, <2>9, <3>1 DEF Writes
    <3>3. entry = Entry(p, rs, s, e, i + 1)
      BY <2>2, <3>1 DEF Entry
    <3>4. entry \in Entries
      <4>1. r.lcn # Sparse => r.lcn - q.prev \in Int
        BY <1>1, <2>3, RunFacts
      <4> QED BY <2>6, <4>1 DEF Entries
    <3> HIDE DEF entry
    <3>5. /\ Len(t.entries) = i + 1 /\ t.entries[i + 1] = entry
          /\ \A k \in 1 .. i : t.entries[k] = q.entries[k]
      <4> DEFINE es == q.entries
      <4>1. es \in Seq(Entries) /\ Len(es) = i /\ t.entries = Append(es, entry)
        BY <1>3, <2>1, <2>9
      <4> HIDE DEF es
      <4>2. /\ Len(Append(es, entry)) = i + 1 /\ Append(es, entry)[i + 1] = entry
            /\ \A k \in 1 .. i : Append(es, entry)[k] = es[k]
        BY <3>4, <4>1, AppendProperties
      <4> QED BY <4>1, <4>2 DEF es
    <3>6. ASSUME NEW k \in 1 .. i + 1
          PROVE  Writes(p, rs, s, e, k) /\ t.entries[k] = Entry(p, rs, s, e, k)
      <4>1. CASE k = i + 1
        BY <3>2, <3>3, <3>5, <4>1
      <4>2. CASE k # i + 1
        <5>1. k \in 1 .. i /\ k \in 1 .. n
          BY <2>1, <4>2
        <5> QED BY <2>7, <3>5, <5>1
      <4> QED BY <4>1, <4>2
    <3>7. t.vcns = b - s
      <4>1. q.vcns = a - s
        BY <1>3, <2>1
      <4> DEFINE x == q.vcns
      <4>2. x = a - s /\ t.vcns = x + len /\ a \in Int
        BY <2>2, <2>9, <4>1
      <4> HIDE DEF a, b, x
      <4> QED BY <1>1, <2>2, <2>6, <4>2
    <3>8. ~ t.full => End(r) <= e
      <4>1. End(r) \in Nat
        <5>1. r \in Runs
          BY <1>1
        <5> HIDE DEF r
        <5> QED BY <5>1, RunFacts
      <4>2. ~ t.full => End(r) < e + 1
        BY <2>9
      <4> HIDE DEF r, t
      <4> QED BY <1>1, <4>1, <4>2
    <3>9. \/ t.prev = 0
          \/ \E j \in 1 .. i + 1 : rs[j].lcn # Sparse /\ t.prev = rs[j].lcn
      <4>1. CASE r.lcn = Sparse
        <5>1. t.prev = q.prev
          BY <2>9, <4>1
        <5>2. \A j \in 1 .. i : j \in 1 .. i + 1
          OBVIOUS
        <5> HIDE DEF t, q
        <5> QED BY <2>1, <5>1, <5>2
      <4>2. CASE r.lcn # Sparse
        <5>1. t.prev = r.lcn /\ i + 1 \in 1 .. i + 1
          BY <2>9, <4>2
        <5> QED BY <4>2, <5>1
      <4> QED BY <4>1, <4>2
    <3> QED BY <2>6, <3>1, <3>5, <3>6, <3>7, <3>8, <3>9 DEF HasPacked
  <2> QED BY <2>6, <2>8, <2>9
<1> QED BY <1>3, <1>4, <1>5

(* So run_pack has, after each run, the entries of some of the first runs. *)
LEMMA AllPacked ==
  ASSUME NEW rs, NEW s, NEW e, Packs(rs, s, e), NEW size \in Nat, NEW p, Packing(p, rs, e + 1, size)
  PROVE  \A i \in 0 .. Len(rs) : HasPacked(p, rs, s, e, i)
<1>1. Len(rs) \in Nat /\ s \in Nat
  BY TreeFacts DEF Packs
<1> DEFINE T == {i \in Nat : i <= Len(rs) => HasPacked(p, rs, s, e, i)}
<1>2. 0 \in T
  <2>1. p[0] = NothingPacked(size)
    BY <1>1, PackingSteps
  <2>2. /\ p[0] \in PackStates /\ p[0].entries = <<>> /\ p[0].vcns = 0 /\ p[0].prev = 0
    BY <2>1 DEF NothingPacked, PackStates, Entries
  <2>3. Mark(rs, s, e, 0) - s = 0
    BY <1>1 DEF Mark
  <2> QED BY <2>2, <2>3 DEF HasPacked
<1>3. ASSUME NEW i \in T PROVE i + 1 \in T
  <2> SUFFICES ASSUME i + 1 <= Len(rs) PROVE HasPacked(p, rs, s, e, i + 1)
    OBVIOUS
  <2>1. i \in Nat /\ i < Len(rs) /\ HasPacked(p, rs, s, e, i)
    BY <1>1
  <2> HIDE DEF T
  <2> QED BY <2>1, RoundPacks
<1>4. T = Nat
  <2> HIDE DEF T
  <2>1. T \in SUBSET Nat
    BY DEF T
  <2> QED BY <1>2, <1>3, <2>1, SetInduction
<1> QED BY <1>1, <1>4
-----------------------------------------------------------------------------
(* run_add_entry at the end of an array in order: the run is added to the  *)
(* locations, with memory for one run.                                     *)
LEMMA AppendKeeps ==
  ASSUME NEW rs \in Trees, InOrder(rs), NEW r \in Runs, \A j \in 1 .. Len(rs) : End(rs[j]) <= r.vcn,
         NEW n, n = AddEntry[Addition(rs, 1, r)].runs
  PROVE  /\ n \in Trees /\ InOrder(n)
         /\ \A v \in Nat : Location(n, v) = IF Covers(r, v) THEN At(r.lcn, v - r.vcn) ELSE Location(rs, v)
<1> DEFINE a == Addition(rs, 1, r)
<1>1. a \in Additions /\ a.runs = rs /\ a.room = 1 /\ a.vcn = r.vcn /\ a.lcn = r.lcn /\ a.len = r.len
  BY AdditionIs
<1>2. n = AddEntry[a].runs
  OBVIOUS
<1> HIDE DEF a
<1>3. ~ Differs(a)
  <2> SUFFICES ASSUME Differs(a) PROVE FALSE
    OBVIOUS
  <2> DEFINE i == Home(a)
  <2>1. i \in 1 .. Len(rs) /\ r.vcn < End(rs[i])
    BY <1>1, HomeFacts
  <2> HIDE DEF i
  <2>2. End(rs[i]) \in Nat /\ r.vcn \in Nat /\ End(rs[i]) <= r.vcn
    BY <2>1, TreeTypes, RunFacts
  <2> QED BY <2>1, <2>2
<1>4. ~ Fails(a) /\ ~ GoesOn(a)
  BY <1>1, <1>3 DEF Fails, GoesOn
<1>5. AddEntry[a].ok
  <2>1. AddEntry[a] = Done(a)
    BY <1>1, <1>4, AddEntryIs
  <2> QED BY <1>1, <1>4, <2>1, StepIsAddition
<1>6. Keeps(a, AddEntry[a])
  BY <1>1, <1>4, LastKeeps
<1>7. /\ n \in Trees /\ InOrder(n) /\ Replaced(n, rs, a.vcn, a.vcn + a.len, a.lcn)
  BY <1>1, <1>2, <1>5, <1>6 DEF Keeps
<1> QED BY <1>1, <1>7 DEF Replaced, Covers, End
-----------------------------------------------------------------------------
(* run_unpack's loop: what it has read after each entry.                   *)
NothingRead(svcn) == [runs |-> <<>>, vcn |-> svcn, prev |-> 0, ok |-> TRUE]
ReadBody(es, svcn, from, u, i) == IF i = 0 THEN NothingRead(svcn) ELSE UnpackRun(from, u[i - 1], es[i])
Reading(u, es, svcn, from) == u = [i \in 0 .. Len(es) |-> ReadBody(es, svcn, from, u, i)]

(* The rounds of the loop exist, and run_unpack is the last of them.       *)
LEMMA ReadingExists ==
  ASSUME NEW es, Len(es) \in Nat, NEW svcn, NEW from
  PROVE  \E u : Reading(u, es, svcn, from)
<1> DEFINE Body(f, i) == ReadBody(es, svcn, from, f, i)
           T == {n \in Nat : \E f : f = [i \in 0 .. n |-> Body(f, i)]}
<1>1. 0 \in T
  <2> DEFINE f == [i \in 0 .. 0 |-> NothingRead(svcn)]
  <2>1. \A i \in 0 .. 0 : Body(f, i) = NothingRead(svcn)
    BY DEF ReadBody
  <2>2. f = [i \in 0 .. 0 |-> Body(f, i)]
    <3> HIDE DEF Body
    <3> QED BY <2>1
  <2> HIDE DEF f, Body
  <2> QED BY <2>2
<1>2. ASSUME NEW n \in T PROVE n + 1 \in T
  <2> HIDE DEF Body
  <2>1. PICK f : f = [i \in 0 .. n |-> Body(f, i)]
    OBVIOUS
  <2> DEFINE g == [i \in 0 .. n + 1 |-> Body(f, i)]
  <2>2. \A i \in 0 .. n : g[i] = f[i]
    <3> SUFFICES ASSUME NEW i \in 0 .. n PROVE g[i] = f[i]
      OBVIOUS
    <3>1. f[i] = Body(f, i)
      BY <2>1
    <3> QED BY <3>1
  <2>3. ASSUME NEW i \in 0 .. n + 1 PROVE Body(f, i) = Body(g, i)
    <3>1. CASE i = 0
      BY <3>1 DEF Body, ReadBody
    <3>2. CASE i # 0
      <4>1. i - 1 \in 0 .. n
        BY <3>2
      <4> HIDE DEF g
      <4>2. g[i - 1] = f[i - 1]
        BY <2>2, <4>1
      <4> QED BY <4>2 DEF Body, ReadBody
    <3> QED BY <3>1, <3>2
  <2>4. g = [i \in 0 .. n + 1 |-> Body(g, i)]
    BY <2>3
  <2>5. n + 1 \in Nat
    OBVIOUS
  <2> HIDE DEF g
  <2> QED BY <2>4, <2>5
<1>3. T = Nat
  <2> HIDE DEF T
  <2>1. T \in SUBSET Nat
    BY DEF T
  <2> QED BY <1>1, <1>2, <2>1, SetInduction
<1>4. Len(es) \in T
  <2> HIDE DEF T
  <2> QED BY <1>3
<1> HIDE DEF Body
<1>5. \E f : f = [i \in 0 .. Len(es) |-> Body(f, i)]
  BY <1>4
<1> QED BY <1>5 DEF Reading, Body

(* What run_unpack returns is its loop's last round.                       *)
LEMMA UnpackIs ==
  ASSUME NEW es, Len(es) \in Nat, NEW svcn, NEW from
  PROVE  \E u : Reading(u, es, svcn, from) /\ Unpack(es, svcn, from) = u[Len(es)].runs
<1> DEFINE f == CHOOSE u : Reading(u, es, svcn, from)
<1>1. Reading(f, es, svcn, from)
  BY ReadingExists
<1>2. Unpack(es, svcn, from) = f[Len(es)].runs
  BY DEF Unpack, Reading, ReadBody, NothingRead
<1> QED BY <1>1, <1>2

(* The loop starts with nothing read, and each round reads an entry.       *)
LEMMA ReadingSteps ==
  ASSUME NEW es, Len(es) \in Nat, NEW svcn, NEW from, NEW u, Reading(u, es, svcn, from)
  PROVE  /\ u[0] = NothingRead(svcn)
         /\ \A i \in 1 .. Len(es) : u[i] = UnpackRun(from, u[i - 1], es[i])
<1>1. \A i \in 0 .. Len(es) : u[i] = ReadBody(es, svcn, from, u, i)
  BY DEF Reading
<1> QED BY <1>1 DEF ReadBody

ReadStates == [runs : Trees, vcn : Nat, prev : Nat, ok : BOOLEAN]

(* The later of two clusters.                                              *)
LEMMA LaterOf ==
  ASSUME NEW a \in Nat, NEW b \in Nat
  PROVE  Max({a, b}) = IF a < b THEN b ELSE a
<1> DEFINE m == IF a < b THEN b ELSE a
<1>1. m \in {a, b} /\ \A y \in {a, b} : m >= y
  OBVIOUS
<1>2. \A x \in {a, b} : (\A y \in {a, b} : x >= y) => x = m
  OBVIOUS
<1> HIDE DEF m
<1> QED BY <1>1, <1>2 DEF Max

(* One round of run_unpack's loop: the run is read as it was written, but  *)
(* for its clusters before the one that the reading starts from.           *)
LEMMA ReadRunFacts ==
  ASSUME NEW q \in ReadStates, InOrder(q.runs), q.ok, \A j \in 1 .. Len(q.runs) : End(q.runs[j]) <= q.vcn,
         NEW r \in Runs, r.vcn = q.vcn, r.lcn # q.prev,
         NEW m \in Nat, q.vcn < m, m <= End(r),
         NEW from \in Nat, r.lcn = Sparse => ~ (q.vcn < from /\ from < m),
         NEW en, en = [len |-> m - q.vcn, sparse |-> r.lcn = Sparse,
                       dlcn |-> IF r.lcn = Sparse THEN 0 ELSE r.lcn - q.prev],
         NEW t, t = UnpackRun(from, q, en)
  PROVE  /\ t \in ReadStates /\ InOrder(t.runs) /\ t.ok /\ t.vcn = m
         /\ t.prev = IF r.lcn = Sparse THEN q.prev ELSE r.lcn
         /\ \A v \in Nat : Location(t.runs, v) =
              IF q.vcn <= v /\ from <= v /\ v < m THEN At(r.lcn, v - r.vcn) ELSE Location(q.runs, v)
<1> DEFINE c == q.vcn
           l == r.lcn
           old == q.prev
           start == Max({c, from})
           first == l + (start - c)
           added == AddEntry[Addition(q.runs, 1, Run(start, m - start, first))].runs
           prev == IF l = Sparse THEN old ELSE l
<1>1. /\ q.runs \in Trees /\ c \in Nat /\ old \in Nat /\ q.ok \in BOOLEAN
      /\ l \in Nat \cup {Sparse} /\ LastVcn \in Nat /\ End(r) \in Nat /\ End(r) <= LastVcn + 1
  BY RunFacts DEF ReadStates
<1>2. t = [q EXCEPT !.vcn = m, !.prev = prev, !.runs = IF m > start THEN added ELSE q.runs]
  <2> DEFINE lcn == IF en.sparse THEN Sparse ELSE old + en.dlcn
             next == c + en.len
             more == AddEntry[Addition(q.runs, 1, Run(start, next - start, lcn + (start - c)))].runs
  <2>1. lcn = l /\ next = m
    <3>1. /\ en.sparse = (l = Sparse) /\ en.len = m - c
          /\ en.dlcn = IF l = Sparse THEN 0 ELSE l - old
      OBVIOUS
    <3> HIDE DEF l, old, c
    <3>2. lcn = l
      <4>1. CASE l = Sparse
        BY <3>1, <4>1
      <4>2. CASE l # Sparse
        <5>1. lcn = old + (l - old)
          BY <3>1, <4>2
        <5> HIDE DEF lcn
        <5> QED BY <1>1, <4>2, <5>1
      <4> QED BY <4>1, <4>2
    <3>3. next = m
      BY <1>1, <3>1
    <3> QED BY <3>2, <3>3
  <2>2. ~ (~ en.sparse /\ (en.dlcn = 0 \/ lcn < 0))
    BY <1>1, <2>1
  <2>3. t = IF ~ q.ok \/ (~ en.sparse /\ (en.dlcn = 0 \/ lcn < 0)) THEN [q EXCEPT !.ok = FALSE]
            ELSE [q EXCEPT !.vcn = next, !.prev = IF en.sparse THEN @ ELSE lcn,
                           !.runs = IF next > start THEN more ELSE @]
    BY DEF UnpackRun
  <2>4. en.sparse = (l = Sparse)
    OBVIOUS
  <2> HIDE DEF lcn, next, start
  <2> QED BY <2>1, <2>2, <2>3, <2>4
<1>3. start = IF c < from THEN from ELSE c
  BY <1>1, LaterOf
<1> HIDE DEF start
<1>4. start \in Nat /\ c <= start
  BY <1>1, <1>3
<1>5. prev \in Nat
  BY <1>1
<1> HIDE DEF added
<1>6. CASE m > start
  <2>1. first = At(l, start - c) /\ first \in Nat \cup {Sparse}
    <3>1. l = Sparse => start = c
      BY <1>1, <1>3, <1>6
    <3>2. start - c \in Nat /\ (start = c => start - c = 0)
      BY <1>1, <1>4
    <3> DEFINE d == start - c
    <3>3. first = l + d /\ l \in Nat \cup {Sparse} /\ d \in Nat /\ (l = Sparse => d = 0)
      BY <1>1, <3>1, <3>2
    <3> HIDE DEF first, l, d
    <3>4. first = At(l, d) /\ first \in Nat \cup {Sparse}
      BY <3>3 DEF At, Sparse
    <3> QED BY <3>4 DEF d
  <2> HIDE DEF first
  <2> DEFINE len == m - start
             x == Run(start, len, first)
  <2>2. len \in Nat \ {0} /\ start + len = m /\ start + len <= LastVcn + 1
    BY <1>1, <1>4, <1>6
  <2> HIDE DEF len
  <2>3. x \in Runs /\ x.vcn = start /\ x.lcn = first /\ End(x) = m
    <3>1. x \in Runs /\ x.vcn = start /\ x.lcn = first /\ End(x) = start + len
      BY <1>4, <2>1, <2>2, RunIsRun
    <3> QED BY <2>2, <3>1
  <2> HIDE DEF x
  <2>4. \A j \in 1 .. Len(q.runs) : End(q.runs[j]) <= x.vcn
    <3> SUFFICES ASSUME NEW j \in 1 .. Len(q.runs) PROVE End(q.runs[j]) <= start
      BY <2>3
    <3>1. End(q.runs[j]) \in Nat /\ End(q.runs[j]) <= c
      BY <1>1, TreeTypes
    <3> QED BY <1>1, <1>4, <3>1
  <2>5. added = AddEntry[Addition(q.runs, 1, x)].runs
    BY DEF added, x, len
  <2>6. /\ added \in Trees /\ InOrder(added)
        /\ \A v \in Nat : Location(added, v) =
             IF Covers(x, v) THEN At(x.lcn, v - x.vcn) ELSE Location(q.runs, v)
    <3> DEFINE o == q.runs
    <3>1. o \in Trees /\ InOrder(o) /\ \A j \in 1 .. Len(o) : End(o[j]) <= x.vcn
      BY <1>1, <2>4
    <3>2. x \in Runs /\ added = AddEntry[Addition(o, 1, x)].runs
      BY <2>3, <2>5
    <3> HIDE DEF o
    <3>3. /\ added \in Trees /\ InOrder(added)
          /\ \A v \in Nat : Location(added, v) =
               IF Covers(x, v) THEN At(x.lcn, v - x.vcn) ELSE Location(o, v)
      BY <3>1, <3>2, AppendKeeps
    <3> QED BY <3>3 DEF o
  <2>7. ASSUME NEW v \in Nat
        PROVE  Location(added, v) =
                 IF c <= v /\ from <= v /\ v < m THEN At(l, v - c) ELSE Location(q.runs, v)
    <3>1. Covers(x, v) <=> c <= v /\ from <= v /\ v < m
      BY <1>1, <1>3, <2>3 DEF Covers
    <3>2. Covers(x, v) => At(x.lcn, v - x.vcn) = At(l, v - c)
      <4> SUFFICES ASSUME Covers(x, v) PROVE At(x.lcn, v - x.vcn) = At(l, v - c)
        OBVIOUS
      <4>1. start <= v
        BY <2>3 DEF Covers
      <4>2. start - c \in Nat /\ v - start \in Nat /\ (start - c) + (v - start) = v - c
        <5>1. c \in Nat
          BY <1>1
        <5> HIDE DEF c
        <5> QED BY <1>4, <4>1, <5>1
      <4> DEFINE d == start - c
                 g == v - start
      <4>3. d \in Nat /\ g \in Nat /\ d + g = v - c
        BY <4>2
      <4> HIDE DEF d, g, l, c
      <4>4. At(At(l, d), g) = At(l, d + g)
        BY <1>1, <4>3, AtAt
      <4> QED BY <2>1, <2>3, <4>3, <4>4 DEF d, g
    <3> QED BY <2>6, <3>1, <3>2
  <2>8. t = [q EXCEPT !.vcn = m, !.prev = prev, !.runs = added]
    BY <1>2, <1>6
  <2> HIDE DEF prev
  <2>9. /\ t.runs = added /\ t.vcn = m /\ t.prev = prev /\ t.ok = q.ok /\ t \in ReadStates
    <3>1. added \in Trees
      BY <2>6
    <3> HIDE DEF x
    <3>2. t \in ReadStates
      BY <1>5, <2>8, <3>1 DEF ReadStates
    <3>3. q \in [runs : Trees, vcn : Nat, prev : Nat, ok : BOOLEAN]
      BY DEF ReadStates
    <3>4. t.runs = added
      BY <2>8, <3>3
    <3>5. t.vcn = m /\ t.prev = prev
      BY <2>8, <3>3
    <3>6. t.ok = q.ok
      BY <2>8, <3>3
    <3> QED BY <3>2, <3>4, <3>5, <3>6
  <2>10. t.prev = IF l = Sparse THEN old ELSE l
    BY <2>9 DEF prev
  <2>11. InOrder(t.runs)
    BY <2>6, <2>9
  <2>12. \A v \in Nat : Location(t.runs, v) =
           IF c <= v /\ from <= v /\ v < m THEN At(l, v - c) ELSE Location(q.runs, v)
    BY <2>7, <2>9
  <2> QED BY <2>9, <2>10, <2>11, <2>12
<1>7. CASE ~ (m > start)
  <2>1. t = [q EXCEPT !.vcn = m, !.prev = prev]
    BY <1>2, <1>7 DEF ReadStates
  <2> HIDE DEF prev
  <2>2. /\ t.runs = q.runs /\ t.vcn = m /\ t.prev = prev /\ t.ok = q.ok /\ t \in ReadStates
    BY <1>1, <1>5, <2>1 DEF ReadStates
  <2>3. ASSUME NEW v \in Nat PROVE ~ (c <= v /\ from <= v /\ v < m)
    BY <1>1, <1>3, <1>7
  <2> QED BY <2>2, <2>3 DEF prev
<1> QED BY <1>6, <1>7

(* Where run_unpack is after k entries: where run_pack was.                *)
HasRead(u, p, rs, s, e, from, k) ==
  /\ u[k] \in ReadStates /\ InOrder(u[k].runs) /\ u[k].ok
  /\ u[k].vcn = Mark(rs, s, e, k) /\ u[k].prev = p[k].prev
  /\ \A v \in Nat : Location(u[k].runs, v) =
       IF from <= v /\ v < Mark(rs, s, e, k) THEN Location(rs, v) ELSE Unmapped

(* The reading does not start from within one of the first n runs that is  *)
(* a hole.                                                                 *)
NotWithinHole(rs, s, e, from, n) ==
  \A k \in 1 .. n : rs[k].lcn = Sparse => ~ (Mark(rs, s, e, k - 1) < from /\ from < Mark(rs, s, e, k))

(* A round reads the run that the entry was written for.                   *)
LEMMA RoundReads ==
  ASSUME NEW rs, NEW s, NEW e, Packs(rs, s, e), NEW p, NEW i, HasPacked(p, rs, s, e, i),
         NEW es, es = p[i].entries, Len(es) \in Nat,
         NEW from \in Nat, NotWithinHole(rs, s, e, from, Len(es)),
         NEW u, Reading(u, es, s, from), NEW k \in Nat, k < Len(es), HasRead(u, p, rs, s, e, from, k)
  PROVE  HasRead(u, p, rs, s, e, from, k + 1)
<1> DEFINE q == u[k]
           t == u[k + 1]
           en == es[k + 1]
           r == rs[k + 1]
           c == Mark(rs, s, e, k)
           m == Mark(rs, s, e, k + 1)
<1>1. k + 1 \in 1 .. Len(es) /\ (k + 1) - 1 = k
  OBVIOUS
<1>2. Writes(p, rs, s, e, k + 1) /\ es[k + 1] = Entry(p, rs, s, e, k + 1)
  BY <1>1 DEF HasPacked
<1>3. /\ r.vcn = c /\ c \in s .. e /\ m \in Nat /\ c < m /\ k + 1 \in 1 .. Len(rs)
      /\ r.lcn # p[k].prev /\ p[k + 1].prev = IF r.lcn = Sparse THEN p[k].prev ELSE r.lcn
  BY <1>1, <1>2 DEF Writes
<1>4. rs \in Trees /\ InOrder(rs) /\ s \in Nat /\ e \in Nat /\ r \in Runs
  BY <1>3, TreeFacts DEF Packs
<1>5. /\ q \in ReadStates /\ InOrder(q.runs) /\ q.ok /\ q.vcn = c /\ q.prev = p[k].prev
      /\ \A v \in Nat : Location(q.runs, v) =
           IF from <= v /\ v < c THEN Location(rs, v) ELSE Unmapped
  BY DEF HasRead
<1>6. /\ t = UnpackRun(from, q, en)
      /\ en = [len |-> m - c, sparse |-> r.lcn = Sparse,
               dlcn |-> IF r.lcn = Sparse THEN 0 ELSE r.lcn - q.prev]
  <2>1. t = UnpackRun(from, q, en)
    BY <1>1, ReadingSteps
  <2> QED BY <1>1, <1>2, <1>5, <2>1 DEF Entry
<1>7. m <= End(r)
  <2>1. End(r) \in Nat /\ m = IF End(r) > e + 1 THEN e + 1 ELSE End(r)
    BY <1>4, RunFacts DEF Mark
  <2> HIDE DEF m
  <2> QED BY <1>4, <2>1
<1>8. r.lcn = Sparse => ~ (c < from /\ from < m)
  BY <1>1 DEF NotWithinHole
<1> HIDE DEF q, t, en, r, c, m
<1>9. c \in Nat
  BY <1>3, <1>4
<1>10. \A j \in 1 .. Len(q.runs) : End(q.runs[j]) <= c
  <2> SUFFICES ASSUME NEW j \in 1 .. Len(q.runs) PROVE End(q.runs[j]) <= c
    OBVIOUS
  <2>1. q.runs \in Trees
    BY <1>5 DEF ReadStates
  <2>2. End(q.runs[j]) \in Nat /\ q.runs[j].vcn \in Nat /\ q.runs[j].vcn < End(q.runs[j])
    BY <2>1, TreeTypes
  <2> DEFINE v == End(q.runs[j]) - 1
  <2>3. v \in Nat /\ v < End(q.runs[j]) /\ q.runs[j].vcn <= v
    BY <2>2
  <2>4. Covers(q.runs[j], v)
    BY <2>3 DEF Covers
  <2> HIDE DEF v
  <2>5. Location(q.runs, v) # Unmapped
    BY <1>5, <2>1, <2>3, <2>4, LocationInOrder
  <2>6. v < c
    BY <1>5, <2>3, <2>5
  <2> QED BY <1>9, <2>2, <2>6 DEF v
<1>11. /\ t \in ReadStates /\ InOrder(t.runs) /\ t.ok /\ t.vcn = m
       /\ t.prev = IF r.lcn = Sparse THEN q.prev ELSE r.lcn
       /\ \A v \in Nat : Location(t.runs, v) =
            IF c <= v /\ from <= v /\ v < m THEN At(r.lcn, v - r.vcn) ELSE Location(q.runs, v)
  <2>1. /\ en = [len |-> m - q.vcn, sparse |-> r.lcn = Sparse,
                 dlcn |-> IF r.lcn = Sparse THEN 0 ELSE r.lcn - q.prev]
        /\ q \in ReadStates /\ InOrder(q.runs) /\ q.ok
        /\ \A j \in 1 .. Len(q.runs) : End(q.runs[j]) <= q.vcn
        /\ r \in Runs /\ r.vcn = q.vcn /\ r.lcn # q.prev
        /\ m \in Nat /\ q.vcn < m /\ m <= End(r)
        /\ r.lcn = Sparse => ~ (q.vcn < from /\ from < m)
        /\ t = UnpackRun(from, q, en)
    BY <1>3, <1>4, <1>5, <1>6, <1>7, <1>8, <1>10
  <2>2. /\ t \in ReadStates /\ InOrder(t.runs) /\ t.ok /\ t.vcn = m
        /\ t.prev = IF r.lcn = Sparse THEN q.prev ELSE r.lcn
        /\ \A v \in Nat : Location(t.runs, v) =
             IF q.vcn <= v /\ from <= v /\ v < m THEN At(r.lcn, v - r.vcn) ELSE Location(q.runs, v)
    BY <2>1, ReadRunFacts
  <2> QED BY <1>5, <2>2
<1>12. ASSUME NEW v \in Nat
       PROVE  Location(t.runs, v) = IF from <= v /\ v < m THEN Location(rs, v) ELSE Unmapped
  <2>1. CASE c <= v /\ from <= v /\ v < m
    <3>1. Covers(r, v)
      <4>1. End(r) \in Nat
        BY <1>4, RunFacts
      <4> QED BY <1>3, <1>7, <2>1, <4>1 DEF Covers
    <3>2. Location(rs, v) = At(r.lcn, v - r.vcn)
      BY <1>3, <1>4, <3>1, LocationInOrder DEF r
    <3> QED BY <1>11, <2>1, <3>2
  <2>2. CASE ~ (c <= v /\ from <= v /\ v < m)
    <3>1. Location(t.runs, v) = IF from <= v /\ v < c THEN Location(rs, v) ELSE Unmapped
      BY <1>5, <1>11, <2>2
    <3>2. from <= v /\ v < c <=> from <= v /\ v < m
      BY <1>3, <1>9, <2>2
    <3> QED BY <3>1, <3>2
  <2> QED BY <2>1, <2>2
<1>13. t.prev = p[k + 1].prev
  BY <1>3, <1>5, <1>11
<1> QED BY <1>11, <1>12, <1>13 DEF HasRead, t, m

(* So run_unpack has the locations of what run_pack has written.           *)
LEMMA AllRead ==
  ASSUME NEW rs, NEW s, NEW e, Packs(rs, s, e), NEW size, NEW p, Packing(p, rs, e + 1, size),
         NEW i, HasPacked(p, rs, s, e, i),
         NEW es, es = p[i].entries, Len(es) \in Nat,
         NEW from \in Nat, s <= from, NotWithinHole(rs, s, e, from, Len(es)),
         NEW u, Reading(u, es, s, from)
  PROVE  HasRead(u, p, rs, s, e, from, Len(es))
<1> DEFINE T == {k \in Nat : k <= Len(es) => HasRead(u, p, rs, s, e, from, k)}
<1>1. 0 \in T
  <2>1. u[0] = NothingRead(s) /\ p[0] = NothingPacked(size) /\ s \in Nat
    <3>1. Len(rs) \in Nat /\ s \in Nat
      BY TreeFacts DEF Packs
    <3>2. u[0] = NothingRead(s)
      BY ReadingSteps
    <3>3. p[0] = NothingPacked(size)
      BY <3>1, PackingSteps
    <3> QED BY <3>1, <3>2, <3>3
  <2>2. /\ u[0].runs = <<>> /\ u[0].vcn = s /\ u[0].prev = p[0].prev /\ u[0].ok
        /\ u[0] \in ReadStates
    BY <2>1 DEF NothingRead, NothingPacked, ReadStates, Trees
  <2>3. \A v : Location(<<>>, v) = Unmapped
    BY DEF Location
  <2>4. InOrder(<<>>)
    BY DEF InOrder
  <2>5. Mark(rs, s, e, 0) = s
    BY DEF Mark
  <2>6. \A v \in Nat : ~ (from <= v /\ v < s)
    BY <2>1
  <2> QED BY <2>2, <2>3, <2>4, <2>5, <2>6 DEF HasRead
<1>2. ASSUME NEW k \in T PROVE k + 1 \in T
  <2> SUFFICES ASSUME k + 1 <= Len(es) PROVE HasRead(u, p, rs, s, e, from, k + 1)
    OBVIOUS
  <2>1. k \in Nat /\ k < Len(es) /\ HasRead(u, p, rs, s, e, from, k)
    OBVIOUS
  <2> HIDE DEF T
  <2> QED BY <2>1, RoundReads
<1>3. T = Nat
  <2> HIDE DEF T
  <2>1. T \in SUBSET Nat
    BY DEF T
  <2> QED BY <1>1, <1>2, <2>1, SetInduction
<1> QED BY <1>3

-----------------------------------------------------------------------------
(* Where clusters are: as far after the start of a range that was added as *)
(* the file is long, at the most.                                          *)
Places == {Unmapped, Sparse} \cup {lcn + n : lcn \in Lcns, n \in Vcns}
Placed == \A v \in Vcns : map[v] \in Places

(* The clusters of a range that is added.                                  *)
LEMMA ClusterPlaces ==
  ASSUME NEW v \in Vcns, NEW vcn \in Vcns, v >= vcn, NEW lcn \in Lcns \cup {Sparse}
  PROVE  Clusters!At(lcn, v - vcn) \in Places
<1>1. v - vcn \in Vcns
  BY ClusterFacts, RunTreeConstants DEF Vcns
<1>2. At(lcn, v - vcn) \in Places
  BY <1>1 DEF At, Places
<1> QED BY <1>2, SameNames

(* An operation puts clusters into a range, or moves or forgets them.      *)
LEMMA NextPlaces == Placed /\ [Clusters!Next]_map => Placed'
<1> SUFFICES ASSUME Placed, [Clusters!Next]_map, NEW v \in Vcns PROVE map'[v] \in Places
  BY DEF Placed, Places
<1>1. /\ map[v] \in Places /\ Unmapped \in Places /\ Sparse \in Places
      /\ \A w : Clusters!Moved(w) \in Places
  BY SameNames DEF Placed, Places, Clusters!Moved
<1>2. CASE UNCHANGED map
  BY <1>1, <1>2
<1>3. CASE Clusters!Next
  <2>1. PICK vcn \in Vcns :
          \/ Clusters!DropBefore(vcn) \/ Clusters!DropFrom(vcn) \/ Clusters!DropAround(vcn)
          \/ \E lcn \in Lcns \cup {Sparse} :
               Clusters!PlaceFails(vcn, lcn) \/ \E len \in Clusters!Lens : Clusters!Place(vcn, lcn, len)
          \/ \E len \in Clusters!Lens :
               Clusters!Collapse(vcn, len) \/ Clusters!Insert(vcn, len) \/ Clusters!InsertFails(vcn, len)
    BY <1>3, SameNames DEF Clusters!Next
  <2>2. CASE Clusters!DropBefore(vcn) \/ Clusters!DropFrom(vcn)
    BY <1>1, <2>2, SameNames DEF Clusters!DropBefore, Clusters!DropFrom
  <2>3. CASE Clusters!DropAround(vcn)
    BY <1>1, <2>3, SameNames DEF Clusters!DropAround
  <2>4. ASSUME NEW lcn \in Lcns \cup {Sparse}, Clusters!PlaceFails(vcn, lcn) PROVE map'[v] \in Places
    <3>1. \/ map'[v] = map[v]
          \/ v >= vcn /\ map'[v] \in {Clusters!Unmapped, Clusters!At(lcn, v - vcn)}
      BY <2>4 DEF Clusters!PlaceFails
    <3>2. CASE map'[v] = map[v]
      BY <1>1, <3>2
    <3>3. CASE v >= vcn /\ map'[v] \in {Clusters!Unmapped, Clusters!At(lcn, v - vcn)}
      <4>1. Clusters!At(lcn, v - vcn) \in Places
        BY <3>3, ClusterPlaces
      <4> QED BY <1>1, <3>3, <4>1, SameNames
    <3> QED BY <3>1, <3>2, <3>3
  <2>5. ASSUME NEW lcn \in Lcns \cup {Sparse}, NEW len \in Clusters!Lens, Clusters!Place(vcn, lcn, len)
        PROVE  map'[v] \in Places
    <3>1. map'[v] = IF v \in Clusters!Within(vcn, len) THEN Clusters!At(lcn, v - vcn) ELSE map[v]
      BY <2>5 DEF Clusters!Place
    <3>2. v \in Clusters!Within(vcn, len) => v >= vcn
      BY ClusterFacts DEF Clusters!Within
    <3> QED BY <1>1, <3>1, <3>2, ClusterPlaces
  <2>6. ASSUME NEW len \in Clusters!Lens, Clusters!Collapse(vcn, len) PROVE map'[v] \in Places
    BY <1>1, <2>6 DEF Clusters!Collapse
  <2>7. ASSUME NEW len \in Clusters!Lens, Clusters!Insert(vcn, len) PROVE map'[v] \in Places
    BY <1>1, <2>7, SameNames DEF Clusters!Insert
  <2>8. ASSUME NEW len \in Clusters!Lens, Clusters!InsertFails(vcn, len) PROVE map'[v] \in Places
    BY <1>1, <2>8, SameNames DEF Clusters!InsertFails
  <2> QED BY <2>1, <2>2, <2>3, <2>4, <2>5, <2>6, <2>7, <2>8
<1> QED BY <1>2, <1>3

(* Clusters are at such places throughout.                                 *)
LEMMA AlwaysPlaced == Spec => []Placed
<1>1. Init => Placed
  BY DEF Init, Placed, Places
<1>2. Shows /\ Placed /\ [Next]_vars => Placed'
  BY NextShows, NextPlaces
<1> QED BY <1>1, <1>2, AlwaysShows, PTL DEF Spec

(* A location that is not a hole's is a number of the code's.              *)
LEMMA PlaceFacts ==
  ASSUME NEW l \in Places, l \notin {Unmapped, Sparse}
  PROVE  l \in Nat \ {0} /\ Holds(MaxSize, l)
<1>1. PICK lcn \in Lcns, n \in Vcns : l = lcn + n
  BY DEF Places
<1>2. lcn \in Nat \ {0} /\ n \in Nat /\ n <= LastVcn /\ LastVcn \in Nat
  BY ClusterFacts, RunTreeConstants
<1> DEFINE top == lcn + LastVcn
<1>3. top \in Nat /\ l \in 0 .. top /\ l # 0
  BY <1>1, <1>2
<1>4. Holds(MaxSize, top)
  BY RunPackConstants
<1> HIDE DEF top
<1>5. Holds(MaxSize, l)
  BY <1>3, <1>4, HoldsWithin
<1> QED BY <1>3, <1>5

(* A mapped range is one that can be packed.                               *)
LEMMA MappedPacks ==
  ASSUME Shows, Placed, NoneShared, NEW s \in Vcns, NEW e \in s .. LastVcn, IsMappedFull(runs, s, e),
         NEW rs, rs = TruncateHead(runs, s)
  PROVE  Packs(rs, s, e) /\ \A v \in Vcns : v >= s => Location(rs, v) = map[v]
<1>1. /\ runs \in Trees /\ InOrder(runs) /\ s \in Nat /\ e \in Nat /\ s <= e /\ e <= LastVcn
      /\ LastVcn \in Nat
  BY ClusterFacts, RunTreeConstants DEF Shows, WellFormed
<1>2. /\ rs \in Trees /\ InOrder(rs)
      /\ \A v \in Nat : Location(rs, v) = IF v < s THEN Unmapped ELSE Location(runs, v)
  BY <1>1, TruncateHeadDrops
<1>3. \A v \in Vcns : v >= s => Location(rs, v) = map[v]
  <2> SUFFICES ASSUME NEW v \in Vcns, v >= s PROVE Location(rs, v) = map[v]
    OBVIOUS
  <2>1. v \in Nat /\ ~ (v < s) /\ map[v] = Location(runs, v)
    BY <1>1, ClusterFacts DEF Shows, Located
  <2> QED BY <1>2, <2>1
<1>4. ASSUME NEW i \in 1 .. Len(rs)
      PROVE  /\ rs[i].vcn \in Vcns /\ rs[i].vcn >= s /\ map[rs[i].vcn] = rs[i].lcn
             /\ rs[i].lcn \in Nat \cup {Sparse}
  <2> DEFINE v == rs[i].vcn
             l == rs[i].lcn
  <2>1. v \in Vcns /\ v \in Nat /\ l \in Nat \cup {Sparse} /\ Covers(rs[i], v)
    BY <1>2, TreeTypes, TreeFacts DEF Runs, Covers
  <2>2. Location(rs, v) = At(l, v - v) /\ Location(rs, v) # Unmapped
    <3> HIDE DEF v
    <3>1. Location(rs, v) = At(l, v - rs[i].vcn) /\ Location(rs, v) # Unmapped
      BY <1>2, <2>1, LocationInOrder
    <3> QED BY <3>1 DEF v
  <2> HIDE DEF v, l
  <2>3. v >= s
    BY <1>1, <1>2, <2>1, <2>2
  <2>4. v - v = 0 /\ At(l, 0) = l
    BY <2>1 DEF At, Sparse
  <2>5. map[v] = l
    BY <1>3, <2>1, <2>2, <2>3, <2>4
  <2> QED BY <2>1, <2>3, <2>5 DEF v, l
<1>5. ASSUME NEW i \in 1 .. Len(rs), rs[i].lcn # Sparse
      PROVE  rs[i].lcn \in Nat \ {0} /\ Holds(MaxSize, rs[i].lcn)
  <2> DEFINE l == rs[i].lcn
  <2>1. l \in Places /\ l \notin {Unmapped, Sparse}
    BY <1>4, <1>5 DEF Placed, Unmapped
  <2> HIDE DEF l
  <2>2. l \in Nat \ {0} /\ Holds(MaxSize, l)
    BY <2>1, PlaceFacts
  <2> QED BY <2>2 DEF l
<1>6. ASSUME NEW i \in 1 .. Len(rs), NEW j \in 1 .. Len(rs), i < j, rs[i].lcn # Sparse
      PROVE  rs[i].lcn # rs[j].lcn
  <2> DEFINE v == rs[i].vcn
             w == rs[j].vcn
  <2>1. v < w /\ v \in Nat /\ w \in Nat
    <3>1. /\ End(rs[i]) <= w /\ v < End(rs[i]) /\ v \in Nat /\ End(rs[i]) \in Nat
          /\ w \in Nat
      BY <1>2, <1>6, OrderFacts
    <3> HIDE DEF v, w
    <3> QED BY <3>1
  <2>2. v \in Vcns /\ w \in Vcns /\ map[v] = rs[i].lcn /\ map[w] = rs[j].lcn /\ map[v] >= 0
    BY <1>4, <1>5, <1>6
  <2> HIDE DEF v, w
  <2>3. v # w
    BY <2>1
  <2>4. map[v] # map[w]
    BY <2>2, <2>3 DEF NoneShared
  <2> QED BY <2>2, <2>4
<1>7. \A v \in s .. e : Location(rs, v) # Unmapped
  <2> SUFFICES ASSUME NEW v \in s .. e PROVE Location(rs, v) # Unmapped
    OBVIOUS
  <2>1. v \in Vcns /\ v >= s
    BY <1>1 DEF Vcns
  <2>2. map[v] # Unmapped
    BY ShownIsMappedFull DEF MappedFullIsMapped
  <2> QED BY <1>3, <2>1, <2>2
<1>8. Packs(rs, s, e)
  BY <1>1, <1>2, <1>4, <1>5, <1>6, <1>7 DEF Packs
<1> QED BY <1>3, <1>8

(* Reading starts outside the holes, as PackedIsRead says of it: so it     *)
(* does of the runs that were packed.                                      *)
LEMMA StartsOutside ==
  ASSUME NEW rs, NEW s, NEW e, Packs(rs, s, e), s \in Vcns,
         \A v \in Vcns : v >= s => Location(rs, v) = map[v],
         NEW p, NEW i, HasPacked(p, rs, s, e, i), NEW n \in Nat, n = Len(p[i].entries),
         NEW from \in Nat, map[from] # Sparse \/ from = s \/ map[from - 1] # Sparse
  PROVE  NotWithinHole(rs, s, e, from, n)
<1> SUFFICES ASSUME NEW k \in 1 .. n, rs[k].lcn = Sparse,
                    Mark(rs, s, e, k - 1) < from, from < Mark(rs, s, e, k)
             PROVE  FALSE
  BY DEF NotWithinHole
<1> DEFINE r == rs[k]
           a == Mark(rs, s, e, k - 1)
           b == Mark(rs, s, e, k)
<1>1. Writes(p, rs, s, e, k)
  BY DEF HasPacked
<1>2. /\ k \in 1 .. Len(rs) /\ r.vcn = a /\ a \in s .. e /\ b \in Nat
  BY <1>1 DEF Writes
<1>3. /\ rs \in Trees /\ InOrder(rs) /\ r \in Runs /\ s \in Nat /\ e \in Nat /\ e <= LastVcn
      /\ LastVcn \in Nat
  BY <1>2, TreeFacts, RunTreeConstants DEF Packs
<1>4. End(r) \in Nat /\ b = IF End(r) > e + 1 THEN e + 1 ELSE End(r)
  <2>1. k # 0
    OBVIOUS
  <2> QED BY <1>3, <2>1, RunFacts DEF Mark
<1>5. a < from /\ from < b
  OBVIOUS
<1>6. \A v \in Nat : a <= v /\ v < b => Location(rs, v) = Sparse
  <2> SUFFICES ASSUME NEW v \in Nat, a <= v, v < b PROVE Location(rs, v) = Sparse
    OBVIOUS
  <2> HIDE DEF a, b
  <2>1. v < End(r)
    BY <1>3, <1>4
  <2>2. Covers(r, v)
    BY <1>2, <2>1 DEF Covers
  <2>3. Location(rs, v) = At(r.lcn, v - r.vcn)
    BY <1>2, <1>3, <2>2, LocationInOrder
  <2> QED BY <2>3 DEF At
<1> HIDE DEF a, b, r
<1>7. /\ from \in Nat /\ a <= from /\ from < b /\ from \in Vcns /\ from >= s /\ from # s
      /\ from - 1 \in Nat /\ a <= from - 1 /\ from - 1 < b /\ from - 1 \in Vcns /\ from - 1 >= s
  <2>1. a \in Nat /\ s \in Nat /\ s <= a /\ LastVcn \in Nat
    BY <1>2, <1>3
  <2>2. b \in Nat /\ b <= LastVcn + 1
    <3>1. b \in Nat /\ b <= e + 1
      BY <1>2, <1>3, <1>4
    <3> QED BY <1>3, <3>1
  <2>3. /\ from \in 0 .. LastVcn /\ a <= from /\ from < b /\ s < from
        /\ from - 1 \in 0 .. LastVcn /\ a <= from - 1 /\ from - 1 < b /\ s <= from - 1
    BY <1>5, <2>1, <2>2
  <2> QED BY <2>1, <2>3 DEF Vcns
<1>8. map[from] = Sparse /\ map[from - 1] = Sparse
  BY <1>6, <1>7
<1> QED BY <1>7, <1>8

(* The argument for PackedIsRead, from a state of the tree on.             *)
LEMMA ShownIsRead == Shows /\ Placed => PackedIsRead
<1> SUFFICES ASSUME Shows, Placed, NoneShared, NEW s \in Vcns, NEW e \in s .. LastVcn,
                    IsMappedFull(runs, s, e), NEW size \in BufSizes,
                    NEW packed, packed = Pack(runs, s, e - s + 1, size),
                    NEW last, last = s + packed.vcns - 1,
                    NEW from \in s .. last, map[from] # Sparse \/ from = s \/ map[from - 1] # Sparse,
                    NEW v \in Vcns
             PROVE  Location(Unpack(packed.entries, s, from), v)
                      = IF v \in from .. last THEN map[v] ELSE Unmapped
  BY DEF PackedIsRead
<1> DEFINE rs == TruncateHead(runs, s)
           es == packed.entries
           n == Len(es)
           len == e - s + 1
<1>1. /\ s \in Nat /\ e \in Nat /\ size \in Nat /\ s + len = e + 1
  BY ClusterFacts, RunTreeConstants, RunPackConstants
<1>2. Packs(rs, s, e) /\ \A w \in Vcns : w >= s => Location(rs, w) = map[w]
  BY MappedPacks
<1> HIDE DEF rs
<1>3. Len(rs) \in Nat /\ Len(rs) \in 0 .. Len(rs)
  BY <1>2, TreeFacts DEF Packs
<1>4. PICK p : Packing(p, rs, e + 1, size) /\ packed = p[Len(rs)]
  <2>1. packed = Pack(runs, s, len, size)
    OBVIOUS
  <2> HIDE DEF len
  <2>2. \E p : Packing(p, rs, s + len, size) /\ packed = p[Len(rs)]
    BY <1>3, <2>1, PackIs DEF rs
  <2> QED BY <1>1, <2>2
<1> HIDE DEF len
<1>5. HasPacked(p, rs, s, e, Len(rs))
  BY <1>1, <1>2, <1>3, <1>4, AllPacked
<1>6. packed \in PackStates /\ packed.vcns = Mark(rs, s, e, n) - s
  BY <1>4, <1>5 DEF HasPacked
<1>7. es \in Seq(Entries) /\ n \in Nat
  BY <1>6 DEF PackStates
<1> DEFINE top == Mark(rs, s, e, n)
<1>8. top \in Nat
  <2>1. CASE n = 0
    BY <1>1, <2>1 DEF Mark
  <2>2. CASE n # 0
    <3>1. n \in 1 .. Len(p[Len(rs)].entries)
      BY <1>4, <1>7, <2>2
    <3>2. Writes(p, rs, s, e, n)
      BY <1>5, <3>1 DEF HasPacked
    <3> QED BY <3>2 DEF Writes
  <2> QED BY <2>1, <2>2
<1>9. last = top - 1 /\ from \in Nat /\ s <= from
  BY <1>1, <1>6, <1>8
<1> HIDE DEF top
<1>10. NotWithinHole(rs, s, e, from, n)
  <2>1. n = Len(p[Len(rs)].entries)
    BY <1>4
  <2> DEFINE i == Len(rs)
  <2>2. n = Len(p[i].entries) /\ HasPacked(p, rs, s, e, i) /\ n \in Nat
    BY <1>5, <1>7, <2>1
  <2>3. map[from] # Sparse \/ from = s \/ map[from - 1] # Sparse
    OBVIOUS
  <2> HIDE DEF n, i
  <2> QED BY <1>2, <1>9, <2>2, <2>3, StartsOutside
<1>11. PICK u : Reading(u, es, s, from) /\ Unpack(es, s, from) = u[n].runs
  <2> HIDE DEF es
  <2>1. \E u : Reading(u, es, s, from) /\ Unpack(es, s, from) = u[Len(es)].runs
    BY <1>7, UnpackIs
  <2> QED BY <2>1
<1>12. HasRead(u, p, rs, s, e, from, n)
  <2>1. es = p[Len(rs)].entries
    BY <1>4
  <2> HIDE DEF es
  <2> QED BY <1>2, <1>4, <1>5, <1>7, <1>9, <1>10, <1>11, <2>1, AllRead
<1>13. Location(Unpack(es, s, from), v) = IF from <= v /\ v < top THEN Location(rs, v) ELSE Unmapped
  <2>1. v \in Nat
    BY ClusterFacts
  <2> QED BY <1>11, <1>12, <2>1 DEF HasRead, top
<1>14. v \in from .. last <=> from <= v /\ v < top
  BY <1>8, <1>9, ClusterFacts
<1>15. from <= v => Location(rs, v) = map[v]
  BY <1>1, <1>2, <1>9, ClusterFacts
<1> QED BY <1>13, <1>14, <1>15
-----------------------------------------------------------------------------
(* What run_pack has written of a mapped range is read by run_unpack as    *)
(* the same locations, in buffers and files of any size: wherever the      *)
(* buffer ended, and wherever outside a hole the reading starts.           *)
THEOREM PackedRunsAreRead == Spec => []PackedIsRead
BY AlwaysShows, AlwaysPlaced, ShownIsRead, PTL

===============================================================================
