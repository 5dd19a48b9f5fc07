---------------------------- MODULE RunTreeProofs -----------------------------
(***************************************************************************)
(* Proofs about RunTree, for files of any size, any arrays that the        *)
(* operations reach, and any lack of memory: the runs follow one another,  *)
(* the bisection finds them, and every operation is one of ClusterMap on   *)
(* the locations of the clusters.                                          *)
(*                                                                         *)
(* The inductive invariant is Shows: the array is in order, and the        *)
(* history is what it shows.  One lemma about each operation says what it  *)
(* makes of an array in order.                                             *)
(***************************************************************************)
EXTENDS RunTreeLemmas

-----------------------------------------------------------------------------
(* One array shows at each cluster v of V what another one shows at g[v],  *)
(* and nothing elsewhere: each run of it is a part of one of the other.    *)
Drawn(e, rs, V, g) ==
  /\ \A k \in 1 .. Len(e), v \in Nat : Covers(e[k], v) =>
       /\ v \in V
       /\ \E j \in 1 .. Len(rs) :
            Covers(rs[j], g[v]) /\ At(e[k].lcn, v - e[k].vcn) = At(rs[j].lcn, g[v] - rs[j].vcn)
  /\ \A v \in V : \A j \in 1 .. Len(rs) : Covers(rs[j], g[v]) => \E k \in 1 .. Len(e) : Covers(e[k], v)

(* An array drawn from another one shows that one's locations.             *)
LEMMA DrawnShows ==
  ASSUME NEW rs \in Trees, InOrder(rs), NEW e \in Trees, InOrder(e),
         NEW V \in SUBSET Nat, NEW g \in [V -> Nat], Drawn(e, rs, V, g)
  PROVE  \A v \in Nat : Location(e, v) = IF v \in V THEN Location(rs, g[v]) ELSE Unmapped
<1> SUFFICES ASSUME NEW v \in Nat
             PROVE  Location(e, v) = IF v \in V THEN Location(rs, g[v]) ELSE Unmapped
  OBVIOUS
<1>1. ASSUME NEW k \in 1 .. Len(e), Covers(e[k], v)
      PROVE  v \in V /\ Location(e, v) = Location(rs, g[v])
  <2>1. v \in V
    BY <1>1 DEF Drawn
  <2>2. PICK j \in 1 .. Len(rs) :
          Covers(rs[j], g[v]) /\ At(e[k].lcn, v - e[k].vcn) = At(rs[j].lcn, g[v] - rs[j].vcn)
    BY <1>1 DEF Drawn
  <2>3. Location(e, v) = At(e[k].lcn, v - e[k].vcn)
    BY <1>1, LocationInOrder
  <2> DEFINE w == g[v]
  <2>4. w \in Nat
    BY <2>1
  <2> HIDE DEF w
  <2>5. Location(rs, w) = At(rs[j].lcn, w - rs[j].vcn)
    BY <2>2, <2>4, LocationInOrder DEF w
  <2> QED BY <2>1, <2>2, <2>3, <2>5 DEF w
<1>2. ASSUME \A k \in 1 .. Len(e) : ~ Covers(e[k], v)
      PROVE  Location(e, v) = Unmapped /\ (v \in V => Location(rs, g[v]) = Unmapped)
  <2>1. Location(e, v) = Unmapped
    BY <1>2, LocationInOrder
  <2>2. ASSUME v \in V PROVE Location(rs, g[v]) = Unmapped
    <3> DEFINE w == g[v]
    <3>1. w \in Nat /\ \A j \in 1 .. Len(rs) : ~ Covers(rs[j], w)
      BY <1>2, <2>2 DEF Drawn
    <3> HIDE DEF w
    <3>2. Location(rs, w) = Unmapped
      BY <3>1, LocationInOrder
    <3> QED BY <3>2 DEF w
  <2> QED BY <2>1, <2>2
<1>3. CASE \E k \in 1 .. Len(e) : Covers(e[k], v)
  BY <1>1, <1>3
<1>4. CASE \A k \in 1 .. Len(e) : ~ Covers(e[k], v)
  BY <1>2, <1>4
<1> QED BY <1>3, <1>4

(* A part of an array, index by index.                                     *)
LEMMA SubFacts ==
  ASSUME NEW rs \in Trees, NEW m \in 1 .. Len(rs) + 1, NEW n \in m - 1 .. Len(rs)
  PROVE  /\ SubSeq(rs, m, n) \in Trees /\ Len(SubSeq(rs, m, n)) = n - m + 1
         /\ \A j \in 1 .. n - m + 1 : SubSeq(rs, m, n)[j] = rs[m + j - 1]
<1>1. Len(rs) \in Nat /\ m \in Int /\ n \in Int
  BY TreeFacts
<1>2. \A j \in m .. n : rs[j] \in Runs
  BY <1>1, TreeFacts
<1>3. /\ SubSeq(rs, m, n) \in Seq(Runs)
      /\ Len(SubSeq(rs, m, n)) = IF m <= n THEN n - m + 1 ELSE 0
      /\ \A j \in 1 .. n - m + 1 : SubSeq(rs, m, n)[j] = rs[m + j - 1]
  BY <1>1, <1>2, SubSeqProperties
<1> QED BY <1>1, <1>3 DEF Trees

(* No cluster after the file's last one is in a run.                       *)
LEMMA PastEnd ==
  ASSUME NEW rs \in Trees, NEW v \in Nat, v > LastVcn
  PROVE  Location(rs, v) = Unmapped
<1>1. ASSUME NEW i \in 1 .. Len(rs) PROVE ~ Covers(rs[i], v)
  <2>1. End(rs[i]) \in Nat /\ End(rs[i]) <= LastVcn + 1 /\ LastVcn \in Nat
    BY TreeTypes, RunTreeConstants
  <2> QED BY <2>1 DEF Covers
<1> QED BY <1>1, LocationOf
-----------------------------------------------------------------------------
(* run_truncate_head forgets the clusters before vcn.                      *)
LEMMA TruncateHeadDrops ==
  ASSUME NEW rs \in Trees, InOrder(rs), NEW vcn \in Nat,
         NEW e, e = TruncateHead(rs, vcn)
  PROVE  /\ e \in Trees /\ InOrder(e)
         /\ \A v \in Nat : Location(e, v) = IF v < vcn THEN Unmapped ELSE Location(rs, v)
<1> DEFINE at == Lookup(rs, vcn)
           i == at.index
           rest == SubSeq(rs, i, Len(rs))
           r == After(rs[i], vcn)
<1>1. Finds(rs, vcn, at) /\ AtPlace(rs, vcn, at) /\ Len(rs) \in Nat
  BY LookupAnswers, TreeFacts
<1>2. i \in 1 .. Len(rs) + 1 /\ (at.found => i \in 1 .. Len(rs) /\ Covers(rs[i], vcn))
  BY <1>1 DEF Finds
<1>3. e = IF at.found THEN [rest EXCEPT ![1] = After(rest[1], vcn)] ELSE rest
  BY DEF TruncateHead
<1>4. /\ rest \in Trees /\ Len(rest) = Len(rs) - i + 1
      /\ \A j \in 1 .. Len(rs) - i + 1 : rest[j] = rs[i + j - 1]
  <2>1. Len(rs) \in i - 1 .. Len(rs)
    BY <1>1, <1>2
  <2> HIDE DEF i, at
  <2>2. /\ rest \in Trees /\ Len(rest) = Len(rs) - i + 1
        /\ \A j \in 1 .. Len(rs) - i + 1 : rest[j] = rs[i + j - 1]
    BY <1>2, <2>1, SubFacts
  <2> QED BY <2>2
<1> HIDE DEF at, i, rest
<1>5. at.found => /\ rs[i] \in Runs /\ r \in Runs /\ r.vcn = vcn /\ End(r) = End(rs[i])
                  /\ r.lcn = At(rs[i].lcn, vcn - rs[i].vcn)
                  /\ rest[1] = rs[i] /\ rs[i].vcn <= vcn /\ vcn < End(rs[i])
  <2> SUFFICES ASSUME at.found
               PROVE  /\ rs[i] \in Runs /\ r \in Runs /\ r.vcn = vcn /\ End(r) = End(rs[i])
                      /\ r.lcn = At(rs[i].lcn, vcn - rs[i].vcn)
                      /\ rest[1] = rs[i] /\ rs[i].vcn <= vcn /\ vcn < End(rs[i])
    OBVIOUS
  <2>1. rs[i] \in Runs /\ rs[i].vcn <= vcn /\ vcn < End(rs[i]) /\ i \in 1 .. Len(rs)
    BY <1>2, TreeFacts DEF Covers
  <2>2. rest[1] = rs[i]
    BY <1>1, <1>4, <2>1
  <2> DEFINE x == rs[i]
  <2> HIDE DEF r
  <2>3. /\ r \in Runs /\ r.vcn = vcn /\ End(r) = End(rs[i]) /\ r.lcn = At(rs[i].lcn, vcn - rs[i].vcn)
    BY <2>1, AfterIsRun DEF r
  <2> QED BY <2>1, <2>2, <2>3
<1> HIDE DEF r
<1> DEFINE n == Len(rs) - i + 1
<1>6. /\ e \in Trees /\ Len(e) = n
      /\ \A j \in 1 .. n : e[j] = IF at.found /\ j = 1 THEN r ELSE rs[i + j - 1]
  <2>1. CASE at.found
    <3> DEFINE f == [rest EXCEPT ![1] = r]
    <3>1. e = f
      BY <1>3, <1>5, <2>1 DEF r
    <3>2. 1 \in 1 .. Len(rest)
      BY <1>1, <1>2, <1>4, <2>1
    <3>3. f \in Trees /\ Len(f) = Len(rest) /\ \A j \in 1 .. Len(rest) : f[j] = IF j = 1 THEN r ELSE rest[j]
      BY <1>4, <1>5, <2>1, <3>2, ExceptFacts
    <3> HIDE DEF f
    <3> QED BY <1>4, <2>1, <3>1, <3>3
  <2>2. CASE ~ at.found
    BY <1>3, <1>4, <2>2
  <2> QED BY <2>1, <2>2
<1> HIDE DEF n
<1>7. ASSUME NEW j \in 1 .. n
      PROVE  /\ i + j - 1 \in 1 .. Len(rs) /\ End(e[j]) = End(rs[i + j - 1])
             /\ rs[i + j - 1].vcn <= e[j].vcn /\ vcn <= e[j].vcn
             /\ e[j].vcn = vcn \/ e[j].vcn = rs[i + j - 1].vcn
  <2>1. i + j - 1 \in 1 .. Len(rs) /\ i + j - 1 >= i
    BY <1>1, <1>2 DEF n
  <2>2. rs[i + j - 1].vcn \in Nat
    BY <2>1, TreeTypes
  <2>3. CASE at.found /\ j = 1
    BY <1>2, <1>5, <1>6, <2>1, <2>3
  <2>4. CASE at.found /\ j > 1
    <3>1. i < i + j - 1 /\ i \in 1 .. Len(rs)
      BY <1>2, <2>1, <2>4
    <3>2. End(rs[i]) <= rs[i + j - 1].vcn /\ End(rs[i]) \in Nat
      BY <2>1, <3>1, OrderFacts
    <3> QED BY <1>5, <1>6, <2>1, <2>2, <2>4, <3>2
  <2>5. CASE ~ at.found
    <3>1. rs[i + j - 1].vcn > vcn
      BY <1>1, <2>1, <2>5 DEF AtPlace, i
    <3> QED BY <1>6, <2>1, <2>2, <2>5, <3>1
  <2> QED BY <2>3, <2>4, <2>5
<1>8. InOrder(e)
  <2> SUFFICES ASSUME NEW a \in 1 .. n, NEW b \in 1 .. n, a < b PROVE End(e[a]) <= e[b].vcn
    BY <1>6, TreeFacts DEF InOrder
  <2> DEFINE p == i + a - 1
             q == i + b - 1
  <2>1. p \in 1 .. Len(rs) /\ q \in 1 .. Len(rs) /\ End(e[a]) = End(rs[p]) /\ rs[q].vcn <= e[b].vcn
    BY <1>7
  <2>2. p < q
    BY <1>2
  <2> HIDE DEF p, q
  <2>3. End(rs[p]) <= rs[q].vcn /\ End(rs[p]) \in Nat /\ rs[q].vcn \in Nat
    BY <2>1, <2>2, OrderFacts
  <2>4. e[b].vcn \in Nat
    BY <1>6, TreeTypes
  <2> QED BY <2>1, <2>3, <2>4
<1> DEFINE V == {v \in Nat : v >= vcn}
           g == [v \in V |-> v]
<1>9. Drawn(e, rs, V, g)
  <2>1. ASSUME NEW k \in 1 .. Len(e), NEW v \in Nat, Covers(e[k], v)
        PROVE  /\ v \in V
               /\ \E j \in 1 .. Len(rs) :
                    Covers(rs[j], g[v]) /\ At(e[k].lcn, v - e[k].vcn) = At(rs[j].lcn, g[v] - rs[j].vcn)
    <3> DEFINE j == i + k - 1
    <3>1. /\ j \in 1 .. Len(rs) /\ End(e[k]) = End(rs[j]) /\ rs[j].vcn <= e[k].vcn /\ vcn <= e[k].vcn
      BY <1>6, <1>7
    <3>2. e[k] = IF at.found /\ k = 1 THEN r ELSE rs[j]
      BY <1>6
    <3>3. k = 1 => j = i
      BY <1>2
    <3> HIDE DEF j
    <3>4. rs[j].vcn \in Nat /\ e[k].vcn \in Nat /\ rs[j].lcn \in Nat \cup {Sparse}
      BY <1>6, <3>1, TreeTypes
    <3>5. v >= vcn /\ Covers(rs[j], v)
      BY <2>1, <3>1, <3>4 DEF Covers
    <3>6. At(e[k].lcn, v - e[k].vcn) = At(rs[j].lcn, v - rs[j].vcn)
      <4>1. CASE at.found /\ k = 1
        <5> DEFINE l == rs[i].lcn
                   s == rs[i].vcn
        <5>1. e[k].lcn = At(l, vcn - s) /\ e[k].vcn = vcn /\ j = i /\ s <= vcn
          BY <1>5, <3>2, <3>3, <4>1
        <5>2. l \in Nat \cup {Sparse} /\ s \in Nat
          BY <3>4, <5>1
        <5> HIDE DEF l, s
        <5>3. vcn - s \in Nat /\ v - vcn \in Nat /\ (vcn - s) + (v - vcn) = v - s
          BY <3>5, <5>1, <5>2
        <5>4. At(At(l, vcn - s), v - vcn) = At(l, (vcn - s) + (v - vcn))
          BY <5>2, <5>3, AtAt
        <5> QED BY <5>1, <5>3, <5>4 DEF l, s
      <4>2. CASE ~ (at.found /\ k = 1)
        BY <3>2, <4>2
      <4> QED BY <4>1, <4>2
    <3>7. v \in V /\ g[v] = v
      BY <3>5
    <3> QED BY <3>1, <3>5, <3>6, <3>7
  <2>2. ASSUME NEW v \in V, NEW j \in 1 .. Len(rs), Covers(rs[j], g[v])
        PROVE  \E k \in 1 .. Len(e) : Covers(e[k], v)
    <3>1. v \in Nat /\ v >= vcn /\ Covers(rs[j], v)
      BY <2>2
    <3>2. rs[j].vcn \in Nat /\ End(rs[j]) \in Nat
      BY TreeTypes
    <3>3. j >= i
      <4>1. CASE at.found
        <5>1. j < i => End(rs[j]) <= rs[i].vcn
          BY <1>2, <4>1, OrderFacts
        <5>2. rs[i].vcn \in Nat
          BY <1>2, <4>1, TreeTypes
        <5> QED BY <1>2, <1>5, <3>1, <3>2, <4>1, <5>1, <5>2 DEF Covers
      <4>2. CASE ~ at.found
        <5>1. j < i => End(rs[j]) <= vcn
          BY <1>1, <4>2 DEF AtPlace, i
        <5> QED BY <1>2, <3>1, <3>2, <5>1 DEF Covers
      <4> QED BY <4>1, <4>2
    <3> DEFINE k == j - i + 1
    <3>4. k \in 1 .. n /\ i + k - 1 = j
      BY <1>1, <1>2, <3>3 DEF n
    <3> HIDE DEF k
    <3>5. End(e[k]) = End(rs[j]) /\ (e[k].vcn = vcn \/ e[k].vcn = rs[j].vcn)
      BY <1>7, <3>4
    <3>6. Covers(e[k], v)
      BY <3>1, <3>5 DEF Covers
    <3> QED BY <1>6, <3>4, <3>6
  <2> HIDE DEF V, g
  <2> QED BY <2>1, <2>2 DEF Drawn
<1>10. \A v \in Nat : Location(e, v) = IF v \in V THEN Location(rs, g[v]) ELSE Unmapped
  <2>1. V \in SUBSET Nat /\ g \in [V -> Nat]
    OBVIOUS
  <2>2. e \in Trees
    BY <1>6
  <2> HIDE DEF V, g
  <2> QED BY <1>8, <1>9, <2>1, <2>2, DrawnShows
<1> QED BY <1>6, <1>8, <1>10

(* run_truncate forgets the clusters from vcn on.                          *)
LEMMA TruncateDrops ==
  ASSUME NEW rs \in Trees, InOrder(rs), NEW vcn \in Nat,
         NEW e, e = Truncate(rs, vcn)
  PROVE  /\ e \in Trees /\ InOrder(e)
         /\ \A v \in Nat : Location(e, v) = IF v < vcn THEN Location(rs, v) ELSE Unmapped
<1> DEFINE at == Lookup(rs, vcn)
           i == at.index
           rest == SubSeq(rs, 1, i - 1)
           cut == at.found /\ vcn > rs[i].vcn
           r == Before(rs[i], vcn)
<1>1. Finds(rs, vcn, at) /\ AtPlace(rs, vcn, at) /\ Len(rs) \in Nat
  BY LookupAnswers, TreeFacts
<1>2. i \in 1 .. Len(rs) + 1 /\ (at.found => i \in 1 .. Len(rs) /\ Covers(rs[i], vcn))
  BY <1>1 DEF Finds
<1>3. e = IF cut THEN Append(rest, r) ELSE rest
  BY DEF Truncate
<1>4. rest \in Trees /\ Len(rest) = i - 1 /\ \A j \in 1 .. i - 1 : rest[j] = rs[j]
  <2>1. 1 \in 1 .. Len(rs) + 1 /\ i - 1 \in 1 - 1 .. Len(rs)
    BY <1>1, <1>2
  <2> HIDE DEF i, at
  <2>2. /\ rest \in Trees /\ Len(rest) = (i - 1) - 1 + 1
        /\ \A j \in 1 .. (i - 1) - 1 + 1 : rest[j] = rs[1 + j - 1]
    BY <2>1, SubFacts
  <2> QED BY <1>2, <2>2
<1> HIDE DEF at, i, rest, r
<1>5. cut => /\ r \in Runs /\ r.vcn = rs[i].vcn /\ r.lcn = rs[i].lcn /\ End(r) = vcn
  <2>1. at.found => rs[i] \in Runs /\ vcn <= End(rs[i])
    <3>1. at.found => i \in 1 .. Len(rs) /\ rs[i].vcn <= vcn /\ vcn < End(rs[i])
      BY <1>2 DEF Covers
    <3> QED BY <3>1, TreeFacts, TreeTypes
  <2>2. at.found => rs[i].vcn \in Nat
    BY <2>1, RunFacts
  <2> SUFFICES ASSUME cut PROVE r \in Runs /\ r.vcn = rs[i].vcn /\ r.lcn = rs[i].lcn /\ End(r) = vcn
    OBVIOUS
  <2>3. rs[i] \in Runs /\ vcn <= End(rs[i]) /\ rs[i].vcn < vcn
    BY <2>1, <2>2
  <2> QED BY <2>3, BeforeIsRun DEF r
<1> DEFINE n == IF cut THEN i ELSE i - 1
<1>6. e \in Trees /\ Len(e) = n /\ \A j \in 1 .. n : e[j] = IF j = i THEN r ELSE rs[j]
  <2>1. CASE cut
    <3>1. rest \in Seq(Runs) /\ r \in Runs
      BY <1>4, <1>5, <2>1 DEF Trees
    <3>2. /\ Append(rest, r) \in Seq(Runs) /\ Len(Append(rest, r)) = Len(rest) + 1
          /\ \A j \in 1 .. Len(rest) : Append(rest, r)[j] = rest[j]
          /\ Append(rest, r)[Len(rest) + 1] = r
      BY <3>1, AppendProperties
    <3>3. Len(rest) + 1 = i /\ i \in Nat /\ n = i
      BY <1>2, <1>4, <2>1
    <3> QED BY <1>3, <1>4, <2>1, <3>2, <3>3 DEF Trees
  <2>2. CASE ~ cut
    BY <1>2, <1>3, <1>4, <2>2
  <2> QED BY <2>1, <2>2
<1>7. n \in Nat /\ n <= Len(rs) /\ (n = i => cut) /\ (cut => n = i /\ i \in 1 .. Len(rs)) /\ n <= i
  BY <1>1, <1>2
<1> HIDE DEF n
<1>8. ASSUME NEW j \in 1 .. n
      PROVE  /\ j \in 1 .. Len(rs) /\ e[j].vcn = rs[j].vcn /\ e[j].lcn = rs[j].lcn
             /\ End(e[j]) <= vcn /\ End(e[j]) <= End(rs[j])
             /\ j < i => End(e[j]) = End(rs[j])
  <2>1. j \in 1 .. Len(rs)
    BY <1>1, <1>7
  <2>2. rs[j].vcn \in Nat /\ End(rs[j]) \in Nat
    BY <2>1, TreeTypes
  <2>3. CASE j = i
    <3>1. cut /\ e[j] = r
      BY <1>6, <1>7, <2>3
    <3>2. vcn < End(rs[j])
      BY <1>2, <2>3, <3>1 DEF Covers
    <3> QED BY <1>5, <2>1, <2>2, <2>3, <3>1, <3>2
  <2>4. CASE j # i
    <3>1. e[j] = rs[j] /\ j < i
      BY <1>2, <1>6, <1>7, <2>4
    <3>2. End(rs[j]) <= vcn
      <4>1. CASE at.found
        <5>1. End(rs[j]) <= rs[i].vcn /\ rs[i].vcn <= vcn /\ rs[i].vcn \in Nat
          BY <1>2, <2>1, <3>1, <4>1, OrderFacts DEF Covers
        <5> QED BY <2>2, <5>1
      <4>2. CASE ~ at.found
        BY <1>1, <2>1, <3>1, <4>2 DEF AtPlace, i
      <4> QED BY <4>1, <4>2
    <3> QED BY <2>1, <2>2, <3>1, <3>2
  <2> QED BY <2>3, <2>4
<1>9. InOrder(e)
  <2> SUFFICES ASSUME NEW a \in 1 .. n, NEW b \in 1 .. n, a < b PROVE End(e[a]) <= e[b].vcn
    BY <1>6, TreeFacts DEF InOrder
  <2>1. /\ a \in 1 .. Len(rs) /\ b \in 1 .. Len(rs) /\ End(e[a]) <= End(rs[a]) /\ e[b].vcn = rs[b].vcn
    BY <1>8
  <2>2. End(rs[a]) <= rs[b].vcn /\ End(rs[a]) \in Nat /\ rs[b].vcn \in Nat
    BY <2>1, OrderFacts
  <2>3. End(e[a]) \in Nat
    BY <1>6, TreeTypes
  <2> QED BY <2>1, <2>2, <2>3
<1> DEFINE V == {v \in Nat : v < vcn}
           g == [v \in V |-> v]
<1>10. Drawn(e, rs, V, g)
  <2>1. ASSUME NEW k \in 1 .. Len(e), NEW v \in Nat, Covers(e[k], v)
        PROVE  /\ v \in V
               /\ \E j \in 1 .. Len(rs) :
                    Covers(rs[j], g[v]) /\ At(e[k].lcn, v - e[k].vcn) = At(rs[j].lcn, g[v] - rs[j].vcn)
    <3>1. /\ k \in 1 .. Len(rs) /\ e[k].vcn = rs[k].vcn /\ e[k].lcn = rs[k].lcn
          /\ End(e[k]) <= vcn /\ End(e[k]) <= End(rs[k])
      BY <1>6, <1>8
    <3>2. End(e[k]) \in Nat /\ End(rs[k]) \in Nat
      BY <1>6, <3>1, TreeTypes
    <3>3. v < vcn /\ Covers(rs[k], v)
      BY <2>1, <3>1, <3>2 DEF Covers
    <3>4. v \in V /\ g[v] = v
      BY <3>3
    <3> QED BY <3>1, <3>3, <3>4
  <2>2. ASSUME NEW v \in V, NEW j \in 1 .. Len(rs), Covers(rs[j], g[v])
        PROVE  \E k \in 1 .. Len(e) : Covers(e[k], v)
    <3>1. v \in Nat /\ v < vcn /\ Covers(rs[j], v)
      BY <2>2
    <3>2. rs[j].vcn \in Nat /\ End(rs[j]) \in Nat
      BY TreeTypes
    <3>3. CASE j < i
      <4>1. j \in 1 .. n
        BY <1>2, <3>3 DEF n
      <4>2. Covers(e[j], v)
        BY <1>8, <3>1, <3>3, <4>1 DEF Covers
      <4> QED BY <1>6, <4>1, <4>2
    <3>4. CASE j >= i
      <4>1. CASE at.found
        <5>1. i \in 1 .. Len(rs) /\ rs[i].vcn <= vcn /\ vcn < End(rs[i])
              /\ rs[i].vcn \in Nat /\ End(rs[i]) \in Nat
          BY <1>2, <4>1, TreeTypes DEF Covers
        <5>2. j = i
          <6>1. i < j => End(rs[i]) <= rs[j].vcn
            BY <5>1, OrderFacts
          <6> QED BY <3>1, <3>2, <3>4, <5>1, <6>1 DEF Covers
        <5>3. cut /\ rs[i].vcn <= v
          BY <3>1, <4>1, <5>1, <5>2 DEF Covers
        <5>4. i \in 1 .. n /\ e[i].vcn = rs[i].vcn /\ e[i] = r
          BY <1>5, <1>6, <1>7, <5>1, <5>3
        <5>5. Covers(e[i], v)
          BY <1>5, <3>1, <5>3, <5>4 DEF Covers
        <5> QED BY <1>6, <5>4, <5>5
      <4>2. CASE ~ at.found
        <5>1. rs[j].vcn > vcn
          BY <1>1, <3>4, <4>2 DEF AtPlace, i
        <5> QED BY <3>1, <3>2, <5>1 DEF Covers
      <4> QED BY <4>1, <4>2
    <3> QED BY <1>2, <3>3, <3>4
  <2> HIDE DEF V, g
  <2> QED BY <2>1, <2>2 DEF Drawn
<1>11. \A v \in Nat : Location(e, v) = IF v \in V THEN Location(rs, g[v]) ELSE Unmapped
  <2>1. V \in SUBSET Nat /\ g \in [V -> Nat]
    OBVIOUS
  <2>2. e \in Trees
    BY <1>6
  <2> HIDE DEF V, g
  <2> QED BY <1>9, <1>10, <2>1, <2>2, DrawnShows
<1> QED BY <1>6, <1>9, <1>11

(* run_truncate_around forgets those before vcn, and when it keeps too     *)
(* many runs all from some later cluster on.                               *)
LEMMA TruncateAroundDrops ==
  ASSUME NEW rs \in Trees, InOrder(rs), NEW vcn \in Nat,
         NEW e, e = TruncateAround(rs, vcn)
  PROVE  /\ e \in Trees /\ InOrder(e)
         /\ \E last \in Vcns : \A v \in Vcns :
              Location(e, v) = IF v \in vcn .. last THEN Location(rs, v) ELSE Unmapped
<1> DEFINE t == TruncateHead(rs, vcn)
<1>1. /\ t \in Trees /\ InOrder(t)
      /\ \A v \in Nat : Location(t, v) = IF v < vcn THEN Unmapped ELSE Location(rs, v)
  BY TruncateHeadDrops
<1>2. e = IF Len(t) >= MaxRuns THEN Truncate(t, t[(Len(t) \div 2) + 1].vcn) ELSE t
  BY DEF TruncateAround
<1> HIDE DEF t
<1>3. LastVcn \in Nat /\ Vcns = 0 .. LastVcn
  BY RunTreeConstants DEF Vcns
<1>4. CASE Len(t) >= MaxRuns
  <2> DEFINE p == (Len(t) \div 2) + 1
             w == t[p].vcn
  <2>1. p \in 1 .. Len(t) /\ 1 \in 1 .. Len(t) /\ 1 < p
    <3>1. Len(t) \in Nat /\ MaxRuns \in Nat /\ MaxRuns >= 2
      BY <1>1, TreeFacts, RunTreeConstants
    <3>2. Len(t) >= 2
      BY <1>4, <3>1
    <3> QED BY <3>1, <3>2
  <2> HIDE DEF p
  <2>2. /\ End(t[1]) <= w /\ t[1].vcn < End(t[1]) /\ t[1].vcn \in Nat /\ End(t[1]) \in Nat
        /\ w \in Nat /\ w < End(t[p])
    BY <1>1, <2>1, OrderFacts
  <2>3. End(t[p]) \in Nat /\ End(t[p]) <= LastVcn + 1
    BY <1>1, <2>1, TreeTypes
  <2>4. w - 1 \in Vcns
    BY <1>3, <2>2, <2>3
  <2> HIDE DEF w
  <2>5. e = Truncate(t, w)
    BY <1>2, <1>4 DEF w, p
  <2>6. /\ e \in Trees /\ InOrder(e)
        /\ \A v \in Nat : Location(e, v) = IF v < w THEN Location(t, v) ELSE Unmapped
    BY <1>1, <2>2, <2>5, TruncateDrops
  <2>7. \A v \in Vcns : Location(e, v) = IF v \in vcn .. w - 1 THEN Location(rs, v) ELSE Unmapped
    <3> SUFFICES ASSUME NEW v \in Vcns
                 PROVE  Location(e, v) = IF v \in vcn .. w - 1 THEN Location(rs, v) ELSE Unmapped
      OBVIOUS
    <3>1. v \in Nat
      BY <1>3
    <3>2. Location(e, v) = IF v < w THEN Location(t, v) ELSE Unmapped
      BY <2>6, <3>1
    <3>3. Location(t, v) = IF v < vcn THEN Unmapped ELSE Location(rs, v)
      BY <1>1, <3>1
    <3> QED BY <2>2, <3>1, <3>2, <3>3
  <2> QED BY <2>4, <2>6, <2>7
<1>5. CASE ~ (Len(t) >= MaxRuns)
  <2>1. e = t
    BY <1>2, <1>5
  <2>2. \A v \in Vcns : Location(e, v) = IF v \in vcn .. LastVcn THEN Location(rs, v) ELSE Unmapped
    BY <1>1, <1>3, <2>1
  <2> QED BY <1>1, <1>3, <2>1, <2>2
<1> QED BY <1>4, <1>5
-----------------------------------------------------------------------------
(* The first run after eat that ends after the range: those before it are  *)
(* eaten.                                                                  *)
EatenFrom(rs, eat, end) == {j \in eat .. Len(rs) : End(rs[j]) <= end}
AfterEaten(eat, eaten) == Max({eat} \cup {j + 1 : j \in eaten})

(* The loop of run_collapse_range stops eating at the first run that ends  *)
(* after the range.                                                        *)
LEMMA EatenUpTo ==
  ASSUME NEW rs \in Trees, InOrder(rs), NEW eat \in 1 .. Len(rs) + 1, NEW end \in Nat,
         NEW eaten, eaten = EatenFrom(rs, eat, end),
         NEW p, p = AfterEaten(eat, eaten)
  PROVE  /\ p \in 1 .. Len(rs) + 1 /\ eat <= p
         /\ \A j \in 1 .. Len(rs) : /\ eat <= j /\ j < p => End(rs[j]) <= end
                                    /\ j >= p => End(rs[j]) > end
<1> DEFINE S == {eat} \cup {j + 1 : j \in eaten}
           T == {q \in Nat : \A x \in S : x <= q}
<1>0. eaten = {j \in eat .. Len(rs) : End(rs[j]) <= end} /\ p = Max(S)
  BY DEF EatenFrom, AfterEaten
<1>1. Len(rs) \in Nat
  BY TreeFacts
<1>2. S \in SUBSET Nat /\ \A x \in S : x <= Len(rs) + 1
  BY <1>0, <1>1
<1>3. PICK n \in T : \A k \in T : n <= k
  <2>1. Len(rs) + 1 \in T /\ T \in SUBSET Nat
    BY <1>1, <1>2
  <2> HIDE DEF T
  <2> QED BY <2>1, LeastExists
<1>4. n \in S
  <2> SUFFICES ASSUME n \notin S PROVE FALSE
    OBVIOUS
  <2>1. n \in Nat /\ \A x \in S : x < n
    BY <1>2
  <2>2. eat \in S /\ eat \in Nat
    BY <1>1
  <2>3. n - 1 \in Nat /\ \A x \in S : x <= n - 1
    BY <1>2, <2>1, <2>2
  <2>4. n - 1 \in T
    BY <2>3
  <2> QED BY <1>3, <2>1, <2>4
<1>5. p \in S /\ \A y \in S : p >= y
  <2>1. \A y \in S : n >= y
    BY <1>2
  <2>2. p = CHOOSE x \in S : \A y \in S : x >= y
    BY <1>0 DEF Max
  <2> HIDE DEF S, T
  <2> QED BY <1>4, <2>1, <2>2
<1>6. p \in 1 .. Len(rs) + 1 /\ eat <= p
  BY <1>1, <1>2, <1>5
<1>7. ASSUME NEW j \in 1 .. Len(rs), j >= p PROVE End(rs[j]) > end
  <2> SUFFICES ASSUME End(rs[j]) <= end PROVE FALSE
    BY TreeTypes
  <2>1. j \in eaten
    BY <1>0, <1>1, <1>6, <1>7
  <2>2. p >= j + 1
    BY <1>5, <2>1
  <2> QED BY <1>6, <1>7, <2>2
<1>8. ASSUME NEW j \in 1 .. Len(rs), eat <= j, j < p PROVE End(rs[j]) <= end
  <2>0. p \in S
    BY <1>5
  <2>9. p # eat
    BY <1>1, <1>6, <1>8
  <2>1. PICK q \in eaten : p = q + 1
    BY <2>0, <2>9
  <2>2. q \in 1 .. Len(rs) /\ End(rs[q]) <= end /\ j <= q
    BY <1>0, <1>1, <1>8, <2>1
  <2>3. j < q => End(rs[j]) <= rs[q].vcn
    BY <2>2, OrderFacts
  <2>4. End(rs[j]) \in Nat /\ End(rs[q]) \in Nat /\ rs[q].vcn \in Nat /\ rs[q].vcn < End(rs[q])
    BY <2>2, TreeTypes
  <2>5. j < q \/ j = q
    BY <2>2
  <2> QED BY <2>2, <2>3, <2>4, <2>5
<1> QED BY <1>6, <1>7, <1>8

(* What is left of a run after a range that is cut out of the file.        *)
Pulled(x, end, len) ==
  LET y == IF x.vcn >= end THEN x ELSE After(x, end) IN [y EXCEPT !.vcn = @ - len]

(* The run that is left lies where the range was cut out.                  *)
LEMMA PulledFacts ==
  ASSUME NEW x \in Runs, NEW vcn \in Nat, NEW len \in Nat \ {0}, End(x) > vcn + len,
         NEW y, y = Pulled(x, vcn + len, len)
  PROVE  /\ y \in Runs /\ y.vcn = (IF x.vcn >= vcn + len THEN x.vcn - len ELSE vcn)
         /\ End(y) = End(x) - len
         /\ \A v \in Nat : v >= y.vcn => At(y.lcn, v - y.vcn) = At(x.lcn, (v + len) - x.vcn)
<1> DEFINE end == vcn + len
           z == IF x.vcn >= end THEN x ELSE After(x, end)
<1>1. /\ x.vcn \in Nat /\ x.len \in Nat \ {0} /\ x.lcn \in Nat \cup {Sparse} /\ End(x) = x.vcn + x.len
      /\ End(x) <= LastVcn + 1 /\ LastVcn \in Nat /\ end \in Nat
  BY RunFacts
<1>2. /\ z \in Runs /\ End(z) = End(x) /\ z.vcn >= end /\ z.vcn >= x.vcn
      /\ z.vcn = IF x.vcn >= end THEN x.vcn ELSE end
      /\ z.lcn = At(x.lcn, z.vcn - x.vcn)
  <2>1. CASE x.vcn >= end
    <3>1. z = x /\ x.vcn - x.vcn = 0
      BY <1>1, <2>1
    <3>2. At(x.lcn, 0) = x.lcn
      BY <1>1 DEF At, Sparse
    <3> QED BY <1>1, <2>1, <3>1, <3>2
  <2>2. CASE ~ (x.vcn >= end)
    <3>1. z = After(x, end) /\ x.vcn <= end /\ end < End(x)
      BY <1>1, <2>2
    <3> HIDE DEF end, z
    <3>2. /\ After(x, end).vcn = end /\ After(x, end).lcn = At(x.lcn, end - x.vcn)
          /\ End(After(x, end)) = End(x) /\ After(x, end) \in Runs
      BY <1>1, <3>1, AfterIsRun
    <3> QED BY <1>1, <2>2, <3>1, <3>2
  <2> QED BY <2>1, <2>2
<1>3. y = [z EXCEPT !.vcn = z.vcn - len]
  BY DEF Pulled
<1> HIDE DEF z
<1>4. /\ z.vcn \in Nat /\ z.len \in Nat \ {0} /\ z.lcn \in Nat \cup {Sparse} /\ End(z) = z.vcn + z.len
      /\ End(z) <= LastVcn + 1
  BY <1>2, RunFacts
<1> DEFINE w == z.vcn - len
<1>5. y = Run(w, z.len, z.lcn)
  BY <1>2, <1>3 DEF Run, Runs
<1>6. w \in Nat /\ w + z.len <= LastVcn + 1 /\ w + z.len = End(x) - len
  BY <1>1, <1>2, <1>4
<1>7. y \in Runs /\ y.vcn = w /\ y.lcn = z.lcn /\ End(y) = w + z.len
  <2> DEFINE n == z.len
             l == z.lcn
  <2>1. w \in Nat /\ n \in Nat \ {0} /\ l \in Nat \cup {Sparse} /\ w + n <= LastVcn + 1
    BY <1>4, <1>6
  <2> HIDE DEF w, n, l
  <2>2. /\ Run(w, n, l) \in Runs /\ Run(w, n, l).vcn = w /\ Run(w, n, l).lcn = l
        /\ End(Run(w, n, l)) = w + n
    BY <2>1, RunIsRun
  <2> QED BY <1>5, <2>2 DEF n, l
<1>8. w = IF x.vcn >= vcn + len THEN x.vcn - len ELSE vcn
  BY <1>1, <1>2
<1>9. ASSUME NEW v \in Nat, v >= w PROVE At(z.lcn, v - w) = At(x.lcn, (v + len) - x.vcn)
  <2> DEFINE a == z.vcn - x.vcn
             b == v - w
             l == x.lcn
  <2>1. a \in Nat /\ b \in Nat /\ a + b = (v + len) - x.vcn
    BY <1>1, <1>2, <1>4, <1>6, <1>9
  <2>2. z.lcn = At(l, a) /\ l \in Nat \cup {Sparse}
    BY <1>1, <1>2
  <2> HIDE DEF a, b, l
  <2>3. At(At(l, a), b) = At(l, a + b)
    BY <2>1, <2>2, AtAt
  <2> QED BY <2>1, <2>2, <2>3 DEF b, l
<1> QED BY <1>6, <1>7, <1>8, <1>9

(* run_collapse_range, where no run has to be split: the clusters after    *)
(* the range follow those before it.                                       *)
LEMMA CollapsedMoves ==
  ASSUME NEW rs \in Trees, InOrder(rs), NEW vcn \in Nat, NEW len \in Nat \ {0},
         NEW at, at = Lookup(rs, vcn), at.found,
         rs[at.index].vcn < vcn /\ End(rs[at.index]) > vcn + len => rs[at.index].lcn = Sparse,
         NEW e, e = Collapsed(rs, vcn, len)
  PROVE  /\ e \in Trees /\ InOrder(e)
         /\ \A v \in Nat : Location(e, v) = Location(rs, IF v < vcn THEN v ELSE v + len)
<1> DEFINE i == at.index
           r == rs[i]
           end == vcn + len
           inner == vcn > r.vcn
           c == IF End(r) <= end THEN Before(r, vcn) ELSE [r EXCEPT !.len = @ - len]
           first == SubSeq(rs, 1, i - 1)
           head == first \o IF ~ inner THEN <<>> ELSE <<c>>
           eat == IF inner THEN i + 1 ELSE i
           eaten == {j \in eat .. Len(rs) : End(rs[j]) <= end}
           p == Max({eat} \cup {j + 1 : j \in eaten})
           rest == SubSeq(rs, p, Len(rs))
           tail == [j \in DOMAIN rest |-> Pulled(rest[j], end, len)]
           h == IF inner THEN i ELSE i - 1
<1>1. Finds(rs, vcn, at) /\ Len(rs) \in Nat
  BY LookupAnswers, TreeFacts
<1>2. /\ i \in 1 .. Len(rs) /\ r \in Runs /\ r.vcn <= vcn /\ vcn < End(r)
      /\ r.vcn \in Nat /\ End(r) \in Nat /\ end \in Nat
  <2>1. i \in 1 .. Len(rs) /\ r.vcn <= vcn /\ vcn < End(r)
    BY <1>1 DEF Finds, Covers
  <2>2. r \in Runs /\ r.vcn \in Nat /\ End(r) \in Nat
    BY <2>1, TreeFacts, TreeTypes
  <2> QED BY <2>1, <2>2
<1>3. inner /\ End(r) > end => r.lcn = Sparse
  BY <1>2
<1>4. e = head \o tail
  BY DEF Collapsed, Pulled
<1>5. inner => /\ c \in Runs /\ c.vcn = r.vcn /\ c.lcn = r.lcn
               /\ End(c) = IF End(r) <= end THEN vcn ELSE End(r) - len
  <2> SUFFICES ASSUME inner
               PROVE  /\ c \in Runs /\ c.vcn = r.vcn /\ c.lcn = r.lcn
                      /\ End(c) = IF End(r) <= end THEN vcn ELSE End(r) - len
    OBVIOUS
  <2>1. CASE End(r) <= end
    <3>1. r \in Runs /\ r.vcn < vcn /\ vcn <= End(r)
      BY <1>2
    <3>2. c = Before(r, vcn)
      BY <2>1
    <3> HIDE DEF r, c
    <3> QED BY <2>1, <3>1, <3>2, BeforeIsRun
  <2>2. CASE ~ (End(r) <= end)
    <3>1. /\ r.len \in Nat \ {0} /\ End(r) = r.vcn + r.len /\ End(r) <= LastVcn + 1
          /\ r.lcn \in Nat \cup {Sparse} /\ r.vcn \in Nat
      BY <1>2, RunFacts
    <3> DEFINE a == r.vcn
               n == r.len - len
               l == r.lcn
    <3>2. c = Run(a, n, l)
      BY <1>2, <2>2 DEF Run, Runs
    <3>3. a \in Nat /\ l \in Nat \cup {Sparse}
      BY <3>1
    <3>5. LastVcn \in Nat
      BY RunTreeConstants
    <3> DEFINE m == r.len
               w == End(r)
    <3>6. /\ m \in Nat \ {0} /\ w = a + m /\ w <= LastVcn + 1 /\ a <= vcn /\ vcn + len < w
      BY <1>2, <2>2, <3>1
    <3>7. n = m - len
      OBVIOUS
    <3> HIDE DEF c, a, n, l, m, w, r
    <3>8. n \in Nat \ {0} /\ a + n = w - len /\ a + n <= LastVcn + 1
      BY <3>3, <3>5, <3>6, <3>7
    <3>4. Run(a, n, l) \in Runs /\ Run(a, n, l).vcn = a /\ Run(a, n, l).lcn = l /\ End(Run(a, n, l)) = a + n
      BY <3>3, <3>8, RunIsRun
    <3>9. c \in Runs /\ c.vcn = a /\ c.lcn = l /\ End(c) = w - len
      BY <3>2, <3>4, <3>8
    <3> QED BY <2>2, <3>9 DEF a, l, w
  <2> QED BY <2>1, <2>2
<1> HIDE DEF c
<1>6. /\ head \in Trees /\ Len(head) = h
      /\ \A j \in 1 .. h : head[j] = IF j = i THEN c ELSE rs[j]
  <2> DEFINE second == IF ~ inner THEN <<>> ELSE <<c>>
  <2>1. first \in Trees /\ Len(first) = i - 1 /\ \A j \in 1 .. i - 1 : first[j] = rs[j]
    <3>1. 1 \in 1 .. Len(rs) + 1 /\ i - 1 \in 1 - 1 .. Len(rs)
      BY <1>1, <1>2
    <3> HIDE DEF i
    <3>2. /\ first \in Trees /\ Len(first) = (i - 1) - 1 + 1
          /\ \A j \in 1 .. (i - 1) - 1 + 1 : first[j] = rs[1 + j - 1]
      BY <3>1, SubFacts
    <3> QED BY <1>2, <3>2
  <2>2. second \in Seq(Runs) /\ Len(second) = (IF inner THEN 1 ELSE 0) /\ (inner => second[1] = c)
    BY <1>5
  <2>3. first \in Seq(Runs)
    BY <2>1 DEF Trees
  <2> HIDE DEF first, second, inner, i
  <2>4. /\ first \o second \in Seq(Runs) /\ Len(first \o second) = Len(first) + Len(second)
        /\ \A j \in 1 .. Len(first) + Len(second) :
             (first \o second)[j] = IF j <= Len(first) THEN first[j] ELSE second[j - Len(first)]
    BY <2>2, <2>3, ConcatProperties
  <2>5. head = first \o second
    BY DEF second
  <2>6. h = Len(first) + Len(second) /\ Len(first) = i - 1 /\ i \in Nat \ {0}
    BY <1>2, <2>1, <2>2
  <2> HIDE DEF head, h
  <2>7. head \in Trees /\ Len(head) = h
    BY <2>4, <2>5, <2>6 DEF Trees
  <2>8. ASSUME NEW j \in 1 .. h PROVE head[j] = IF j = i THEN c ELSE rs[j]
    <3>1. head[j] = IF j <= Len(first) THEN first[j] ELSE second[j - Len(first)]
      BY <2>4, <2>5, <2>6
    <3>2. CASE j < i
      <4>1. j \in 1 .. i - 1 /\ j <= Len(first) /\ j # i
        BY <2>6, <3>2
      <4> QED BY <2>1, <3>1, <4>1
    <3>3. CASE ~ (j < i)
      <4>1. j = i /\ inner /\ ~ (j <= Len(first)) /\ j - Len(first) = 1
        BY <2>2, <2>6, <3>3
      <4> QED BY <2>2, <3>1, <4>1
    <3> QED BY <3>2, <3>3
  <2> QED BY <2>7, <2>8
<1>7. eat \in 1 .. Len(rs) + 1 /\ h \in Nat /\ h + 1 = eat /\ h <= i
  <2>1. i \in 1 .. Len(rs) /\ Len(rs) \in Nat
    BY <1>1, <1>2
  <2>2. CASE inner
    <3>1. eat = i + 1 /\ h = i
      BY <2>2
    <3> HIDE DEF i, inner, eat, h
    <3> QED BY <2>1, <3>1
  <2>3. CASE ~ inner
    <3>1. eat = i /\ h = i - 1
      BY <2>3
    <3> HIDE DEF i, inner, eat, h
    <3> QED BY <2>1, <3>1
  <2> QED BY <2>2, <2>3
<1>8. /\ p \in 1 .. Len(rs) + 1 /\ eat <= p
      /\ \A j \in 1 .. Len(rs) : /\ eat <= j /\ j < p => End(rs[j]) <= end
                                 /\ j >= p => End(rs[j]) > end
  <2>1. eaten = EatenFrom(rs, eat, end) /\ p = AfterEaten(eat, eaten)
    BY DEF EatenFrom, AfterEaten
  <2>2. end \in Nat
    BY <1>2
  <2>3. eat \in 1 .. Len(rs) + 1
    BY <1>7
  <2> HIDE DEF eat, eaten, p, end
  <2> QED BY ONLY rs \in Trees, InOrder(rs), <2>1, <2>2, <2>3, EatenUpTo
<1> HIDE DEF head, eat, eaten, p
<1>9. /\ rest \in Trees /\ Len(rest) = Len(rs) - p + 1
      /\ \A j \in 1 .. Len(rs) - p + 1 : rest[j] = rs[p + j - 1]
  <2>1. Len(rs) \in p - 1 .. Len(rs)
    BY <1>1, <1>8
  <2> QED BY <1>8, <2>1, SubFacts
<1> HIDE DEF rest
<1>10. ASSUME NEW x \in Runs, End(x) > end
       PROVE  LET y == Pulled(x, end, len) IN
              /\ y \in Runs /\ y.vcn = (IF x.vcn >= end THEN x.vcn - len ELSE vcn)
              /\ End(y) = End(x) - len
              /\ \A v \in Nat : v >= y.vcn => At(y.lcn, v - y.vcn) = At(x.lcn, (v + len) - x.vcn)
  BY <1>10, PulledFacts
<1>11. ASSUME NEW j \in 1 .. Len(rs) - p + 1
       PROVE  p + j - 1 \in 1 .. Len(rs) /\ p + j - 1 >= p /\ rs[p + j - 1] \in Runs /\ End(rs[p + j - 1]) > end
  <2>1. p + j - 1 \in 1 .. Len(rs) /\ p + j - 1 >= p
    BY <1>1, <1>8
  <2> QED BY <1>8, <2>1, TreeFacts
<1>12. /\ tail \in Trees /\ Len(tail) = Len(rs) - p + 1
       /\ \A j \in 1 .. Len(rs) - p + 1 : tail[j] = Pulled(rs[p + j - 1], end, len)
  <2>1. DOMAIN rest = 1 .. Len(rs) - p + 1 /\ Len(rs) - p + 1 \in Nat
    BY <1>1, <1>8, <1>9, TreeFacts
  <2>2. \A j \in 1 .. Len(rs) - p + 1 : Pulled(rest[j], end, len) \in Runs
    BY <1>9, <1>10, <1>11
  <2>3. tail \in [1 .. Len(rs) - p + 1 -> Runs]
    BY <2>1, <2>2
  <2>4. \A j \in 1 .. Len(rs) - p + 1 : tail[j] = Pulled(rs[p + j - 1], end, len)
    BY <1>9, <2>1
  <2> HIDE DEF tail
  <2> QED BY <2>1, <2>3, <2>4 DEF Trees
<1> HIDE DEF tail
<1> DEFINE n == h + (Len(rs) - p + 1)
           Old(k) == IF k <= h THEN k ELSE p + (k - h) - 1
<1>13. /\ e \in Trees /\ Len(e) = n
       /\ \A k \in 1 .. n : e[k] = IF k <= h THEN head[k] ELSE tail[k - h]
  <2>1. head \in Seq(Runs) /\ tail \in Seq(Runs)
    BY <1>6, <1>12 DEF Trees
  <2>2. /\ head \o tail \in Seq(Runs) /\ Len(head \o tail) = Len(head) + Len(tail)
        /\ \A j \in 1 .. Len(head) + Len(tail) :
             (head \o tail)[j] = IF j <= Len(head) THEN head[j] ELSE tail[j - Len(head)]
    BY <2>1, ConcatProperties
  <2> HIDE DEF h
  <2> QED BY <1>4, <1>6, <1>12, <2>2 DEF Trees
<1>14. ASSUME NEW k \in 1 .. n
       PROVE  Old(k) \in 1 .. Len(rs) /\ (k > h => Old(k) >= p)
  <2>1. p \in 1 .. Len(rs) + 1 /\ h \in Nat /\ h + 1 <= p /\ Len(rs) \in Nat
    BY <1>1, <1>7, <1>8
  <2> HIDE DEF h
  <2> QED BY <2>1
<1>15. \A a, b \in 1 .. n : a < b => Old(a) < Old(b)
  <2>1. p \in 1 .. Len(rs) + 1 /\ h \in Nat /\ h + 1 <= p /\ Len(rs) \in Nat
    BY <1>1, <1>7, <1>8
  <2> HIDE DEF h
  <2> SUFFICES ASSUME NEW a \in 1 .. n, NEW b \in 1 .. n, a < b PROVE Old(a) < Old(b)
    OBVIOUS
  <2>2. CASE b <= h
    BY <2>1, <2>2
  <2>3. CASE a <= h /\ b > h
    BY <2>1, <2>3
  <2>4. CASE a > h
    BY <2>1, <2>4
  <2> QED BY <2>1, <2>2, <2>3, <2>4
<1>16. ASSUME NEW k \in 1 .. n, k <= h
       PROVE  /\ Old(k) = k /\ e[k].vcn = rs[k].vcn /\ e[k].lcn = rs[k].lcn /\ End(e[k]) <= End(rs[k])
              /\ \/ End(e[k]) <= vcn
                 \/ k = i /\ End(e[k]) = End(rs[k]) - len /\ e[k].lcn = Sparse
              /\ k < i => End(e[k]) = End(rs[k])
              /\ k = i => inner /\ (End(r) <= end => End(e[k]) = vcn)
  <2>1. k \in 1 .. Len(rs) /\ e[k] = head[k] /\ head[k] = IF k = i THEN c ELSE rs[k]
    BY <1>6, <1>13, <1>14, <1>16
  <2>2. End(rs[k]) \in Nat
    BY <2>1, TreeTypes
  <2>3. CASE k = i
    <3>1. inner
      BY <1>2, <1>16, <2>3
    <3>2. e[k] = c /\ rs[k] = r
      BY <2>1, <2>3
    <3>3. c.vcn = r.vcn /\ c.lcn = r.lcn /\ End(c) = IF End(r) <= end THEN vcn ELSE End(r) - len
      BY <1>5, <3>1
    <3>4. CASE End(r) <= end
      <4>1. End(c) = vcn
        BY <3>3, <3>4
      <4> QED BY <1>2, <1>16, <2>3, <3>1, <3>2, <3>3, <3>4, <4>1
    <3>5. CASE ~ (End(r) <= end)
      <4>1. End(c) = End(r) - len /\ r.lcn = Sparse
        BY <1>2, <1>3, <3>1, <3>3, <3>5
      <4> QED BY <1>2, <1>16, <2>3, <3>1, <3>2, <3>3, <3>5, <4>1
    <3> QED BY <3>4, <3>5
  <2>4. CASE k # i
    <3>1. k < i /\ e[k] = rs[k]
      BY <1>2, <1>7, <1>16, <2>1, <2>4
    <3>2. End(rs[k]) <= r.vcn
      BY <1>2, <2>1, <3>1, OrderFacts
    <3> QED BY <1>2, <1>16, <2>2, <2>4, <3>1, <3>2
  <2> QED BY <2>3, <2>4
<1>17. ASSUME NEW k \in 1 .. n, k > h
       PROVE  LET x == rs[Old(k)] IN
              /\ e[k].vcn = (IF x.vcn >= end THEN x.vcn - len ELSE vcn)
              /\ End(e[k]) = End(x) - len
              /\ \A v \in Nat : v >= e[k].vcn => At(e[k].lcn, v - e[k].vcn) = At(x.lcn, (v + len) - x.vcn)
  <2> DEFINE j == k - h
             x == rs[Old(k)]
  <2>0. p \in 1 .. Len(rs) + 1 /\ h \in Nat /\ Len(rs) \in Nat
    BY <1>1, <1>7, <1>8
  <2>1. j \in 1 .. Len(rs) - p + 1 /\ Old(k) = p + j - 1
    <3> HIDE DEF h
    <3> QED BY <1>17, <2>0
  <2>2. e[k] = tail[j]
    <3>1. ~ (k <= h)
      <4> HIDE DEF h
      <4> QED BY <1>17, <2>0
    <3> QED BY <1>13, <3>1
  <2> HIDE DEF j, Old
  <2>3. e[k] = Pulled(x, end, len) /\ x \in Runs /\ End(x) > end
    BY <1>11, <1>12, <2>1, <2>2
  <2> HIDE DEF x
  <2>4. /\ e[k].vcn = (IF x.vcn >= end THEN x.vcn - len ELSE vcn)
        /\ End(e[k]) = End(x) - len
        /\ \A v \in Nat : v >= e[k].vcn => At(e[k].lcn, v - e[k].vcn) = At(x.lcn, (v + len) - x.vcn)
    BY <1>10, <2>3
  <2> QED BY <2>4 DEF x
<1>18. ASSUME NEW k \in 1 .. n
       PROVE  /\ e[k].vcn \in Nat /\ End(e[k]) \in Nat
              /\ rs[Old(k)].vcn \in Nat /\ End(rs[Old(k)]) \in Nat
              /\ rs[Old(k)].lcn \in Nat \cup {Sparse}
              /\ rs[Old(k)].vcn < End(rs[Old(k)])
  BY <1>13, <1>14, TreeTypes
<1> HIDE DEF n, Old
<1>19. InOrder(e)
  <2> SUFFICES ASSUME NEW a \in 1 .. n, NEW b \in 1 .. n, a < b PROVE End(e[a]) <= e[b].vcn
    BY <1>13, TreeFacts DEF InOrder
  <2>1. End(rs[Old(a)]) <= rs[Old(b)].vcn
    BY <1>14, <1>15, OrderFacts
  <2>2. /\ e[b].vcn \in Nat /\ End(e[a]) \in Nat /\ rs[Old(b)].vcn \in Nat /\ End(rs[Old(a)]) \in Nat
    BY <1>18
  <2>3. CASE b <= h
    <3>1. a <= h
      BY <1>7, <2>3
    <3> QED BY <1>16, <2>1, <2>2, <2>3, <3>1
  <2>4. CASE b > h
    <3>1. e[b].vcn = IF rs[Old(b)].vcn >= end THEN rs[Old(b)].vcn - len ELSE vcn
      BY <1>17, <2>4
    <3>2. e[b].vcn >= vcn /\ e[b].vcn >= rs[Old(b)].vcn - len
      BY <2>2, <3>1
    <3>3. CASE a <= h
      <4>1. End(e[a]) <= vcn \/ End(e[a]) = End(rs[Old(a)]) - len
        BY <1>16, <3>3
      <4> QED BY <2>1, <2>2, <3>2, <4>1
    <3>4. CASE a > h
      <4>1. End(e[a]) = End(rs[Old(a)]) - len
        BY <1>17, <3>4
      <4> QED BY <2>1, <2>2, <3>2, <4>1
    <3> QED BY <1>7, <3>3, <3>4
  <2> QED BY <1>7, <2>3, <2>4
<1> DEFINE g == [v \in Nat |-> IF v < vcn THEN v ELSE v + len]
<1>20. Drawn(e, rs, Nat, g)
  <2>1. ASSUME NEW k \in 1 .. n, NEW v \in Nat, Covers(e[k], v)
        PROVE  \E j \in 1 .. Len(rs) :
                 Covers(rs[j], g[v]) /\ At(e[k].lcn, v - e[k].vcn) = At(rs[j].lcn, g[v] - rs[j].vcn)
    <3> DEFINE j == Old(k)
    <3>1. /\ j \in 1 .. Len(rs) /\ e[k].vcn \in Nat /\ End(e[k]) \in Nat
          /\ rs[j].vcn \in Nat /\ End(rs[j]) \in Nat
      BY <1>14, <1>18
    <3> HIDE DEF j
    <3>2. e[k].vcn <= v /\ v < End(e[k])
      BY <2>1 DEF Covers
    <3>3. CASE k <= h
      <4>1. /\ e[k].vcn = rs[j].vcn /\ e[k].lcn = rs[j].lcn /\ End(e[k]) <= End(rs[j])
            /\ End(e[k]) <= vcn \/ (End(e[k]) = End(rs[j]) - len /\ e[k].lcn = Sparse)
        BY <1>16, <3>3 DEF j
      <4>2. CASE v < vcn
        <5>1. rs[j].vcn <= v /\ v < End(rs[j])
          BY <3>1, <3>2, <4>1
        <5>2. g[v] = v /\ Covers(rs[j], v)
          BY <4>2, <5>1 DEF Covers
        <5>3. j \in 1 .. Len(rs)
          BY <3>1
        <5> HIDE DEF g
        <5> QED BY <4>1, <5>2, <5>3
      <4>3. CASE ~ (v < vcn)
        <5>1. End(e[k]) = End(rs[j]) - len /\ e[k].lcn = Sparse
          BY <3>1, <3>2, <4>1, <4>3
        <5>2. g[v] = v + len /\ Covers(rs[j], v + len)
          <6>1. rs[j].vcn <= v + len /\ v + len < End(rs[j])
            BY <1>1, <3>1, <3>2, <4>1, <5>1
          <6>2. g[v] = v + len
            BY <4>3
          <6> HIDE DEF g
          <6> QED BY <6>1, <6>2 DEF Covers
        <5> HIDE DEF g
        <5>3. At(e[k].lcn, v - e[k].vcn) = Sparse /\ At(rs[j].lcn, g[v] - rs[j].vcn) = Sparse
          BY <4>1, <5>1 DEF At
        <5> QED BY <3>1, <5>2, <5>3
      <4> QED BY <4>2, <4>3
    <3>4. CASE k > h
      <4>1. /\ e[k].vcn = (IF rs[j].vcn >= end THEN rs[j].vcn - len ELSE vcn)
            /\ End(e[k]) = End(rs[j]) - len
            /\ At(e[k].lcn, v - e[k].vcn) = At(rs[j].lcn, (v + len) - rs[j].vcn)
        BY <1>17, <3>2, <3>4 DEF j
      <4> DEFINE x == rs[j].vcn
                 y == End(rs[j])
      <4>5. /\ x \in Nat /\ y \in Nat /\ v < y - len
            /\ (IF x >= end THEN x - len ELSE vcn) <= v
        BY <3>1, <3>2, <4>1
      <4>6. end \in Nat /\ end = vcn + len
        OBVIOUS
      <4> HIDE DEF x, y, end
      <4>2. v >= vcn /\ x <= v + len /\ v + len < y
        BY <4>5, <4>6
      <4>3. g[v] = v + len /\ Covers(rs[j], v + len)
        <5>1. g[v] = v + len
          BY <4>2
        <5> HIDE DEF g
        <5> QED BY <4>2, <5>1 DEF Covers, x, y
      <4> HIDE DEF g
      <4> QED BY <3>1, <4>1, <4>3
    <3> QED BY <1>7, <3>3, <3>4
  <2>2. ASSUME NEW v \in Nat, NEW j \in 1 .. Len(rs), Covers(rs[j], g[v])
        PROVE  \E k \in 1 .. n : Covers(e[k], v)
    <3>1. rs[j].vcn \in Nat /\ End(rs[j]) \in Nat
      BY TreeTypes
    <3>2. i < j => End(r) <= rs[j].vcn
      BY <1>2, OrderFacts
    <3>3. j < i => End(rs[j]) <= r.vcn
      BY <1>2, OrderFacts
    <3>4. CASE v < vcn
      <4>1. rs[j].vcn <= v /\ v < End(rs[j])
        <5>1. g[v] = v
          BY <3>4
        <5> HIDE DEF g
        <5> QED BY <2>2, <5>1 DEF Covers
      <4>2. j <= i /\ (j = i => inner)
        BY <1>2, <3>1, <3>2, <3>4, <4>1
      <4>3. j \in 1 .. n /\ j <= h
        BY <1>1, <1>2, <1>8, <4>2 DEF n
      <4>4. e[j].vcn = rs[j].vcn /\ (End(e[j]) = End(rs[j]) \/ End(e[j]) >= vcn)
        <5>1. e[j].vcn = rs[j].vcn /\ (j < i => End(e[j]) = End(rs[j]))
          BY <1>16, <4>3
        <5>2. j = i => End(e[j]) >= vcn
          <6> SUFFICES ASSUME j = i PROVE End(e[j]) >= vcn
            OBVIOUS
          <6>2. inner /\ j \in 1 .. h
            BY <4>2, <4>3
          <6>3. e[j] = c
            BY <1>6, <1>13, <4>3, <6>2
          <6>1. End(e[j]) = IF End(r) <= end THEN vcn ELSE End(r) - len
            BY <1>5, <6>2, <6>3
          <6> QED BY <1>2, <6>1
        <5> QED BY <1>2, <4>2, <5>1, <5>2
      <4>5. End(e[j]) \in Nat
        BY <1>18, <4>3
      <4>6. Covers(e[j], v)
        BY <3>1, <3>4, <4>1, <4>4, <4>5 DEF Covers
      <4> QED BY <4>3, <4>6
    <3>5. CASE ~ (v < vcn)
      <4>1. rs[j].vcn <= v + len /\ v + len < End(rs[j])
        BY <2>2, <3>5 DEF Covers
      <4>2. End(rs[j]) > end
        BY <3>1, <3>5, <4>1
      <4>3. CASE j >= p
        <5> DEFINE k == h + (j - p + 1)
        <5>1. k \in 1 .. n /\ k > h /\ Old(k) = j
          <6>1. p \in 1 .. Len(rs) + 1 /\ h \in Nat /\ Len(rs) \in Nat
            BY <1>1, <1>7, <1>8
          <6> HIDE DEF h
          <6> QED BY <4>3, <6>1 DEF n, Old
        <5> HIDE DEF k
        <5>2. e[k].vcn = (IF rs[j].vcn >= end THEN rs[j].vcn - len ELSE vcn) /\ End(e[k]) = End(rs[j]) - len
          BY <1>17, <5>1
        <5>3. Covers(e[k], v)
          BY <3>1, <3>5, <4>1, <5>2 DEF Covers
        <5> QED BY <5>1, <5>3
      <4>4. CASE j < p
        <5>1. j <= h
          <6>1. ~ (eat <= j)
            BY <1>8, <3>1, <4>2, <4>4, <1>2
          <6> QED BY <1>7, <6>1
        <5>2. j = i /\ inner
          <6>1. ~ (j < i)
            BY <1>2, <3>1, <3>3, <4>2
          <6>2. j = i
            BY <1>2, <1>7, <5>1, <6>1
          <6> QED BY <1>2, <5>1, <6>2
        <5>3. j \in 1 .. n
          BY <1>1, <1>2, <1>8, <5>1 DEF n
        <5>4. e[j] = c /\ End(c) = End(r) - len /\ c.vcn = r.vcn
          BY <1>2, <1>5, <1>6, <1>13, <4>2, <5>1, <5>2, <5>3
        <5>5. Covers(e[j], v)
          BY <1>2, <3>5, <4>1, <5>2, <5>4 DEF Covers
        <5> QED BY <5>3, <5>5
      <4> QED BY <1>8, <4>3, <4>4
    <3> QED BY <3>4, <3>5
  <2>3. Len(e) = n
    BY <1>13
  <2> HIDE DEF g
  <2> QED BY <2>1, <2>2, <2>3 DEF Drawn
<1>21. \A v \in Nat : Location(e, v) = Location(rs, g[v])
  <2>1. g \in [Nat -> Nat]
    OBVIOUS
  <2>2. e \in Trees
    BY <1>13
  <2> HIDE DEF g
  <2>3. \A v \in Nat : Location(e, v) = IF v \in Nat THEN Location(rs, g[v]) ELSE Unmapped
    BY <1>19, <1>20, <2>1, <2>2, DrawnShows
  <2> QED BY <2>3
<1> QED BY <1>13, <1>19, <1>21

(* run_lookup finds a run exactly for the clusters that have a location.   *)
LEMMA FoundIsMapped ==
  ASSUME NEW rs \in Trees, InOrder(rs), NEW vcn \in Nat, NEW at, at = Lookup(rs, vcn)
  PROVE  /\ at.found => /\ at.index \in 1 .. Len(rs) /\ Covers(rs[at.index], vcn)
                        /\ Location(rs, vcn) = At(rs[at.index].lcn, vcn - rs[at.index].vcn)
         /\ at.found <=> Location(rs, vcn) # Unmapped
         /\ ~ at.found => /\ at.index \in 1 .. Len(rs) + 1
                          /\ \A i \in 1 .. Len(rs) : i < at.index <=> rs[i].vcn <= vcn
<1>1. Finds(rs, vcn, at) /\ AtPlace(rs, vcn, at) /\ Len(rs) \in Nat
  BY LookupAnswers, TreeFacts
<1>2. CASE at.found
  <2>1. at.index \in 1 .. Len(rs) /\ Covers(rs[at.index], vcn)
    BY <1>1, <1>2 DEF Finds
  <2>2. Location(rs, vcn) = At(rs[at.index].lcn, vcn - rs[at.index].vcn)
    BY <2>1, LocationInOrder
  <2>3. Location(rs, vcn) # Unmapped
    BY <2>1, LocationInOrder
  <2> QED BY <1>2, <2>1, <2>2, <2>3
<1>3. CASE ~ at.found
  <2>1. at.index \in 1 .. Len(rs) + 1
    BY <1>1, <1>3 DEF Finds
  <2>2. \A i \in 1 .. Len(rs) : /\ i < at.index => End(rs[i]) <= vcn
                                /\ i >= at.index => rs[i].vcn > vcn
    BY <1>1, <1>3 DEF AtPlace
  <2>3. \A i \in 1 .. Len(rs) : rs[i].vcn \in Nat /\ End(rs[i]) \in Nat /\ rs[i].vcn < End(rs[i])
    BY TreeTypes
  <2>4. \A i \in 1 .. Len(rs) : ~ Covers(rs[i], vcn)
    BY <2>1, <2>2, <2>3 DEF Covers
  <2>5. Location(rs, vcn) = Unmapped
    BY <2>4, LocationInOrder
  <2>6. \A i \in 1 .. Len(rs) : i < at.index <=> rs[i].vcn <= vcn
    BY <2>1, <2>2, <2>3
  <2> QED BY <1>3, <2>1, <2>5, <2>6
<1> QED BY <1>2, <1>3

(* What an operation leaves of the locations: the range is gone, or it is  *)
(* a hole as far as the memory went.                                       *)
Collapses(e, rs, vcn, len) ==
  \A v \in Nat : Location(e, v) = Location(rs, IF v < vcn THEN v ELSE v + len)
BreaksOff(e, rs, vcn, lcn) ==
  \A v \in Nat : \/ Location(e, v) = Location(rs, v)
                 \/ v >= vcn /\ Location(e, v) \in {Unmapped, At(lcn, v - vcn)}

(* run_collapse_range, with the hole that splits a run when the range lies *)
(* inside: the range is gone, or memory ran out as in run_add_entry.       *)
LEMMA CollapseRangeKeeps ==
  ASSUME NEW rs \in Trees, InOrder(rs), NEW room \in Nat, NEW vcn \in Nat, NEW len \in Nat \ {0},
         vcn + len <= LastVcn + 1, NEW n, n = CollapseRange(rs, room, vcn, len)
  PROVE  /\ n.runs \in Trees /\ InOrder(n.runs)
         /\ n.runs = rs \/ Collapses(n.runs, rs, vcn, len) \/ BreaksOff(n.runs, rs, vcn, Sparse)
<1> DEFINE at == Lookup(rs, vcn)
           r == rs[at.index]
           splits == at.found /\ vcn > r.vcn /\ End(r) > vcn + len /\ r.lcn # Sparse
           hole == Run(vcn, len, Sparse)
           a == Addition(rs, room, hole)
           added == AddEntry[a]
<1>1. n = IF ~ splits THEN Result(TRUE, Collapsed(rs, vcn, len), room)
          ELSE IF ~ added.ok THEN added
          ELSE Result(TRUE, Collapsed(added.runs, vcn, len), added.room)
  BY DEF CollapseRange
<1>2. CASE ~ splits /\ ~ at.found
  <2>1. n.runs = Collapsed(rs, vcn, len)
    BY <1>1, <1>2 DEF Result
  <2>2. Collapsed(rs, vcn, len) = rs
    BY <1>2 DEF Collapsed
  <2> QED BY <2>1, <2>2
<1>3. CASE ~ splits /\ at.found
  <2> DEFINE e == n.runs
  <2>1. e = Collapsed(rs, vcn, len)
    BY <1>1, <1>3 DEF Result
  <2>2. at = Lookup(rs, vcn) /\ at.found
    BY <1>3
  <2>3. rs[at.index].vcn < vcn /\ End(rs[at.index]) > vcn + len => rs[at.index].lcn = Sparse
    BY <1>3
  <2> HIDE DEF e, at
  <2>4. /\ e \in Trees /\ InOrder(e)
        /\ \A v \in Nat : Location(e, v) = Location(rs, IF v < vcn THEN v ELSE v + len)
    BY <2>1, <2>2, <2>3, CollapsedMoves
  <2>5. Collapses(e, rs, vcn, len)
    BY <2>4 DEF Collapses
  <2> QED BY <2>4, <2>5 DEF e
<1>4. CASE splits
  <2>1. hole \in Runs /\ hole.vcn = vcn /\ hole.len = len /\ hole.lcn = Sparse
    <3> DEFINE l == Sparse
    <3>1. l \in Nat \cup {Sparse}
      OBVIOUS
    <3> HIDE DEF l
    <3>2. /\ Run(vcn, len, l) \in Runs
          /\ Run(vcn, len, l).vcn = vcn /\ Run(vcn, len, l).len = len /\ Run(vcn, len, l).lcn = l
      BY <3>1, RunIsRun
    <3> QED BY <3>2 DEF l
  <2> HIDE DEF hole
  <2>2. /\ a \in Additions /\ a.runs = rs /\ a.room = room /\ a.vcn = vcn /\ a.lcn = Sparse /\ a.len = len
    BY <2>1, AdditionIs
  <2> HIDE DEF a
  <2>3. Keeps(a, added)
    BY <2>2, AddEntryKeeps
  <2> HIDE DEF added
  <2>4. added.runs \in Trees /\ InOrder(added.runs)
    BY <2>3 DEF Keeps
  <2>5. CASE ~ added.ok
    <3>1. n = added
      BY <1>1, <1>4, <2>5
    <3>2. BreaksOff(added.runs, rs, vcn, Sparse)
      BY <2>2, <2>3, <2>5 DEF Keeps, BreaksOff
    <3> QED BY <2>4, <3>1, <3>2
  <2>6. CASE added.ok
    <3> DEFINE m == added.runs
               to == Lookup(m, vcn)
               e == n.runs
    <3>1. e = Collapsed(m, vcn, len)
      BY <1>1, <1>4, <2>6 DEF Result
    <3>2. Replaced(m, rs, vcn, vcn + len, Sparse)
      BY <2>2, <2>3, <2>6 DEF Keeps
    <3>3. \A v \in Nat : Location(m, v) = IF vcn <= v /\ v < vcn + len THEN At(Sparse, v - vcn) ELSE Location(rs, v)
      BY <3>2 DEF Replaced
    <3>4. Location(m, vcn) = Sparse
      BY <3>3 DEF At
    <3>5. m \in Trees /\ InOrder(m) /\ to = Lookup(m, vcn)
      BY <2>4
    <3> HIDE DEF m, to, e
    <3>6. to.found
      <4>1. to.found <=> Location(m, vcn) # Unmapped
        BY <3>5, FoundIsMapped
      <4> QED BY <3>4, <4>1 DEF Sparse, Unmapped
    <3>7. /\ to.index \in 1 .. Len(m) /\ Covers(m[to.index], vcn)
          /\ Location(m, vcn) = At(m[to.index].lcn, vcn - m[to.index].vcn)
      BY <3>5, <3>6, FoundIsMapped
    <3>8. m[to.index].lcn = Sparse
      <4> DEFINE l == m[to.index].lcn
                 d == vcn - m[to.index].vcn
      <4>1. l \in Nat \cup {Sparse} /\ m[to.index].vcn \in Nat /\ End(m[to.index]) \in Nat
        BY <3>5, <3>7, TreeTypes
      <4>2. d \in Nat
        BY <3>7, <4>1 DEF Covers
      <4>3. At(l, d) = Sparse
        BY <3>4, <3>7
      <4> HIDE DEF l, d
      <4>4. l = Sparse
        BY <4>1, <4>2, <4>3, AtFacts
      <4> QED BY <4>4 DEF l
    <3>9. /\ e \in Trees /\ InOrder(e)
          /\ \A v \in Nat : Location(e, v) = Location(m, IF v < vcn THEN v ELSE v + len)
      <4>1. m[to.index].vcn < vcn /\ End(m[to.index]) > vcn + len => m[to.index].lcn = Sparse
        BY <3>8
      <4>2. m \in Trees /\ InOrder(m) /\ to = Lookup(m, vcn) /\ to.found
        BY <3>5, <3>6
      <4> QED BY ONLY vcn \in Nat, len \in Nat \ {0}, <3>1, <4>1, <4>2, CollapsedMoves
    <3>10. Collapses(e, rs, vcn, len)
      <4> SUFFICES ASSUME NEW v \in Nat
                   PROVE  Location(e, v) = Location(rs, IF v < vcn THEN v ELSE v + len)
        BY DEF Collapses
      <4>1. CASE v < vcn
        BY <3>3, <3>9, <4>1
      <4>2. CASE ~ (v < vcn)
        <5>1. v + len \in Nat /\ ~ (v + len < vcn + len)
          BY <4>2
        <5> QED BY <3>3, <3>9, <4>2, <5>1
      <4> QED BY <4>1, <4>2
    <3> QED BY <3>9, <3>10 DEF e
  <2> QED BY <2>5, <2>6
<1> QED BY <1>2, <1>3, <1>4
-----------------------------------------------------------------------------
(* A run that is moved towards the end of the file.                        *)
Pushed(x, len) == [x EXCEPT !.vcn = @ + len]

(* A moved run has its clusters at the same places of the volume.          *)
LEMMA PushedFacts ==
  ASSUME NEW x \in Runs, NEW len \in Nat, End(x) + len <= LastVcn + 1
  PROVE  /\ Pushed(x, len) \in Runs /\ Pushed(x, len).vcn = x.vcn + len /\ Pushed(x, len).lcn = x.lcn
         /\ Pushed(x, len).len = x.len /\ End(Pushed(x, len)) = End(x) + len
<1> DEFINE a == x.vcn + len
           n == x.len
           l == x.lcn
<1>1. /\ a \in Nat /\ n \in Nat \ {0} /\ l \in Nat \cup {Sparse} /\ a + n = End(x) + len
      /\ a + n <= LastVcn + 1
  BY RunFacts
<1>2. Pushed(x, len) = Run(a, n, l)
  BY DEF Pushed, Run, Runs
<1> HIDE DEF a, n, l
<1>3. /\ Run(a, n, l) \in Runs /\ Run(a, n, l).vcn = a /\ Run(a, n, l).len = n
      /\ Run(a, n, l).lcn = l /\ End(Run(a, n, l)) = a + n
  BY <1>1, RunIsRun
<1> QED BY <1>1, <1>2, <1>3 DEF a, n, l

(* run_insert_range, the runs from vcn on moved by len and the run that    *)
(* vcn lies in cut: the range is free, and so is what was cut off.         *)
OpenedAt(rs, i, vcn, len, e) ==
  /\ Len(e) = Len(rs)
  /\ \A k \in 1 .. Len(rs) :
       e[k] = IF k < i THEN rs[k] ELSE IF k = i /\ vcn > rs[i].vcn THEN Before(rs[i], vcn) ELSE Pushed(rs[k], len)

(* With the runs moved, the range is free.                                 *)
LEMMA OpenedShows ==
  ASSUME NEW rs \in Trees, InOrder(rs), NEW vcn \in Nat, NEW len \in Nat \ {0},
         \A j \in 1 .. Len(rs) : End(rs[j]) + len <= LastVcn + 1,
         NEW i \in 1 .. Len(rs), Covers(rs[i], vcn),
         NEW e, DOMAIN e = 1 .. Len(rs), e = [k \in DOMAIN e |-> e[k]], OpenedAt(rs, i, vcn, len, e)
  PROVE  /\ e \in Trees /\ InOrder(e)
         /\ \A v \in Nat : Location(e, v) =
              IF v < vcn THEN Location(rs, v)
              ELSE IF v < (IF vcn > rs[i].vcn THEN End(rs[i]) ELSE vcn) + len THEN Unmapped
              ELSE Location(rs, v - len)
<1> DEFINE n == Len(rs)
           r == rs[i]
           splits == vcn > r.vcn
           low == IF splits THEN End(r) ELSE vcn
<1>1. /\ n \in Nat /\ r \in Runs /\ r.vcn \in Nat /\ End(r) \in Nat /\ r.vcn <= vcn /\ vcn < End(r)
      /\ low \in Nat /\ vcn <= low /\ (~ splits => r.vcn = vcn) /\ (splits => r.vcn < vcn)
  <2>1. n \in Nat /\ r \in Runs /\ r.vcn \in Nat /\ End(r) \in Nat
    BY TreeFacts, TreeTypes
  <2>2. r.vcn <= vcn /\ vcn < End(r)
    BY DEF Covers
  <2> QED BY <2>1, <2>2
<1>2. splits => /\ Before(r, vcn) \in Runs /\ Before(r, vcn).vcn = r.vcn /\ Before(r, vcn).lcn = r.lcn
                /\ End(Before(r, vcn)) = vcn
  <2> HIDE DEF r
  <2> QED BY <1>1, BeforeIsRun
<1>3. ASSUME NEW k \in 1 .. n
      PROVE  /\ Pushed(rs[k], len) \in Runs /\ Pushed(rs[k], len).vcn = rs[k].vcn + len
             /\ Pushed(rs[k], len).lcn = rs[k].lcn /\ End(Pushed(rs[k], len)) = End(rs[k]) + len
  <2>1. rs[k] \in Runs /\ End(rs[k]) + len <= LastVcn + 1
    BY TreeFacts
  <2> QED BY <2>1, PushedFacts
<1>4. ASSUME NEW k \in 1 .. n
      PROVE  e[k] = IF k < i THEN rs[k] ELSE IF k = i /\ splits THEN Before(r, vcn) ELSE Pushed(rs[k], len)
  BY DEF OpenedAt
<1>5. ASSUME NEW k \in 1 .. n
      PROVE  /\ rs[k].vcn \in Nat /\ End(rs[k]) \in Nat /\ rs[k].vcn < End(rs[k]) /\ rs[k] \in Runs
             /\ k < i => End(rs[k]) <= r.vcn
             /\ k > i => End(r) <= rs[k].vcn
  BY TreeTypes, TreeFacts, OrderFacts
<1>6. e \in Trees /\ Len(e) = n
  <2>1. \A k \in 1 .. n : e[k] \in Runs
    BY <1>2, <1>3, <1>4, <1>5
  <2>2. e \in [1 .. n -> Runs]
    BY <2>1
  <2>3. e \in Seq(Runs)
    BY <1>1, <2>2
  <2> QED BY <2>3 DEF Trees, OpenedAt
<1> HIDE DEF r, splits
<1>7. ASSUME NEW k \in 1 .. n, k < i \/ (k = i /\ splits)
      PROVE  /\ e[k].vcn = rs[k].vcn /\ e[k].lcn = rs[k].lcn
             /\ End(e[k]) = IF k = i THEN vcn ELSE End(rs[k])
             /\ End(e[k]) <= vcn /\ End(e[k]) <= End(rs[k])
  <2>1. CASE k < i
    <3>1. e[k] = rs[k] /\ k # i
      BY <1>4, <2>1
    <3> QED BY <1>1, <1>5, <2>1, <3>1
  <2>2. CASE k = i /\ splits
    <3>1. e[k] = Before(r, vcn) /\ rs[k] = r
      BY <1>4, <2>2 DEF r
    <3> QED BY <1>1, <1>2, <2>2, <3>1
  <2> QED BY <1>7, <2>1, <2>2
<1>8. ASSUME NEW k \in 1 .. n, ~ (k < i \/ (k = i /\ splits))
      PROVE  /\ e[k].vcn = rs[k].vcn + len /\ e[k].lcn = rs[k].lcn /\ End(e[k]) = End(rs[k]) + len
             /\ rs[k].vcn >= low
  <2>1. e[k] = Pushed(rs[k], len)
    BY <1>4, <1>8
  <2>2. rs[k].vcn >= low
    <3>1. CASE k = i
      BY <1>1, <1>8, <3>1 DEF r
    <3>2. CASE k > i
      BY <1>1, <1>5, <3>2
    <3> QED BY <1>8, <3>1, <3>2
  <2> QED BY <1>3, <2>1, <2>2
<1> HIDE DEF low
<1>9. InOrder(e)
  <2> SUFFICES ASSUME NEW a \in 1 .. n, NEW b \in 1 .. n, a < b PROVE End(e[a]) <= e[b].vcn
    BY <1>6, TreeFacts DEF InOrder
  <2>1. /\ End(rs[a]) <= rs[b].vcn /\ rs[a].vcn \in Nat /\ rs[b].vcn \in Nat
        /\ End(rs[a]) \in Nat /\ End(rs[b]) \in Nat
    BY <1>5, OrderFacts
  <2>2. CASE b < i \/ (b = i /\ splits)
    <3>1. a < i
      BY <2>2
    <3>2. End(e[a]) = End(rs[a])
      BY <1>7, <3>1
    <3>3. e[b].vcn = rs[b].vcn
      BY <1>7, <2>2
    <3> QED BY <2>1, <3>2, <3>3
  <2>3. CASE ~ (b < i \/ (b = i /\ splits))
    <3>1. e[b].vcn = rs[b].vcn + len /\ rs[b].vcn >= low
      BY <1>8, <2>3
    <3>2. CASE a < i \/ (a = i /\ splits)
      <4>1. End(e[a]) <= End(rs[a]) /\ End(e[a]) <= vcn
        BY <1>7, <3>2
      <4>2. End(e[a]) \in Nat
        BY <1>6, TreeTypes
      <4> QED BY <2>1, <3>1, <4>1, <4>2
    <3>3. CASE ~ (a < i \/ (a = i /\ splits))
      BY <1>8, <2>1, <3>1, <3>3
    <3> QED BY <3>2, <3>3
  <2> QED BY <2>2, <2>3
<1> DEFINE V == {v \in Nat : v < vcn \/ v >= low + len}
           g == [v \in V |-> IF v < vcn THEN v ELSE v - len]
<1>10. Drawn(e, rs, V, g)
  <2>1. ASSUME NEW k \in 1 .. n, NEW v \in Nat, Covers(e[k], v)
        PROVE  /\ v \in V
               /\ \E j \in 1 .. Len(rs) :
                    Covers(rs[j], g[v]) /\ At(e[k].lcn, v - e[k].vcn) = At(rs[j].lcn, g[v] - rs[j].vcn)
    <3>1. e[k].vcn <= v /\ v < End(e[k]) /\ e[k].vcn \in Nat /\ End(e[k]) \in Nat
      BY <1>6, <2>1, TreeTypes DEF Covers
    <3>2. rs[k].vcn \in Nat /\ End(rs[k]) \in Nat
      BY <1>5
    <3>3. CASE k < i \/ (k = i /\ splits)
      <4>1. e[k].vcn = rs[k].vcn /\ e[k].lcn = rs[k].lcn /\ End(e[k]) <= vcn /\ End(e[k]) <= End(rs[k])
        BY <1>7, <3>3
      <4>2. v \in V /\ g[v] = v
        BY <3>1, <4>1
      <4>3. Covers(rs[k], v)
        BY <3>1, <3>2, <4>1 DEF Covers
      <4> HIDE DEF g, V
      <4> QED BY <4>1, <4>2, <4>3
    <3>4. CASE ~ (k < i \/ (k = i /\ splits))
      <4>1. e[k].vcn = rs[k].vcn + len /\ e[k].lcn = rs[k].lcn /\ End(e[k]) = End(rs[k]) + len /\ rs[k].vcn >= low
        BY <1>8, <3>4
      <4> DEFINE x == rs[k].vcn
                 y == End(rs[k])
      <4>5. /\ x \in Nat /\ y \in Nat /\ x + len <= v /\ v < y + len /\ x >= low /\ low \in Nat
            /\ e[k].vcn = x + len
        BY <1>1, <3>1, <3>2, <4>1
      <4> HIDE DEF x, y
      <4>2. v >= low + len
        <5> HIDE DEF g, V, low, n
        <5> QED BY <4>5
      <4>3. v \in V /\ g[v] = v - len
        BY <1>1, <4>2
      <4>4. Covers(rs[k], v - len) /\ v - e[k].vcn = (v - len) - rs[k].vcn
        <5>1. x <= v - len /\ v - len < y /\ v - (x + len) = (v - len) - x
          BY <4>5
        <5> HIDE DEF g, V, low, n
        <5> QED BY <4>5, <5>1 DEF Covers, x, y
      <4> HIDE DEF g, V
      <4> QED BY <4>1, <4>3, <4>4
    <3> QED BY <3>3, <3>4
  <2>2. ASSUME NEW v \in V, NEW j \in 1 .. Len(rs), Covers(rs[j], g[v])
        PROVE  \E k \in 1 .. n : Covers(e[k], v)
    <3>1. rs[j].vcn \in Nat /\ End(rs[j]) \in Nat /\ v \in Nat
      BY <1>5
    <3>2. rs[j].vcn <= g[v] /\ g[v] < End(rs[j])
      BY <2>2 DEF Covers
    <3>3. CASE v < vcn
      <4>1. rs[j].vcn <= v /\ v < End(rs[j])
        BY <3>2, <3>3
      <4>2. j < i \/ (j = i /\ splits)
        <5>1. ~ (j > i)
          BY <1>1, <1>5, <3>1, <3>3, <4>1
        <5>2. j = i => splits
          BY <1>1, <3>1, <3>3, <4>1 DEF r
        <5> QED BY <5>1, <5>2
      <4>3. e[j].vcn = rs[j].vcn /\ End(e[j]) = IF j = i THEN vcn ELSE End(rs[j])
        BY <1>7, <4>2
      <4> QED BY <3>3, <4>1, <4>3 DEF Covers
    <3>4. CASE ~ (v < vcn)
      <4>1. v >= low + len /\ g[v] = v - len
        BY <3>4
      <4>2. rs[j].vcn <= v - len /\ v - len < End(rs[j]) /\ v - len >= low
        BY <1>1, <3>1, <3>2, <4>1
      <4>3. ~ (j < i \/ (j = i /\ splits))
        <5>1. j < i => End(rs[j]) <= r.vcn
          BY <1>5
        <5>2. j = i /\ splits => End(rs[j]) = low
          BY DEF low, r
        <5> HIDE DEF g, V
        <5> QED BY <1>1, <3>1, <4>2, <5>1, <5>2
      <4>4. e[j].vcn = rs[j].vcn + len /\ End(e[j]) = End(rs[j]) + len
        BY <1>8, <4>3
      <4>7. v \in Nat
        OBVIOUS
      <4> HIDE DEF g, V, low
      <4> DEFINE x == rs[j].vcn
                 y == End(rs[j])
      <4>5. x \in Nat /\ y \in Nat /\ x <= v - len /\ v - len < y
        BY <3>1, <3>2, <4>2
      <4> HIDE DEF x, y
      <4>6. x + len <= v /\ v < y + len
        BY <4>5, <4>7
      <4> QED BY <4>4, <4>6 DEF Covers, x, y
    <3> QED BY <3>3, <3>4
  <2>3. Len(e) = n
    BY <1>6
  <2> HIDE DEF g, V
  <2> QED BY <2>1, <2>2, <2>3 DEF Drawn
<1>11. V \in SUBSET Nat /\ g \in [V -> Nat]
  <2>1. ASSUME NEW v \in V PROVE (IF v < vcn THEN v ELSE v - len) \in Nat
    BY <1>1
  <2> QED BY <2>1
<1>13. \A v \in Nat : Location(e, v) = IF v \in V THEN Location(rs, g[v]) ELSE Unmapped
  <2>1. e \in Trees
    BY <1>6
  <2> HIDE DEF V, g
  <2>2. V \in SUBSET Nat
    BY <1>11
  <2>3. g \in [V -> Nat]
    BY <1>11
  <2>4. \A W \in SUBSET Nat : \A h \in [W -> Nat] : Drawn(e, rs, W, h) => 
       \A v \in Nat : Location(e, v) = IF v \in W THEN Location(rs, h[v]) ELSE Unmapped
    BY ONLY rs \in Trees, InOrder(rs), <2>1, <1>9, DrawnShows
  <2>5. \A h \in [V -> Nat] : Drawn(e, rs, V, h) => 
       \A v \in Nat : Location(e, v) = IF v \in V THEN Location(rs, h[v]) ELSE Unmapped
    BY ONLY <2>2, <2>4
  <2> QED BY ONLY <1>10, <2>3, <2>5
<1>12. ASSUME NEW v \in Nat
       PROVE  Location(e, v) = IF v < vcn THEN Location(rs, v)
                               ELSE IF v < low + len THEN Unmapped ELSE Location(rs, v - len)
  <2>1. Location(e, v) = IF v \in V THEN Location(rs, g[v]) ELSE Unmapped
    <3> HIDE DEF g, V
    <3> QED BY <1>13
  <2>2. CASE v < vcn
    <3>1. v \in V /\ g[v] = v
      BY <2>2
    <3> QED BY <2>1, <2>2, <3>1
  <2>3. CASE ~ (v < vcn) /\ v < low + len
    <3>1. v \notin V
      BY <1>1, <2>3
    <3> QED BY <2>1, <2>3, <3>1
  <2>4. CASE ~ (v < vcn) /\ ~ (v < low + len)
    <3>1. v \in V /\ g[v] = v - len
      BY <1>1, <2>4
    <3> QED BY <2>1, <2>4, <3>1
  <2> QED BY <2>2, <2>3, <2>4
<1> QED BY <1>6, <1>9, <1>12 DEF low, r, splits

(* What run_insert_range leaves of the locations: a hole, and what was     *)
(* after it moved; the same without the hole, or without what was cut off. *)
Inserts(e, rs, vcn, len) ==
  \A v \in Nat : Location(e, v) =
    IF v < vcn THEN Location(rs, v) ELSE IF v < vcn + len THEN Sparse ELSE Location(rs, v - len)
Opens(e, rs, vcn, len) ==
  \A v \in Nat : Location(e, v) =
    IF v < vcn THEN Location(rs, v) ELSE IF v < vcn + len THEN Unmapped ELSE Location(rs, v - len)
InsertBreaksOff(e, rs, vcn, len) ==
  \A v \in Nat : \/ v < vcn /\ Location(e, v) = Location(rs, v)
                 \/ v >= vcn /\ Location(e, v) = Unmapped
                 \/ v >= vcn + len /\ Location(e, v) = Location(rs, v - len)

(* The last step, into the gap: the hole.                                  *)
LEMMA HoleFillsGap ==
  ASSUME NEW rs \in Trees, NEW m \in Trees, InOrder(m), NEW room \in Nat,
         NEW vcn \in Nat, NEW len \in Nat \ {0}, vcn + len <= LastVcn + 1, Opens(m, rs, vcn, len),
         NEW n, n = AddEntry[Addition(m, room, Run(vcn, len, Sparse))]
  PROVE  /\ n.runs \in Trees /\ InOrder(n.runs)
         /\ Inserts(n.runs, rs, vcn, len) \/ InsertBreaksOff(n.runs, rs, vcn, len)
<1> DEFINE l == Sparse
           hole == Run(vcn, len, l)
           a == Addition(m, room, hole)
<1>1. hole \in Runs /\ hole.vcn = vcn /\ hole.len = len /\ hole.lcn = l
  <2>1. l \in Nat \cup {Sparse}
    OBVIOUS
  <2> HIDE DEF l
  <2> QED BY <2>1, RunIsRun
<1> HIDE DEF hole
<1>2. a \in Additions /\ a.runs = m /\ a.room = room /\ a.vcn = vcn /\ a.lcn = l /\ a.len = len
  BY <1>1, AdditionIs
<1>3. n = AddEntry[a]
  BY DEF hole
<1> HIDE DEF a
<1>4. Keeps(a, n)
  BY <1>2, <1>3, AddEntryKeeps
<1>5. n.runs \in Trees /\ InOrder(n.runs)
  BY <1>4 DEF Keeps
<1>6. Location(m, vcn) = Unmapped
  BY DEF Opens
<1>7. CASE n.ok
  <2>1. Replaced(n.runs, m, vcn, vcn + len, Sparse)
    BY <1>2, <1>4, <1>7 DEF Keeps
  <2>2. Inserts(n.runs, rs, vcn, len)
    BY <2>1 DEF Replaced, Opens, Inserts, At
  <2> QED BY <1>5, <2>2
<1>8. CASE ~ n.ok
  <2>1. \A v \in Nat : Location(n.runs, v) = Location(m, v)
    BY <1>2, <1>4, <1>6, <1>8 DEF Keeps
  <2>2. InsertBreaksOff(n.runs, rs, vcn, len)
    BY <2>1 DEF Opens, InsertBreaksOff
  <2> QED BY <1>5, <2>2
<1> QED BY <1>7, <1>8

(* run_insert_range, with both its calls of run_add_entry.                 *)
LEMMA InsertRangeKeeps ==
  ASSUME NEW rs \in Trees, InOrder(rs), NEW room \in Nat, NEW vcn \in Nat, NEW len \in Nat \ {0},
         \A j \in 1 .. Len(rs) : End(rs[j]) + len <= LastVcn + 1,
         NEW n, n = InsertRange(rs, room, vcn, len)
  PROVE  /\ n.runs \in Trees /\ InOrder(n.runs)
         /\ \/ n.runs = rs
            \/ Inserts(n.runs, rs, vcn, len)
            \/ InsertBreaksOff(n.runs, rs, vcn, len)
<1> DEFINE at == Lookup(rs, vcn)
           i == at.index
           r == rs[i]
           splits == vcn > r.vcn
           shifted == [j \in DOMAIN rs |->
                         IF j > i \/ (j = i /\ ~ splits) THEN Pushed(rs[j], len) ELSE rs[j]]
           cut == [shifted EXCEPT ![i] = Before(r, vcn)]
           rest == Pushed(After(r, vcn), len)
           b == Addition(cut, room, rest)
           moved == IF splits THEN AddEntry[b] ELSE Result(TRUE, shifted, room)
           last == AddEntry[Addition(moved.runs, moved.room, Run(vcn, len, Sparse))]
<1>1. n = IF ~ at.found THEN Result(FALSE, rs, room) ELSE IF ~ moved.ok THEN moved ELSE last
  BY DEF InsertRange, Pushed
<1>2. CASE ~ at.found
  <2>1. n = Result(FALSE, rs, room)
    BY <1>1, <1>2
  <2>2. n.runs = rs
    BY <2>1 DEF Result
  <2> QED BY <2>2
<1>3. CASE at.found
  <2>1. at = Lookup(rs, vcn)
    OBVIOUS
  <2> HIDE DEF last
  <2>2. /\ i \in 1 .. Len(rs) /\ Covers(r, vcn)
    <3> HIDE DEF at
    <3> QED BY <1>3, <2>1, FoundIsMapped
  <2>3. n = IF ~ moved.ok THEN moved ELSE last
    BY <1>1, <1>3
  <2> HIDE DEF moved, at
  <2>4. /\ r \in Runs /\ r.vcn \in Nat /\ End(r) \in Nat /\ r.vcn <= vcn /\ vcn < End(r)
        /\ End(r) + len <= LastVcn + 1 /\ r.lcn \in Nat \cup {Sparse}
    <3>1. r \in Runs /\ r.vcn \in Nat /\ End(r) \in Nat /\ r.lcn \in Nat \cup {Sparse}
      BY <2>2, TreeFacts, TreeTypes
    <3>2. r.vcn <= vcn /\ vcn < End(r)
      BY <2>2 DEF Covers
    <3>3. End(r) + len <= LastVcn + 1
      BY <2>2
    <3> QED BY <3>1, <3>2, <3>3
  <2>5. vcn + len <= LastVcn + 1
    BY <2>4, RunTreeConstants
  <2>6. DOMAIN rs = 1 .. Len(rs) /\ Len(rs) \in Nat
    BY TreeFacts
  <2>7. CASE ~ splits
    <3>1. moved.ok /\ moved.runs = shifted /\ moved.room = room
      BY <2>7 DEF moved, Result
    <3> DEFINE e == shifted
    <3>2. /\ DOMAIN e = 1 .. Len(rs) /\ e = [k \in DOMAIN e |-> e[k]]
          /\ \A k \in 1 .. Len(rs) : e[k] = IF k < i THEN rs[k] ELSE Pushed(rs[k], len)
      BY <2>2, <2>6, <2>7
    <3> HIDE DEF e, splits
    <3>3. OpenedAt(rs, i, vcn, len, e)
      BY <2>6, <2>7, <3>2 DEF OpenedAt, splits
    <3> HIDE DEF i
    <3>4. /\ e \in Trees /\ InOrder(e)
          /\ \A v \in Nat : Location(e, v) =
               IF v < vcn THEN Location(rs, v)
               ELSE IF v < (IF vcn > rs[i].vcn THEN End(rs[i]) ELSE vcn) + len THEN Unmapped
               ELSE Location(rs, v - len)
      BY <2>2, <3>2, <3>3, OpenedShows
    <3>5. Opens(e, rs, vcn, len)
      BY <2>7, <3>4 DEF Opens, splits
    <3>6. n = AddEntry[Addition(e, room, Run(vcn, len, Sparse))]
      BY <2>3, <3>1 DEF last, e
    <3> QED BY <2>5, <3>4, <3>5, <3>6, HoleFillsGap
  <2>8. CASE splits
    <3> DEFINE e == cut
    <3>1. /\ DOMAIN e = 1 .. Len(rs) /\ e = [k \in DOMAIN e |-> e[k]]
          /\ \A k \in 1 .. Len(rs) :
               e[k] = IF k < i THEN rs[k] ELSE IF k = i THEN Before(r, vcn) ELSE Pushed(rs[k], len)
      <4>1. /\ DOMAIN shifted = 1 .. Len(rs)
            /\ \A k \in 1 .. Len(rs) : shifted[k] = IF k > i THEN Pushed(rs[k], len) ELSE rs[k]
        BY <2>2, <2>6, <2>8
      <4> HIDE DEF shifted
      <4>2. e = [k \in 1 .. Len(rs) |-> IF k = i THEN Before(r, vcn) ELSE shifted[k]]
        BY <4>1
      <4> HIDE DEF e, r
      <4>3. \A k \in 1 .. Len(rs) : e[k] = IF k = i THEN Before(r, vcn) ELSE shifted[k]
        BY <4>2
      <4>4. DOMAIN e = 1 .. Len(rs) /\ e = [k \in DOMAIN e |-> e[k]]
        BY <4>2
      <4>5. ASSUME NEW k \in 1 .. Len(rs)
            PROVE  e[k] = IF k < i THEN rs[k] ELSE IF k = i THEN Before(r, vcn) ELSE Pushed(rs[k], len)
        <5>1. k < i \/ k = i \/ k > i
          BY <2>2
        <5>2. /\ k < i => k # i /\ ~ (k > i)
              /\ k = i => ~ (k < i)
              /\ k > i => ~ (k < i) /\ k # i
          BY <2>2
        <5> QED BY <4>1, <4>3, <5>1, <5>2
      <4> QED BY <4>4, <4>5
    <3>2. moved = AddEntry[Addition(e, room, rest)]
      BY <2>8 DEF moved
    <3> HIDE DEF e, splits
    <3>3. OpenedAt(rs, i, vcn, len, e)
      BY <2>6, <2>8, <3>1 DEF OpenedAt, splits
    <3> HIDE DEF i
    <3>4. /\ e \in Trees /\ InOrder(e)
          /\ \A v \in Nat : Location(e, v) =
               IF v < vcn THEN Location(rs, v)
               ELSE IF v < (IF vcn > rs[i].vcn THEN End(rs[i]) ELSE vcn) + len THEN Unmapped
               ELSE Location(rs, v - len)
      <4>1. DOMAIN e = 1 .. Len(rs) /\ e = [k \in DOMAIN e |-> e[k]]
        BY <3>1
      <4>2. /\ i \in 1 .. Len(rs) /\ Covers(rs[i], vcn)
            /\ \A j \in 1 .. Len(rs) : End(rs[j]) + len <= LastVcn + 1
        BY <2>2
      <4>3. DOMAIN e = 1 .. Len(rs) /\ OpenedAt(rs, i, vcn, len, e)
        BY <3>3, <4>1
      <4> QED BY <4>1, <4>2, <4>3, OpenedShows
    <3>5. \A v \in Nat : Location(e, v) =
            IF v < vcn THEN Location(rs, v)
            ELSE IF v < End(r) + len THEN Unmapped ELSE Location(rs, v - len)
      BY <2>8, <3>4 DEF splits
    <3>6. /\ rest \in Runs /\ rest.vcn = vcn + len /\ rest.lcn = At(r.lcn, vcn - r.vcn)
          /\ rest.vcn + rest.len = End(r) + len
      <4> HIDE DEF r
      <4>1. /\ After(r, vcn) \in Runs /\ After(r, vcn).vcn = vcn /\ After(r, vcn).len = End(r) - vcn
            /\ After(r, vcn).lcn = At(r.lcn, vcn - r.vcn) /\ End(After(r, vcn)) = End(r)
        BY <2>4, AfterIsRun
      <4> DEFINE x == After(r, vcn)
      <4>2. x \in Runs /\ End(x) + len <= LastVcn + 1
        BY <2>4, <4>1
      <4> HIDE DEF x
      <4>3. /\ Pushed(x, len) \in Runs /\ Pushed(x, len).vcn = x.vcn + len /\ Pushed(x, len).lcn = x.lcn
            /\ Pushed(x, len).len = x.len
        BY <4>2, PushedFacts
      <4> QED BY <2>4, <4>1, <4>3 DEF x
    <3> HIDE DEF rest
    <3> DEFINE c == Addition(e, room, rest)
    <3>7. c \in Additions /\ c.runs = e /\ c.room = room /\ c.vcn = rest.vcn /\ c.lcn = rest.lcn /\ c.len = rest.len
      BY <3>4, <3>6, AdditionIs
    <3> HIDE DEF c
    <3>8. Keeps(c, moved)
      BY <3>2, <3>4, <3>7, AddEntryKeeps DEF c
    <3> DEFINE m == moved.runs
               to == moved.room
    <3>9. m \in Trees /\ InOrder(m) /\ to \in Nat
      BY <3>8 DEF Keeps
    <3>10. CASE ~ moved.ok
      <4>1. Location(e, vcn + len) = Unmapped
        BY <2>4, <3>5
      <4>2. \A v \in Nat : Location(m, v) = Location(e, v)
        BY <3>6, <3>7, <3>8, <3>10, <4>1 DEF Keeps
      <4>3. InsertBreaksOff(m, rs, vcn, len)
        BY <2>4, <3>5, <4>2 DEF InsertBreaksOff
      <4>4. n.runs = m
        BY <2>3, <3>10
      <4> QED BY <3>9, <4>3, <4>4
    <3>11. CASE moved.ok
      <4>1. Replaced(m, e, vcn + len, End(r) + len, At(r.lcn, vcn - r.vcn))
        <5>1. Replaced(m, e, c.vcn, c.vcn + c.len, c.lcn)
          BY <3>7, <3>8, <3>11 DEF Keeps
        <5> QED BY <3>6, <3>7, <5>1
      <4>2. Opens(m, rs, vcn, len)
        <5> SUFFICES ASSUME NEW v \in Nat
                     PROVE  Location(m, v) = IF v < vcn THEN Location(rs, v)
                              ELSE IF v < vcn + len THEN Unmapped ELSE Location(rs, v - len)
          BY DEF Opens
        <5>1. Location(m, v) = IF vcn + len <= v /\ v < End(r) + len
                               THEN At(At(r.lcn, vcn - r.vcn), v - (vcn + len)) ELSE Location(e, v)
          BY <4>1 DEF Replaced
        <5>2. CASE vcn + len <= v /\ v < End(r) + len
          <6> DEFINE w == v - len
                     l == r.lcn
                     p == vcn - r.vcn
                     q == v - (vcn + len)
          <6>1. w \in Nat /\ p \in Nat /\ q \in Nat /\ p + q = w - r.vcn /\ r.vcn <= w /\ w < End(r)
            <7> DEFINE z == End(r)
                       u == r.vcn
            <7>1. z \in Nat /\ u \in Nat /\ u <= vcn /\ vcn < z /\ vcn + len <= v /\ v < z + len
              BY <2>4, <5>2
            <7> HIDE DEF z, u, r
            <7>2. w \in Nat /\ vcn - u \in Nat /\ q \in Nat /\ (vcn - u) + q = w - u /\ u <= w /\ w < z
              BY <7>1
            <7> QED BY <7>2 DEF z, u
          <6>2. l \in Nat \cup {Sparse}
            BY <2>4
          <6>3. Covers(r, w)
            BY <6>1 DEF Covers
          <6>4. Location(m, v) = At(At(l, p), q)
            BY <5>1, <5>2
          <6> HIDE DEF l, p, q, w
          <6>5. At(At(l, p), q) = At(l, p + q)
            BY <6>1, <6>2, AtAt
          <6>6. Location(rs, w) = At(r.lcn, w - r.vcn)
            BY <2>2, <6>1, <6>3, LocationInOrder
          <6>7. Location(m, v) = Location(rs, w)
            BY <6>1, <6>4, <6>5, <6>6 DEF l
          <6> QED BY <5>2, <6>7 DEF w
        <5>3. CASE ~ (vcn + len <= v /\ v < End(r) + len)
          BY <2>4, <3>5, <5>1, <5>3
        <5> QED BY <5>2, <5>3
      <4>3. n = AddEntry[Addition(m, to, Run(vcn, len, Sparse))]
        BY <2>3, <3>11 DEF last
      <4> HIDE DEF m, to
      <4> QED BY <2>5, <3>9, <4>2, <4>3, HoleFillsGap
    <3> QED BY <3>10, <3>11
  <2> QED BY <2>7, <2>8
<1> QED BY <1>2, <1>3

-----------------------------------------------------------------------------
(* The inductive invariant: the array is in order, and the history is what *)
(* it shows.                                                               *)
Located(rs) == [v \in Vcns |-> Location(rs, v)]
Shows == WellFormed /\ map = Located(runs)

(* The clusters of the file are numbers.                                   *)
LEMMA ClusterFacts ==
  ASSUME NEW v \in Vcns
  PROVE  v \in Nat /\ v <= LastVcn
BY RunTreeConstants DEF Vcns

(* The ranges that the operations are called with.                         *)
LEMMA RangeFacts ==
  ASSUME NEW vcn \in Vcns, NEW len \in Lens, NEW lcn \in Lcns \cup {Sparse}, NEW room \in Rooms
  PROVE  /\ vcn \in Nat /\ len \in Nat \ {0} /\ lcn \in Nat \cup {Sparse} /\ room \in Nat
         /\ Fits(vcn, len) => vcn + len <= LastVcn + 1
BY RunTreeConstants DEF Vcns, Lens, Fits

(* The history follows an array in order.                                  *)
LEMMA BecomesShows ==
  ASSUME NEW e \in Trees, InOrder(e), Becomes(e)
  PROVE  Shows'
<1>1. runs' = e /\ map' = Located(e)
  BY DEF Becomes, Located
<1>2. WellFormed'
  BY <1>1 DEF WellFormed, InOrder
<1> QED BY <1>1, <1>2 DEF Shows, Located

(* An operation that changes no run changes no location.                   *)
LEMMA SameMap == Shows /\ Becomes(runs) => UNCHANGED map
BY DEF Shows, Becomes, Located

(* No run ends after the last one.                                         *)
LEMMA TopIsLast ==
  ASSUME WellFormed, NEW j \in 1 .. Len(runs)
  PROVE  End(runs[j]) <= Top
<1> DEFINE n == Len(runs)
<1>1. runs \in Trees /\ InOrder(runs) /\ n \in Nat
  BY TreeFacts DEF WellFormed
<1>2. runs # <<>> /\ n \in 1 .. n
  BY <1>1, TreeFacts
<1>3. Top = End(runs[n])
  BY <1>2 DEF Top, Last
<1>4. End(runs[j]) \in Nat /\ End(runs[n]) \in Nat /\ runs[n].vcn < End(runs[n]) /\ runs[n].vcn \in Nat
  BY <1>1, <1>2, TreeTypes
<1>5. j < n => End(runs[j]) <= runs[n].vcn
  BY <1>1, <1>2, OrderFacts
<1>6. j < n \/ j = n
  BY <1>1
<1> QED BY <1>3, <1>4, <1>5, <1>6

(* ClusterMap names holes and what is not mapped as RunTree does.          *)
LEMMA SameNames ==
  /\ Clusters!Sparse = Sparse /\ Clusters!Unmapped = Unmapped
  /\ \A lcn, n : Clusters!At(lcn, n) = At(lcn, n)
BY DEF Clusters!Sparse, Clusters!Unmapped, Clusters!At, Sparse, Unmapped, At

(* What the clusters after the file show: nothing.                         *)
LEMMA MovedShows ==
  ASSUME Shows, NEW v \in Nat
  PROVE  Clusters!Moved(v) = Location(runs, v)
<1>1. CASE v \in Vcns
  BY <1>1 DEF Clusters!Moved, Shows, Located
<1>2. CASE v \notin Vcns
  <2>1. v > LastVcn
    BY <1>2, RunTreeConstants DEF Vcns
  <2>2. Location(runs, v) = Unmapped
    BY <2>1, PastEnd DEF Shows, WellFormed
  <2> QED BY <1>2, <2>2, SameNames DEF Clusters!Moved
<1> QED BY <1>1, <1>2

(* run_add_entry                                                           *)
LEMMA AddStep == Shows /\ Add => Shows' /\ Clusters!Next
<1> SUFFICES ASSUME Shows, Add PROVE Shows' /\ Clusters!Next
  OBVIOUS
<1>1. PICK vcn \in Vcns, lcn \in Lcns \cup {Sparse}, len \in Lens, room \in Rooms :
        Fits(vcn, len) /\ Becomes(AddEntry[Addition(runs, room, Run(vcn, len, lcn))].runs)
  BY DEF Add
<1>2. /\ vcn \in Nat /\ len \in Nat \ {0} /\ lcn \in Nat \cup {Sparse} /\ room \in Nat
      /\ vcn + len <= LastVcn + 1
  BY <1>1, RangeFacts
<1> DEFINE r == Run(vcn, len, lcn)
           a == Addition(runs, room, r)
           n == AddEntry[a]
           e == n.runs
<1>3. r \in Runs /\ r.vcn = vcn /\ r.len = len /\ r.lcn = lcn
  BY <1>2, RunIsRun
<1>4. runs \in Trees /\ InOrder(runs) /\ map = Located(runs)
  BY DEF Shows, WellFormed
<1>5. Becomes(e)
  BY <1>1
<1> HIDE DEF r
<1>6. a \in Additions /\ a.runs = runs /\ a.vcn = vcn /\ a.lcn = lcn /\ a.len = len
  BY <1>2, <1>3, <1>4, AdditionIs
<1> HIDE DEF a
<1>7. Keeps(a, n)
  BY <1>4, <1>6, AddEntryKeeps
<1> HIDE DEF n
<1>8. e \in Trees /\ InOrder(e)
  BY <1>7 DEF Keeps
<1>9. Shows'
  BY <1>5, <1>8, BecomesShows
<1>10. map' = Located(e)
  BY <1>5 DEF Becomes, Located
<1>11. CASE n.ok
  <2>1. Replaced(e, runs, vcn, vcn + len, lcn)
    BY <1>6, <1>7, <1>11 DEF Keeps
  <2>2. ASSUME NEW v \in Vcns
        PROVE  Location(e, v) = IF v \in Clusters!Within(vcn, len) THEN Clusters!At(lcn, v - vcn) ELSE map[v]
    <3>1. v \in Nat /\ map[v] = Location(runs, v)
      BY <1>4, ClusterFacts DEF Located
    <3>2. Location(e, v) = IF vcn <= v /\ v < vcn + len THEN At(lcn, v - vcn) ELSE Location(runs, v)
      BY <2>1, <3>1 DEF Replaced
    <3>3. v \in Clusters!Within(vcn, len) <=> vcn <= v /\ v < vcn + len
      BY <1>2, <3>1 DEF Clusters!Within
    <3> QED BY <3>1, <3>2, <3>3, SameNames
  <2>3. Clusters!Place(vcn, lcn, len)
    BY <1>10, <2>2 DEF Clusters!Place, Located
  <2>4. len \in Clusters!Lens
    BY RunTreeConstants DEF Lens, Clusters!Lens, Vcns
  <2> QED BY <1>9, <2>3, <2>4, SameNames DEF Clusters!Next
<1>12. CASE ~ n.ok
  <2>1. ASSUME NEW v \in Vcns
        PROVE  \/ map'[v] = map[v]
               \/ v >= vcn /\ map'[v] \in {Clusters!Unmapped, Clusters!At(lcn, v - vcn)}
    <3>1. v \in Nat /\ map[v] = Location(runs, v) /\ map'[v] = Location(e, v)
      BY <1>4, <1>10, ClusterFacts DEF Located
    <3>2. \/ Location(e, v) = Location(runs, v)
          \/ v >= vcn /\ Location(e, v) = Unmapped
          \/ v >= vcn /\ Location(e, v) = At(lcn, v - vcn)
      BY <1>6, <1>7, <1>12, <3>1 DEF Keeps
    <3> QED BY <3>1, <3>2, SameNames
  <2>2. Clusters!PlaceFails(vcn, lcn)
    BY <2>1 DEF Clusters!PlaceFails
  <2> QED BY <1>9, <2>2, SameNames DEF Clusters!Next
<1> QED BY <1>11, <1>12

(* run_truncate_head, run_truncate and run_truncate_around                 *)
LEMMA DropHeadStep == Shows /\ DropHead => Shows' /\ Clusters!Next
<1> SUFFICES ASSUME Shows, DropHead PROVE Shows' /\ Clusters!Next
  OBVIOUS
<1>1. PICK vcn \in Vcns : Becomes(TruncateHead(runs, vcn))
  BY DEF DropHead
<1> DEFINE e == TruncateHead(runs, vcn)
<1>2. vcn \in Nat /\ runs \in Trees /\ InOrder(runs) /\ map = Located(runs)
  BY ClusterFacts DEF Shows, WellFormed
<1>3. /\ e \in Trees /\ InOrder(e)
      /\ \A v \in Nat : Location(e, v) = IF v < vcn THEN Unmapped ELSE Location(runs, v)
  BY <1>2, TruncateHeadDrops
<1>4. Becomes(e)
  BY <1>1
<1> HIDE DEF e
<1>5. Shows' /\ map' = Located(e)
  BY <1>3, <1>4, BecomesShows DEF Becomes, Located
<1>6. Clusters!DropBefore(vcn)
  BY <1>2, <1>3, <1>5, ClusterFacts, SameNames DEF Clusters!DropBefore, Located
<1> QED BY <1>5, <1>6 DEF Clusters!Next

(* run_truncate forgets the clusters from vcn on.                          *)
LEMMA DropTailStep == Shows /\ DropTail => Shows' /\ Clusters!Next
<1> SUFFICES ASSUME Shows, DropTail PROVE Shows' /\ Clusters!Next
  OBVIOUS
<1>1. PICK vcn \in Vcns : Becomes(Truncate(runs, vcn))
  BY DEF DropTail
<1> DEFINE e == Truncate(runs, vcn)
<1>2. vcn \in Nat /\ runs \in Trees /\ InOrder(runs) /\ map = Located(runs)
  BY ClusterFacts DEF Shows, WellFormed
<1>3. /\ e \in Trees /\ InOrder(e)
      /\ \A v \in Nat : Location(e, v) = IF v < vcn THEN Location(runs, v) ELSE Unmapped
  BY <1>2, TruncateDrops
<1>4. Becomes(e)
  BY <1>1
<1> HIDE DEF e
<1>5. Shows' /\ map' = Located(e)
  BY <1>3, <1>4, BecomesShows DEF Becomes, Located
<1>6. Clusters!DropFrom(vcn)
  BY <1>2, <1>3, <1>5, ClusterFacts, SameNames DEF Clusters!DropFrom, Located
<1> QED BY <1>5, <1>6 DEF Clusters!Next

(* run_truncate_around forgets what is before vcn, and perhaps a tail.     *)
LEMMA DropAroundStep == Shows /\ DropAround => Shows' /\ Clusters!Next
<1> SUFFICES ASSUME Shows, DropAround PROVE Shows' /\ Clusters!Next
  OBVIOUS
<1>1. PICK vcn \in Vcns : Becomes(TruncateAround(runs, vcn))
  BY DEF DropAround
<1> DEFINE e == TruncateAround(runs, vcn)
<1>2. vcn \in Nat /\ runs \in Trees /\ InOrder(runs) /\ map = Located(runs)
  BY ClusterFacts DEF Shows, WellFormed
<1>3. /\ e \in Trees /\ InOrder(e)
      /\ \E last \in Vcns : \A v \in Vcns :
           Location(e, v) = IF v \in vcn .. last THEN Location(runs, v) ELSE Unmapped
  BY <1>2, TruncateAroundDrops
<1>4. Becomes(e)
  BY <1>1
<1> HIDE DEF e
<1>5. Shows' /\ map' = Located(e)
  BY <1>3, <1>4, BecomesShows DEF Becomes, Located
<1>6. PICK last \in Vcns : \A v \in Vcns :
        Location(e, v) = IF v \in vcn .. last THEN Location(runs, v) ELSE Unmapped
  BY <1>3
<1>7. Clusters!DropAround(vcn)
  BY <1>2, <1>5, <1>6, SameNames DEF Clusters!DropAround, Located
<1> QED BY <1>5, <1>7 DEF Clusters!Next

(* run_collapse_range                                                      *)
LEMMA CollapseStep == Shows /\ Collapse => Shows' /\ (Clusters!Next \/ UNCHANGED map)
<1> SUFFICES ASSUME Shows, Collapse PROVE Shows' /\ (Clusters!Next \/ UNCHANGED map)
  OBVIOUS
<1>1. PICK vcn \in Vcns, len \in Lens, room \in Rooms :
        Fits(vcn, len) /\ Becomes(CollapseRange(runs, room, vcn, len).runs)
  BY DEF Collapse
<1> DEFINE n == CollapseRange(runs, room, vcn, len)
           e == n.runs
<1>2. vcn \in Nat /\ len \in Nat \ {0} /\ room \in Nat /\ vcn + len <= LastVcn + 1
  BY <1>1, RangeFacts
<1>3. runs \in Trees /\ InOrder(runs) /\ map = Located(runs)
  BY DEF Shows, WellFormed
<1>4. /\ e \in Trees /\ InOrder(e)
      /\ e = runs \/ Collapses(e, runs, vcn, len) \/ BreaksOff(e, runs, vcn, Sparse)
  BY <1>2, <1>3, CollapseRangeKeeps
<1>5. Becomes(e)
  BY <1>1
<1> HIDE DEF n
<1>6. Shows' /\ map' = Located(e)
  BY <1>4, <1>5, BecomesShows DEF Becomes, Located
<1>7. CASE e = runs
  BY <1>3, <1>6, <1>7
<1>8. CASE Collapses(e, runs, vcn, len)
  <2>1. ASSUME NEW v \in Vcns
        PROVE  Location(e, v) = IF v < vcn THEN map[v] ELSE Clusters!Moved(v + len)
    <3>1. v \in Nat /\ v + len \in Nat /\ map[v] = Location(runs, v)
      BY <1>2, <1>3, ClusterFacts DEF Located
    <3>2. Location(e, v) = Location(runs, IF v < vcn THEN v ELSE v + len)
      BY <1>8, <3>1 DEF Collapses
    <3> QED BY <3>1, <3>2, MovedShows
  <2>2. Clusters!Collapse(vcn, len)
    BY <1>6, <2>1 DEF Clusters!Collapse, Located
  <2>3. len \in Clusters!Lens
    BY RunTreeConstants DEF Lens, Clusters!Lens, Vcns
  <2> QED BY <1>6, <2>2, <2>3 DEF Clusters!Next
<1>9. CASE BreaksOff(e, runs, vcn, Sparse)
  <2>1. ASSUME NEW v \in Vcns
        PROVE  \/ map'[v] = map[v]
               \/ v >= vcn /\ map'[v] \in {Clusters!Unmapped, Clusters!At(Sparse, v - vcn)}
    <3>1. v \in Nat /\ map[v] = Location(runs, v) /\ map'[v] = Location(e, v)
      BY <1>3, <1>6, ClusterFacts DEF Located
    <3> QED BY <1>9, <3>1, SameNames DEF BreaksOff
  <2>2. Clusters!PlaceFails(vcn, Sparse)
    BY <2>1 DEF Clusters!PlaceFails
  <2> QED BY <1>6, <2>2, SameNames DEF Clusters!Next
<1> QED BY <1>4, <1>7, <1>8, <1>9

(* run_insert_range                                                        *)
LEMMA InsertStep == Shows /\ Insert => Shows' /\ (Clusters!Next \/ UNCHANGED map)
<1> SUFFICES ASSUME Shows, Insert PROVE Shows' /\ (Clusters!Next \/ UNCHANGED map)
  OBVIOUS
<1>1. PICK vcn \in Vcns, len \in Lens, room \in Rooms :
        Fits(Top, len) /\ Becomes(InsertRange(runs, room, vcn, len).runs)
  BY DEF Insert
<1> DEFINE n == InsertRange(runs, room, vcn, len)
           e == n.runs
<1>2. vcn \in Nat /\ len \in Nat \ {0} /\ room \in Nat
  BY <1>1, RangeFacts
<1>3. runs \in Trees /\ InOrder(runs) /\ map = Located(runs) /\ WellFormed
  BY DEF Shows, WellFormed
<1>4. \A j \in 1 .. Len(runs) : End(runs[j]) + len <= LastVcn + 1
  <2> SUFFICES ASSUME NEW j \in 1 .. Len(runs) PROVE End(runs[j]) + len <= LastVcn + 1
    OBVIOUS
  <2>1. End(runs[j]) <= Top /\ End(runs[j]) \in Nat
    BY <1>3, TopIsLast, TreeTypes
  <2>2. Top \in Nat
    <3>1. runs # <<>> /\ Len(runs) \in 1 .. Len(runs)
      BY <1>3, TreeFacts
    <3>2. Top = End(runs[Len(runs)])
      BY <3>1 DEF Top, Last
    <3> QED BY <1>3, <3>1, <3>2, TreeTypes
  <2>3. Top + len <= LastVcn + 1
    BY <1>1, <1>2, <2>2, RunTreeConstants DEF Fits, Vcns
  <2> QED BY <1>2, <2>1, <2>2, <2>3, RunTreeConstants
<1>5. /\ e \in Trees /\ InOrder(e)
      /\ e = runs \/ Inserts(e, runs, vcn, len) \/ InsertBreaksOff(e, runs, vcn, len)
  BY <1>2, <1>3, <1>4, InsertRangeKeeps
<1>6. Becomes(e)
  BY <1>1
<1> HIDE DEF n
<1>7. Shows' /\ map' = Located(e)
  BY <1>5, <1>6, BecomesShows DEF Becomes, Located
<1>8. len \in Clusters!Lens
  BY RunTreeConstants DEF Lens, Clusters!Lens, Vcns
<1>9. ASSUME NEW v \in Vcns
      PROVE  /\ v \in Nat /\ map[v] = Location(runs, v) /\ map'[v] = Location(e, v)
             /\ v >= vcn + len => v - len \in Nat /\ Clusters!Moved(v - len) = Location(runs, v - len)
  <2>1. v \in Nat /\ map[v] = Location(runs, v) /\ map'[v] = Location(e, v)
    BY <1>3, <1>7, ClusterFacts DEF Located
  <2>2. v >= vcn + len => v - len \in Nat
    BY <1>2, <2>1
  <2> QED BY <2>1, <2>2, MovedShows
<1>10. CASE e = runs
  BY <1>3, <1>7, <1>10
<1>11. CASE Inserts(e, runs, vcn, len)
  <2>1. ASSUME NEW v \in Vcns
        PROVE  Location(e, v) = IF v < vcn THEN map[v]
                                ELSE IF v \in Clusters!Within(vcn, len) THEN Clusters!Sparse
                                ELSE Clusters!Moved(v - len)
    <3>1. Location(e, v) = IF v < vcn THEN Location(runs, v)
                           ELSE IF v < vcn + len THEN Sparse ELSE Location(runs, v - len)
      BY <1>9, <1>11 DEF Inserts
    <3>2. v \in Clusters!Within(vcn, len) <=> vcn <= v /\ v < vcn + len
      BY <1>2, <1>9 DEF Clusters!Within
    <3>3. ~ (v < vcn) <=> vcn <= v
      BY <1>2, <1>9
    <3>4. ~ (v < vcn + len) <=> v >= vcn + len
      BY <1>2, <1>9
    <3> QED BY <1>9, <3>1, <3>2, <3>3, <3>4, SameNames
  <2>2. Clusters!Insert(vcn, len)
    BY <1>7, <2>1 DEF Clusters!Insert, Located
  <2> QED BY <1>7, <1>8, <2>2 DEF Clusters!Next
<1>12. CASE InsertBreaksOff(e, runs, vcn, len)
  <2>1. ASSUME NEW v \in Vcns
        PROVE  \/ v < vcn /\ map'[v] = map[v]
               \/ v >= vcn /\ map'[v] = Clusters!Unmapped
               \/ v >= vcn + len /\ map'[v] = Clusters!Moved(v - len)
    BY <1>9, <1>12, SameNames DEF InsertBreaksOff
  <2>2. Clusters!InsertFails(vcn, len)
    BY <2>1 DEF Clusters!InsertFails
  <2> QED BY <1>7, <1>8, <2>2 DEF Clusters!Next
<1> QED BY <1>5, <1>10, <1>11, <1>12

(* An empty array shows nothing.                                           *)
LEMMA InitShows == Init => Shows /\ Clusters!Init
<1> SUFFICES ASSUME Init PROVE Shows /\ Clusters!Init
  OBVIOUS
<1>1. runs = <<>> /\ map = [v \in Vcns |-> Unmapped]
  BY DEF Init
<1>2. runs \in Trees /\ InOrder(runs)
  BY <1>1 DEF Trees, InOrder
<1>3. ASSUME NEW v \in Vcns PROVE Location(runs, v) = Unmapped
  BY <1>1 DEF Location
<1>4. map = Located(runs)
  BY <1>1, <1>3 DEF Located
<1> QED BY <1>1, <1>2, <1>4, SameNames DEF Shows, WellFormed, Clusters!Init

(* Every operation keeps the array in order and is one of ClusterMap.      *)
LEMMA NextShows == Shows /\ [Next]_vars => Shows' /\ [Clusters!Next]_map
<1> SUFFICES ASSUME Shows, [Next]_vars PROVE Shows' /\ [Clusters!Next]_map
  OBVIOUS
<1>1. CASE Add
  BY <1>1, AddStep
<1>2. CASE DropHead
  BY <1>2, DropHeadStep
<1>3. CASE DropTail
  BY <1>3, DropTailStep
<1>4. CASE DropAround
  BY <1>4, DropAroundStep
<1>5. CASE Collapse
  BY <1>5, CollapseStep
<1>6. CASE Insert
  BY <1>6, InsertStep
<1>7. CASE UNCHANGED vars
  BY <1>7 DEF vars, Shows, WellFormed, InOrder, Located
<1> QED BY <1>1, <1>2, <1>3, <1>4, <1>5, <1>6, <1>7 DEF Next

(* The invariant holds throughout.                                         *)
LEMMA AlwaysShows == Spec => []Shows
<1>1. Init => Shows
  BY InitShows
<1>2. Shows /\ [Next]_vars => Shows'
  BY NextShows
<1> QED BY <1>1, <1>2, PTL DEF Spec

(* run_lookup_entry: each cluster's location, and its place when no run    *)
(* has it.                                                                 *)
LEMMA ShownIsFound == Shows => LookupFinds
<1> SUFFICES ASSUME Shows, NEW v \in Vcns
             PROVE  LET at == Lookup(runs, v) IN
                    /\ LookupEntry(runs, v).lcn = map[v]
                    /\ at.found <=> map[v] # Unmapped
                    /\ ~ at.found => \A i \in DOMAIN runs : i < at.index <=> runs[i].vcn <= v
  BY DEF LookupFinds
<1> DEFINE at == Lookup(runs, v)
<1>1. runs \in Trees /\ InOrder(runs) /\ v \in Nat /\ map[v] = Location(runs, v) /\ at = Lookup(runs, v)
  BY ClusterFacts DEF Shows, WellFormed, Located
<1>2. LookupEntry(runs, v) =
        IF at.found THEN [lcn |-> After(runs[at.index], v).lcn, len |-> End(runs[at.index]) - v]
        ELSE [lcn |-> Unmapped, len |-> 0]
  BY DEF LookupEntry
<1> HIDE DEF at
<1>3. /\ at.found => /\ at.index \in 1 .. Len(runs) /\ Covers(runs[at.index], v)
                     /\ Location(runs, v) = At(runs[at.index].lcn, v - runs[at.index].vcn)
      /\ at.found <=> Location(runs, v) # Unmapped
      /\ ~ at.found => /\ at.index \in 1 .. Len(runs) + 1
                       /\ \A i \in 1 .. Len(runs) : i < at.index <=> runs[i].vcn <= v
  BY <1>1, FoundIsMapped
<1>4. DOMAIN runs = 1 .. Len(runs)
  BY <1>1, TreeFacts
<1>5. LookupEntry(runs, v).lcn = map[v]
  <2>1. CASE at.found
    <3>1. LookupEntry(runs, v).lcn = After(runs[at.index], v).lcn
      BY <1>2, <2>1
    <3> DEFINE r == runs[at.index]
    <3>2. r \in Runs /\ r.vcn <= v
      BY <1>1, <1>3, <2>1, TreeFacts DEF Covers
    <3> HIDE DEF r
    <3>3. After(r, v).lcn = At(r.lcn, v - r.vcn)
      BY <1>1, <3>2, AfterIsRun
    <3> QED BY <1>1, <1>3, <2>1, <3>1, <3>3 DEF r
  <2>2. CASE ~ at.found
    BY <1>1, <1>2, <1>3, <2>2
  <2> QED BY <2>1, <2>2
<1> QED BY <1>1, <1>3, <1>4, <1>5 DEF at

(* run_is_mapped_full: runs that touch one another leave no cluster out,   *)
(* and clusters that are all mapped lie in runs that touch one another.    *)
Touching(rs, first, last) == \A i \in first + 1 .. last : rs[i].vcn = End(rs[i - 1])

(* Runs that touch one another leave no cluster out.                       *)
LEMMA TouchingCover ==
  ASSUME NEW rs \in Trees, InOrder(rs), NEW first \in 1 .. Len(rs), NEW last \in first .. Len(rs),
         Touching(rs, first, last), NEW v \in Nat, rs[first].vcn <= v, v < End(rs[last])
  PROVE  Location(rs, v) # Unmapped
<1> DEFINE T == {k \in first .. last : v < End(rs[k])}
<1>1. Len(rs) \in Nat
  BY TreeFacts
<1>2. last \in T /\ T \in SUBSET Nat
  BY <1>1
<1>3. PICK k \in T : \A j \in T : k <= j
  <2> HIDE DEF T
  <2> QED BY <1>2, LeastExists
<1>4. k \in 1 .. Len(rs) /\ k \in first .. last /\ v < End(rs[k])
  BY <1>1, <1>3
<1>5. rs[k].vcn <= v
  <2>1. CASE k = first
    BY <2>1
  <2>2. CASE k # first
    <3>1. k - 1 \in first .. last /\ k - 1 \in 1 .. Len(rs) /\ ~ (k <= k - 1) /\ k \in first + 1 .. last
      BY <1>1, <1>4, <2>2
    <3>2. ~ (v < End(rs[k - 1]))
      BY <1>3, <3>1
    <3>3. End(rs[k - 1]) \in Nat
      BY <3>1, TreeTypes
    <3>4. rs[k].vcn = End(rs[k - 1])
      BY <3>1 DEF Touching
    <3> QED BY <3>2, <3>3, <3>4
  <2> QED BY <2>1, <2>2
<1>6. Covers(rs[k], v)
  BY <1>4, <1>5 DEF Covers
<1> QED BY <1>4, <1>6, LocationInOrder

(* Clusters that are all mapped lie in runs that touch one another.        *)
LEMMA MappedTouch ==
  ASSUME NEW rs \in Trees, InOrder(rs), NEW first \in 1 .. Len(rs), NEW last \in 1 .. Len(rs),
         NEW s \in Nat, NEW e \in Nat, s <= e, Covers(rs[first], s), Covers(rs[last], e),
         \A v \in s .. e : Location(rs, v) # Unmapped
  PROVE  last \in first .. Len(rs) /\ End(rs[last]) > e /\ Touching(rs, first, last)
<1>1. Len(rs) \in Nat
  BY TreeFacts
<1>2. /\ rs[first].vcn <= s /\ s < End(rs[first]) /\ rs[last].vcn <= e /\ e < End(rs[last])
      /\ rs[first].vcn \in Nat /\ End(rs[first]) \in Nat /\ rs[last].vcn \in Nat /\ End(rs[last]) \in Nat
  BY TreeTypes DEF Covers
<1>3. first <= last
  <2>1. last < first => End(rs[last]) <= rs[first].vcn
    BY OrderFacts
  <2> QED BY <1>2, <2>1
<1>4. ASSUME NEW i \in first + 1 .. last PROVE rs[i].vcn = End(rs[i - 1])
  <2>1. i \in 1 .. Len(rs) /\ i - 1 \in 1 .. Len(rs) /\ first <= i - 1 /\ i <= last /\ i - 1 < i
    BY <1>1
  <2> DEFINE v == End(rs[i - 1])
  <2>2. v <= rs[i].vcn /\ v \in Nat /\ rs[i].vcn \in Nat /\ End(rs[i]) \in Nat
    BY <2>1, OrderFacts
  <2>3. s < v
    <3>1. first < i - 1 => End(rs[first]) <= rs[i - 1].vcn
      BY <2>1, OrderFacts
    <3>2. rs[i - 1].vcn < v /\ rs[i - 1].vcn \in Nat
      BY <2>1, TreeTypes
    <3>3. first < i - 1 \/ first = i - 1
      BY <2>1
    <3> QED BY <1>2, <2>2, <3>1, <3>2, <3>3
  <2>4. rs[i].vcn <= e
    <3>1. i < last => End(rs[i]) <= rs[last].vcn
      BY <2>1, OrderFacts
    <3>2. rs[i].vcn < End(rs[i])
      BY <2>1, TreeTypes
    <3>3. i < last \/ i = last
      BY <2>1
    <3>4. CASE i < last
      <4> DEFINE a == rs[i].vcn
                 b == End(rs[i])
                 c == rs[last].vcn
      <4>1. a \in Nat /\ b \in Nat /\ c \in Nat /\ a < b /\ b <= c /\ c <= e
        BY <1>2, <2>2, <3>1, <3>2, <3>4
      <4> HIDE DEF v, a, b, c
      <4>2. a <= e
        BY <4>1
      <4> QED BY <4>2 DEF a
    <3>5. CASE i = last
      BY <1>2, <3>5
    <3> QED BY <3>3, <3>4, <3>5
  <2> SUFFICES ASSUME v < rs[i].vcn PROVE FALSE
    BY <2>2
  <2>5. v \in s .. e
    BY <2>2, <2>3, <2>4
  <2> HIDE DEF v
  <2>6. Location(rs, v) # Unmapped
    BY <2>5
  <2>7. PICK j \in 1 .. Len(rs) : Covers(rs[j], v)
    BY <2>2, <2>6, LocationInOrder
  <2>8. rs[j].vcn <= v /\ v < End(rs[j]) /\ rs[j].vcn \in Nat /\ End(rs[j]) \in Nat
    BY <2>7, TreeTypes DEF Covers
  <2>9. CASE j < i
    <3>1. j < i - 1 => End(rs[j]) <= rs[i - 1].vcn
      BY <2>1, OrderFacts
    <3>2. rs[i - 1].vcn < v /\ rs[i - 1].vcn \in Nat
      BY <2>1, TreeTypes DEF v
    <3>3. j < i - 1 \/ j = i - 1
      BY <2>1, <2>9
    <3>4. j = i - 1 => End(rs[j]) = v
      BY DEF v
    <3> QED BY <2>2, <2>8, <3>1, <3>2, <3>3, <3>4
  <2>10. CASE ~ (j < i)
    <3>1. i < j => End(rs[i]) <= rs[j].vcn
      BY <2>1, OrderFacts
    <3>2. rs[i].vcn < End(rs[i])
      BY <2>1, TreeTypes
    <3>3. i < j \/ i = j
      BY <2>1, <2>10
    <3>4. CASE i < j
      <4> DEFINE a == rs[i].vcn
                 b == End(rs[i])
                 c == rs[j].vcn
      <4>1. /\ a \in Nat /\ b \in Nat /\ c \in Nat /\ a < b /\ b <= c /\ c <= v
            /\ v < a /\ v \in Nat
        BY <2>2, <2>8, <3>1, <3>2, <3>4
      <4> HIDE DEF a, b, c
      <4> QED BY <4>1
    <3>5. CASE i = j
      <4>1. rs[j].vcn = rs[i].vcn
        BY <3>5
      <4> QED BY <2>2, <2>8, <4>1
    <3> QED BY <3>3, <3>4, <3>5
  <2> QED BY <2>9, <2>10
<1> QED BY <1>1, <1>2, <1>3, <1>4 DEF Touching

(* The answer of run_is_mapped_full is that of the map.                    *)
LEMMA ShownIsMappedFull == Shows => MappedFullIsMapped
<1> SUFFICES ASSUME Shows, NEW s \in Vcns, NEW e \in s .. LastVcn
             PROVE  IsMappedFull(runs, s, e) <=> \A v \in s .. e : map[v] # Unmapped
  BY DEF MappedFullIsMapped
<1> DEFINE at == Lookup(runs, s)
           first == at.index
<1>1. runs \in Trees /\ InOrder(runs) /\ s \in Nat /\ e \in Nat /\ s <= e /\ e <= LastVcn
  BY ClusterFacts, RunTreeConstants DEF Shows, WellFormed
<1>2. \A v \in s .. e : v \in Nat /\ map[v] = Location(runs, v)
  <2> SUFFICES ASSUME NEW v \in s .. e PROVE v \in Nat /\ map[v] = Location(runs, v)
    OBVIOUS
  <2>1. v \in Nat /\ v \in Vcns
    BY <1>1, RunTreeConstants DEF Vcns
  <2> QED BY <2>1 DEF Shows, Located
<1>3. at = Lookup(runs, s) /\ Len(runs) \in Nat
  BY <1>1, TreeFacts
<1>4. IsMappedFull(runs, s, e) <=>
        /\ at.found
        /\ \E last \in first .. Len(runs) : End(runs[last]) > e /\ Touching(runs, first, last)
  BY DEF IsMappedFull, Touching
<1> HIDE DEF at
<1>5. /\ at.found => first \in 1 .. Len(runs) /\ Covers(runs[first], s)
      /\ at.found <=> Location(runs, s) # Unmapped
  BY <1>1, <1>3, FoundIsMapped
<1>6. ASSUME IsMappedFull(runs, s, e), NEW v \in s .. e PROVE map[v] # Unmapped
  <2>1. PICK last \in first .. Len(runs) : End(runs[last]) > e /\ Touching(runs, first, last)
    BY <1>4, <1>6
  <2>2. first \in 1 .. Len(runs) /\ Covers(runs[first], s)
    BY <1>4, <1>5, <1>6
  <2>3. runs[first].vcn <= s /\ runs[first].vcn \in Nat /\ End(runs[last]) \in Nat
    BY <1>1, <1>3, <2>2, TreeTypes DEF Covers
  <2>4. runs[first].vcn <= v /\ v < End(runs[last]) /\ v \in Nat
    BY <1>1, <2>1, <2>3
  <2> HIDE DEF first
  <2>5. Location(runs, v) # Unmapped
    BY <1>1, <2>1, <2>2, <2>4, TouchingCover
  <2> QED BY <1>2, <2>5
<1>7. ASSUME \A v \in s .. e : map[v] # Unmapped PROVE IsMappedFull(runs, s, e)
  <2>1. \A v \in s .. e : Location(runs, v) # Unmapped
    BY <1>2, <1>7
  <2>2. s \in s .. e /\ e \in s .. e
    BY <1>1
  <2>3. at.found /\ first \in 1 .. Len(runs) /\ Covers(runs[first], s)
    BY <1>5, <2>1, <2>2
  <2>4. PICK last \in 1 .. Len(runs) : Covers(runs[last], e)
    BY <1>1, <2>1, <2>2, LocationInOrder
  <2> HIDE DEF first
  <2>5. last \in first .. Len(runs) /\ End(runs[last]) > e /\ Touching(runs, first, last)
    BY <1>1, <2>1, <2>3, <2>4, MappedTouch
  <2> QED BY <1>4, <2>3, <2>5 DEF first
<1> QED BY <1>6, <1>7
-----------------------------------------------------------------------------
(* Every operation of run.c leaves runs of at least one cluster that lie   *)
(* in the file and follow one another, also when it ran out of memory in   *)
(* the middle: run_lookup relies on it.                                    *)
THEOREM RunsWellFormed == Spec => []WellFormed
<1>1. Shows => WellFormed
  BY DEF Shows
<1> QED BY <1>1, AlwaysShows, PTL

(* run_lookup finds, by bisection, the run of every cluster that has one,  *)
(* and for the others the place between their neighbours.                  *)
THEOREM RunsAreFound == Spec => []LookupFinds
BY AlwaysShows, ShownIsFound, PTL

(* run_is_mapped_full says yes exactly when every cluster of the range has *)
(* a location.                                                             *)
THEOREM RunsMappedFull == Spec => []MappedFullIsMapped
BY AlwaysShows, ShownIsMappedFull, PTL

(* The array of runs implements the map of clusters: every operation does  *)
(* to the locations of all clusters what ClusterMap says of it, and one    *)
(* that found no memory no more than ClusterMap allows.                    *)
THEOREM RunsImplementClusters == Spec => ClustersSpec
<1>1. Init => Clusters!Init
  BY InitShows
<1>2. Shows /\ [Next]_vars => [Clusters!Next]_map
  BY NextShows
<1> QED BY <1>1, <1>2, AlwaysShows, PTL DEF Spec, ClustersSpec, Clusters!Spec
===============================================================================
