------------------------------ MODULE RunTree ------------------------------
(***************************************************************************)
(* The run tree of ntfs3, run.c: an array of runs, each of clusters of a   *)
(* file that lie together on the volume or of a hole, in the order of the  *)
(* file.  Every operation looks its place up by bisection, works on the    *)
(* array in place, and may find no memory for another run.                 *)
(*                                                                         *)
(* Indices start with 1, where those of the array start with 0.  Numbers   *)
(* are small enough not to overflow, and SPARSE_LCN is -1.  How much was   *)
(* allocated is left out: any insertion may be the one that needs more,    *)
(* and "room" says how many succeed before one fails.                      *)
(***************************************************************************)
EXTENDS Integers, Sequences, SequencesExt

CONSTANTS
  LastVcn, \* the clusters of the file are 0 .. LastVcn
  Lcns,    \* clusters of the volume where an added range starts
  Rooms,   \* how many insertions may succeed
  MaxRuns  \* NTFS3_RUN_MAX_BYTES / sizeof(struct ntfs_run) / 2

ASSUME RunTreeConstants ==
  /\ LastVcn \in Nat
  /\ Lcns \subseteq Nat \ {0}  \* cluster 0 is the boot sector's
  /\ Rooms \subseteq Nat
  /\ MaxRuns \in Nat \ {0, 1}

VARIABLES
  runs, \* run->runs
  map   \* history: where the runs locate each cluster

vars == <<runs, map>>

Vcns == 0 .. LastVcn
Lens == 1 .. LastVcn + 1
Sparse == -1
Unmapped == -2
At(lcn, offset) == IF lcn = Sparse THEN Sparse ELSE lcn + offset
End(r) == r.vcn + r.len
Run(vcn, len, lcn) == [vcn |-> vcn, len |-> len, lcn |-> lcn]
Fits(vcn, len) == vcn + len - 1 \in Vcns

(* Runs of a file, and arrays of them in any order.                        *)
Runs == {r \in [vcn : Vcns, len : Lens, lcn : Nat \cup {Sparse}] : Fits(r.vcn, r.len)}
Trees == Seq(Runs)

(* The part of a run from vcn on, and the part before vcn.                 *)
After(r, vcn) == Run(vcn, End(r) - vcn, At(r.lcn, vcn - r.vcn))
Before(r, vcn) == [r EXCEPT !.len = vcn - r.vcn]
-----------------------------------------------------------------------------
(* run_lookup: the run that has vcn, or the place for one.                 *)
Found(i) == [found |-> TRUE, index |-> i]
Place(i) == [found |-> FALSE, index |-> i]

Bisect(rs, vcn) ==
  LET bisect[range \in (Nat \ {0}) \X Nat] ==
        LET min == range[1]
            max == range[2]
            mid == min + (max - min) \div 2
        IN
        IF min > max THEN Place(max + 1)
        ELSE IF vcn < rs[mid].vcn THEN bisect[<<min, mid - 1>>]
        ELSE IF vcn >= End(rs[mid]) THEN bisect[<<mid + 1, max>>]
        ELSE Found(mid)
  IN bisect

(* A slip: a run is taken to include the cluster after its last one.       *)
LookupPastEnd(rs, vcn) ==
  IF rs = <<>> \/ vcn < rs[1].vcn THEN Place(1)
  ELSE IF vcn <= End(rs[1]) THEN Found(1)
  ELSE IF vcn >= End(Last(rs)) THEN Place(Len(rs) + 1)
  ELSE Bisect(rs, vcn)[<<1, Len(rs)>>]

Lookup(rs, vcn) ==
  IF rs = <<>> \/ vcn < rs[1].vcn THEN Place(1)
  ELSE IF vcn < End(rs[1]) THEN Found(1)
  ELSE IF vcn >= End(Last(rs)) THEN Place(Len(rs) + 1)
  ELSE IF vcn >= Last(rs).vcn THEN Found(Len(rs))
  ELSE Bisect(rs, vcn)[<<1, Len(rs)>>]

(* A slip: a run that reaches the end of the range is not asked whether    *)
(* the range lies in the runs before it.                                   *)
MappedFullByEnds(rs, svcn, evcn) ==
  LET at == Lookup(rs, svcn) IN
  at.found /\ End(Last(rs)) > evcn

(* run_is_mapped_full                                                      *)
IsMappedFull(rs, svcn, evcn) ==
  LET at == Lookup(rs, svcn) IN
  /\ at.found
  /\ \E last \in at.index .. Len(rs) :
       /\ End(rs[last]) > evcn
       /\ \A i \in at.index + 1 .. last : rs[i].vcn = End(rs[i - 1])

(* run_lookup_entry: the location of vcn, and how far its run goes on.     *)
LookupEntry(rs, vcn) ==
  LET at == Lookup(rs, vcn) IN
  IF at.found THEN [lcn |-> After(rs[at.index], vcn).lcn, len |-> End(rs[at.index]) - vcn]
  ELSE [lcn |-> Unmapped, len |-> 0]

(* run_consolidate: the runs after the i-th that it overlaps are cut or    *)
(* removed, and joined when they continue it.                              *)
Consolidate[s \in Trees \X (Nat \ {0})] ==
  LET rs == s[1]
      i  == s[2]
      r  == rs[i]
      n  == After(rs[i + 1], End(r))
  IN
  IF i >= Len(rs) \/ rs[i + 1].vcn > End(r) THEN rs
  ELSE IF n.len <= 0 THEN Consolidate[<<RemoveAt(rs, i + 1), i>>]
  ELSE IF (n.lcn = Sparse) # (r.lcn = Sparse) THEN Consolidate[<<[rs EXCEPT ![i + 1] = n], i + 1>>]
  ELSE IF n.lcn \notin {Sparse, r.lcn + r.len} THEN [rs EXCEPT ![i + 1] = n]
  ELSE Consolidate[<<RemoveAt([rs EXCEPT ![i].len = @ + n.len], i + 1), i>>]

(* A slip: one pass, from the run before the change.                       *)
NormalizeOnce(rs, i) == Consolidate[<<rs, i>>]

Normalize(rs, i) == Consolidate[<<Consolidate[<<rs, i>>], i + 1>>]
-----------------------------------------------------------------------------
(* What an operation returns: whether it succeeded, the runs as they are,  *)
(* and the room that is left.                                              *)
Result(ok, rs, room) == [ok |-> ok, runs |-> rs, room |-> room]

(* What run_add_entry is called with: a range that lies in the file.       *)
Addition(rs, room, r) == [runs |-> rs, room |-> room, vcn |-> r.vcn, lcn |-> r.lcn, len |-> r.len]
Additions == {a \in [runs : Trees, room : Nat, vcn : Vcns, lcn : Nat \cup {Sparse}, len : Lens] :
                Fits(a.vcn, a.len)}

(* run_add_entry up to its call of itself.  A range may continue the i-th  *)
(* run; start in it, which has it already or has something else and is cut *)
(* or, where they start together, overwritten; or belong before it.  What  *)
(* the run had after the range is left to be added ("tail").               *)
AddOnce(a, inrange, i) ==
  LET rs      == a.runs
      range   == Run(a.vcn, a.len, a.lcn)
      r       == rs[i]
      differs == inrange /\ After(r, a.vcn).lcn # a.lcn
      splits  == differs /\ a.vcn > r.vcn
      inserts == ~ inrange \/ splits
      cut     == IF splits THEN [rs EXCEPT ![i] = Before(r, a.vcn)] ELSE rs
      new     == IF splits THEN i + 1 ELSE i
      end     == IF End(r) < End(range) THEN End(range) ELSE End(r)
      over    == Run(r.vcn, end - r.vcn, IF differs THEN a.lcn ELSE r.lcn)
  IN
  [tail |-> IF differs THEN After(r, End(range)) ELSE Run(End(range), 0, Sparse),
   done |-> IF ~ inserts
            THEN Result(TRUE, Normalize([rs EXCEPT ![i] = over], IF i > 1 THEN i - 1 ELSE i), a.room)
            ELSE IF a.room = 0 THEN Result(FALSE, cut, a.room)
            ELSE Result(TRUE, Normalize(InsertAt(cut, new, range), new), a.room - 1)]

(* run_add_entry: until it has added the tail, an overwritten run reaches  *)
(* too far.                                                                *)
AddEntry[a \in Additions] ==
  LET at        == Lookup(a.runs, a.vcn)
      continues == /\ ~ at.found /\ at.index > 1
                   /\ End(a.runs[at.index - 1]) = a.vcn
                   /\ After(a.runs[at.index - 1], a.vcn).lcn = a.lcn
      once      == AddOnce(a, at.found \/ continues, IF continues THEN at.index - 1 ELSE at.index)
  IN
  IF once.done.ok /\ once.tail.len > 0
  THEN AddEntry[Addition(once.done.runs, once.done.room, once.tail)]
  ELSE once.done

(* run_truncate_head, run_truncate and run_truncate_around                 *)
TruncateHead(rs, vcn) ==
  LET at == Lookup(rs, vcn)
      rest == SubSeq(rs, at.index, Len(rs))
  IN IF at.found THEN [rest EXCEPT ![1] = After(@, vcn)] ELSE rest

Truncate(rs, vcn) ==
  LET at == Lookup(rs, vcn)
      rest == SubSeq(rs, 1, at.index - 1)
  IN IF at.found /\ vcn > rs[at.index].vcn THEN Append(rest, Before(rs[at.index], vcn)) ELSE rest

TruncateAround(rs, vcn) ==
  LET rest == TruncateHead(rs, vcn) IN
  IF Len(rest) >= MaxRuns THEN Truncate(rest, rest[(Len(rest) \div 2) + 1].vcn) ELSE rest

(* run_collapse_range: a run of clusters that the range lies inside is     *)
(* first split by a hole, so that the second call finds none to split.     *)
Collapsed(rs, vcn, len) ==
  LET at    == Lookup(rs, vcn)
      i     == at.index
      r     == rs[i]
      end   == vcn + len
      inner == vcn > r.vcn
      head  == SubSeq(rs, 1, i - 1) \o
                 IF ~ inner THEN <<>>
                 ELSE <<IF End(r) <= end THEN Before(r, vcn) ELSE [r EXCEPT !.len = @ - len]>>
      eat   == IF inner THEN i + 1 ELSE i
      eaten == {j \in eat .. Len(rs) : End(rs[j]) <= end}
      rest  == SubSeq(rs, Max({eat} \cup {j + 1 : j \in eaten}), Len(rs))
      Shift(x) == LET y == IF x.vcn >= end THEN x ELSE After(x, end)
                  IN  [y EXCEPT !.vcn = @ - len]
  IN IF at.found THEN head \o [j \in DOMAIN rest |-> Shift(rest[j])] ELSE rs

CollapseRange(rs, room, vcn, len) ==
  LET at     == Lookup(rs, vcn)
      r      == rs[at.index]
      splits == at.found /\ vcn > r.vcn /\ End(r) > vcn + len /\ r.lcn # Sparse
      added  == AddEntry[Addition(rs, room, Run(vcn, len, Sparse))]
  IN
  IF ~ splits THEN Result(TRUE, Collapsed(rs, vcn, len), room)
  ELSE IF ~ added.ok THEN added
  ELSE Result(TRUE, Collapsed(added.runs, vcn, len), added.room)

(* run_insert_range                                                        *)
InsertRange(rs, room, vcn, len) ==
  LET at      == Lookup(rs, vcn)
      i       == at.index
      r       == rs[i]
      splits  == vcn > r.vcn
      shifted == [j \in DOMAIN rs |->
                    IF j > i \/ (j = i /\ ~ splits) THEN [rs[j] EXCEPT !.vcn = @ + len] ELSE rs[j]]
      rest    == [After(r, vcn) EXCEPT !.vcn = @ + len]
      moved   == IF splits
                 THEN AddEntry[Addition([shifted EXCEPT ![i] = Before(r, vcn)], room, rest)]
                 ELSE Result(TRUE, shifted, room)
  IN IF ~ at.found THEN Result(FALSE, rs, room)
     ELSE IF ~ moved.ok THEN moved
     ELSE AddEntry[Addition(moved.runs, moved.room, Run(vcn, len, Sparse))]
-----------------------------------------------------------------------------
(* The location of a cluster by definition, without the bisection.         *)
Location(rs, v) ==
  LET has == {i \in DOMAIN rs : rs[i].vcn <= v /\ v < End(rs[i])} IN
  IF has = {} THEN Unmapped
  ELSE LET i == CHOOSE i \in has : TRUE IN At(rs[i].lcn, v - rs[i].vcn)

Top == IF runs = <<>> THEN 0 ELSE End(Last(runs))
Becomes(rs) ==
  /\ runs' = rs
  /\ map' = [v \in Vcns |-> Location(rs, v)]

Init == runs = <<>> /\ map = [v \in Vcns |-> Unmapped]

Add ==
  \E vcn \in Vcns, lcn \in Lcns \cup {Sparse}, len \in Lens, room \in Rooms :
    Fits(vcn, len) /\ Becomes(AddEntry[Addition(runs, room, Run(vcn, len, lcn))].runs)

DropHead == \E vcn \in Vcns : Becomes(TruncateHead(runs, vcn))
DropTail == \E vcn \in Vcns : Becomes(Truncate(runs, vcn))
DropAround == \E vcn \in Vcns : Becomes(TruncateAround(runs, vcn))

Collapse ==
  \E vcn \in Vcns, len \in Lens, room \in Rooms :
    Fits(vcn, len) /\ Becomes(CollapseRange(runs, room, vcn, len).runs)

Insert ==
  \E vcn \in Vcns, len \in Lens, room \in Rooms :
    Fits(Top, len) /\ Becomes(InsertRange(runs, room, vcn, len).runs)

Next == Add \/ DropHead \/ DropTail \/ DropAround \/ Collapse \/ Insert

Spec == Init /\ [][Next]_vars
-----------------------------------------------------------------------------
(* Runs are of at least one cluster, lie in the file, and follow one       *)
(* another, also when memory ran out: the bisection relies on it.          *)
InOrder(rs) == \A i, j \in DOMAIN rs : i < j => End(rs[i]) <= rs[j].vcn
WellFormed == runs \in Trees /\ InOrder(runs)

(* Every operation does to the locations of all clusters what the map of   *)
(* clusters says, and no other cluster moves.                              *)
Clusters == INSTANCE ClusterMap
ClustersSpec == Clusters!Spec

(* The bisection finds the run of each cluster, and how far it goes on;    *)
(* for a cluster that no run has, the place between its neighbours.        *)
LookupFinds ==
  \A v \in Vcns :
    LET at == Lookup(runs, v) IN
    /\ LookupEntry(runs, v).lcn = map[v]
    /\ at.found <=> map[v] # Unmapped
    /\ ~ at.found => \A i \in DOMAIN runs : i < at.index <=> runs[i].vcn <= v

(* A range is said to be mapped exactly when each of its clusters is: its  *)
(* callers then do not read the runs from the disk again.                  *)
MappedFullIsMapped ==
  \A s \in Vcns : \A e \in s .. LastVcn :
    IsMappedFull(runs, s, e) <=> \A v \in s .. e : map[v] # Unmapped
=============================================================================
