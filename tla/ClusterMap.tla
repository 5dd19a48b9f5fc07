----------------------------- MODULE ClusterMap -----------------------------
(***************************************************************************)
(* What a run tree of ntfs3 promises: the location of every cluster of a   *)
(* file, and operations on ranges of them.  When memory runs out in the    *)
(* middle of an operation the clusters from its start on may be lost, and  *)
(* may even be taken for clusters next to the new ones.                    *)
(***************************************************************************)
EXTENDS Integers

CONSTANTS
  Vcns, \* 0 .. n, the clusters of the file
  Lcns  \* clusters of the volume where a range starts

Lens == {v + 1 : v \in Vcns}
Sparse == -1
Unmapped == -2

VARIABLE map

(* A cluster of a range that starts at lcn: a hole is a hole throughout.   *)
At(lcn, offset) == IF lcn = Sparse THEN Sparse ELSE lcn + offset

Init == map = [v \in Vcns |-> Unmapped]

Within(vcn, len) == vcn .. vcn + len - 1
Moved(v) == IF v \in Vcns THEN map[v] ELSE Unmapped

Place(vcn, lcn, len) ==
  map' = [v \in Vcns |-> IF v \in Within(vcn, len) THEN At(lcn, v - vcn) ELSE map[v]]

PlaceFails(vcn, lcn) ==
  \A v \in Vcns :
    \/ map'[v] = map[v]
    \/ v >= vcn /\ map'[v] \in {Unmapped, At(lcn, v - vcn)}

(* What is dropped is only forgotten: it can be read again from the disk.  *)
DropBefore(vcn) ==
  map' = [v \in Vcns |-> IF v < vcn THEN Unmapped ELSE map[v]]

DropFrom(vcn) ==
  map' = [v \in Vcns |-> IF v >= vcn THEN Unmapped ELSE map[v]]

DropAround(vcn) ==
  \E last \in Vcns :
    map' = [v \in Vcns |-> IF v \in vcn .. last THEN map[v] ELSE Unmapped]

Collapse(vcn, len) ==
  map' = [v \in Vcns |-> IF v < vcn THEN map[v] ELSE Moved(v + len)]

Insert(vcn, len) ==
  map' = [v \in Vcns |-> IF v < vcn THEN map[v]
                         ELSE IF v \in Within(vcn, len) THEN Sparse ELSE Moved(v - len)]

InsertFails(vcn, len) ==
  \A v \in Vcns :
    \/ v < vcn /\ map'[v] = map[v]
    \/ v >= vcn /\ map'[v] = Unmapped
    \/ v >= vcn + len /\ map'[v] = Moved(v - len)

Next ==
  \E vcn \in Vcns :
    \/ DropBefore(vcn) \/ DropFrom(vcn) \/ DropAround(vcn)
    \/ \E lcn \in Lcns \cup {Sparse} :
         PlaceFails(vcn, lcn) \/ \E len \in Lens : Place(vcn, lcn, len)
    \/ \E len \in Lens : Collapse(vcn, len) \/ Insert(vcn, len) \/ InsertFails(vcn, len)

Spec == Init /\ [][Next]_map
=============================================================================
