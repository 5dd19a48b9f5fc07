------------------------------ MODULE RunPack ------------------------------
(***************************************************************************)
(* The packed form of the runs of ntfs3, run.c: what run_pack writes into  *)
(* an attribute on the disk, and run_unpack reads from there.              *)
(***************************************************************************)
EXTENDS RunTree

CONSTANTS
  BufSizes, \* sizes of the buffers that runs are packed into
  MaxSize   \* sizeof(s64), or fewer bytes where TLC's own integers end

(* Half of the numbers of k bytes.                                         *)
Half[k \in 1..8] == IF k = 1 THEN 128 ELSE 256 * Half[k - 1]

(* A slip: the sign has no bit of its own.                                 *)
PackedSizeUnsigned(n) ==
  CHOOSE k \in 1 .. MaxSize : n < 2 * Half[k] /\ \A j \in 1 .. k - 1 : n >= 2 * Half[j]

(* run_packed_size: the fewest bytes that hold a signed number.            *)
Holds(k, n) == -Half[k] <= n /\ n < Half[k]
PackedSize(n) == CHOOSE k \in 1 .. MaxSize : Holds(k, n) /\ \A j \in 1 .. k - 1 : ~ Holds(j, n)

(* Lengths and clusters of the volume are numbers of the code's.           *)
ASSUME RunPackConstants ==
  /\ BufSizes \subseteq Nat \ {0}
  /\ MaxSize \in 1..8
  /\ Holds(MaxSize, LastVcn + 1)
  /\ \A lcn \in Lcns : Holds(MaxSize, lcn + LastVcn)

(* run_pack_s64 and run_unpack_s64: a number in k bytes, read again with   *)
(* its sign or without.                                                    *)
Unsigned(k, n) == n % (2 * Half[k])
Signed(k, n) == LET u == Unsigned(k, n) IN IF u < Half[k] THEN u ELSE u - 2 * Half[k]

(* run_pack: pairs of a length and of the distance from the last run that  *)
(* is not a hole, as many as fit with the last zero.                       *)
PackRun(evcn1, p, r) ==
  LET hole   == r.lcn = Sparse
      len    == IF End(r) > evcn1 THEN evcn1 - r.vcn ELSE r.len
      offset == IF hole THEN 0 ELSE PackedSize(r.lcn - p.prev)
      left   == p.left - 1 - offset - PackedSize(len)
      entry  == [len |-> Unsigned(PackedSize(len), len), sparse |-> hole,
                 dlcn |-> IF hole THEN 0 ELSE Signed(offset, r.lcn - p.prev)]
  IN IF p.full \/ left < 1 THEN [p EXCEPT !.full = TRUE]
     ELSE [entries |-> Append(p.entries, entry), vcns |-> p.vcns + len, left |-> left,
           prev |-> IF hole THEN p.prev ELSE r.lcn, full |-> left = 1 \/ End(r) >= evcn1]

Pack(rs, svcn, len, size) ==
  LET rest == TruncateHead(rs, svcn)
      packed[i \in 0 .. Len(rest)] ==
        IF i = 0 THEN [entries |-> <<>>, vcns |-> 0, left |-> size, prev |-> 0, full |-> FALSE]
        ELSE PackRun(svcn + len, packed[i - 1], rest[i])
  IN packed[Len(rest)]

(* run_unpack, of runs that were packed: those before "from" are left out, *)
(* and the first one that lies nowhere on the volume ends it with EINVAL.  *)
UnpackRun(from, u, e) ==
  LET lcn   == IF e.sparse THEN Sparse ELSE u.prev + e.dlcn
      next  == u.vcn + e.len
      start == Max({u.vcn, from})
      added == AddEntry[Addition(u.runs, 1, Run(start, next - start, lcn + (start - u.vcn)))].runs
  IN IF ~ u.ok \/ (~ e.sparse /\ (e.dlcn = 0 \/ lcn < 0)) THEN [u EXCEPT !.ok = FALSE]
     ELSE [u EXCEPT !.vcn = next, !.prev = IF e.sparse THEN @ ELSE lcn,
                    !.runs = IF next > start THEN added ELSE @]

Unpack(entries, svcn, from) ==
  LET read[i \in 0 .. Len(entries)] ==
        IF i = 0 THEN [runs |-> <<>>, vcn |-> svcn, prev |-> 0, ok |-> TRUE]
        ELSE UnpackRun(from, read[i - 1], entries[i])
  IN read[Len(entries)].runs
-----------------------------------------------------------------------------
(* No two runs share a cluster of the volume.                              *)
NoneShared ==
  \A v, w \in Vcns : v # w /\ map[v] >= 0 => map[v] # map[w]

(* What is packed of a mapped range and read again from some cluster on    *)
(* has the locations it had, whatever the buffer cut off and whichever     *)
(* holes lie between.  Reading is from the start of a hole or from within  *)
(* clusters, not from within a hole: see the hazards.                      *)
PackedIsRead ==
  NoneShared =>
  \A s \in Vcns : \A e \in {x \in s .. LastVcn : IsMappedFull(runs, s, x)} : \A size \in BufSizes :
    LET packed == Pack(runs, s, e - s + 1, size)
        last   == s + packed.vcns - 1
    IN \A from \in {v \in s .. last : map[v] # Sparse \/ v = s \/ map[v - 1] # Sparse} :
         LET read == Unpack(packed.entries, s, from) IN
         \A v \in Vcns :
           Location(read, v) = IF v \in from .. last THEN map[v] ELSE Unmapped
=============================================================================
