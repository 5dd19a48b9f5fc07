---------------------------- MODULE CmdMgrProofs ----------------------------
(***************************************************************************)
(* Proofs about CmdMgr for any number of entries, threads, message ids and *)
(* commands, with fatal signals and the removal of the adapter: the list   *)
(* is counted, and no thread finds the pool of entries exhausted.          *)
(*                                                                         *)
(* Then, while no command has timed out and no waiting thread was killed:  *)
(* the adapter works on one command at a time, and its confirmation        *)
(* completes that command and answers its caller.                          *)
(***************************************************************************)
EXTENDS CmdMgr, FiniteSetTheorems, TLAPS

(* A thread has an entry of its own from rwnx_cmd_malloc on, until it frees *)
(* it or leaves it to the worker.                                          *)
Listed(th) == sender[th].pc \in {"push", "wait", "woken", "late"}
Holding(th) == Listed(th) \/ sender[th].pc \in {"queue", "release"}
WorkListed == worker.pc \in {"push", "wait", "late"}
WorkHolding == WorkListed \/ worker.pc = "release"

Counted == QueueCounted /\ queue_sz <= MaxQueued /\ IsFiniteSet(cmds)

Owned ==
  \A th \in Threads : Holding(th) =>
    /\ sender[th].s \in Slots
    /\ slot[sender[th].s].used
    /\ "PUSH" \notin slot[sender[th].s].flags

Apart ==
  \A th \in Threads : Holding(th) =>
    /\ \A u \in Threads : Holding(u) /\ u # th => sender[u].s # sender[th].s
    /\ WorkHolding => worker.s # sender[th].s

OnList ==
  \A th \in Threads :
    /\ Listed(th) => sender[th].s \in cmds
    /\ sender[th].pc = "release" => sender[th].s \notin cmds
    /\ sender[th].pc = "queue" /\ state = "inited" => sender[th].s \notin cmds

WorkerOwns ==
  /\ WorkHolding => worker.s \in Slots /\ slot[worker.s].used
  /\ WorkListed => worker.s \in cmds
  /\ worker.pc = "release" => worker.s \notin cmds
  /\ WorkHolding /\ worker.pc # "push" => "PUSH" \notin slot[worker.s].flags

(* Only a manager that has crashed has entries on its list that are free.  *)
Entries ==
  /\ state = "inited" => \A s \in cmds : slot[s].used
  /\ \A s \in Slots : slot[s].used => slot[s].reqid \in Ids
  /\ \A s \in Slots : ~ slot[s].used => "PUSH" \notin slot[s].flags
  /\ \A s \in Slots : slot[s].used =>
       \/ s \in cmds
       \/ \E th \in Threads : Holding(th) /\ sender[th].s = s
       \/ WorkHolding /\ worker.s = s

IInv == TypeOK /\ Counted /\ Owned /\ Apart /\ OnList /\ WorkerOwns /\ Entries
-----------------------------------------------------------------------------
(* Entries stay entries.                                                   *)
LEMMA UsedEntry ==
  ASSUME NEW e \in Entry, NEW b \in BOOLEAN
  PROVE  [e EXCEPT !.used = b] \in Entry
BY DEF Entry

LEMMA FlaggedEntry ==
  ASSUME NEW e \in Entry, NEW f \in SUBSET {"PUSH", "CFM"}
  PROVE  [e EXCEPT !.flags = f] \in Entry
BY DEF Entry

LEMMA NumberedEntry ==
  ASSUME NEW e \in Entry, NEW f \in SUBSET {"PUSH", "CFM"}, NEW t \in Nat
  PROVE  [e EXCEPT !.flags = f, !.tkn = t] \in Entry
<1> DEFINE flagged == [e EXCEPT !.flags = f]
<1>1. ASSUME NEW n \in Entry PROVE [n EXCEPT !.tkn = t] \in Entry
  BY DEF Entry
<1>2. [e EXCEPT !.flags = f, !.tkn = t] = [flagged EXCEPT !.tkn = t]
  OBVIOUS
<1> QED BY <1>1, <1>2, FlaggedEntry

LEMMA TakenEntry ==
  ASSUME NEW e \in Entry, NEW id \in Ids, NEW to \in Threads \cup {NoThread}
  PROVE  [e EXCEPT !.used = TRUE, !.reqid = id, !.e2a_msg = to] \in Entry
<1> DEFINE used == [e EXCEPT !.used = TRUE]
           asked == [used EXCEPT !.reqid = id]
<1>1. ASSUME NEW n \in Entry PROVE [n EXCEPT !.reqid = id] \in Entry
  BY DEF Entry
<1>2. ASSUME NEW n \in Entry PROVE [n EXCEPT !.e2a_msg = to] \in Entry
  BY DEF Entry
<1>3. [e EXCEPT !.used = TRUE, !.reqid = id, !.e2a_msg = to] = [asked EXCEPT !.e2a_msg = to]
  OBVIOUS
<1>4. used \in Entry
  BY UsedEntry
<1>5. asked \in Entry
  BY <1>1, <1>4
<1> QED BY <1>2, <1>3, <1>5

(* A command of the list is deleted and counted down.                      *)
LEMMA DeleteCounts ==
  ASSUME TypeOK, Counted, NEW s \in cmds, Delete(s)
  PROVE  /\ Counted'
         /\ cmds' = cmds \ {s} /\ cmds' \subseteq Slots
         /\ queue_sz' \in Nat /\ ws_tx' \in BOOLEAN
<1>1. cmds' = cmds \ {s} /\ queue_sz' = queue_sz - 1
  BY DEF Delete
<1>2. IsFiniteSet(cmds') /\ Cardinality(cmds') = Cardinality(cmds) - 1
  BY <1>1, FS_RemoveElement DEF Counted
<1>3. Cardinality(cmds) \in Nat /\ Cardinality(cmds') \in Nat
  BY <1>2, FS_CardinalityType DEF Counted
<1>4. queue_sz = 1 <=> cmds' = {}
  BY <1>2, <1>3, FS_EmptySet DEF Counted, QueueCounted
<1>5. ws_tx' \in BOOLEAN /\ (ws_tx' <=> cmds' # {})
  <2>1. ws_tx
    BY DEF Counted, QueueCounted
  <2>2. CASE queue_sz = 1
    BY <1>4, <2>2 DEF Delete
  <2>3. CASE queue_sz # 1
    BY <1>4, <2>1, <2>3 DEF Delete
  <2> QED BY <2>2, <2>3
<1>6. queue_sz' = Cardinality(cmds') /\ queue_sz' <= MaxQueued
  BY <1>1, <1>2, <1>3, CmdMgrConstants DEF Counted, QueueCounted
<1> QED BY <1>1, <1>2, <1>3, <1>5, <1>6 DEF Counted, QueueCounted, TypeOK

LEMMA InitIInv == Init => IInv
<1> SUFFICES ASSUME Init PROVE IInv
  OBVIOUS
<1>1. TypeOK
  BY CmdMgrConstants DEF Init, TypeOK, Unused, Resting, Entry, Kinds, None
<1>2. Counted
  BY FS_EmptySet, CmdMgrConstants DEF Init, Counted, QueueCounted
<1>3. Owned /\ Apart /\ OnList
  BY DEF Init, Owned, Apart, OnList, Holding, Listed, Resting
<1>4. WorkerOwns /\ Entries
  BY DEF Init, WorkerOwns, Entries, WorkHolding, WorkListed, Unused
<1> QED BY <1>1, <1>2, <1>3, <1>4 DEF IInv
-----------------------------------------------------------------------------
LEMMA SendMsgKeeps ==
  ASSUME IInv, NEW th \in Threads, NEW kind \in Kinds, NEW id \in Ids, SendMsg(th, kind, id)
  PROVE  IInv'
<1> USE DEF IInv
<1> PICK s \in Slots :
      /\ ~ slot[s].used
      /\ slot' = [slot EXCEPT ![s].used = TRUE, ![s].reqid = id,
                              ![s].e2a_msg = IF kind = "answer" THEN th ELSE NoThread]
      /\ sender' = [sender EXCEPT ![th] = [pc |-> "queue", s |-> s, kind |-> kind, tkn |-> 0]]
  BY DEF SendMsg
<1> UNCHANGED <<cmds, queue_sz, state, next_tkn, ws_tx, worker, cmdWork, wire, bus, answer, killed, missed>>
  BY DEF SendMsg, manager, history
<1>1. /\ sender'[th].pc = "queue" /\ sender'[th].s = s
      /\ \A u \in Threads : u # th => sender'[u] = sender[u]
  BY DEF TypeOK
<1>2. /\ slot'[s].used /\ slot'[s].flags = slot[s].flags /\ slot'[s].reqid \in Ids
      /\ \A o \in Slots : o # s => slot'[o] = slot[o]
  BY DEF TypeOK, Entry
<1>3. TypeOK'
  <2>1. [slot[s] EXCEPT !.used = TRUE, !.reqid = id,
                        !.e2a_msg = IF kind = "answer" THEN th ELSE NoThread] \in Entry
    BY TakenEntry DEF TypeOK
  <2>2. slot' \in [Slots -> Entry]
    BY <2>1 DEF TypeOK
  <2>3. sender' \in [Threads ->
       [pc : {"idle", "queue", "push", "wake", "wait", "woken", "late", "release"},
        s : Slots \cup {None}, kind : Kinds, tkn : Nat]]
    BY DEF TypeOK
  <2> QED BY <2>2, <2>3 DEF TypeOK
<1>4. Counted'
  BY DEF Counted, QueueCounted
<1>5. Owned'
  <2>1. "PUSH" \notin slot'[s].flags
    BY <1>2 DEF Entries
  <2>2. \A u \in Threads : u # th /\ Holding(u)' => Holding(u)
    BY <1>1 DEF Holding, Listed
  <2>3. \A o \in Slots : slot[o].used => slot'[o].used
    BY <1>2
  <2>4. \A o \in Slots : slot'[o].flags = slot[o].flags
    BY <1>2
  <2>5. ASSUME NEW u \in Threads, Holding(u)'
        PROVE  /\ sender'[u].s \in Slots /\ slot'[sender'[u].s].used
               /\ "PUSH" \notin slot'[sender'[u].s].flags
    <3>1. CASE u = th
      BY <1>1, <1>2, <2>1, <3>1
    <3>2. CASE u # th
      <4>1. sender'[u] = sender[u] /\ Holding(u)
        BY <1>1, <2>2, <2>5, <3>2
      <4>2. /\ sender[u].s \in Slots /\ slot[sender[u].s].used
            /\ "PUSH" \notin slot[sender[u].s].flags
        BY <4>1 DEF Owned
      <4> QED BY <2>3, <2>4, <4>1, <4>2
    <3> QED BY <3>1, <3>2
  <2> QED BY <2>5 DEF Owned
<1>6. Apart'
  BY <1>1 DEF Apart, Owned, WorkerOwns, Holding, Listed, WorkHolding, WorkListed
<1>7. OnList'
  BY <1>1 DEF OnList, Entries, Holding, Listed
<1>8. WorkerOwns'
  BY <1>2 DEF WorkerOwns, WorkHolding, WorkListed
<1>9. Entries'
  <2>1. \A u \in Threads : Holding(u) => Holding(u)' /\ sender'[u] = sender[u]
    BY <1>1 DEF SendMsg, Holding, Listed
  <2>2. Holding(th)'
    BY <1>1 DEF Holding
  <2>3. \A o \in Slots : slot'[o].used => o = s \/ slot[o].used
    BY <1>2
  <2>4. \A o \in Slots : slot'[o].used =>
          \/ o \in cmds'
          \/ \E u \in Threads : Holding(u)' /\ sender'[u].s = o
          \/ WorkHolding' /\ worker'.s = o
    BY <1>1, <2>1, <2>2, <2>3 DEF Entries, WorkHolding, WorkListed
  <2> QED BY <1>2, <2>4 DEF Entries, TypeOK
<1> QED BY <1>3, <1>4, <1>5, <1>6, <1>7, <1>8, <1>9

LEMMA EnqueueKeeps ==
  ASSUME IInv, NEW th \in Threads, Enqueue(th)
  PROVE  IInv'
<1> USE DEF IInv
<1> DEFINE s == sender[th].s
           flags == slot[s].flags \cup {"CFM"} \cup IF Defers(th) THEN {"PUSH"} ELSE {}
           pc == IF Defers(th) THEN "wake" ELSE "push"
<1>1. s \in Slots /\ slot[s].used /\ "PUSH" \notin slot[s].flags /\ s \notin cmds
  BY DEF Enqueue, Owned, OnList, Holding, Listed
<1> /\ slot' = [slot EXCEPT ![s].flags = flags, ![s].tkn = next_tkn]
    /\ sender' = [sender EXCEPT ![th].pc = pc, ![th].tkn = next_tkn]
    /\ cmds' = cmds \cup {s}
    /\ UNCHANGED <<state, worker, cmdWork, wire, bus, answer, killed, missed>>
  BY <1>1 DEF Enqueue, TypeOK, Entry, history
<1>a. pc \in {"push", "wake"} /\ (pc = "push" => "PUSH" \notin flags)
  BY <1>1
<1> HIDE DEF pc
<1>2. /\ sender'[th].pc = pc /\ sender'[th].s = s
      /\ \A u \in Threads : u # th => sender'[u] = sender[u]
  BY DEF TypeOK
<1>3. /\ slot'[s].used /\ slot'[s].flags = flags /\ slot'[s].reqid = slot[s].reqid
      /\ \A o \in Slots : o # s => slot'[o] = slot[o]
  BY <1>1 DEF TypeOK, Entry
<1>4. TypeOK'
  <2>1. [slot[s] EXCEPT !.flags = flags, !.tkn = next_tkn] \in Entry
    <3>1. slot[s] \in Entry /\ next_tkn \in Nat
      BY <1>1 DEF TypeOK
    <3>2. flags \in SUBSET {"PUSH", "CFM"}
      BY <3>1 DEF Entry
    <3> QED BY <3>1, <3>2, NumberedEntry
  <2>2. slot' \in [Slots -> Entry]
    BY <1>1, <2>1 DEF TypeOK
  <2>3. sender' \in [Threads ->
       [pc : {"idle", "queue", "push", "wake", "wait", "woken", "late", "release"},
        s : Slots \cup {None}, kind : Kinds, tkn : Nat]]
    <3> DEFINE Doing == [pc : {"idle", "queue", "push", "wake", "wait", "woken", "late", "release"},
                         s : Slots \cup {None}, kind : Kinds, tkn : Nat]
               moved == [sender[th] EXCEPT !.pc = pc]
    <3>1. moved \in Doing
      BY <1>a DEF TypeOK
    <3>2. ASSUME NEW d \in Doing PROVE [d EXCEPT !.tkn = next_tkn] \in Doing
      BY DEF TypeOK
    <3>3. sender' = [sender EXCEPT ![th] = [moved EXCEPT !.tkn = next_tkn]]
      BY DEF TypeOK
    <3> QED BY <3>1, <3>2, <3>3 DEF TypeOK
  <2>4. queue_sz' = queue_sz + 1 /\ next_tkn' = next_tkn + 1
    BY DEF Enqueue
  <2>5. ws_tx' \in BOOLEAN
    BY DEF Enqueue, TypeOK
  <2>6. queue_sz' \in Nat /\ next_tkn' \in Nat
    BY <2>4 DEF TypeOK
  <2> QED BY <1>1, <2>2, <2>3, <2>5, <2>6 DEF TypeOK
<1>5. Counted'
  <2>1. IsFiniteSet(cmds') /\ Cardinality(cmds') = Cardinality(cmds) + 1
    BY <1>1, FS_AddElement DEF Counted
  <2>2. queue_sz' = queue_sz + 1 /\ (cmds # {} => queue_sz # MaxQueued)
    BY DEF Enqueue
  <2>3. cmds = {} => queue_sz = 0
    BY FS_EmptySet DEF Counted, QueueCounted
  <2>4. queue_sz' <= MaxQueued /\ queue_sz' = Cardinality(cmds')
    <3>1. queue_sz # MaxQueued
      BY <2>2, <2>3, CmdMgrConstants
    <3>2. queue_sz <= MaxQueued /\ queue_sz \in Nat /\ MaxQueued \in Nat
      BY CmdMgrConstants DEF Counted, TypeOK
    <3>3. queue_sz = Cardinality(cmds)
      BY DEF Counted, QueueCounted
    <3> QED BY <2>1, <2>2, <3>1, <3>2, <3>3
  <2>5. queue_sz # 0 => cmds # {}
    BY FS_EmptySet DEF Counted, QueueCounted
  <2>6. ws_tx'
    BY <2>5 DEF Enqueue, Counted, QueueCounted
  <2> QED BY <2>1, <2>4, <2>6 DEF Counted, QueueCounted
<1>b. Holding(th) /\ \A u \in Threads : Holding(u)' => Holding(u) /\ sender'[u].s = sender[u].s
  BY <1>2 DEF Enqueue, Holding, Listed
<1>6. Owned'
  <2>1. Holding(th)' => pc = "push"
    BY <1>a, <1>2 DEF Holding, Listed
  <2>2. \A u \in Threads : u # th /\ Holding(u) => sender[u].s # s
    BY <1>b DEF Apart
  <2>3. ASSUME NEW u \in Threads, Holding(u)'
        PROVE  /\ sender'[u].s \in Slots /\ slot'[sender'[u].s].used
               /\ "PUSH" \notin slot'[sender'[u].s].flags
    <3>1. CASE u = th
      BY <1>1, <1>a, <1>2, <1>3, <2>1, <2>3, <3>1
    <3>2. CASE u # th
      <4>1. Holding(u) /\ sender'[u].s = sender[u].s /\ sender[u].s # s
        BY <1>b, <2>2, <2>3, <3>2
      <4>2. sender[u].s \in Slots /\ slot'[sender[u].s] = slot[sender[u].s]
        BY <1>3, <4>1 DEF Owned
      <4> QED BY <4>1, <4>2 DEF Owned
    <3> QED BY <3>1, <3>2
  <2> QED BY <2>3 DEF Owned
<1>7. Apart'
  BY <1>b DEF Apart, WorkHolding, WorkListed
<1>8. OnList'
  <2>1. \A u \in Threads : u # th /\ Holding(u) => sender[u].s # s
    BY <1>b DEF Apart
  <2>2. ASSUME NEW u \in Threads, u # th PROVE sender'[u] = sender[u]
    BY <1>2, <2>2
  <2>3. Listed(th)' => sender'[th].s \in cmds'
    BY <1>2
  <2>4. ASSUME NEW u \in Threads, u # th
        PROVE  /\ Listed(u)' => sender'[u].s \in cmds'
               /\ sender'[u].pc = "release" => sender'[u].s \notin cmds'
               /\ sender'[u].pc = "queue" /\ state' = "inited" => sender'[u].s \notin cmds'
    <3>1. sender'[u] = sender[u] /\ UNCHANGED state
      BY <2>2, <2>4
    <3>2. sender[u].pc \in {"queue", "release"} => sender[u].s # s
      BY <2>1, <2>4 DEF Holding
    <3>3. Listed(u)' => sender'[u].s \in cmds'
      BY <3>1 DEF OnList, Listed
    <3>4. sender'[u].pc = "release" => sender'[u].s \notin cmds'
      BY <3>1, <3>2 DEF OnList
    <3>5. sender'[u].pc = "queue" /\ state' = "inited" => sender'[u].s \notin cmds'
      BY <3>1, <3>2 DEF OnList
    <3> QED BY <3>3, <3>4, <3>5
  <2>5. sender'[th].pc \in {"push", "wake"}
    BY <1>a, <1>2
  <2> QED BY <2>3, <2>4, <2>5 DEF OnList
<1>9. WorkerOwns'
  <2>1. WorkHolding => worker.s # s
    BY DEF Apart, Enqueue, Holding
  <2> QED BY <1>3, <2>1 DEF WorkerOwns, WorkHolding, WorkListed
<1>10. Entries'
  <2>1. \A u \in Threads : Holding(u) /\ sender[u].s # s => Holding(u)' /\ sender'[u] = sender[u]
    BY <1>2 DEF Holding, Listed
  <2>2. \A o \in Slots : slot'[o].used <=> slot[o].used
    BY <1>1, <1>3
  <2>3. \A o \in Slots : slot'[o].reqid = slot[o].reqid
    BY <1>3
  <2>4. \A o \in Slots : slot'[o].used =>
          \/ o \in cmds'
          \/ \E u \in Threads : Holding(u)' /\ sender'[u].s = o
          \/ WorkHolding' /\ worker'.s = o
    BY <2>1, <2>2 DEF Entries, WorkHolding, WorkListed
  <2> QED BY <1>1, <1>3, <2>2, <2>3, <2>4 DEF Entries, TypeOK
<1> QED BY <1>4, <1>5, <1>6, <1>7, <1>8, <1>9, <1>10

LEMMA RefuseKeeps ==
  ASSUME IInv, NEW th \in Threads, Refuse(th)
  PROVE  IInv'
<1> USE DEF IInv
<1> DEFINE s == sender[th].s
<1>1. s \in Slots /\ slot[s].used /\ "PUSH" \notin slot[s].flags
  BY DEF Refuse, Owned, Holding, Listed
<1> /\ slot' = [slot EXCEPT ![s].used = FALSE]
    /\ sender' = [sender EXCEPT ![th] = Resting]
    /\ UNCHANGED <<cmds, queue_sz, next_tkn, ws_tx, worker, cmdWork, wire, bus, killed, missed>>
  BY DEF Refuse, Returns, manager, history
<1>2. /\ sender'[th].pc = "idle"
      /\ \A u \in Threads : u # th => sender'[u] = sender[u]
  BY DEF TypeOK, Resting
<1>3. /\ ~ slot'[s].used /\ slot'[s].flags = slot[s].flags
      /\ \A o \in Slots : o # s => slot'[o] = slot[o]
  BY <1>1 DEF TypeOK, Entry
<1>4. TypeOK'
  <2>1. [slot[s] EXCEPT !.used = FALSE] \in Entry
    BY <1>1, UsedEntry DEF TypeOK
  <2>2. slot' \in [Slots -> Entry]
    BY <1>1, <2>1 DEF TypeOK
  <2>3. sender' \in [Threads ->
       [pc : {"idle", "queue", "push", "wake", "wait", "woken", "late", "release"},
        s : Slots \cup {None}, kind : Kinds, tkn : Nat]]
    BY DEF TypeOK, Resting, Kinds
  <2>4. answer' \in [Threads -> Nat] /\ state' \in {"inited", "crashed"}
    BY DEF Refuse, Returns, manager, TypeOK
  <2> QED BY <1>1, <2>2, <2>3, <2>4 DEF TypeOK
<1>5. Counted'
  BY DEF Counted, QueueCounted
<1>6. Owned'
  <2>1. \A u \in Threads : Holding(u)' => u # th /\ Holding(u) /\ sender[u].s # s
    BY <1>2 DEF Apart, Refuse, Holding, Listed
  <2> QED BY <1>2, <1>3, <2>1 DEF Owned
<1>7. Apart'
  BY <1>2 DEF Apart, Holding, Listed, WorkHolding, WorkListed
<1>8. OnList'
  BY <1>2 DEF OnList, Holding, Listed, Refuse, manager
<1>9. WorkerOwns'
  <2>1. WorkHolding => worker.s # s
    BY DEF Apart, Refuse, Holding, Listed
  <2> QED BY <1>3, <2>1 DEF WorkerOwns, WorkHolding, WorkListed
<1>10. Entries'
  <2>1. state' = "inited" => s \notin cmds
    BY DEF OnList, Refuse, manager
  <2>2. \A o \in Slots : slot'[o].used => o # s /\ slot[o].used
    BY <1>3
  <2>3. \A u \in Threads : Holding(u) /\ sender[u].s # s => Holding(u)' /\ sender'[u] = sender[u]
    BY <1>2 DEF Holding, Listed
  <2>4. UNCHANGED state
    BY DEF Refuse, manager
  <2> QED BY <1>1, <1>3, <2>1, <2>2, <2>3, <2>4 DEF Entries, TypeOK, WorkHolding, WorkListed
<1> QED BY <1>4, <1>5, <1>6, <1>7, <1>8, <1>9, <1>10

LEMMA LateKeeps ==
  ASSUME IInv, NEW th \in Threads, Late(th)
  PROVE  IInv'
<1> USE DEF IInv
<1> DEFINE s == sender[th].s
<1>1. s \in Slots /\ slot[s].used /\ "PUSH" \notin slot[s].flags
  BY DEF Late, Owned, Holding, Listed
<1> /\ slot' = [slot EXCEPT ![s].used = FALSE]
    /\ sender' = [sender EXCEPT ![th] = Resting]
    /\ UNCHANGED <<cmds, queue_sz, next_tkn, ws_tx, worker, cmdWork, wire, bus, killed, missed>>
  BY DEF Late, Returns, manager, history
<1>2. /\ sender'[th].pc = "idle"
      /\ \A u \in Threads : u # th => sender'[u] = sender[u]
  BY DEF TypeOK, Resting
<1>3. /\ ~ slot'[s].used /\ slot'[s].flags = slot[s].flags
      /\ \A o \in Slots : o # s => slot'[o] = slot[o]
  BY <1>1 DEF TypeOK, Entry
<1>4. TypeOK'
  <2>1. [slot[s] EXCEPT !.used = FALSE] \in Entry
    BY <1>1, UsedEntry DEF TypeOK
  <2>2. slot' \in [Slots -> Entry]
    BY <1>1, <2>1 DEF TypeOK
  <2>3. sender' \in [Threads ->
       [pc : {"idle", "queue", "push", "wake", "wait", "woken", "late", "release"},
        s : Slots \cup {None}, kind : Kinds, tkn : Nat]]
    BY DEF TypeOK, Resting, Kinds
  <2>4. answer' \in [Threads -> Nat] /\ state' \in {"inited", "crashed"}
    BY DEF Late, Returns, manager, TypeOK
  <2> QED BY <1>1, <2>2, <2>3, <2>4 DEF TypeOK
<1>5. Counted'
  BY DEF Counted, QueueCounted
<1>6. Owned'
  <2>1. \A u \in Threads : Holding(u)' => u # th /\ Holding(u) /\ sender[u].s # s
    BY <1>2 DEF Apart, Late, Holding, Listed
  <2> QED BY <1>2, <1>3, <2>1 DEF Owned
<1>7. Apart'
  BY <1>2 DEF Apart, Holding, Listed, WorkHolding, WorkListed
<1>8. OnList'
  BY <1>2 DEF OnList, Holding, Listed, Late, manager
<1>9. WorkerOwns'
  <2>1. WorkHolding => worker.s # s
    BY DEF Apart, Late, Holding, Listed
  <2> QED BY <1>3, <2>1 DEF WorkerOwns, WorkHolding, WorkListed
<1>10. Entries'
  <2>1. state' = "crashed"
    BY DEF Late
  <2>2. \A o \in Slots : slot'[o].used => o # s /\ slot[o].used
    BY <1>3
  <2>3. \A u \in Threads : Holding(u) /\ sender[u].s # s => Holding(u)' /\ sender'[u] = sender[u]
    BY <1>2 DEF Holding, Listed
  <2> QED BY <1>1, <1>3, <2>1, <2>2, <2>3 DEF Entries, TypeOK, WorkHolding, WorkListed
<1> QED BY <1>4, <1>5, <1>6, <1>7, <1>8, <1>9, <1>10

LEMMA PushKeeps ==
  ASSUME IInv, NEW th \in Threads, Push(th)
  PROVE  IInv'
<1> USE DEF IInv
<1> DEFINE s == sender[th].s
<1>1. s \in Slots /\ slot[s].used
  BY DEF Push, Owned, Holding, Listed
<1>2. wire' \subseteq Message
  <2>1. slot[s].reqid \in Ids /\ slot[s].tkn \in Nat
    BY <1>1 DEF Entries, TypeOK, Entry
  <2> QED BY <1>1, <2>1 DEF Push, Transmit, TypeOK, Message
<1>3. TypeOK'
  BY <1>2 DEF Push, Goes, manager, history, TypeOK
<1>4. Counted'
  BY DEF Push, manager, Counted, QueueCounted
<1>5. Owned' /\ Apart'
  BY DEF Push, Goes, TypeOK, Owned, Apart, Holding, Listed, WorkHolding, WorkListed
<1>6. OnList'
  BY DEF Push, Goes, manager, TypeOK, OnList, Holding, Listed
<1>7. WorkerOwns' /\ Entries'
  BY DEF Push, Goes, manager, TypeOK, WorkerOwns, Entries, Holding, Listed, WorkHolding, WorkListed
<1> QED BY <1>3, <1>4, <1>5, <1>6, <1>7

LEMMA WakeWorkKeeps ==
  ASSUME IInv, NEW th \in Threads, WakeWork(th)
  PROVE  IInv'
<1> USE DEF IInv
<1> sender' = [sender EXCEPT ![th] = Resting] /\ sender[th].pc = "wake"
  BY DEF WakeWork, Returns
<1> UNCHANGED <<slot, cmds, queue_sz, state, next_tkn, ws_tx, worker, wire, bus, killed>>
  BY DEF WakeWork, manager
<1>1. /\ sender'[th].pc = "idle"
      /\ \A u \in Threads : u # th => sender'[u] = sender[u]
  BY DEF TypeOK, Resting
<1>2. TypeOK'
  BY DEF WakeWork, Returns, TypeOK, Resting, Kinds
<1>3. Counted'
  BY DEF Counted, QueueCounted
<1>4. Owned' /\ Apart' /\ OnList'
  BY <1>1 DEF Owned, Apart, OnList, Holding, Listed, WorkHolding, WorkListed
<1>5. WorkerOwns' /\ Entries'
  BY <1>1 DEF WorkerOwns, Entries, Holding, Listed, WorkHolding, WorkListed
<1> QED BY <1>2, <1>3, <1>4, <1>5

LEMMA RemoveKeeps ==
  ASSUME IInv, NEW th \in Threads, Remove(th)
  PROVE  IInv'
<1> USE DEF IInv
<1> DEFINE s == sender[th].s
<1>1. Listed(th) /\ s \in cmds
  BY DEF Remove, OnList, Listed
<1>2. /\ Counted' /\ cmds' = cmds \ {s} /\ cmds' \subseteq Slots
      /\ queue_sz' \in Nat /\ ws_tx' \in BOOLEAN
  BY <1>1, DeleteCounts DEF Remove
<1> /\ sender' = [sender EXCEPT ![th].pc = "release"]
    /\ UNCHANGED <<slot, state, next_tkn, worker, cmdWork, wire, bus, answer, killed, missed>>
  BY DEF Remove, Goes, history
<1>3. /\ sender'[th].pc = "release" /\ sender'[th].s = s
      /\ \A u \in Threads : u # th => sender'[u] = sender[u]
  BY DEF TypeOK
<1>4. TypeOK'
  BY <1>2 DEF TypeOK
<1>5. Counted'
  BY <1>2
<1>6. Owned' /\ Apart'
  BY <1>1, <1>3 DEF Owned, Apart, Holding, Listed, WorkHolding, WorkListed
<1>7. OnList'
  BY <1>1, <1>2, <1>3 DEF OnList, Apart, Holding, Listed
<1>8. WorkerOwns'
  BY <1>1, <1>2 DEF WorkerOwns, Apart, Holding, WorkHolding, WorkListed
<1>9. Entries'
  BY <1>1, <1>2, <1>3 DEF Entries, Holding, Listed, WorkHolding, WorkListed
<1> QED BY <1>4, <1>5, <1>6, <1>7, <1>8, <1>9

LEMMA ReleaseKeeps ==
  ASSUME IInv, NEW th \in Threads, Release(th)
  PROVE  IInv'
<1> USE DEF IInv
<1> DEFINE s == sender[th].s
<1>1. s \in Slots /\ s \notin cmds
  BY DEF Release, Owned, OnList, Holding
<1> /\ slot' = [slot EXCEPT ![s] = Unused]
    /\ sender' = [sender EXCEPT ![th] = Resting]
    /\ UNCHANGED <<cmds, queue_sz, state, next_tkn, ws_tx, worker, wire, bus, killed, missed>>
  BY DEF Release, Returns, manager, history
<1>2. /\ sender'[th].pc = "idle"
      /\ \A u \in Threads : u # th => sender'[u] = sender[u]
  BY DEF TypeOK, Resting
<1>3. /\ ~ slot'[s].used /\ slot'[s].flags = {}
      /\ \A o \in Slots : o # s => slot'[o] = slot[o]
  BY <1>1 DEF TypeOK, Unused
<1>4. TypeOK'
  <2>1. Unused \in Entry
    BY DEF Unused, Entry
  <2>2. slot' \in [Slots -> Entry]
    BY <2>1 DEF TypeOK
  <2>3. sender' \in [Threads ->
       [pc : {"idle", "queue", "push", "wake", "wait", "woken", "late", "release"},
        s : Slots \cup {None}, kind : Kinds, tkn : Nat]]
    BY DEF TypeOK, Resting, Kinds
  <2>4. answer' \in [Threads -> Nat] /\ cmdWork' \in BOOLEAN
    BY DEF Release, Returns, TypeOK
  <2> QED BY <2>2, <2>3, <2>4 DEF TypeOK
<1>5. Counted'
  BY DEF Counted, QueueCounted
<1>6. Owned'
  <2>1. \A u \in Threads : Holding(u)' => u # th /\ Holding(u) /\ sender[u].s # s
    BY <1>2 DEF Apart, Release, Holding, Listed
  <2> QED BY <1>2, <1>3, <2>1 DEF Owned
<1>7. Apart'
  BY <1>2 DEF Apart, Holding, Listed, WorkHolding, WorkListed
<1>8. OnList'
  BY <1>2 DEF OnList, Holding, Listed
<1>9. WorkerOwns'
  <2>1. WorkHolding => worker.s # s
    BY DEF Apart, Release, Holding, Listed
  <2> QED BY <1>3, <2>1 DEF WorkerOwns, WorkHolding, WorkListed
<1>10. Entries'
  <2>1. \A o \in Slots : slot'[o].used => o # s /\ slot[o].used
    BY <1>3
  <2>2. \A u \in Threads : Holding(u) /\ sender[u].s # s => Holding(u)' /\ sender'[u] = sender[u]
    BY <1>2 DEF Holding, Listed
  <2> QED BY <1>1, <1>3, <2>1, <2>2 DEF Entries, TypeOK, WorkHolding, WorkListed
<1> QED BY <1>4, <1>5, <1>6, <1>7, <1>8, <1>9, <1>10

LEMMA InterruptedKeeps ==
  ASSUME IInv, NEW th \in Threads, Interrupted(th)
  PROVE  IInv'
<1> USE DEF IInv
<1>1. TypeOK' /\ Counted'
  BY DEF Interrupted, Goes, manager, history, TypeOK, Counted, QueueCounted
<1>2. Owned' /\ Apart'
  BY DEF Interrupted, Goes, TypeOK, Owned, Apart, Holding, Listed, WorkHolding, WorkListed
<1>3. OnList'
  BY DEF Interrupted, Goes, manager, TypeOK, OnList, Holding, Listed
<1>4. WorkerOwns' /\ Entries'
  BY DEF Interrupted, Goes, manager, TypeOK, WorkerOwns, Entries, Holding, Listed, WorkHolding, WorkListed
<1> QED BY <1>1, <1>2, <1>3, <1>4

LEMMA TimerFiresKeeps ==
  ASSUME IInv, NEW th \in Threads, TimerFires(th)
  PROVE  IInv'
<1> USE DEF IInv
<1>1. TypeOK' /\ Counted'
  BY DEF TimerFires, Goes, manager, history, TypeOK, Counted, QueueCounted
<1>2. Owned' /\ Apart'
  BY DEF TimerFires, Goes, TypeOK, Owned, Apart, Holding, Listed, WorkHolding, WorkListed
<1>3. OnList'
  BY DEF TimerFires, Goes, manager, TypeOK, OnList, Holding, Listed
<1>4. WorkerOwns' /\ Entries'
  BY DEF TimerFires, Goes, manager, TypeOK, WorkerOwns, Entries, Holding, Listed, WorkHolding, WorkListed
<1> QED BY <1>1, <1>2, <1>3, <1>4

-----------------------------------------------------------------------------
LEMMA WorkStartKeeps ==
  ASSUME IInv, WorkStart
  PROVE  IInv'
<1> USE DEF IInv
<1>1. TypeOK' /\ Counted'
  BY DEF WorkStart, WorkGoes, manager, history, TypeOK, Counted, QueueCounted
<1>2. Owned' /\ Apart'
  BY DEF WorkStart, WorkGoes, TypeOK, Owned, Apart, Holding, Listed, WorkHolding, WorkListed
<1>3. OnList'
  BY DEF WorkStart, manager, OnList, Holding, Listed
<1>4. WorkerOwns' /\ Entries'
  BY DEF WorkStart, WorkGoes, manager, TypeOK, WorkerOwns, Entries, Holding, Listed, WorkHolding, WorkListed
<1> QED BY <1>1, <1>2, <1>3, <1>4

LEMMA WorkTimerKeeps ==
  ASSUME IInv, WorkTimer
  PROVE  IInv'
<1> USE DEF IInv
<1>1. TypeOK' /\ Counted'
  BY DEF WorkTimer, WorkGoes, manager, history, TypeOK, Counted, QueueCounted
<1>2. Owned' /\ Apart'
  BY DEF WorkTimer, WorkGoes, TypeOK, Owned, Apart, Holding, Listed, WorkHolding, WorkListed
<1>3. OnList'
  BY DEF WorkTimer, manager, OnList, Holding, Listed
<1>4. WorkerOwns' /\ Entries'
  BY DEF WorkTimer, WorkGoes, manager, TypeOK, WorkerOwns, Entries, Holding, Listed, WorkHolding, WorkListed
<1> QED BY <1>1, <1>2, <1>3, <1>4

LEMMA WorkLookKeeps ==
  ASSUME IInv, WorkLook
  PROVE  IInv'
<1> USE DEF IInv
<1> UNCHANGED <<slot, cmds, queue_sz, state, next_tkn, ws_tx, sender, cmdWork, wire, bus,
               answer, killed, missed>>
  BY DEF WorkLook, manager, history
<1>1. \/ worker' = [pc |-> "idle", s |-> None]
      \/ \E s \in cmds : "PUSH" \in slot[s].flags /\ worker' = [pc |-> "push", s |-> s]
  BY DEF WorkLook, NextToPush, IsFirst
<1>2. TypeOK' /\ Counted'
  BY <1>1 DEF TypeOK, Counted, QueueCounted
<1>3. Owned' /\ Apart'
  BY <1>1 DEF Owned, Apart, Holding, Listed, WorkHolding, WorkListed
<1>4. OnList'
  BY DEF OnList, Holding, Listed
<1>5. WorkerOwns'
  BY <1>1 DEF WorkerOwns, WorkHolding, WorkListed, Entries, TypeOK
<1>6. Entries'
  BY DEF WorkLook, Entries, Holding, Listed, WorkHolding, WorkListed
<1> QED BY <1>2, <1>3, <1>4, <1>5, <1>6

LEMMA WorkPushKeeps ==
  ASSUME IInv, WorkPush
  PROVE  IInv'
<1> USE DEF IInv
<1> DEFINE s == worker.s
<1>1. s \in Slots /\ s \in cmds /\ slot[s].used
  BY DEF WorkPush, WorkerOwns, WorkHolding, WorkListed
<1> /\ slot' = [slot EXCEPT ![s].flags = @ \ {"PUSH"}]
    /\ worker' = [worker EXCEPT !.pc = "wait"]
    /\ UNCHANGED <<cmds, queue_sz, state, next_tkn, ws_tx, sender, cmdWork, bus, answer, killed, missed>>
  BY DEF WorkPush, WorkGoes, manager, history
<1>2. /\ slot'[s].used /\ slot'[s].flags = slot[s].flags \ {"PUSH"} /\ slot'[s].reqid = slot[s].reqid
      /\ \A o \in Slots : o # s => slot'[o] = slot[o]
  BY <1>1 DEF TypeOK, Entry
<1>3. worker'.pc = "wait" /\ worker'.s = s
  BY DEF TypeOK
<1>4. TypeOK'
  <2>1. slot[s].reqid \in Ids /\ slot[s].tkn \in Nat
    BY <1>1 DEF Entries, TypeOK, Entry
  <2>2. wire' \subseteq Message
    BY <1>1, <2>1 DEF WorkPush, Transmit, TypeOK, Message
  <2>3. [slot[s] EXCEPT !.flags = @ \ {"PUSH"}] \in Entry
    <3>1. slot[s] \in Entry
      BY <1>1 DEF TypeOK
    <3>2. slot[s].flags \ {"PUSH"} \in SUBSET {"PUSH", "CFM"}
      BY <3>1 DEF Entry
    <3> QED BY <3>1, <3>2, FlaggedEntry
  <2>4. slot' \in [Slots -> Entry]
    BY <1>1, <2>3 DEF TypeOK
  <2> QED BY <2>2, <2>4 DEF TypeOK
<1>5. Counted'
  BY DEF Counted, QueueCounted
<1>6. Owned' /\ Apart'
  BY <1>2, <1>3 DEF WorkPush, Owned, Apart, Holding, Listed, WorkHolding, WorkListed
<1>7. OnList'
  BY DEF OnList, Holding, Listed
<1>8. WorkerOwns'
  BY <1>1, <1>2, <1>3 DEF WorkerOwns, WorkHolding, WorkListed
<1>9. Entries'
  BY <1>1, <1>2, <1>3 DEF Entries, TypeOK, Holding, Listed, WorkHolding, WorkListed
<1> QED BY <1>4, <1>5, <1>6, <1>7, <1>8, <1>9

LEMMA WorkRemoveKeeps ==
  ASSUME IInv, WorkRemove
  PROVE  IInv'
<1> USE DEF IInv
<1> DEFINE s == worker.s
<1>1. s \in cmds /\ WorkHolding
  BY DEF WorkRemove, WorkerOwns, WorkHolding, WorkListed
<1>2. /\ Counted' /\ cmds' = cmds \ {s} /\ cmds' \subseteq Slots
      /\ queue_sz' \in Nat /\ ws_tx' \in BOOLEAN
  BY <1>1, DeleteCounts DEF WorkRemove
<1> /\ worker' = [worker EXCEPT !.pc = "release"]
    /\ UNCHANGED <<slot, state, next_tkn, sender, cmdWork, wire, bus, answer, killed, missed>>
  BY DEF WorkRemove, WorkGoes, history
<1>3. worker'.pc = "release" /\ worker'.s = s
  BY DEF TypeOK
<1>4. TypeOK'
  BY <1>2 DEF TypeOK
<1>5. Counted'
  BY <1>2
<1>6. Owned' /\ Apart'
  BY <1>1, <1>3 DEF Owned, Apart, Holding, Listed, WorkHolding, WorkListed
<1>7. OnList'
  BY <1>1, <1>2 DEF OnList, Apart, Holding, Listed
<1>8. WorkerOwns'
  BY <1>1, <1>2, <1>3 DEF WorkRemove, WorkerOwns, WorkHolding, WorkListed
<1>9. Entries'
  BY <1>1, <1>2, <1>3 DEF Entries, Holding, Listed, WorkHolding, WorkListed
<1> QED BY <1>4, <1>5, <1>6, <1>7, <1>8, <1>9

LEMMA WorkReleaseKeeps ==
  ASSUME IInv, WorkRelease
  PROVE  IInv'
<1> USE DEF IInv
<1> DEFINE s == worker.s
<1>1. s \in Slots /\ s \notin cmds /\ WorkHolding
  BY DEF WorkRelease, WorkerOwns, WorkHolding
<1> /\ slot' = [slot EXCEPT ![s] = Unused]
    /\ worker' = [pc |-> "look", s |-> None]
    /\ UNCHANGED <<cmds, queue_sz, state, next_tkn, ws_tx, sender, cmdWork, wire, bus,
               answer, killed, missed>>
  BY DEF WorkRelease, manager, history
<1>2. /\ ~ slot'[s].used /\ slot'[s].flags = {}
      /\ \A o \in Slots : o # s => slot'[o] = slot[o]
  BY <1>1 DEF TypeOK, Unused
<1>3. TypeOK'
  BY CmdMgrConstants DEF TypeOK, Unused, Entry
<1>4. Counted'
  BY DEF Counted, QueueCounted
<1>5. Owned'
  <2>1. \A u \in Threads : Holding(u) => sender[u].s # s
    BY <1>1 DEF Apart
  <2> QED BY <1>2, <2>1 DEF Owned, Holding, Listed
<1>6. Apart' /\ OnList'
  BY DEF Apart, OnList, Holding, Listed, WorkHolding, WorkListed
<1>7. WorkerOwns'
  BY DEF WorkerOwns, WorkHolding, WorkListed
<1>8. Entries'
  <2>1. \A o \in Slots : slot'[o].used => o # s /\ slot[o].used
    BY <1>2
  <2> QED BY <1>1, <1>2, <2>1 DEF Entries, TypeOK, Holding, Listed
<1> QED BY <1>3, <1>4, <1>5, <1>6, <1>7, <1>8

LEMMA WorkLateKeeps ==
  ASSUME IInv, WorkLate
  PROVE  IInv'
<1> USE DEF IInv
<1> DEFINE s == worker.s
<1>1. s \in cmds
  BY DEF WorkLate, WorkerOwns, WorkListed
<1> /\ state' = "crashed"
    /\ worker' = [pc |-> "look", s |-> None]
    /\ UNCHANGED <<slot, cmds, queue_sz, next_tkn, ws_tx, sender, cmdWork, wire, bus, answer, killed, missed>>
  BY DEF WorkLate, history
<1>2. TypeOK' /\ Counted'
  BY DEF TypeOK, Counted, QueueCounted
<1>3. Owned' /\ Apart' /\ OnList'
  BY DEF Owned, Apart, OnList, Holding, Listed, WorkHolding, WorkListed
<1>4. WorkerOwns'
  BY DEF WorkerOwns, WorkHolding, WorkListed
<1>5. Entries'
  BY <1>1 DEF Entries, Holding, Listed
<1> QED BY <1>2, <1>3, <1>4, <1>5

LEMMA ConfirmKeeps ==
  ASSUME IInv, NEW m \in wire, Confirm(m)
  PROVE  IInv'
<1> USE DEF IInv
<1> UNCHANGED <<cmds, queue_sz, state, next_tkn, ws_tx, sender, worker, cmdWork, bus,
               killed, missed>>
  BY DEF Confirm, manager, history
<1>1. CASE UNCHANGED <<slot, answer>>
  <2>1. TypeOK' /\ Counted'
    BY <1>1 DEF Confirm, TypeOK, Counted, QueueCounted
  <2>2. Owned' /\ Apart' /\ OnList' /\ WorkerOwns' /\ Entries'
    BY <1>1 DEF Owned, Apart, OnList, WorkerOwns, Entries, Holding, Listed, WorkHolding, WorkListed
  <2> QED BY <2>1, <2>2
<1>2. ASSUME NEW s \in Slots,
             slot' = [slot EXCEPT ![s].flags = @ \ {"CFM"}],
             answer' = IF slot[s].e2a_msg = NoThread THEN answer
                       ELSE [answer EXCEPT ![slot[s].e2a_msg] = m.tkn]
      PROVE  IInv'
  <2>1. /\ slot'[s].used = slot[s].used /\ slot'[s].reqid = slot[s].reqid
        /\ slot'[s].flags = slot[s].flags \ {"CFM"}
        /\ \A o \in Slots : o # s => slot'[o] = slot[o]
    BY <1>2 DEF TypeOK, Entry
  <2>2. slot' \in [Slots -> Entry]
    <3>1. [slot[s] EXCEPT !.flags = @ \ {"CFM"}] \in Entry
      <4>1. slot[s] \in Entry
        BY DEF TypeOK
      <4>2. slot[s].flags \ {"CFM"} \in SUBSET {"PUSH", "CFM"}
        BY <4>1 DEF Entry
      <4> QED BY <4>1, <4>2, FlaggedEntry
    <3> QED BY <1>2, <3>1 DEF TypeOK
  <2>3. answer' \in [Threads -> Nat]
    BY <1>2 DEF TypeOK, Message
  <2>4. TypeOK' /\ Counted'
    BY <2>2, <2>3 DEF Confirm, TypeOK, Counted, QueueCounted
  <2>5. Owned' /\ Apart' /\ OnList'
    BY <2>1 DEF Owned, Apart, OnList, Holding, Listed, WorkHolding, WorkListed
  <2>6. \A o \in Slots : /\ slot'[o].used = slot[o].used /\ slot'[o].reqid = slot[o].reqid
                         /\ slot'[o].flags \subseteq slot[o].flags
    BY <2>1
  <2>7. WorkerOwns'
    BY <2>6 DEF WorkerOwns, WorkHolding, WorkListed
  <2>8. Entries'
    BY <2>6 DEF TypeOK, Entries, Holding, Listed, WorkHolding, WorkListed
  <2> QED BY <2>4, <2>5, <2>7, <2>8
<1> QED BY <1>1, <1>2 DEF Confirm

LEMMA NextIInv == IInv /\ [Next]_vars => IInv'
<1> SUFFICES ASSUME IInv, [Next]_vars PROVE IInv'
  OBVIOUS
<1>1. ASSUME NEW th \in Threads, NEW kind \in Kinds, NEW id \in Ids, SendMsg(th, kind, id)
      PROVE  IInv'
  BY <1>1, SendMsgKeeps
<1>2. ASSUME NEW th \in Threads, Sending(th) \/ Waiting(th) \/ Interrupted(th)
      PROVE  IInv'
  BY <1>2, EnqueueKeeps, RefuseKeeps, PushKeeps, WakeWorkKeeps, RemoveKeeps, ReleaseKeeps,
     TimerFiresKeeps, LateKeeps, InterruptedKeeps DEF Sending, Waiting
<1>3. CASE Working
  BY <1>3, WorkStartKeeps, WorkLookKeeps, WorkPushKeeps, WorkRemoveKeeps, WorkReleaseKeeps,
     WorkTimerKeeps, WorkLateKeeps DEF Working
<1>4. ASSUME NEW m \in wire, Confirm(m)
      PROVE  IInv'
  BY <1>4, ConfirmKeeps
<1>5. CASE BusDown
  <2>1. TypeOK' /\ Counted'
    BY <1>5 DEF IInv, BusDown, manager, history, TypeOK, Counted, QueueCounted
  <2>2. Owned' /\ Apart' /\ OnList' /\ WorkerOwns' /\ Entries'
    BY <1>5 DEF IInv, BusDown, manager, Owned, Apart, OnList, WorkerOwns, Entries,
                Holding, Listed, WorkHolding, WorkListed
  <2> QED BY <2>1, <2>2 DEF IInv
<1>6. CASE UNCHANGED vars
  <2>1. TypeOK' /\ Counted'
    BY <1>6 DEF IInv, vars, manager, history, TypeOK, Counted, QueueCounted
  <2>2. Owned' /\ Apart' /\ OnList' /\ WorkerOwns' /\ Entries'
    BY <1>6 DEF IInv, vars, manager, Owned, Apart, OnList, WorkerOwns, Entries,
                Holding, Listed, WorkHolding, WorkListed
  <2> QED BY <2>1, <2>2 DEF IInv
<1> QED BY <1>1, <1>2, <1>3, <1>4, <1>5, <1>6 DEF Next
-----------------------------------------------------------------------------
(* An idle thread leaves room: the list, the other threads and the worker  *)
(* cannot have every entry.                                                *)
LEMMA RoomForOneMore == IInv => AlwaysAnEntry
<1> SUFFICES ASSUME IInv, NEW th \in Threads, sender[th].pc = "idle", \A s \in Slots : slot[s].used
             PROVE  FALSE
  BY DEF AlwaysAnEntry
<1> DEFINE others == Threads \ {th}
           taken == {sender[u].s : u \in others}
           holder == [u \in others |-> sender[u].s]
           last == {worker.s}
           both == cmds \cup taken
<1>1. Slots \subseteq both \cup last
  BY DEF IInv, Entries, Holding, Listed
<1>2. IsFiniteSet(others) /\ Cardinality(others) = Cardinality(Threads) - 1
  BY CmdMgrConstants, FS_RemoveElement
<1>3. IsFiniteSet(taken) /\ Cardinality(taken) <= Cardinality(others)
  <2>1. holder \in Surjection(others, taken)
    BY DEF Surjection
  <2> QED BY <1>2, <2>1, FS_Surjection
<1>4. IsFiniteSet(cmds) /\ Cardinality(cmds) <= MaxQueued
  BY DEF IInv, Counted, QueueCounted
<1> HIDE DEF last
<1>5. IsFiniteSet(last) /\ Cardinality(last) = 1
  BY FS_Singleton DEF last
<1>6. /\ IsFiniteSet(both)
      /\ Cardinality(both) <= Cardinality(cmds) + Cardinality(taken)
  <2>1. Cardinality(cmds \cap taken) \in Nat
    BY <1>4, FS_Intersection, FS_CardinalityType
  <2> QED BY <1>3, <1>4, <2>1, FS_Union, FS_CardinalityType
<1> HIDE DEF both
<1>7. /\ IsFiniteSet(both \cup last)
      /\ Cardinality(both \cup last) <= Cardinality(both) + 1
  <2>1. Cardinality(both \cap last) \in Nat
    BY <1>6, FS_Intersection, FS_CardinalityType
  <2>2. IsFiniteSet(both) /\ Cardinality(both) \in Nat
    BY <1>6, FS_CardinalityType
  <2>3. /\ IsFiniteSet(both \cup last)
        /\ Cardinality(both \cup last) = Cardinality(both) + Cardinality(last) - Cardinality(both \cap last)
    BY <1>5, <2>2, FS_Union
  <2> QED BY <1>5, <2>1, <2>2, <2>3
<1>8. Cardinality(Slots) <= Cardinality(both \cup last)
  BY <1>1, <1>7, FS_Subset
<1>9. /\ Cardinality(Threads) \in Nat /\ Cardinality(Slots) \in Nat /\ Cardinality(cmds) \in Nat
      /\ Cardinality(taken) \in Nat /\ Cardinality(both) \in Nat
      /\ Cardinality(both \cup last) \in Nat
  BY <1>3, <1>4, <1>6, <1>7, CmdMgrConstants, FS_CardinalityType
<1> QED
  BY <1>2, <1>3, <1>4, <1>6, <1>7, <1>8, <1>9, PoolIsLarge, CmdMgrConstants

(* The counters agree with the list at any number of threads and commands, *)
(* after a fatal signal and when the adapter is gone.                      *)
THEOREM CommandsCounted == Spec => []QueueCounted
<1>1. IInv => QueueCounted
  BY DEF IInv, Counted
<1> QED BY InitIInv, NextIInv, <1>1, PTL DEF Spec

(* As long as the pool has more entries than the list can hold and threads *)
(* can need, rwnx_cmd_malloc finds one, also after the manager crashed     *)
(* with commands on its list.                                              *)
THEOREM EntryForEveryCommand == Spec => []AlwaysAnEntry
<1> QED BY InitIInv, NextIInv, RoomForOneMore, PTL DEF Spec

(* The states of the manager are of the kinds its functions distinguish.   *)
THEOREM ManagerTypeCorrect == Spec => []TypeOK
<1>1. IInv => TypeOK
  BY DEF IInv
<1> QED BY InitIInv, NextIInv, <1>1, PTL DEF Spec
-----------------------------------------------------------------------------
(* The tokens of the list are distinct.                                    *)
Tokens ==
  /\ next_tkn >= 1
  /\ \A s \in cmds :
       /\ 1 <= slot[s].tkn /\ slot[s].tkn < next_tkn
       /\ \A o \in cmds : slot[s].tkn = slot[o].tkn => s = o

(* What stands behind a busy command is to be pushed.                      *)
Queued ==
  \A s \in cmds :
    /\ "PUSH" \in slot[s].flags => "CFM" \in slot[s].flags
    /\ \A o \in cmds : Busy(o) /\ slot[o].tkn < slot[s].tkn => "PUSH" \in slot[s].flags

Out(s) == "CFM" \in slot[s].flags /\ "PUSH" \notin slot[s].flags

(* The adapter has what was sent and is not complete.                      *)
Sent ==
  \A m \in wire :
    m.s \in cmds /\ slot[m.s].tkn = m.tkn /\ slot[m.s].reqid = m.id /\ Out(m.s)

(* Who is about to send has the first command that is not complete.        *)
Pushing ==
  /\ \A th \in Threads : sender[th].pc = "push" => Out(sender[th].s) /\ wire = {}
  /\ worker.pc = "push" => IsFirst(worker.s) /\ "PUSH" \in slot[worker.s].flags

(* A command on the list that is to be answered is the one its caller      *)
(* waits for, and a caller has no other answer than that.                  *)
Due(th) ==
  \A s \in cmds : slot[s].e2a_msg = th =>
    sender[th].s = s /\ Listed(th) /\ sender[th].kind = "answer"

Asked(th) ==
  /\ sender[th].pc # "woken"
  /\ Holding(th) =>
       slot[sender[th].s].e2a_msg = IF sender[th].kind = "answer" THEN th ELSE NoThread
  /\ Listed(th) =>
       /\ sender[th].tkn = slot[sender[th].s].tkn
       /\ sender[th].kind = "answer" => answer[th] # 0 \/ ~ Complete(sender[th].s)

Got(th) ==
  /\ answer[th] # 0 =>
       sender[th].pc \in {"wait", "late", "release"} /\ answer[th] = sender[th].tkn
  /\ sender[th].pc = "release" /\ sender[th].kind = "answer" => answer[th] # 0

Served(th) == Due(th) /\ Asked(th) /\ Got(th)

SoundInv == Tokens /\ Queued /\ Sent /\ Pushing /\ \A th \in Threads : Served(th)
-----------------------------------------------------------------------------
(* A finite set of entries with distinct tokens has a last one: of the     *)
(* sets of entries behind an entry, take a smallest.                       *)
LEMMA LastExists ==
  ASSUME TypeOK, Counted, cmds # {}
  PROVE  \E s \in cmds : IsLast(s)
<1> DEFINE Behind(s) == {o \in cmds : slot[s].tkn < slot[o].tkn}
           tails == {Behind(s) : s \in cmds}
<1>1. tails \subseteq FiniteSubsetsOf(cmds)
  <2>1. ASSUME NEW s \in cmds PROVE Behind(s) \in SUBSET cmds /\ IsFiniteSet(Behind(s))
    BY FS_Subset DEF Counted
  <2> QED BY <2>1 DEF FiniteSubsetsOf
<1>2. tails # {}
  OBVIOUS
<1>3. PICK T \in tails : \A U \in tails : <<U, T>> \notin StrictSubsetOrdering(cmds)
  BY <1>1, <1>2, FS_StrictSubsetOrderingWellFounded, WFMin
<1>4. PICK s \in cmds : T = Behind(s)
  OBVIOUS
<1>5. ASSUME NEW o \in cmds PROVE slot[o].tkn <= slot[s].tkn
  <2> SUFFICES ASSUME slot[s].tkn < slot[o].tkn PROVE FALSE
    BY DEF TypeOK, Entry
  <2>1. Behind(o) \subseteq Behind(s)
    BY DEF TypeOK, Entry
  <2>2. o \in Behind(s) /\ o \notin Behind(o)
    BY DEF TypeOK, Entry
  <2>3. <<Behind(o), Behind(s)>> \in StrictSubsetOrdering(cmds)
    BY <2>1, <2>2 DEF StrictSubsetOrdering
  <2> QED BY <1>3, <1>4, <2>3
<1> QED BY <1>5 DEF IsLast

(* One command is out.                                                     *)
LEMMA OneOut ==
  ASSUME TypeOK, Tokens, Queued, NEW s \in cmds, NEW o \in cmds, Out(s), Out(o)
  PROVE  s = o
<1> SUFFICES ASSUME s # o PROVE FALSE
  OBVIOUS
<1>1. slot[s].tkn \in Nat /\ slot[o].tkn \in Nat /\ slot[s].tkn # slot[o].tkn
  BY DEF TypeOK, Entry, Tokens
<1>2. Busy(s) /\ Busy(o)
  BY DEF Busy, Out
<1>3. slot[s].tkn < slot[o].tkn \/ slot[o].tkn < slot[s].tkn
  BY <1>1
<1> QED BY <1>2, <1>3 DEF Queued, Out

(* The list loses commands, or none, and the others are as they were.      *)
LEMMA ListFrame ==
  ASSUME SoundInv, cmds' \subseteq cmds, \A s \in cmds' : slot'[s] = slot[s],
         UNCHANGED next_tkn
  PROVE  Tokens' /\ Queued'
BY DEF SoundInv, Tokens, Queued, Busy

LEMMA WireFrame ==
  ASSUME SoundInv, wire' \subseteq wire, \A m \in wire' : m.s \in cmds' /\ slot'[m.s] = slot[m.s]
  PROVE  Sent'
BY DEF SoundInv, Sent, Out

LEMMA PushFrame ==
  ASSUME SoundInv, cmds' \subseteq cmds, \A s \in cmds' : slot'[s] = slot[s], wire' \subseteq wire,
         \A u \in Threads : sender'[u].pc = "push" => sender'[u] = sender[u] /\ sender[u].s \in cmds',
         worker'.pc = "push" => worker' = worker /\ worker.s \in cmds'
  PROVE  Pushing'
<1>1. ASSUME NEW u \in Threads, sender'[u].pc = "push"
      PROVE  Out(sender[u].s)' /\ wire' = {}
  BY <1>1 DEF SoundInv, Pushing, Out
<1>2. ASSUME worker'.pc = "push"
      PROVE  IsFirst(worker.s)' /\ "PUSH" \in slot'[worker'.s].flags
  BY <1>2 DEF SoundInv, Pushing, IsFirst
<1> QED BY <1>1, <1>2 DEF Pushing

(* A thread that does nothing is served as before.                         *)
LEMMA UnmovedThread ==
  ASSUME IInv, SoundInv, NEW u \in Threads, sender'[u] = sender[u], answer'[u] = answer[u],
         \A s \in cmds' : slot'[s].e2a_msg = u => s \in cmds /\ slot[s].e2a_msg = u,
         Holding(u) => slot'[sender[u].s] = slot[sender[u].s]
  PROVE  Served(u)'
<1>1. Due(u)'
  BY DEF SoundInv, Served, Due, Listed
<1>2. Asked(u)'
  BY DEF SoundInv, Served, Asked, Holding, Listed, Complete
<1>3. Got(u)'
  BY DEF SoundInv, Served, Got
<1> QED BY <1>1, <1>2, <1>3 DEF Served

(* A thread without a command is due nothing.                              *)
LEMMA IdleThread ==
  ASSUME SoundInv, NEW th \in Threads, ~ Listed(th), sender'[th].pc \in {"idle", "queue"}, answer'[th] = 0,
         \A s \in cmds' : slot'[s].e2a_msg = th => s \in cmds /\ slot[s].e2a_msg = th,
         sender'[th].pc = "queue" =>
           slot'[sender'[th].s].e2a_msg = IF sender'[th].kind = "answer" THEN th ELSE NoThread
  PROVE  Served(th)'
<1>1. Due(th)'
  BY DEF SoundInv, Served, Due
<1>2. Asked(th)' /\ Got(th)'
  BY DEF Asked, Got, Holding, Listed
<1> QED BY <1>1, <1>2 DEF Served
-----------------------------------------------------------------------------
LEMMA SendMsgServes ==
  ASSUME IInv, SoundInv, Sound, Sound',
         NEW th \in Threads, NEW kind \in Kinds, NEW id \in Ids, SendMsg(th, kind, id)
  PROVE  SoundInv'
<1> PICK s \in Slots :
      /\ ~ slot[s].used
      /\ slot' = [slot EXCEPT ![s].used = TRUE, ![s].reqid = id,
                              ![s].e2a_msg = IF kind = "answer" THEN th ELSE NoThread]
      /\ sender' = [sender EXCEPT ![th] = [pc |-> "queue", s |-> s, kind |-> kind, tkn |-> 0]]
  BY DEF SendMsg
<1>1. sender[th].pc = "idle" /\ UNCHANGED <<cmds, next_tkn, worker, wire, answer>>
  BY DEF SendMsg, manager
<1>2. /\ sender'[th].pc = "queue" /\ sender'[th].s = s /\ sender'[th].kind = kind
      /\ \A u \in Threads : u # th => sender'[u] = sender[u]
  BY DEF IInv, TypeOK
<1>3. /\ slot'[s].e2a_msg = IF kind = "answer" THEN th ELSE NoThread
      /\ \A o \in Slots : o # s => slot'[o] = slot[o]
  BY DEF IInv, TypeOK, Entry
<1>4. s \notin cmds /\ \A o \in cmds : slot'[o] = slot[o]
  BY <1>3 DEF IInv, Entries, TypeOK, Sound
<1>5. Tokens' /\ Queued' /\ Sent'
  BY <1>1, <1>4, ListFrame, WireFrame DEF SoundInv, Sent
<1>6. Pushing'
  <2>1. \A u \in Threads : sender'[u].pc = "push" => sender'[u] = sender[u] /\ sender[u].s \in cmds
    BY <1>2 DEF IInv, OnList, Listed
  <2>2. worker.pc = "push" => worker.s \in cmds
    BY DEF IInv, WorkerOwns, WorkListed
  <2> QED BY <1>1, <1>4, <2>1, <2>2, PushFrame
<1>7. ASSUME NEW u \in Threads, u # th PROVE Served(u)'
  <2>1. Holding(u) => sender[u].s # s /\ sender[u].s \in Slots
    BY DEF IInv, Owned
  <2> QED BY <1>1, <1>2, <1>3, <1>4, <1>7, <2>1, UnmovedThread
<1>8. Served(th)'
  <2>1. ~ Listed(th) /\ answer[th] = 0
    BY <1>1 DEF Listed, SoundInv, Served, Got
  <2> QED BY <1>1, <1>2, <1>3, <1>4, <2>1, IdleThread
<1> QED BY <1>5, <1>6, <1>7, <1>8 DEF SoundInv

LEMMA EnqueueServes ==
  ASSUME IInv, SoundInv, Sound, Sound', NEW th \in Threads, Enqueue(th)
  PROVE  SoundInv'
<1> DEFINE s == sender[th].s
           flags == slot[s].flags \cup {"CFM"} \cup IF Defers(th) THEN {"PUSH"} ELSE {}
           pc == IF Defers(th) THEN "wake" ELSE "push"
<1>1. s \in Slots /\ "PUSH" \notin slot[s].flags /\ s \notin cmds /\ sender[th].pc = "queue"
  BY DEF Enqueue, IInv, Owned, OnList, Holding
<1>2. /\ slot' = [slot EXCEPT ![s].flags = flags, ![s].tkn = next_tkn]
      /\ sender' = [sender EXCEPT ![th].pc = pc, ![th].tkn = next_tkn]
      /\ cmds' = cmds \cup {s} /\ next_tkn' = next_tkn + 1
      /\ UNCHANGED <<worker, wire, answer>>
  BY DEF Enqueue, IInv, TypeOK, Entry
<1>3. /\ "CFM" \in flags /\ ("PUSH" \in flags <=> Defers(th))
      /\ pc \in {"push", "wake"} /\ (pc = "push" <=> ~ Defers(th))
  BY <1>1
<1> HIDE DEF flags, pc
<1>4. /\ sender'[th].pc = pc /\ sender'[th].s = s /\ sender'[th].kind = sender[th].kind
      /\ sender'[th].tkn = next_tkn
      /\ \A u \in Threads : u # th => sender'[u] = sender[u]
  BY <1>2 DEF IInv, TypeOK
<1>5. /\ slot'[s].flags = flags /\ slot'[s].tkn = next_tkn /\ slot'[s].e2a_msg = slot[s].e2a_msg
      /\ \A o \in Slots : o # s => slot'[o] = slot[o]
  BY <1>1, <1>2 DEF IInv, TypeOK, Entry
<1>6. \A o \in cmds : o \in Slots /\ slot'[o] = slot[o] /\ slot[o].tkn < next_tkn /\ slot[o].tkn \in Nat
  BY <1>1, <1>5 DEF IInv, TypeOK, Entry, SoundInv, Tokens
<1>7. next_tkn \in Nat /\ next_tkn >= 1
  BY DEF IInv, TypeOK, SoundInv, Tokens
<1>8. ~ Defers(th) => \A o \in cmds : ~ Busy(o)
  <2> SUFFICES ASSUME ~ Defers(th), NEW o \in cmds, Busy(o) PROVE FALSE
    OBVIOUS
  <2>1. PICK l \in cmds : IsLast(l)
    BY LastExists DEF IInv
  <2>2. ~ Busy(l) /\ slot[o].tkn <= slot[l].tkn /\ slot[l].tkn \in Nat /\ slot[o].tkn \in Nat
    BY <1>6, <2>1 DEF Defers, IsLast
  <2>3. slot[o].tkn < slot[l].tkn
    BY <2>2 DEF SoundInv, Tokens
  <2> QED BY <2>2, <2>3 DEF SoundInv, Queued, Busy
<1>9. Tokens'
  <2>1. ASSUME NEW o \in cmds
        PROVE  /\ 1 <= slot'[o].tkn /\ slot'[o].tkn < next_tkn' /\ slot'[o].tkn # slot'[s].tkn
               /\ \A t \in cmds : slot'[o].tkn = slot'[t].tkn => o = t
    <3>1. slot'[o].tkn = slot[o].tkn /\ slot[o].tkn < next_tkn /\ slot[o].tkn \in Nat
      BY <1>6
    <3>2. 1 <= slot[o].tkn /\ \A t \in cmds : slot'[o].tkn = slot'[t].tkn => o = t
      BY <1>6 DEF SoundInv, Tokens
    <3>3. slot[o].tkn < next_tkn' /\ slot[o].tkn # slot'[s].tkn
      BY <1>2, <1>5, <1>7, <3>1
    <3> QED BY <3>1, <3>2, <3>3
  <2>2. 1 <= slot'[s].tkn /\ slot'[s].tkn < next_tkn' /\ next_tkn' >= 1
    BY <1>2, <1>5, <1>7
  <2> QED BY <1>2, <2>1, <2>2 DEF Tokens
<1>10. Queued'
  <2>1. ASSUME NEW o \in cmds', Busy(o)', slot'[o].tkn < slot'[s].tkn PROVE "PUSH" \in slot'[s].flags
    <3>1. o \in cmds /\ Busy(o)
      <4>1. o # s
        BY <1>5, <1>7, <2>1
      <4> QED BY <1>2, <1>6, <2>1, <4>1 DEF Busy
    <3> QED BY <1>3, <1>5, <1>8, <3>1
  <2>2. ASSUME NEW t \in cmds, NEW o \in cmds', Busy(o)', slot'[o].tkn < slot'[t].tkn
        PROVE  "PUSH" \in slot'[t].flags
    <3>1. o \in cmds /\ Busy(o) /\ slot[o].tkn < slot[t].tkn
      <4>1. o # s
        <5>1. slot'[t].tkn < next_tkn /\ slot'[t].tkn \in Nat
          BY <1>6
        <5> QED BY <1>5, <1>7, <2>2, <5>1
      <4> QED BY <1>2, <1>6, <2>2, <4>1 DEF Busy
    <3> QED BY <1>6, <3>1 DEF SoundInv, Queued
  <2>3. \A t \in cmds' : "PUSH" \in slot'[t].flags => "CFM" \in slot'[t].flags
    BY <1>2, <1>3, <1>5, <1>6 DEF SoundInv, Queued
  <2> QED BY <1>2, <2>1, <2>2, <2>3 DEF Queued
<1>11. Sent'
  BY <1>2, <1>6 DEF SoundInv, Sent, Out
<1>12. Pushing'
  <2>1. ASSUME NEW u \in Threads, u # th, sender'[u].pc = "push" PROVE Out(sender[u].s)' /\ wire' = {}
    <3>1. sender'[u] = sender[u] /\ sender[u].s \in cmds
      BY <1>4, <2>1 DEF IInv, OnList, Listed
    <3> QED BY <1>2, <1>6, <2>1, <3>1 DEF SoundInv, Pushing, Out
  <2>2. ASSUME sender'[th].pc = "push" PROVE Out(sender[th].s)' /\ wire' = {}
    <3>1. ~ Defers(th)
      BY <1>3, <1>4, <2>2
    <3>2. wire = {}
      BY <1>8, <3>1 DEF SoundInv, Sent, Out, Busy
    <3> QED BY <1>2, <1>3, <1>4, <1>5, <3>1, <3>2 DEF Out
  <2>3. ASSUME worker'.pc = "push" PROVE IsFirst(worker.s)' /\ "PUSH" \in slot'[worker'.s].flags
    <3>1. IsFirst(worker.s) /\ "PUSH" \in slot[worker.s].flags /\ worker.s \in cmds
      BY <1>2, <2>3 DEF SoundInv, Pushing, IsFirst
    <3>2. \A o \in cmds : slot'[worker.s].tkn <= slot'[o].tkn
      BY <1>6, <3>1 DEF IsFirst
    <3>3. slot'[worker.s].tkn <= slot'[s].tkn
      BY <1>5, <1>6, <1>7, <3>1
    <3> QED BY <1>2, <1>6, <3>1, <3>2, <3>3 DEF IsFirst
  <2> QED BY <1>2, <2>1, <2>2, <2>3 DEF Pushing
<1>13. slot[s].e2a_msg = IF sender[th].kind = "answer" THEN th ELSE NoThread
  BY <1>1 DEF SoundInv, Served, Asked, Holding
<1>14. ASSUME NEW u \in Threads, u # th PROVE Served(u)'
  <2>1. Holding(u) => sender[u].s # s /\ sender[u].s \in Slots
    BY <1>1, <1>14 DEF IInv, Owned, Apart, Holding
  <2>2. slot[s].e2a_msg # u
    BY <1>13, <1>14, CmdMgrConstants
  <2> QED BY <1>2, <1>4, <1>5, <1>6, <1>14, <2>1, <2>2, UnmovedThread
<1>15. Served(th)'
  <2>1. sender[th].kind = "answer" => pc = "push"
    <3>1. sender[th].kind = "answer" => cmds = {}
      BY DEF Enqueue, MayQueue
    <3> QED BY <1>3, <3>1 DEF Defers
  <2>2. \A o \in cmds : slot[o].e2a_msg # th
    BY <1>1 DEF SoundInv, Served, Due, Listed
  <2>3. Due(th)'
    <3> SUFFICES ASSUME NEW o \in cmds', slot'[o].e2a_msg = th
                 PROVE  sender'[th].s = o /\ Listed(th)' /\ sender'[th].kind = "answer"
      BY DEF Due
    <3>1. o = s
      BY <1>2, <1>6, <2>2
    <3>2. sender[th].kind = "answer"
      BY <1>5, <1>13, <3>1, CmdMgrConstants
    <3> QED BY <1>4, <2>1, <3>1, <3>2 DEF Listed
  <2>4. Asked(th)'
    BY <1>3, <1>4, <1>5, <1>13 DEF Asked, Holding, Listed, Complete
  <2>5. answer[th] = 0
    BY <1>1 DEF SoundInv, Served, Got
  <2>6. Got(th)'
    BY <1>2, <1>3, <1>4, <2>5 DEF Got
  <2> QED BY <2>3, <2>4, <2>6 DEF Served
<1> QED BY <1>9, <1>10, <1>11, <1>12, <1>14, <1>15 DEF SoundInv

LEMMA RefuseServes ==
  ASSUME IInv, SoundInv, Sound, Sound', NEW th \in Threads, Refuse(th)
  PROVE  SoundInv'
<1> DEFINE s == sender[th].s
<1>1. s \in Slots /\ s \notin cmds /\ ~ Listed(th) /\ Holding(th)
  BY DEF Refuse, Sound, IInv, Owned, OnList, Holding, Listed
<1>2. /\ slot' = [slot EXCEPT ![s].used = FALSE]
      /\ sender' = [sender EXCEPT ![th] = Resting] /\ answer' = [answer EXCEPT ![th] = 0]
      /\ UNCHANGED <<cmds, next_tkn, worker, wire>>
  BY DEF Refuse, Returns, manager
<1>3. /\ sender'[th].pc = "idle" /\ answer'[th] = 0
      /\ \A u \in Threads : u # th => sender'[u] = sender[u] /\ answer'[u] = answer[u]
  BY <1>2 DEF IInv, TypeOK, Resting
<1>4. \A o \in Slots : o # s => slot'[o] = slot[o]
  BY <1>1, <1>2 DEF IInv, TypeOK
<1>5. \A o \in cmds : slot'[o] = slot[o]
  BY <1>1, <1>4 DEF IInv, TypeOK
<1>6. Tokens' /\ Queued' /\ Sent'
  BY <1>2, <1>5, ListFrame, WireFrame DEF SoundInv, Sent
<1>7. Pushing'
  <2>1. \A u \in Threads : sender'[u].pc = "push" => sender'[u] = sender[u] /\ sender[u].s \in cmds
    BY <1>3 DEF IInv, OnList, Listed
  <2>2. worker.pc = "push" => worker.s \in cmds
    BY DEF IInv, WorkerOwns, WorkListed
  <2> QED BY <1>2, <1>5, <2>1, <2>2, PushFrame
<1>8. ASSUME NEW u \in Threads, u # th PROVE Served(u)'
  <2>1. Holding(u) => sender[u].s # s /\ sender[u].s \in Slots
    BY <1>1, <1>8 DEF IInv, Owned, Apart
  <2> QED BY <1>2, <1>3, <1>4, <1>5, <1>8, <2>1, UnmovedThread
<1>9. Served(th)'
  BY <1>1, <1>2, <1>3, <1>5, IdleThread
<1> QED BY <1>6, <1>7, <1>8, <1>9 DEF SoundInv

LEMMA PushServes ==
  ASSUME IInv, SoundInv, Sound, Sound', NEW th \in Threads, Push(th)
  PROVE  SoundInv'
<1> DEFINE s == sender[th].s
           m == [s |-> s, tkn |-> slot[s].tkn, id |-> slot[s].reqid]
<1>1. sender[th].pc = "push" /\ s \in cmds /\ Out(s) /\ wire = {} /\ Listed(th)
  BY DEF Push, IInv, OnList, Listed, SoundInv, Pushing
<1>2. /\ sender' = [sender EXCEPT ![th].pc = "wait"] /\ wire' \subseteq {m}
      /\ UNCHANGED <<slot, cmds, next_tkn, worker, answer>>
  BY <1>1 DEF Push, Goes, Transmit, manager
<1>3. /\ sender'[th].pc = "wait" /\ sender'[th].s = s /\ sender'[th].kind = sender[th].kind
      /\ sender'[th].tkn = sender[th].tkn
      /\ \A u \in Threads : u # th => sender'[u] = sender[u]
  BY <1>2 DEF IInv, TypeOK
<1>4. Tokens' /\ Queued'
  BY <1>2, ListFrame
<1>5. Sent'
  BY <1>1, <1>2 DEF Sent, Out
<1>6. Pushing'
  <2>1. ASSUME NEW u \in Threads, u # th, sender[u].pc = "push" PROVE FALSE
    <3>1. sender[u].s \in cmds /\ Out(sender[u].s) /\ sender[u].s # s
      BY <1>1, <2>1 DEF IInv, OnList, Apart, Holding, Listed, SoundInv, Pushing
    <3> QED BY <1>1, <3>1, OneOut DEF IInv, SoundInv
  <2>2. \A u \in Threads : sender'[u].pc # "push"
    BY <1>3, <2>1
  <2> QED BY <1>2, <2>2 DEF SoundInv, Pushing, IsFirst
<1>7. ASSUME NEW u \in Threads, u # th PROVE Served(u)'
  BY <1>2, <1>3, <1>7, UnmovedThread
<1>8. Served(th)'
  BY <1>1, <1>2, <1>3 DEF SoundInv, Served, Due, Asked, Got, Holding, Listed, Complete
<1> QED BY <1>4, <1>5, <1>6, <1>7, <1>8 DEF SoundInv

LEMMA WakeWorkServes ==
  ASSUME IInv, SoundInv, Sound, Sound', NEW th \in Threads, WakeWork(th)
  PROVE  SoundInv'
<1>1. ~ Listed(th) /\ ~ Holding(th)
  BY DEF WakeWork, Holding, Listed
<1>2. /\ sender' = [sender EXCEPT ![th] = Resting] /\ answer' = [answer EXCEPT ![th] = 0]
      /\ UNCHANGED <<slot, cmds, next_tkn, worker, wire>>
  BY DEF WakeWork, Returns, manager
<1>3. /\ sender'[th].pc = "idle" /\ answer'[th] = 0
      /\ \A u \in Threads : u # th => sender'[u] = sender[u] /\ answer'[u] = answer[u]
  BY <1>2 DEF IInv, TypeOK, Resting
<1>4. Tokens' /\ Queued' /\ Sent'
  BY <1>2, ListFrame, WireFrame DEF SoundInv, Sent
<1>5. Pushing'
  <2>1. \A u \in Threads : sender'[u].pc = "push" => sender'[u] = sender[u] /\ sender[u].s \in cmds
    BY <1>3 DEF IInv, OnList, Listed
  <2>2. worker.pc = "push" => worker.s \in cmds
    BY DEF IInv, WorkerOwns, WorkListed
  <2> QED BY <1>2, <2>1, <2>2, PushFrame
<1>6. ASSUME NEW u \in Threads, u # th PROVE Served(u)'
  BY <1>2, <1>3, <1>6, UnmovedThread
<1>7. Served(th)'
  BY <1>1, <1>2, <1>3, IdleThread
<1> QED BY <1>4, <1>5, <1>6, <1>7 DEF SoundInv

LEMMA RemoveServes ==
  ASSUME IInv, SoundInv, Sound, Sound', NEW th \in Threads, Remove(th)
  PROVE  SoundInv'
<1> DEFINE s == sender[th].s
<1>1. sender[th].pc = "wait" /\ Complete(s) /\ Listed(th) /\ Holding(th) /\ s \in cmds
  BY DEF Remove, SoundInv, Served, Asked, IInv, OnList, Holding, Listed
<1>2. /\ cmds' = cmds \ {s} /\ sender' = [sender EXCEPT ![th].pc = "release"]
      /\ UNCHANGED <<slot, next_tkn, worker, wire, answer>>
  BY DEF Remove, Delete, Goes
<1>3. /\ sender'[th].pc = "release" /\ sender'[th].s = s /\ sender'[th].kind = sender[th].kind
      /\ sender'[th].tkn = sender[th].tkn
      /\ \A u \in Threads : u # th => sender'[u] = sender[u]
  BY <1>2 DEF IInv, TypeOK
<1>4. \A m \in wire : m.s \in cmds'
  BY <1>1, <1>2 DEF SoundInv, Sent, Out, Complete
<1>5. Tokens' /\ Queued' /\ Sent'
  BY <1>2, <1>4, ListFrame, WireFrame
<1>6. Pushing'
  <2>1. \A u \in Threads : sender'[u].pc = "push" => sender'[u] = sender[u] /\ sender[u].s \in cmds'
    BY <1>1, <1>2, <1>3 DEF IInv, OnList, Apart, Holding, Listed
  <2>2. worker.pc = "push" => worker.s \in cmds'
    BY <1>1, <1>2 DEF IInv, WorkerOwns, Apart, WorkHolding, WorkListed
  <2> QED BY <1>2, <2>1, <2>2, PushFrame
<1>7. ASSUME NEW u \in Threads, u # th PROVE Served(u)'
  BY <1>2, <1>3, <1>7, UnmovedThread
<1>8. Served(th)'
  <2>1. Due(th)'
    BY <1>2 DEF SoundInv, Served, Due
  <2>2. Asked(th)'
    BY <1>1, <1>2, <1>3 DEF SoundInv, Served, Asked, Holding, Listed
  <2>3. Got(th)'
    BY <1>1, <1>2, <1>3 DEF SoundInv, Served, Asked, Got
  <2> QED BY <2>1, <2>2, <2>3 DEF Served
<1> QED BY <1>5, <1>6, <1>7, <1>8 DEF SoundInv

LEMMA ReleaseServes ==
  ASSUME IInv, SoundInv, Sound, Sound', NEW th \in Threads, Release(th)
  PROVE  SoundInv'
<1> DEFINE s == sender[th].s
<1>1. s \in Slots /\ s \notin cmds /\ ~ Listed(th) /\ Holding(th)
  BY DEF Release, Sound, IInv, Owned, OnList, Holding, Listed
<1>2. /\ slot' = [slot EXCEPT ![s] = Unused]
      /\ sender' = [sender EXCEPT ![th] = Resting] /\ answer' = [answer EXCEPT ![th] = 0]
      /\ UNCHANGED <<cmds, next_tkn, worker, wire>>
  BY DEF Release, Returns, manager
<1>3. /\ sender'[th].pc = "idle" /\ answer'[th] = 0
      /\ \A u \in Threads : u # th => sender'[u] = sender[u] /\ answer'[u] = answer[u]
  BY <1>2 DEF IInv, TypeOK, Resting
<1>4. \A o \in Slots : o # s => slot'[o] = slot[o]
  BY <1>1, <1>2 DEF IInv, TypeOK
<1>5. \A o \in cmds : slot'[o] = slot[o]
  BY <1>1, <1>4 DEF IInv, TypeOK
<1>6. Tokens' /\ Queued' /\ Sent'
  BY <1>2, <1>5, ListFrame, WireFrame DEF SoundInv, Sent
<1>7. Pushing'
  <2>1. \A u \in Threads : sender'[u].pc = "push" => sender'[u] = sender[u] /\ sender[u].s \in cmds
    BY <1>3 DEF IInv, OnList, Listed
  <2>2. worker.pc = "push" => worker.s \in cmds
    BY DEF IInv, WorkerOwns, WorkListed
  <2> QED BY <1>2, <1>5, <2>1, <2>2, PushFrame
<1>8. ASSUME NEW u \in Threads, u # th PROVE Served(u)'
  <2>1. Holding(u) => sender[u].s # s /\ sender[u].s \in Slots
    BY <1>1, <1>8 DEF IInv, Owned, Apart
  <2> QED BY <1>2, <1>3, <1>4, <1>5, <1>8, <2>1, UnmovedThread
<1>9. Served(th)'
  BY <1>1, <1>2, <1>3, <1>5, IdleThread
<1> QED BY <1>6, <1>7, <1>8, <1>9 DEF SoundInv

LEMMA TimerFiresServes ==
  ASSUME IInv, SoundInv, Sound, Sound', NEW th \in Threads, TimerFires(th)
  PROVE  SoundInv'
<1>1. sender[th].pc = "wait"
  BY DEF TimerFires
<1>2. /\ sender' = [sender EXCEPT ![th].pc = "late"]
      /\ UNCHANGED <<slot, cmds, next_tkn, worker, wire, answer>>
  BY DEF TimerFires, Goes, manager
<1>3. /\ sender'[th].pc = "late" /\ sender'[th].s = sender[th].s /\ sender'[th].kind = sender[th].kind
      /\ sender'[th].tkn = sender[th].tkn
      /\ \A u \in Threads : u # th => sender'[u] = sender[u]
  BY <1>2 DEF IInv, TypeOK
<1>4. Tokens' /\ Queued' /\ Sent'
  BY <1>2, ListFrame, WireFrame DEF SoundInv, Sent
<1>5. Pushing'
  <2>1. \A u \in Threads : sender'[u].pc = "push" => sender'[u] = sender[u] /\ sender[u].s \in cmds
    BY <1>3 DEF IInv, OnList, Listed
  <2>2. worker.pc = "push" => worker.s \in cmds
    BY DEF IInv, WorkerOwns, WorkListed
  <2> QED BY <1>2, <2>1, <2>2, PushFrame
<1>6. ASSUME NEW u \in Threads, u # th PROVE Served(u)'
  BY <1>2, <1>3, <1>6, UnmovedThread
<1>7. Served(th)'
  BY <1>1, <1>2, <1>3 DEF SoundInv, Served, Due, Asked, Got, Holding, Listed, Complete
<1> QED BY <1>4, <1>5, <1>6, <1>7 DEF SoundInv

-----------------------------------------------------------------------------
LEMMA WorkLookServes ==
  ASSUME IInv, SoundInv, Sound, Sound', WorkLook
  PROVE  SoundInv'
<1>1. UNCHANGED <<slot, cmds, next_tkn, sender, wire, answer>>
  BY DEF WorkLook, manager
<1>2. Tokens' /\ Queued' /\ Sent'
  BY <1>1, ListFrame, WireFrame DEF SoundInv, Sent
<1>3. worker'.pc = "push" => IsFirst(worker'.s) /\ "PUSH" \in slot[worker'.s].flags
  BY DEF WorkLook, NextToPush
<1>4. Pushing'
  BY <1>1, <1>3 DEF SoundInv, Pushing, Out, IsFirst
<1>5. ASSUME NEW u \in Threads PROVE Served(u)'
  BY <1>1, UnmovedThread
<1> QED BY <1>2, <1>4, <1>5 DEF SoundInv

LEMMA WorkPushServes ==
  ASSUME IInv, SoundInv, Sound, Sound', WorkPush
  PROVE  SoundInv'
<1> DEFINE s == worker.s
           m == [s |-> s, tkn |-> slot[s].tkn, id |-> slot[s].reqid]
<1>1. s \in cmds /\ s \in Slots /\ WorkHolding /\ IsFirst(s) /\ "PUSH" \in slot[s].flags /\ Busy(s)
  BY DEF WorkPush, IInv, WorkerOwns, WorkHolding, WorkListed, SoundInv, Pushing, Busy
<1>2. "CFM" \in slot[s].flags
  BY <1>1 DEF SoundInv, Queued
<1>3. ASSUME NEW o \in cmds, Out(o) PROVE FALSE
  <2>1. o # s /\ slot[s].tkn <= slot[o].tkn
    BY <1>1, <1>3 DEF Out, IsFirst
  <2>2. slot[s].tkn < slot[o].tkn
    <3>1. slot[s].tkn \in Nat /\ slot[o].tkn \in Nat
      BY <1>1 DEF IInv, TypeOK, Entry
    <3>2. slot[s].tkn # slot[o].tkn
      BY <1>1, <2>1 DEF SoundInv, Tokens
    <3> QED BY <2>1, <3>1, <3>2
  <2> QED BY <1>1, <1>3, <2>2 DEF SoundInv, Queued, Out
<1>4. wire = {}
  BY <1>3 DEF SoundInv, Sent
<1>5. /\ slot' = [slot EXCEPT ![s].flags = @ \ {"PUSH"}] /\ worker' = [worker EXCEPT !.pc = "wait"]
      /\ wire' \subseteq {m} /\ UNCHANGED <<cmds, next_tkn, sender, answer>>
  BY <1>4 DEF WorkPush, WorkGoes, Transmit, manager
<1>6. /\ slot'[s].flags = slot[s].flags \ {"PUSH"} /\ slot'[s].tkn = slot[s].tkn
      /\ slot'[s].reqid = slot[s].reqid /\ slot'[s].e2a_msg = slot[s].e2a_msg
      /\ \A o \in Slots : o # s => slot'[o] = slot[o]
  BY <1>1, <1>5 DEF IInv, TypeOK, Entry
<1>7. /\ \A o \in cmds : slot'[o].tkn = slot[o].tkn /\ slot'[o].e2a_msg = slot[o].e2a_msg
      /\ \A o \in cmds : (Busy(o)' => Busy(o)) /\ (o # s => slot'[o] = slot[o])
  BY <1>1, <1>6 DEF IInv, TypeOK, Busy
<1>8. Tokens'
  BY <1>5, <1>7 DEF SoundInv, Tokens
<1>9. Queued'
  <2>1. ASSUME NEW o \in cmds, slot[o].tkn < slot[s].tkn PROVE FALSE
    BY <1>1, <2>1 DEF IsFirst, IInv, TypeOK, Entry
  <2> QED BY <1>2, <1>5, <1>6, <1>7, <2>1 DEF SoundInv, Queued
<1>10. Sent'
  BY <1>1, <1>2, <1>5, <1>6 DEF Sent, Out
<1>11. Pushing'
  <2>1. \A u \in Threads : sender[u].pc # "push"
    BY <1>3 DEF SoundInv, Pushing, IInv, OnList, Listed
  <2>2. worker'.pc = "wait"
    BY <1>5 DEF IInv, TypeOK
  <2> QED BY <1>5, <2>1, <2>2 DEF Pushing
<1>12. ASSUME NEW u \in Threads PROVE Served(u)'
  <2>1. Holding(u) => sender[u].s # s /\ sender[u].s \in Slots
    BY <1>1 DEF IInv, Owned, Apart
  <2> QED BY <1>5, <1>6, <1>7, <2>1, UnmovedThread
<1> QED BY <1>8, <1>9, <1>10, <1>11, <1>12 DEF SoundInv

LEMMA WorkRemoveServes ==
  ASSUME IInv, SoundInv, Sound, Sound', WorkRemove
  PROVE  SoundInv'
<1> DEFINE s == worker.s
<1>1. Complete(s) /\ WorkHolding /\ worker.pc = "wait"
  BY DEF WorkRemove, WorkHolding, WorkListed
<1>2. /\ cmds' = cmds \ {s} /\ worker' = [worker EXCEPT !.pc = "release"]
      /\ UNCHANGED <<slot, next_tkn, sender, wire, answer>>
  BY DEF WorkRemove, Delete, WorkGoes
<1>3. worker'.pc = "release"
  BY <1>2 DEF IInv, TypeOK
<1>4. \A m \in wire : m.s \in cmds'
  BY <1>1, <1>2 DEF SoundInv, Sent, Out, Complete
<1>5. Tokens' /\ Queued' /\ Sent'
  BY <1>2, <1>4, ListFrame, WireFrame
<1>6. Pushing'
  <2>1. \A u \in Threads : sender[u].pc = "push" => sender[u].s \in cmds'
    BY <1>1, <1>2 DEF IInv, OnList, Apart, Holding, Listed
  <2> QED BY <1>2, <1>3, <2>1, PushFrame
<1>7. ASSUME NEW u \in Threads PROVE Served(u)'
  BY <1>2, UnmovedThread
<1> QED BY <1>5, <1>6, <1>7 DEF SoundInv

LEMMA WorkReleaseServes ==
  ASSUME IInv, SoundInv, Sound, Sound', WorkRelease
  PROVE  SoundInv'
<1> DEFINE s == worker.s
<1>1. s \in Slots /\ s \notin cmds /\ WorkHolding
  BY DEF WorkRelease, IInv, WorkerOwns, WorkHolding
<1>2. /\ slot' = [slot EXCEPT ![s] = Unused] /\ worker'.pc = "look"
      /\ UNCHANGED <<cmds, next_tkn, sender, wire, answer>>
  BY DEF WorkRelease, manager
<1>3. \A o \in Slots : o # s => slot'[o] = slot[o]
  BY <1>1, <1>2 DEF IInv, TypeOK
<1>4. \A o \in cmds : slot'[o] = slot[o]
  BY <1>1, <1>3 DEF IInv, TypeOK
<1>5. Tokens' /\ Queued' /\ Sent'
  BY <1>2, <1>4, ListFrame, WireFrame DEF SoundInv, Sent
<1>6. Pushing'
  <2>1. \A u \in Threads : sender[u].pc = "push" => sender[u].s \in cmds
    BY DEF IInv, OnList, Listed
  <2> QED BY <1>2, <1>4, <2>1, PushFrame
<1>7. ASSUME NEW u \in Threads PROVE Served(u)'
  <2>1. Holding(u) => sender[u].s # s /\ sender[u].s \in Slots
    BY <1>1 DEF IInv, Owned, Apart
  <2> QED BY <1>2, <1>3, <1>4, <2>1, UnmovedThread
<1> QED BY <1>5, <1>6, <1>7 DEF SoundInv

(* The worker starts or its timer expires, the adapter goes, or nothing    *)
(* happens: what is sent can only be lost.                                 *)
LEMMA QuietServes ==
  ASSUME IInv, SoundInv, UNCHANGED <<slot, cmds, next_tkn, sender, answer>>,
         wire' \subseteq wire, worker'.pc = "push" => worker' = worker
  PROVE  SoundInv'
<1>1. Tokens' /\ Queued' /\ Sent'
  BY ListFrame, WireFrame DEF SoundInv, Sent
<1>2. Pushing'
  <2>1. \A u \in Threads : sender[u].pc = "push" => sender[u].s \in cmds
    BY DEF IInv, OnList, Listed
  <2>2. worker.pc = "push" => worker.s \in cmds
    BY DEF IInv, WorkerOwns, WorkListed
  <2> QED BY <2>1, <2>2, PushFrame
<1>3. ASSUME NEW u \in Threads PROVE Served(u)'
  BY UnmovedThread
<1> QED BY <1>1, <1>2, <1>3 DEF SoundInv

(* A confirmation finds the command it is for.                             *)
LEMMA RightCommand ==
  ASSUME IInv, SoundInv, NEW m \in wire, NEW s \in Slots, Confirmed(s, m)
  PROVE  /\ s = m.s /\ s \in cmds /\ Out(s)
         /\ m = [s |-> s, tkn |-> slot[s].tkn, id |-> slot[s].reqid]
<1>1. m.s \in cmds /\ Out(m.s) /\ Expects(m.s, m) /\ m.s \in Slots
  BY DEF SoundInv, Sent, Expects, Out, IInv, TypeOK
<1>2. s \in cmds /\ Busy(s) /\ slot[s].tkn <= slot[m.s].tkn
  BY <1>1 DEF Confirmed, Expects, Busy
<1>3. s = m.s
  <2> SUFFICES ASSUME s # m.s PROVE FALSE
    OBVIOUS
  <2>1. slot[s].tkn < slot[m.s].tkn
    <3>1. slot[s].tkn \in Nat /\ slot[m.s].tkn \in Nat
      BY <1>1 DEF IInv, TypeOK, Entry
    <3>2. slot[s].tkn # slot[m.s].tkn
      BY <1>1, <1>2 DEF SoundInv, Tokens
    <3> QED BY <1>2, <3>1, <3>2
  <2> QED BY <1>1, <1>2, <2>1 DEF SoundInv, Queued, Out
<1>4. m = [s |-> m.s, tkn |-> m.tkn, id |-> m.id]
  BY DEF IInv, TypeOK, Message
<1> QED BY <1>1, <1>3, <1>4 DEF SoundInv, Sent

LEMMA ConfirmServes ==
  ASSUME IInv, SoundInv, Sound, Sound', NEW m \in wire, Confirm(m)
  PROVE  SoundInv'
<1>1. wire' = wire \ {m} /\ UNCHANGED <<cmds, next_tkn, sender, worker>>
  BY DEF Confirm, manager
<1>2. CASE UNCHANGED <<slot, answer>>
  BY <1>1, <1>2, QuietServes
<1>3. ASSUME NEW s \in Slots, Confirmed(s, m),
             slot' = [slot EXCEPT ![s].flags = @ \ {"CFM"}],
             answer' = IF slot[s].e2a_msg = NoThread THEN answer
                       ELSE [answer EXCEPT ![slot[s].e2a_msg] = m.tkn]
      PROVE  SoundInv'
  <2>1. /\ s = m.s /\ s \in cmds /\ Out(s)
        /\ m = [s |-> s, tkn |-> slot[s].tkn, id |-> slot[s].reqid]
    BY <1>3, RightCommand
  <2>2. /\ slot'[s].flags = slot[s].flags \ {"CFM"} /\ slot'[s].tkn = slot[s].tkn
        /\ slot'[s].e2a_msg = slot[s].e2a_msg
        /\ \A o \in Slots : o # s => slot'[o] = slot[o]
    BY <1>3 DEF IInv, TypeOK, Entry
  <2>3. /\ \A o \in cmds : slot'[o].tkn = slot[o].tkn /\ slot'[o].e2a_msg = slot[o].e2a_msg
        /\ \A o \in cmds : (Busy(o)' => Busy(o)) /\ (o # s => slot'[o] = slot[o])
    BY <2>2 DEF IInv, TypeOK, Busy
  <2>4. Tokens'
    BY <1>1, <2>3 DEF SoundInv, Tokens
  <2>5. Queued'
    <3>1. \A o \in cmds : "PUSH" \in slot[o].flags <=> "PUSH" \in slot'[o].flags
      BY <2>2, <2>3
    <3>2. \A o \in cmds : "PUSH" \in slot'[o].flags => "CFM" \in slot'[o].flags
      BY <2>1, <2>2, <2>3 DEF SoundInv, Queued, Out
    <3> QED BY <1>1, <2>3, <3>1, <3>2 DEF SoundInv, Queued
  <2>6. Sent'
    <3>1. ASSUME NEW n \in wire, n # m PROVE FALSE
      <4>1. n.s \in cmds /\ Out(n.s) /\ slot[n.s].tkn = n.tkn /\ slot[n.s].reqid = n.id
        BY DEF SoundInv, Sent
      <4>2. n.s = s
        BY <2>1, <4>1, OneOut DEF IInv, SoundInv
      <4>3. n = [s |-> n.s, tkn |-> n.tkn, id |-> n.id]
        BY DEF IInv, TypeOK, Message
      <4> QED BY <2>1, <3>1, <4>1, <4>2, <4>3
    <3> QED BY <1>1, <3>1 DEF Sent
  <2>7. \A u \in Threads : sender[u].pc # "push"
    BY DEF SoundInv, Pushing
  <2>8. Pushing'
    <3>1. worker.pc = "push" => worker.s # s /\ IsFirst(worker.s) /\ "PUSH" \in slot[worker.s].flags
      BY <2>1 DEF SoundInv, Pushing, Out
    <3> QED BY <1>1, <2>3, <2>7, <3>1 DEF Pushing, IsFirst
  <2>9. ASSUME NEW u \in Threads, slot[s].e2a_msg # u PROVE Served(u)'
    <3>1. answer'[u] = answer[u]
      BY <1>3, <2>9 DEF IInv, TypeOK, Entry
    <3>2. Holding(u) /\ sender[u].s = s => sender[u].kind # "answer"
      BY <2>9 DEF SoundInv, Served, Asked
    <3>3. Holding(u) /\ sender[u].s # s => slot'[sender[u].s] = slot[sender[u].s]
      BY <2>2 DEF IInv, Owned
    <3>4. Due(u)'
      BY <1>1, <2>3, <2>9 DEF SoundInv, Served, Due, Listed
    <3>5. CASE Holding(u) /\ sender[u].s = s
      <4>1. Asked(u)'
        BY <1>1, <2>2, <3>1, <3>2, <3>5 DEF SoundInv, Served, Asked, Holding, Listed
      <4>2. Got(u)'
        BY <1>1, <3>1 DEF SoundInv, Served, Got
      <4> QED BY <3>4, <4>1, <4>2 DEF Served
    <3>6. CASE ~ (Holding(u) /\ sender[u].s = s)
      BY <1>1, <2>3, <3>1, <3>3, <3>6, UnmovedThread
    <3> QED BY <3>5, <3>6
  <2>10. ASSUME NEW u \in Threads, slot[s].e2a_msg = u PROVE Served(u)'
    <3>1. sender[u].s = s /\ Listed(u) /\ sender[u].kind = "answer" /\ sender[u].tkn = slot[s].tkn
      BY <2>1, <2>10 DEF SoundInv, Served, Due, Asked
    <3>2. sender[u].pc \in {"wait", "late"}
      BY <2>7, <2>10, <3>1 DEF Listed, SoundInv, Served, Asked
    <3>3. answer'[u] = m.tkn /\ m.tkn = sender[u].tkn /\ m.tkn # 0
      <4>1. m.tkn = slot[s].tkn /\ 1 <= slot[s].tkn /\ slot[s].tkn \in Nat
        BY <2>1 DEF SoundInv, Tokens, IInv, TypeOK, Entry
      <4> QED BY <1>3, <2>10, <3>1, <4>1, CmdMgrConstants DEF IInv, TypeOK
    <3>4. Due(u)'
      BY <1>1, <2>3, <2>10 DEF SoundInv, Served, Due, Listed
    <3>5. Asked(u)' /\ Got(u)'
      BY <1>1, <2>2, <2>10, <3>1, <3>2, <3>3 DEF Asked, Got, Holding, Listed
    <3> QED BY <3>4, <3>5 DEF Served
  <2> QED BY <2>4, <2>5, <2>6, <2>8, <2>9, <2>10 DEF SoundInv
<1> QED BY <1>2, <1>3 DEF Confirm

LEMMA InitSound == Init => SoundInv
<1> SUFFICES ASSUME Init PROVE SoundInv
  OBVIOUS
<1>1. Tokens /\ Queued /\ Sent /\ Pushing
  BY DEF Init, Tokens, Queued, Sent, Pushing, Resting
<1>2. \A th \in Threads : Served(th)
  BY DEF Init, Served, Due, Asked, Got, Holding, Listed, Resting
<1> QED BY <1>1, <1>2 DEF SoundInv

LEMMA NextSound == IInv /\ (Sound => SoundInv) /\ [Next]_vars => (Sound => SoundInv)'
<1> SUFFICES ASSUME IInv, Sound => SoundInv, [Next]_vars, Sound' PROVE SoundInv'
  OBVIOUS
<1> Sound /\ SoundInv
  <2>1. state = "inited"
    <3> SUFFICES ASSUME state # "inited" PROVE UNCHANGED state
      BY DEF Sound
    <3> QED
      BY DEF Next, vars, Sound, manager, Sending, Waiting, Working, SendMsg, Enqueue, Refuse,
             Push, WakeWork, Remove, Release, TimerFires, Late, Interrupted, WorkStart,
             WorkLook, WorkPush, WorkRemove, WorkRelease, WorkTimer, WorkLate, Confirm,
             BusDown
  <2>2. ~ killed
    <3> SUFFICES ASSUME killed PROVE killed'
      BY DEF Sound
    <3> QED
      BY DEF Next, vars, history, Sending, Waiting, Working, SendMsg, Enqueue, Refuse, Push,
             WakeWork, Remove, Release, TimerFires, Late, Interrupted, WorkStart, WorkLook,
             WorkPush, WorkRemove, WorkRelease, WorkTimer, WorkLate, Confirm, BusDown
  <2> QED BY <2>1, <2>2 DEF Sound
<1>1. ASSUME NEW th \in Threads, NEW kind \in Kinds, NEW id \in Ids, SendMsg(th, kind, id)
      PROVE  SoundInv'
  BY <1>1, SendMsgServes
<1>2. ASSUME NEW th \in Threads, Sending(th) \/ Waiting(th) \/ Interrupted(th)
      PROVE  SoundInv'
  <2>1. ~ Late(th) /\ ~ Interrupted(th)
    BY DEF Late, Interrupted, Sound
  <2> QED BY <1>2, <2>1, EnqueueServes, RefuseServes, PushServes, WakeWorkServes, RemoveServes,
          ReleaseServes, TimerFiresServes DEF Sending, Waiting
<1>3. CASE WorkStart \/ WorkTimer \/ BusDown \/ UNCHANGED vars
  <2>1. UNCHANGED <<slot, cmds, next_tkn, sender, answer>> /\ wire' \subseteq wire
    BY <1>3 DEF WorkStart, WorkTimer, BusDown, vars, manager
  <2>2. worker'.pc = "push" => worker' = worker
    BY <1>3 DEF WorkStart, WorkTimer, BusDown, vars, WorkGoes, IInv, TypeOK
  <2> QED BY <2>1, <2>2, QuietServes
<1>4. CASE WorkLook \/ WorkPush \/ WorkRemove \/ WorkRelease
  BY <1>4, WorkLookServes, WorkPushServes, WorkRemoveServes, WorkReleaseServes
<1>5. ASSUME WorkLate PROVE FALSE
  BY <1>5 DEF WorkLate, Sound
<1>6. ASSUME NEW m \in wire, Confirm(m)
      PROVE  SoundInv'
  BY <1>6, ConfirmServes
<1> QED BY <1>1, <1>2, <1>3, <1>4, <1>5, <1>6 DEF Next, Working
-----------------------------------------------------------------------------
LEMMA SoundIsRight == IInv /\ (Sound => SoundInv) => OneOnTheWire /\ AnswerIsItsOwn
<1> SUFFICES ASSUME IInv, Sound, SoundInv PROVE OneOnTheWire /\ AnswerIsItsOwn
  BY DEF OneOnTheWire, AnswerIsItsOwn
<1>1. ASSUME NEW m \in wire, NEW n \in wire PROVE m = n
  <2>1. /\ m.s \in cmds /\ Out(m.s) /\ m.tkn = slot[m.s].tkn /\ m.id = slot[m.s].reqid
        /\ n.s \in cmds /\ Out(n.s) /\ n.tkn = slot[n.s].tkn /\ n.id = slot[n.s].reqid
    BY DEF SoundInv, Sent
  <2>2. m.s = n.s
    BY <2>1, OneOut DEF IInv, SoundInv
  <2>3. m = [s |-> m.s, tkn |-> m.tkn, id |-> m.id] /\ n = [s |-> n.s, tkn |-> n.tkn, id |-> n.id]
    BY DEF IInv, TypeOK, Message
  <2> QED BY <2>1, <2>2, <2>3
<1>2. AnswerIsItsOwn
  BY DEF SoundInv, Served, Got, AnswerIsItsOwn
<1> QED BY <1>1, <1>2 DEF OneOnTheWire

(* Only a confirmation completes a command, and it is the right one.       *)
LEMMA StepConfirmsItsOwn ==
  ASSUME IInv, Sound => SoundInv, [Next]_vars, Sound,
         NEW s \in cmds, s \in cmds', ~ Complete(s), Complete(s)'
  PROVE  [s |-> s, tkn |-> slot[s].tkn, id |-> slot[s].reqid] \in wire \ wire'
<1> s \in Slots /\ "CFM" \in slot[s].flags /\ "CFM" \notin slot'[s].flags
  BY DEF IInv, TypeOK, Complete
<1>1. ASSUME NEW m \in wire, Confirm(m)
      PROVE  [s |-> s, tkn |-> slot[s].tkn, id |-> slot[s].reqid] \in wire \ wire'
  <2>1. PICK o \in Slots : Confirmed(o, m) /\ slot' = [slot EXCEPT ![o].flags = @ \ {"CFM"}]
    BY <1>1 DEF Confirm
  <2>2. o = s
    BY <2>1 DEF IInv, TypeOK
  <2> QED BY <1>1, <2>1, <2>2, RightCommand DEF Confirm
<1>2. ASSUME NEW th \in Threads, NEW kind \in Kinds, NEW id \in Ids, SendMsg(th, kind, id)
      PROVE  FALSE
  BY <1>2 DEF SendMsg, IInv, TypeOK, Entry
<1>3. ASSUME NEW th \in Threads, Enqueue(th) PROVE FALSE
  <2>1. sender[th].s \in Slots
    BY <1>3 DEF Enqueue, IInv, Owned, Holding
  <2> QED BY <1>3, <2>1 DEF Enqueue, IInv, TypeOK, Entry
<1>4. ASSUME NEW th \in Threads, Refuse(th) \/ Late(th) PROVE FALSE
  <2>1. sender[th].s \in Slots
    BY <1>4 DEF Refuse, Late, IInv, Owned, Holding, Listed
  <2>2. slot' = [slot EXCEPT ![sender[th].s].used = FALSE]
    BY <1>4 DEF Refuse, Late
  <2>3. \A o \in Slots : slot'[o].flags = slot[o].flags
    BY <2>1, <2>2 DEF IInv, TypeOK, Entry
  <2> QED BY <2>3
<1>5. ASSUME NEW th \in Threads, Release(th) PROVE FALSE
  <2>1. sender[th].s # s
    BY <1>5 DEF Release, IInv, OnList
  <2> QED BY <1>5, <2>1 DEF Release, IInv, TypeOK
<1>6. ASSUME WorkPush PROVE FALSE
  BY <1>6 DEF WorkPush, IInv, TypeOK, Entry
<1>7. ASSUME WorkRelease PROVE FALSE
  <2>1. worker.s # s
    BY <1>7 DEF WorkRelease, IInv, WorkerOwns
  <2> QED BY <1>7, <2>1 DEF WorkRelease, IInv, TypeOK
<1>8. slot' # slot
  OBVIOUS
<1>9. ASSUME NEW th \in Threads, Push(th) \/ WakeWork(th) \/ Remove(th) \/ TimerFires(th) \/ Interrupted(th)
      PROVE  FALSE
  BY <1>8, <1>9 DEF Push, WakeWork, Remove, TimerFires, Interrupted
<1>10. ASSUME WorkStart \/ WorkLook \/ WorkRemove \/ WorkTimer \/ WorkLate \/ BusDown \/ UNCHANGED vars
       PROVE  FALSE
  BY <1>8, <1>10 DEF WorkStart, WorkLook, WorkRemove, WorkTimer, WorkLate, BusDown, vars
<1> QED
  BY <1>1, <1>2, <1>3, <1>4, <1>5, <1>6, <1>7, <1>9, <1>10
  DEF Next, Sending, Waiting, Working

LEMMA SpecSound == Spec => [](IInv /\ (Sound => SoundInv))
<1>1. Init => IInv /\ (Sound => SoundInv)
  BY InitIInv, InitSound
<1>2. IInv /\ (Sound => SoundInv) /\ [Next]_vars => (IInv /\ (Sound => SoundInv))'
  BY NextIInv, NextSound
<1> QED BY <1>1, <1>2, PTL DEF Spec

(* Until a timeout or a fatal signal the adapter has at most one command   *)
(* to confirm, however many threads and the worker send.                   *)
THEOREM OneCommandIsOut == Spec => []OneOnTheWire
<1> QED BY SpecSound, SoundIsRight, PTL

(* Until then no answer is written for a caller that has returned, none is *)
(* that of another command, and a caller that succeeds has its answer.     *)
THEOREM AnswersGoHome == Spec => []AnswerIsItsOwn
<1> QED BY SpecSound, SoundIsRight, PTL

(* Until then a command is completed by the confirmation of itself.        *)
THEOREM ConfirmedRightly == Spec => ConfirmedByItsOwn
<1>1. IInv /\ (Sound => SoundInv) /\ [Next]_vars =>
        [Sound => \A s \in cmds \cap cmds' : ~ Complete(s) /\ Complete(s)' =>
           [s |-> s, tkn |-> slot[s].tkn, id |-> slot[s].reqid] \in wire \ wire']_vars
  BY StepConfirmsItsOwn
<1> QED BY <1>1, SpecSound, PTL DEF Spec, ConfirmedByItsOwn
=============================================================================
