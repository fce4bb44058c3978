---------------------------- MODULE Fat32Proofs ----------------------------
(***************************************************************************)
(* Proofs about Fat32, for volumes of every size and calls cut short       *)
(* anywhere.  Whether writes fail or not: types, one end mark, one file of *)
(* a name, no entry changed but the call's, equal copies of the table.     *)
(* When no write fails: chains never dangle and never share a cluster      *)
(* (ChainsInv), no cluster is lost, and directories are written before     *)
(* they are led to (LeakInv).                                              *)
(***************************************************************************)
EXTENDS Fat32, FiniteSetTheorems, TLAPS

\* What a loop over a chain makes of the values a table entry can have.
LEMMA LinkValues ==
    /\ Clusters \subseteq Nat /\ 0 \notin Clusters
    /\ EOC \in Nat /\ EOC # 0 /\ EOC \notin Clusters
    /\ \A c \in {0, EOC} \cup Clusters : IsLink(c) <=> c \in Clusters
BY GeometryAssumption, SMT DEF Clusters, EOC, IsLink, CHAIN_END

-----------------------------------------------------------------------------
(* Types.                                                                  *)

\* One turn of fat_set_entry keeps the types of what it changes.
LEMMA SetCopyType ==
    ASSUME TypeOK, NEW f \in Fats, NEW c \in {0} \cup Clusters,
           NEW v \in {FREE, EOC} \cup Clusters, NEW to \in Returns, NEW w \in Outcomes,
           SetCopy(f, c, v, to, w)
    PROVE  /\ fat' \in Table /\ clean' \in BOOLEAN /\ r' \in Results
           /\ TypeFlow' /\ pc' \notin {"idle", "off"}
<1>1. fat' \in Table
  <2>1. fat \in Table
    BY DEF TypeOK, TypeVolume
  <2>2. fat' = fat \/ fat' = [fat EXCEPT ![f][c] = v]
    BY DEF SetCopy
  <2> QED BY <2>1, <2>2 DEF Table
<1>2. TypeFlow' /\ pc' \notin {"idle", "off"}
  <2>1. \/ /\ pc' = "mirror" /\ f < NumFats
           /\ job' = [clus |-> c, val |-> v, copy |-> f + 1, ret |-> to]
        \/ /\ pc' \in {to, OnFail(to)} /\ job' = NoJob
    BY DEF SetCopy, MoreCopies
  <2>2. f < NumFats => f + 1 \in Fats /\ f + 1 > 1
    BY GeometryAssumption DEF Fats
  <2>3. to # "none" /\ to # "mirror" /\ OnFail(to) \in {"return", "unalloc"} \cup Returns
    BY DEF OnFail, Returns
  <2>4. job' \in Job
    BY <2>1, <2>2 DEF NoJob, FREE, Job
  <2> QED BY <2>1, <2>2, <2>3, <2>4 DEF TypeFlow, Returns
<1>3. r' \in Results
  BY DEF SetCopy, TypeOK, TypeCall, FS_ERR_IO, Results
<1>4. clean' \in BOOLEAN
  BY DEF SetCopy, Note
<1> QED BY <1>1, <1>2, <1>3, <1>4

\* The start of fat_set_entry, from any caller.
LEMMA SetEntryType ==
    ASSUME TypeOK, NEW c \in {0} \cup Clusters, NEW v \in {FREE, EOC} \cup Clusters,
           NEW to \in Returns, fat_set_entry(c, v, to)
    PROVE  /\ fat' \in Table /\ clean' \in BOOLEAN /\ r' \in Results
           /\ TypeFlow' /\ pc' \notin {"idle", "off"}
<1>1. PICK w \in Outcomes : SetCopy(1, c, v, to, w)
  BY DEF fat_set_entry
<1>2. 1 \in Fats
  BY GeometryAssumption DEF Fats
<1> QED BY <1>1, <1>2, SetCopyType

\* A directory write, if the entry it writes is one.
LEMMA PutSlotType ==
    ASSUME TypeOK, NEW s, NEW ok, NEW bad,
           NEW e \in [kind : Kinds, name : Names \cup {"none"},
                      first : {0} \cup Clusters, size : Nat],
           PutSlot(s, e, ok, bad)
    PROVE  /\ dir' \in Directory
           /\ pc' \in {ok, bad}
           /\ r' \in Results
           /\ clean' \in BOOLEAN
<1>1. PICK w \in Outcomes :
          /\ dir' = Put(dir, s, e, w)
          /\ pc' = IF w = "ok" THEN ok ELSE bad
          /\ r'  = IF w # "ok" /\ bad = "return" THEN FS_ERR_IO ELSE FS_OK
          /\ Note(w)
  BY DEF PutSlot
<1>2. dir \in Directory
  BY DEF TypeOK, TypeVolume
<1>3. dir' \in Directory
  BY <1>1, <1>2 DEF Put, Directory
<1> QED BY <1>1, <1>3 DEF FS_ERR_IO, FS_OK, Results, Note

LEMMA TypeInit == Init => TypeOK
<1> SUFFICES ASSUME Init PROVE TypeOK
  OBVIOUS
<1>1. PICK hosted \in SUBSET {HostDir} :
          /\ hosted \subseteq Clusters
          /\ fat = [f \in Fats |-> [c \in Clusters |->
                       IF c \in RootChain THEN RootEntry(c)
                       ELSE IF c \in hosted THEN EOC ELSE FREE]]
          /\ data = [c \in Clusters |-> IF c \in hosted THEN HostFiles
                                       ELSE [i \in 1..ClusterBytes |-> Zero]]
          /\ \E n \in Names :
                dir = [s \in Slots |-> IF s = 1 THEN Blank("skip")
                                       ELSE IF s = 2 /\ hosted # {} THEN DirEntry(n, HostDir)
                                       ELSE Blank("end")]
  BY DEF Init
<1>2. TypeVolume
  <2>1. \A c \in RootChain : RootEntry(c) \in {FREE, EOC} \cup Clusters
    BY GeometryAssumption DEF RootChain, RootEntry, Clusters
  <2>2. fat \in Table
    BY <1>1, <2>1 DEF Table
  <2>3. hosted # {} => HostDir \in Clusters
    BY <1>1
  <2>4. dir \in Directory
    BY <1>1, <2>3 DEF Blank, DirEntry, Kinds, Directory
  <2>5. data \in [Clusters -> Block]
    BY <1>1 DEF Block, HostFiles, Zero
  <2> QED BY <2>2, <2>4, <2>5 DEF Init, TypeVolume
<1>3. TypeCall
  BY GeometryAssumption DEF Init, TypeCall, Results, FS_OK
<1>4. TypeWork
  BY DEF Init, TypeWork
<1>5. TypeFlow
  BY DEF Init, TypeFlow, NoJob, Job, FREE
<1> QED BY <1>2, <1>3, <1>4, <1>5 DEF TypeOK

LEMMA TypeMirror == ASSUME TypeOK, NextCopy PROVE TypeOK'
<1>1. PICK w \in Outcomes : SetCopy(job.copy, job.clus, job.val, job.ret, w)
  BY DEF NextCopy
<1>2. job \in Job /\ job.copy > 1 /\ job.ret # "none"
  BY DEF NextCopy, TypeOK, TypeFlow
<1>3. /\ job.copy \in Fats /\ job.clus \in {0} \cup Clusters
      /\ job.val \in {FREE, EOC} \cup Clusters /\ job.ret \in Returns
  BY <1>2 DEF Job
<1>4. UNCHANGED <<dir, data, fs_ready, call, pos, last, chain, cur>>
  BY DEF NextCopy
<1> QED BY <1>1, <1>3, <1>4, SetCopyType
        DEF TypeOK, TypeVolume, TypeCall, TypeWork, TypeFlow, call, chain

\* A call that ends before it writes anything.
LEMMA TypeRefuse ==
    ASSUME TypeOK, NEW o \in EntryPoints, NEW n \in Names, NEW b \in Seq(Bytes),
           Call(o, n, b), UNCHANGED fs_ready, NEW code \in Results, Refuse(code)
    PROVE  TypeOK'
<1>1. TypeVolume'
  BY DEF Refuse, disk, TypeOK, TypeVolume
<1>2. TypeCall'
  BY DEF Refuse, chain, Call, TypeOK, TypeCall, TypeWork
<1>3. TypeWork'
  BY DEF Refuse, chain, TypeOK, TypeWork
<1>4. TypeFlow'
  BY DEF Refuse, TypeOK, TypeFlow
<1> QED BY <1>1, <1>2, <1>3, <1>4 DEF TypeOK

\* The result codes are results.
LEMMA Codes ==
    {FS_OK, FS_ERR_NOFS, FS_ERR_EXISTS, FS_ERR_NOTFOUND, FS_ERR_NOTDIR, FS_ERR_NOTEMPTY,
     FS_ERR_NOSPACE, FS_ERR_IO, FS_ERR_ISDIR, FS_ERR_DIRFULL} \subseteq Results
BY DEF FS_OK, FS_ERR_NOFS, FS_ERR_EXISTS, FS_ERR_NOTFOUND, FS_ERR_NOTDIR,
       FS_ERR_NOTEMPTY, FS_ERR_NOSPACE, FS_ERR_IO, FS_ERR_ISDIR, FS_ERR_DIRFULL, Results

LEMMA TypeMkdir ==
    ASSUME TypeOK, NEW n \in Names, make_dir(n)
    PROVE  TypeOK'
<1>1. CASE Refuse(FS_ERR_NOSPACE)
  <2>1. FS_ERR_NOSPACE \in Results /\ "mkdir" \in EntryPoints /\ <<>> \in Seq(Bytes)
    BY Codes DEF EntryPoints
  <2> QED BY <1>1, <2>1, TypeRefuse DEF make_dir
<1>2. ASSUME NEW c \in Clusters, fat_set_entry(c, EOC, "mkDots"), new' = c,
             UNCHANGED <<dir, data, pos, last, prev, first, done, cur>>
      PROVE  TypeOK'
  <2>1. /\ fat' \in Table /\ clean' \in BOOLEAN /\ r' \in Results
        /\ TypeFlow' /\ pc' \notin {"idle", "off"}
    BY <1>2, SetEntryType DEF Returns
  <2>2. TypeVolume'
    BY <1>2, <2>1 DEF make_dir, TypeOK, TypeVolume
  <2>3. TypeCall'
    BY <1>2, <2>1 DEF make_dir, Call, EntryPoints, TypeOK, TypeCall, TypeWork
  <2>4. TypeWork'
    BY <1>2, <2>1 DEF TypeOK, TypeWork
  <2> QED BY <2>1, <2>2, <2>3, <2>4 DEF TypeOK
<1> QED BY <1>1, <1>2 DEF make_dir

LEMMA TypeMkDots == ASSUME TypeOK, MkDots PROVE TypeOK'
<1>1. PICK w \in Outcomes : data' = Put(data, new, Dots, w) /\ Note(w)
  BY DEF MkDots
<1>2. Dots \in Block
  BY DEF Dots, Block
<1>3. data' \in [Clusters -> Block]
  BY <1>1, <1>2 DEF Put, TypeOK, TypeVolume
<1> QED BY <1>1, <1>3 DEF MkDots, Note, call, chain,
              TypeOK, TypeVolume, TypeCall, TypeWork, TypeFlow

LEMMA TypeMkEntry == ASSUME TypeOK, MkEntry PROVE TypeOK'
<1> USE DEF TypeOK, TypeVolume, TypeCall, TypeWork, call, chain
<1>1. ASSUME NEW s \in Slots, NEW w \in Outcomes,
             dir' = Put(dir, s, DirEntry(name, new), w), Note(w),
             pc' = "return", UNCHANGED <<fat, job, r>>
      PROVE  TypeOK'
  <2>1. DirEntry(name, new) \in [kind : Kinds, name : Names \cup {"none"},
                                 first : {0} \cup Clusters, size : Nat]
    BY DEF DirEntry, Kinds
  <2>2. dir' \in Directory
    BY <1>1, <2>1 DEF Put, Directory
  <2> QED BY <1>1, <2>2 DEF MkEntry, Note, TypeFlow
<1>2. CASE fat_set_entry(new, FREE, "full") /\ UNCHANGED dir
  <2>1. /\ fat' \in Table /\ clean' \in BOOLEAN /\ r' \in Results
        /\ TypeFlow' /\ pc' \notin {"idle", "off"}
    BY <1>2, SetEntryType DEF Returns
  <2> QED BY <1>2, <2>1 DEF MkEntry
<1> QED BY <1>1, <1>2 DEF MkEntry

LEMMA TypeMkFull == ASSUME TypeOK, MkFull PROVE TypeOK'
BY Codes DEF MkFull, disk, call, chain, TypeOK, TypeVolume, TypeCall, TypeWork, TypeFlow

\* The entries the calls write.
LEMMA EntryTypes ==
    ASSUME TypeOK
    PROVE  /\ Blank("deleted") \in [kind : Kinds, name : Names \cup {"none"},
                                    first : {0} \cup Clusters, size : Nat]
           /\ \A n \in Names : FileEntry(n, 0, 0) \in
                  [kind : Kinds, name : Names \cup {"none"},
                   first : {0} \cup Clusters, size : Nat]
           /\ \A s \in Slots : dir[s].first \in {0} \cup Clusters /\ dir[s].size \in Nat
BY DEF Blank, FileEntry, Kinds, TypeOK, TypeVolume, Directory

\* A call whose first step is a directory write.
LEMMA TypeEntryWrite ==
    ASSUME TypeOK, NEW o \in EntryPoints, NEW n \in Names, NEW b \in Seq(Bytes),
           Call(o, n, b), UNCHANGED fs_ready, NEW s \in Slots,
           NEW ok \in {"free", "alloc", "return"}, NEW bad \in {"free", "return"},
           NEW e \in [kind : Kinds, name : Names \cup {"none"},
                      first : {0} \cup Clusters, size : Nat],
           PutSlot(s, e, ok, bad),
           cur' \in {0, EOC} \cup Clusters, pos' \in {pos, s},
           UNCHANGED <<fat, data, last, chain, job>>
    PROVE  TypeOK'
<1>1. /\ dir' \in Directory /\ pc' \in {ok, bad} /\ r' \in Results
      /\ clean' \in BOOLEAN
  BY PutSlotType
<1>2. TypeVolume'
  BY <1>1 DEF TypeOK, TypeVolume
<1>3. pos' \in 0..NumSlots
  BY GeometryAssumption DEF Slots, TypeOK, TypeCall
<1>4. TypeCall'
  BY <1>1, <1>3 DEF Call, chain, TypeOK, TypeCall, TypeWork
<1>5. TypeWork'
  BY <1>1 DEF chain, TypeOK, TypeWork
<1>6. TypeFlow'
  BY <1>1 DEF TypeOK, TypeFlow, Returns
<1> QED BY <1>2, <1>4, <1>5, <1>6 DEF TypeOK

LEMMA TypeRmdir == ASSUME TypeOK, NEW n \in Names, remove_dir(n) PROVE TypeOK'
<1>1. "rmdir" \in EntryPoints /\ <<>> \in Seq(Bytes)
  BY DEF EntryPoints
<1>2. CASE \E code \in Results : Refuse(code)
  BY <1>1, <1>2, TypeRefuse DEF remove_dir
<1>3. ASSUME NEW s \in Slots, PutSlot(s, Blank("deleted"), "free", "free"),
             cur' = dir[s].first, UNCHANGED <<fat, data, pos, last, chain, job>>
      PROVE  TypeOK'
  <2>1. cur' \in {0, EOC} \cup Clusters /\ pos' \in {pos, s}
    BY <1>3, EntryTypes
  <2> QED BY <1>1, <1>3, <2>1, EntryTypes, TypeEntryWrite DEF remove_dir
<1> QED BY <1>2, <1>3, Codes DEF remove_dir

LEMMA TypeCreate == ASSUME TypeOK, NEW n \in Names, fs_create_file(n) PROVE TypeOK'
<1>1. "create" \in EntryPoints /\ <<>> \in Seq(Bytes)
  BY DEF EntryPoints
<1>2. CASE \E code \in Results : Refuse(code)
  BY <1>1, <1>2, TypeRefuse DEF fs_create_file
<1>3. ASSUME NEW s \in Slots, PutSlot(s, FileEntry(n, 0, 0), "return", "return"),
             UNCHANGED <<fat, data, pos, last, chain, cur, job>>
      PROVE  TypeOK'
  <2>1. cur' \in {0, EOC} \cup Clusters /\ pos' \in {pos, s}
    BY <1>3 DEF TypeOK, TypeWork
  <2> QED BY <1>1, <1>3, <2>1, EntryTypes, TypeEntryWrite DEF fs_create_file
<1> QED BY <1>2, <1>3, Codes DEF fs_create_file

LEMMA TypeStartWrite ==
    ASSUME TypeOK, NEW n \in Names, NEW b \in Seq(Bytes), StartWrite(n, b)
    PROVE  TypeOK'
<1>1. "write" \in EntryPoints
  BY DEF EntryPoints
<1>2. CASE \E code \in Results : Refuse(code)
  BY <1>1, <1>2, TypeRefuse DEF StartWrite
<1>3. ASSUME NEW s \in Slots,
             \/ PutSlot(s, FileEntry(n, 0, 0), "free", "return") /\ cur' = dir[s].first
             \/ PutSlot(s, FileEntry(n, 0, 0), "alloc", "return") /\ UNCHANGED cur,
             pos' = s, UNCHANGED <<fat, data, last, chain, job>>
      PROVE  TypeOK'
  <2>1. cur' \in {0, EOC} \cup Clusters /\ pos' \in {pos, s}
    BY <1>3, EntryTypes DEF TypeOK, TypeWork
  <2> QED BY <1>1, <1>3, <2>1, EntryTypes, TypeEntryWrite DEF StartWrite
<1> QED BY <1>2, <1>3, Codes DEF StartWrite

\* What an append fills is within the cluster and within the buffer.
LEMMA FillType ==
    ASSUME TypeOK, NEW s \in Slots, NEW b \in Seq(Bytes)
    PROVE  Used(s) \in 0..ClusterBytes /\ Fill(s, b) \in 0..Len(b)
<1>1. IsFiniteSet(Clusters)
  BY GeometryAssumption, FS_Interval DEF Clusters
<1>2. Chain(dir[s].first) \subseteq Clusters
  BY DEF Chain
<1>3. Cardinality(Chain(dir[s].first)) \in Nat
  BY <1>1, <1>2, FS_Subset, FS_CardinalityType
<1>4. (Cardinality(Chain(dir[s].first)) - 1) * ClusterBytes \in Int
  BY <1>3, GeometryAssumption
<1>5. Used(s) \in 0..ClusterBytes
  BY <1>4, EntryTypes, GeometryAssumption DEF Used
<1> QED BY <1>5, GeometryAssumption DEF Fill

LEMMA FilledType ==
    ASSUME TypeOK, NEW c \in Clusters, NEW used \in Nat, NEW b \in Seq(Bytes)
    PROVE  Filled(c, used, b) \in Block
<1>1. data[c] \in Block
  BY DEF TypeOK, TypeVolume
<1>2. ASSUME NEW i \in 1..ClusterBytes
      PROVE  (IF used < i /\ i - used <= Len(b) THEN b[i - used] ELSE data[c][i])
                \in Bytes \cup {Zero, "dots", "hostfiles"}
  <2>1. CASE used < i /\ i - used <= Len(b)
    <3>1. i - used \in 1..Len(b)
      BY <2>1
    <3> QED BY <2>1, <3>1
  <2>2. CASE ~(used < i /\ i - used <= Len(b))
    BY <1>1, <2>2 DEF Block
  <2> QED BY <2>1, <2>2
<1> QED BY <1>2 DEF Filled, Block

LEMMA TypeAppend ==
    ASSUME TypeOK, NEW n \in Names, NEW b \in Seq(Bytes), fs_append_file(n, b)
    PROVE  TypeOK'
<1>1. "append" \in EntryPoints
  BY DEF EntryPoints
<1>2. CASE StartWrite(n, b)
  BY <1>2, TypeStartWrite
<1>3. CASE Call("append", n, b) /\ UNCHANGED fs_ready /\ \E code \in Results : Refuse(code)
  BY <1>1, <1>3, TypeRefuse
<1>4. ASSUME Call("append", n, b), UNCHANGED fs_ready,
             NEW s \in Slots, NEW l \in Clusters, StartAppend(s, l, b)
      PROVE  TypeOK'
  <2>1. Used(s) \in Nat /\ Fill(s, b) \in 0..Len(b)
    BY FillType
  <2>2. PICK w \in {"ok", "lost", "late"} :
           /\ data' = IF Fill(s, b) > 0 THEN Put(data, l, Filled(l, Used(s), b), w) ELSE data
           /\ pc' = IF w = "ok" THEN "alloc" ELSE "return"
           /\ r'  = IF w = "ok" THEN FS_OK ELSE FS_ERR_IO
           /\ Note(w)
    BY <1>4 DEF StartAppend, Outcomes
  <2>3. data' \in [Clusters -> Block]
    BY <2>1, <2>2, FilledType DEF Put, TypeOK, TypeVolume
  <2>4. TypeVolume'
    BY <1>4, <2>2, <2>3 DEF StartAppend, Note, TypeOK, TypeVolume
  <2>5. pos' \in 0..NumSlots
    BY <1>4, GeometryAssumption DEF StartAppend, Slots
  <2>6. done' \in 0..Len(arg')
    BY <1>4, <2>1 DEF StartAppend, Call
  <2>7. TypeCall'
    BY <1>1, <1>4, <2>2, <2>5, <2>6, Codes DEF Call, TypeOK, TypeCall
  <2>8. TypeWork'
    BY <1>4, <2>2 DEF StartAppend, TypeOK, TypeWork
  <2>9. TypeFlow'
    BY <1>4, <2>2 DEF StartAppend, TypeOK, TypeFlow
  <2> QED BY <2>4, <2>7, <2>8, <2>9 DEF TypeOK
<1> QED BY <1>2, <1>3, <1>4, Codes DEF fs_append_file

LEMMA TypeFreeOne == ASSUME TypeOK, FreeOne PROVE TypeOK'
<1>1. cur \in Clusters
  BY LinkValues DEF FreeOne, TypeOK, TypeWork
<1>2. /\ fat' \in Table /\ clean' \in BOOLEAN /\ r' \in Results
      /\ TypeFlow' /\ pc' \notin {"idle", "off"}
  BY <1>1, SetEntryType DEF FreeOne, Returns
<1>3. 1 \in Fats
  BY GeometryAssumption DEF Fats
<1>4. fat[1][cur] \in {FREE, EOC} \cup Clusters
  BY <1>1, <1>3 DEF TypeOK, TypeVolume, Table
<1>5. cur' \in {0, EOC} \cup Clusters
  BY <1>4 DEF FreeOne, get_next_cluster, FREE
<1> QED BY <1>2, <1>5 DEF FreeOne, call, chain, TypeOK, TypeVolume, TypeCall, TypeWork

LEMMA TypeFreeDone == ASSUME TypeOK, FreeDone PROVE TypeOK'
BY DEF FreeDone, disk, call, chain, TypeOK, TypeVolume, TypeCall, TypeWork, TypeFlow, Returns

\* A call of fat_set_entry that leaves all but the new cluster and the cursor.
LEMMA TypeSet ==
    ASSUME TypeOK, NEW c \in {0} \cup Clusters, NEW v \in {FREE, EOC} \cup Clusters,
           NEW to \in Returns, fat_set_entry(c, v, to),
           new' \in {0} \cup Clusters, cur' \in {0, EOC} \cup Clusters,
           UNCHANGED <<dir, data, fs_ready, call, pos, last, prev, first, done>>
    PROVE  TypeOK'
<1>1. /\ fat' \in Table /\ clean' \in BOOLEAN /\ r' \in Results
      /\ TypeFlow' /\ pc' \notin {"idle", "off"}
  BY SetEntryType
<1> QED BY <1>1 DEF call, TypeOK, TypeVolume, TypeCall, TypeWork

LEMMA TypeAlloc == ASSUME TypeOK, Alloc PROVE TypeOK'
<1>1. CASE pc' = "fail" /\ r' = FS_ERR_NOSPACE /\ UNCHANGED <<fat, new, job, clean>>
  BY <1>1, Codes DEF Alloc, call, TypeOK, TypeVolume, TypeCall, TypeWork, TypeFlow, Returns
<1>2. ASSUME NEW c \in Clusters, fat_set_entry(c, EOC, "link"), new' = c
      PROVE  TypeOK'
  BY <1>2, TypeSet DEF Alloc, Returns, TypeOK, TypeWork
<1> QED BY <1>1, <1>2 DEF Alloc

LEMMA TypeLink == ASSUME TypeOK, Link PROVE TypeOK'
<1>1. CASE pc' = "data" /\ UNCHANGED <<fat, job, r, clean>>
  BY <1>1 DEF Link, call, chain, TypeOK, TypeVolume, TypeCall, TypeWork, TypeFlow, Returns
<1>2. CASE fat_set_entry(prev, new, "data")
  BY <1>2, TypeSet DEF Link, chain, Returns, TypeOK, TypeWork, FREE
<1> QED BY <1>1, <1>2 DEF Link

LEMMA TypeUnalloc == ASSUME TypeOK, Unalloc PROVE TypeOK'
BY TypeSet DEF Unalloc, Returns, TypeOK, TypeWork

LEMMA TypeWriteData == ASSUME TypeOK, WriteData PROVE TypeOK'
<1> USE DEF TypeOK
<1>1. PICK w \in {"ok", "lost", "late"} :
          /\ data' = Put(data, new, NextBlock, w)
          /\ IF w = "ok"
             THEN /\ pc' = "alloc" /\ UNCHANGED r
                  /\ done' = IF done + ClusterBytes > Len(arg) THEN Len(arg)
                             ELSE done + ClusterBytes
                  /\ prev' = new
             ELSE pc' = "fail" /\ r' = FS_ERR_IO /\ UNCHANGED <<done, prev>>
          /\ Note(w)
  BY DEF WriteData, Outcomes
<1>2. NextBlock \in Block
  <2>1. ASSUME NEW i \in 1..ClusterBytes, done + i <= Len(arg)
        PROVE  arg[done + i] \in Bytes
    BY <2>1 DEF TypeCall
  <2> QED BY <2>1 DEF NextBlock, Block
<1>3. data' \in [Clusters -> Block]
  BY <1>1, <1>2 DEF Put, TypeVolume
<1>4. TypeVolume'
  BY <1>1, <1>3 DEF WriteData, Note, TypeVolume
<1>5. done' \in 0..Len(arg')
  BY <1>1, GeometryAssumption DEF WriteData, call, TypeCall
<1>6. TypeCall'
  BY <1>1, <1>5, Codes DEF WriteData, call, TypeCall
<1>7. TypeWork'
  BY <1>1 DEF WriteData, TypeWork
<1>8. TypeFlow'
  BY <1>1 DEF WriteData, TypeFlow, Returns
<1> QED BY <1>4, <1>6, <1>7, <1>8

LEMMA TypeCleanup == ASSUME TypeOK, Cleanup PROVE TypeOK'
<1>1. CASE pc' = "free" /\ UNCHANGED <<fat, job, r, clean>>
  BY <1>1 DEF Cleanup, call, chain, TypeOK, TypeVolume, TypeCall, TypeWork, TypeFlow, Returns
<1>2. CASE fat_set_entry(last, EOC, "free")
  BY <1>2, TypeSet DEF Cleanup, chain, Returns, TypeOK, TypeWork
<1> QED BY <1>1, <1>2 DEF Cleanup

LEMMA TypeCommit == ASSUME TypeOK, Commit PROVE TypeOK'
<1> DEFINE e == IF op = "append" THEN [dir[pos] EXCEPT !.size = @ + Len(arg)]
                ELSE [dir[pos] EXCEPT !.first = first, !.size = Len(arg)]
<1>1. PICK w \in Outcomes :
          /\ dir' = Put(dir, pos, e, w)
          /\ pc' = IF w = "ok" THEN "return" ELSE "return"
          /\ r'  = IF w # "ok" /\ "return" = "return" THEN FS_ERR_IO ELSE FS_OK
          /\ Note(w)
  BY DEF Commit, PutSlot
<1>2. dir' \in Directory
  <2>1. CASE pos \in Slots
    <3>1. dir[pos] \in [kind : Kinds, name : Names \cup {"none"},
                        first : {0} \cup Clusters, size : Nat]
      BY <2>1 DEF TypeOK, TypeVolume, Directory
    <3>2. Len(arg) \in Nat /\ first \in {0} \cup Clusters
      BY DEF TypeOK, TypeCall, TypeWork
    <3>3. e \in [kind : Kinds, name : Names \cup {"none"},
                 first : {0} \cup Clusters, size : Nat]
      <4>1. dir[pos].size + Len(arg) \in Nat
        BY <3>1, <3>2
      <4>2. [dir[pos] EXCEPT !.size = @ + Len(arg)]
               \in [kind : Kinds, name : Names \cup {"none"},
                   first : {0} \cup Clusters, size : Nat]
        BY <3>1, <4>1
      <4>3. [dir[pos] EXCEPT !.first = first, !.size = Len(arg)]
               \in [kind : Kinds, name : Names \cup {"none"},
                   first : {0} \cup Clusters, size : Nat]
        BY <3>1, <3>2
      <4> QED BY <4>2, <4>3
    <3> QED BY <1>1, <2>1, <3>3 DEF Put, Directory, TypeOK, TypeVolume
  <2>2. CASE pos \notin Slots
    <3>1. dir' = dir
      BY <1>1, <2>2 DEF Put, Directory, TypeOK, TypeVolume
    <3> QED BY <3>1 DEF TypeOK, TypeVolume
  <2> QED BY <2>1, <2>2
<1> QED BY <1>1, <1>2, Codes DEF Commit, Note, call, chain,
              TypeOK, TypeVolume, TypeCall, TypeWork, TypeFlow

\* What ends a call leaves the volume alone and an empty frame.
LEMMA TypeForget ==
    ASSUME TypeOK, Forget, UNCHANGED disk,
           fs_ready' \in BOOLEAN, clean' \in BOOLEAN, pc' \in {"idle", "off"}
    PROVE  TypeOK'
<1>1. TypeVolume'
  BY DEF disk, TypeOK, TypeVolume
<1>2. TypeCall'
  BY GeometryAssumption, Codes DEF Forget, TypeCall
<1>3. TypeWork'
  BY DEF Forget, TypeWork
<1>4. TypeFlow'
  BY DEF Forget, TypeFlow, NoJob, Job, FREE
<1> QED BY <1>1, <1>2, <1>3, <1>4 DEF TypeOK

LEMMA TypeNext == ASSUME TypeOK, [Next]_vars PROVE TypeOK'
<1>1. CASE NotMounted
  BY <1>1, Codes DEF NotMounted, disk, call, chain,
                     TypeOK, TypeVolume, TypeCall, TypeWork, TypeFlow
<1>2. ASSUME NEW n \in Names,
             \/ make_dir(n) \/ remove_dir(n) \/ fs_create_file(n)
             \/ \E b \in Buffers : fs_write_file(n, b) \/ fs_append_file(n, b)
      PROVE  TypeOK'
  BY <1>2, CallerAssumption, TypeMkdir, TypeRmdir, TypeCreate, TypeStartWrite, TypeAppend
     DEF fs_write_file
<1>3. CASE Return
  BY <1>3, TypeForget DEF Return, TypeOK, TypeVolume
<1>4. CASE Abort
  BY <1>4, TypeForget DEF Abort, TypeOK, TypeVolume
<1>5. CASE PowerLoss
  BY <1>5, TypeForget DEF PowerLoss, TypeOK, TypeVolume
<1>6. CASE fs_init
  BY <1>6 DEF fs_init, disk, call, chain, TypeOK, TypeVolume, TypeCall, TypeWork, TypeFlow
<1>7. CASE UNCHANGED vars
  BY <1>7 DEF vars, TypeOK, TypeVolume, TypeCall, TypeWork, TypeFlow
<1>8. CASE Step
  BY <1>3, <1>8, TypeMirror, TypeMkDots, TypeMkEntry, TypeMkFull, TypeFreeOne, TypeFreeDone,
     TypeAlloc, TypeLink, TypeUnalloc, TypeWriteData, TypeCleanup, TypeCommit DEF Step
<1> QED BY <1>1, <1>2, <1>4, <1>5, <1>6, <1>7, <1>8 DEF Next, Request

\* Every variable keeps its type, also when writes fail and calls are cut short.
THEOREM TypeCorrect == Spec => []TypeOK
<1>1. Init => TypeOK
  BY TypeInit
<1>2. TypeOK /\ [Next]_vars => TypeOK'
  BY TypeNext
<1> QED BY <1>1, <1>2, PTL DEF Spec

-----------------------------------------------------------------------------
(* The root directory and the mirror of the table.                         *)

Entry == [kind : Kinds, name : Names \cup {"none"}, first : {0} \cup Clusters, size : Nat]

-----------------------------------------------------------------------------
(* What one directory write does.                                          *)

\* A scan that finds no entry of a name has seen the whole directory.
LEMMA NoFileHidden ==
    ASSUME TypeOK, EndMarker, NEW n, Hits(n) = {}, NEW t \in Slots, dir[t].kind = "file"
    PROVE  dir[t].name # n
<1> SUFFICES ASSUME dir[t].name = n PROVE FALSE
  OBVIOUS
<1>1. Live(dir[t])
  BY DEF Live
<1>2. PICK u \in Slots : u <= t /\ dir[u].kind = "end"
  BY <1>1 DEF Hits, Scanned
<1>3. u < t
  BY <1>2 DEF Slots
<1> QED BY <1>2, <1>3 DEF EndMarker

\* An entry put into the first free slot, or in the place of another, leaves one
\* end mark, and one file of a name if no other file has the entry's.
LEMMA PutKeeps ==
    ASSUME TypeOK, EndMarker, UniqueFileNames,
           NEW s \in Slots, IsFirstVacant(s) \/ Live(dir[s]),
           NEW e, e.kind # "end",
           e.kind = "file" => \/ Hits(e.name) = {}
                              \/ dir[s].kind = "file" /\ dir[s].name = e.name,
           NEW w, dir' = Put(dir, s, e, w)
    PROVE  EndMarker' /\ UniqueFileNames'
<1>1. CASE dir' = dir
  BY <1>1 DEF EndMarker, UniqueFileNames
<1>2. CASE dir' = [dir EXCEPT ![s] = e]
  <2>1. dir'[s] = e /\ \A t \in Slots : t # s => dir'[t] = dir[t]
    BY <1>2 DEF TypeOK, TypeVolume, Directory
  <2>2. ASSUME NEW a \in Slots, NEW b \in Slots, a < b, dir'[a].kind = "end"
        PROVE  dir'[b].kind = "end"
    <3>1. a # s /\ dir[a].kind = "end"
      BY <2>1, <2>2
    <3>2. dir[b].kind = "end"
      BY <2>2, <3>1 DEF EndMarker
    <3>3. b # s
      BY <2>2, <3>1, <3>2 DEF IsFirstVacant, Vacant, Live
    <3> QED BY <2>1, <3>2, <3>3
  <2>3. ASSUME NEW a \in Slots, NEW b \in Slots, dir'[a].kind = "file",
               dir'[b].kind = "file", dir'[a].name = dir'[b].name
        PROVE  a = b
    <3>1. ASSUME NEW t \in Slots, t # s, e.kind = "file", dir[t].kind = "file"
          PROVE  dir[t].name # e.name
      BY <3>1, NoFileHidden DEF UniqueFileNames
    <3> QED BY <2>1, <2>3, <3>1 DEF UniqueFileNames
  <2> QED BY <2>2, <2>3 DEF EndMarker, UniqueFileNames
<1> QED BY <1>1, <1>2 DEF Put

\* It changes one slot; of the call's name if the old entry and the new one are.
LEMMA PutItsEntry ==
    ASSUME TypeOK, NEW s \in Slots, NEW e, NEW w, dir' = Put(dir, s, e, w),
           Live(dir[s]) => dir[s].name = name', Live(e) => e.name = name'
    PROVE  ItsEntryOnly
<1>1. \A t \in Slots : dir'[t] # dir[t] => t = s /\ dir'[t] = e
  BY DEF Put, TypeOK, TypeVolume, Directory
<1> QED BY <1>1 DEF ItsEntryOnly

\* A step within a call that leaves the directory alone.
LEMMA DirSame ==
    ASSUME DirInv, Running, UNCHANGED <<dir, call, pos>>, Building' => Building \/ op = "write"
    PROVE  DirInv' /\ ItsEntryOnly
<1>1. PosHeld'
  BY DEF DirInv, PosHeld, call
<1> QED BY <1>1 DEF DirInv, EndMarker, UniqueFileNames, ItsEntryOnly

\* A step that leaves the directory alone and no call at work on a file.
LEMMA DirEnding ==
    ASSUME DirInv, UNCHANGED dir, ~Building', ~Running' \/ op' \notin {"write", "append"}
    PROVE  DirInv' /\ ItsEntryOnly
<1>1. PosHeld'
  BY DEF PosHeld
<1> QED BY <1>1 DEF DirInv, EndMarker, UniqueFileNames, ItsEntryOnly

\* Where fat_set_entry leaves its caller, at last.
LEMMA SetCopyPoint ==
    ASSUME NEW f, NEW c, NEW v, NEW to \in Returns, NEW w, SetCopy(f, c, v, to, w)
    PROVE  at' \in {to, OnFail(to)}
<1>1. to # "mirror" /\ OnFail(to) # "mirror"
  BY DEF Returns, OnFail
<1> QED BY <1>1 DEF SetCopy, at

LEMMA SetEntryPoint ==
    ASSUME NEW c, NEW v, NEW to \in Returns, fat_set_entry(c, v, to)
    PROVE  at' \in {to, OnFail(to)}
BY SetCopyPoint DEF fat_set_entry

-----------------------------------------------------------------------------
(* The directory, action by action.                                        *)

LEMMA DirInit == Init => DirInv
<1> SUFFICES ASSUME Init PROVE DirInv
  OBVIOUS
<1>1. PICK hosted \in SUBSET {HostDir}, n \in Names :
          dir = [s \in Slots |-> IF s = 1 THEN Blank("skip")
                                 ELSE IF s = 2 /\ hosted # {} THEN DirEntry(n, HostDir)
                                 ELSE Blank("end")]
  BY DEF Init
<1>2. \A s \in Slots : dir[s].kind = (IF s = 1 THEN "skip"
                                      ELSE IF s = 2 /\ hosted # {} THEN "dir" ELSE "end")
  BY <1>1 DEF Blank, DirEntry
<1>3. EndMarker
  BY <1>2 DEF EndMarker, Slots
<1>4. UniqueFileNames
  BY <1>2 DEF UniqueFileNames
<1>5. PosHeld
  BY DEF PosHeld, Building, at, Running, Init
<1> QED BY <1>3, <1>4, <1>5 DEF DirInv

LEMMA DirRefuse ==
    ASSUME DirInv, NEW code, Refuse(code)
    PROVE  DirInv' /\ ItsEntryOnly
BY DirEnding DEF Refuse, disk, Running, Building, at

LEMMA DirMkdir == ASSUME DirInv, NEW n, make_dir(n) PROVE DirInv' /\ ItsEntryOnly
<1>1. ASSUME NEW c, fat_set_entry(c, EOC, "mkDots"), op' = "mkdir", UNCHANGED dir
      PROVE  DirInv' /\ ItsEntryOnly
  <2>1. ~Building'
    BY <1>1, SetEntryPoint DEF Returns, OnFail, Building
  <2> QED BY <1>1, <2>1, DirEnding
<1> QED BY <1>1, DirRefuse DEF make_dir, Call

LEMMA DirMkEntry == ASSUME TypeOK, DirInv, MkEntry PROVE DirInv' /\ ItsEntryOnly
<1>1. Running /\ UNCHANGED <<call, pos>>
  BY DEF MkEntry, Running
<1>2. ASSUME NEW s \in Slots, IsFirstVacant(s), NEW w,
             dir' = Put(dir, s, DirEntry(name, new), w), pc' = "return"
      PROVE  DirInv' /\ ItsEntryOnly
  <2>1. DirEntry(name, new).kind = "dir" /\ DirEntry(name, new).name = name'
    BY <1>1 DEF DirEntry, call
  <2>2. EndMarker' /\ UniqueFileNames'
    BY <1>2, <2>1, PutKeeps DEF DirInv
  <2>3. ItsEntryOnly
    BY <1>2, <2>1, PutItsEntry DEF IsFirstVacant, Vacant, Live
  <2> QED BY <1>2, <2>2, <2>3 DEF DirInv, PosHeld, Running, Building, at
<1>3. ASSUME fat_set_entry(new, FREE, "full"), UNCHANGED dir
      PROVE  DirInv' /\ ItsEntryOnly
  <2>1. ~Building'
    BY <1>3, SetEntryPoint DEF Returns, OnFail, Building
  <2> QED BY <1>1, <1>3, <2>1, DirSame
<1> QED BY <1>2, <1>3 DEF MkEntry

LEMMA DirRmdir == ASSUME TypeOK, DirInv, NEW n, remove_dir(n) PROVE DirInv' /\ ItsEntryOnly
<1>1. CASE \E code : Refuse(code)
  BY <1>1, DirRefuse
<1>2. ASSUME NEW s \in Slots, IsHit(s, n), PutSlot(s, Blank("deleted"), "free", "free"),
             op' = "rmdir", name' = n
      PROVE  DirInv' /\ ItsEntryOnly
  <2>1. PICK w : dir' = Put(dir, s, Blank("deleted"), w)
    BY <1>2 DEF PutSlot
  <2>2. Live(dir[s]) /\ dir[s].name = n
    BY <1>2 DEF IsHit, Hits
  <2>3. Blank("deleted").kind = "deleted"
    BY DEF Blank
  <2>4. EndMarker' /\ UniqueFileNames'
    BY <2>1, <2>2, <2>3, PutKeeps DEF DirInv
  <2>5. ItsEntryOnly
    BY <1>2, <2>1, <2>2, <2>3, PutItsEntry DEF Live
  <2>6. pc' = "free"
    BY <1>2 DEF PutSlot
  <2> QED BY <1>2, <2>4, <2>5, <2>6 DEF DirInv, PosHeld, Building, at
<1> QED BY <1>1, <1>2 DEF remove_dir, Call

LEMMA DirCreate == ASSUME TypeOK, DirInv, NEW n, fs_create_file(n) PROVE DirInv' /\ ItsEntryOnly
<1>1. CASE \E code : Refuse(code)
  BY <1>1, DirRefuse
<1>2. ASSUME NEW s \in Slots, IsFirstVacant(s), Hits(n) = {},
             PutSlot(s, FileEntry(n, 0, 0), "return", "return"),
             op' = "create", name' = n
      PROVE  DirInv' /\ ItsEntryOnly
  <2>1. PICK w : dir' = Put(dir, s, FileEntry(n, 0, 0), w)
    BY <1>2 DEF PutSlot
  <2>2. FileEntry(n, 0, 0).kind = "file" /\ FileEntry(n, 0, 0).name = n
    BY DEF FileEntry
  <2>3. EndMarker' /\ UniqueFileNames'
    BY <1>2, <2>1, <2>2, PutKeeps DEF DirInv
  <2>4. ItsEntryOnly
    BY <1>2, <2>1, <2>2, PutItsEntry DEF IsFirstVacant, Vacant, Live
  <2>5. pc' = "return"
    BY <1>2 DEF PutSlot
  <2> QED BY <1>2, <2>3, <2>4, <2>5 DEF DirInv, PosHeld, Building, at
<1> QED BY <1>1, <1>2 DEF fs_create_file, Call

LEMMA DirStartWrite ==
    ASSUME TypeOK, DirInv, NEW n, NEW b, StartWrite(n, b)
    PROVE  DirInv' /\ ItsEntryOnly
<1>1. CASE \E code : Refuse(code)
  BY <1>1, DirRefuse
<1>2. ASSUME NEW s \in Slots, NEW ok \in {"free", "alloc"},
             \/ IsHit(s, n) /\ dir[s].kind = "file"
             \/ Hits(n) = {} /\ IsFirstVacant(s),
             PutSlot(s, FileEntry(n, 0, 0), ok, "return"),
             op' = "write", name' = n, pos' = s
      PROVE  DirInv' /\ ItsEntryOnly
  <2> DEFINE e == FileEntry(n, 0, 0)
  <2>1. PICK w : dir' = Put(dir, s, e, w) /\ pc' = IF w = "ok" THEN ok ELSE "return"
    BY <1>2 DEF PutSlot
  <2>2. e.kind = "file" /\ e.name = n /\ e.first = 0
    BY DEF FileEntry
  <2>3. \/ Live(dir[s]) /\ dir[s].kind = "file" /\ dir[s].name = n
        \/ Hits(n) = {} /\ IsFirstVacant(s) /\ ~Live(dir[s])
    BY <1>2 DEF IsHit, Hits, IsFirstVacant, Vacant, Live
  <2> HIDE DEF e
  <2>4. EndMarker' /\ UniqueFileNames'
    BY <2>1, <2>2, <2>3, PutKeeps DEF DirInv
  <2>5. ItsEntryOnly
    BY <1>2, <2>1, <2>2, <2>3, PutItsEntry
  <2>6. Running' => dir'[s] = e
    BY <2>1 DEF Put, Running, TypeOK, TypeVolume, Directory
  <2>7. PosHeld'
    BY <1>2, <2>2, <2>6 DEF PosHeld, Building, at
  <2> QED BY <2>4, <2>5, <2>7 DEF DirInv
<1> QED BY <1>1, <1>2 DEF StartWrite, Call

LEMMA DirAppend ==
    ASSUME TypeOK, DirInv, NEW n, NEW b, fs_append_file(n, b)
    PROVE  DirInv' /\ ItsEntryOnly
<1>1. CASE StartWrite(n, b)
  BY <1>1, DirStartWrite
<1>2. CASE \E code : Refuse(code)
  BY <1>2, DirRefuse
<1>3. ASSUME NEW s \in Slots, IsHit(s, n), dir[s].kind = "file", NEW l, StartAppend(s, l, b),
             op' = "append", name' = n
      PROVE  DirInv' /\ ItsEntryOnly
  <2>1. dir' = dir /\ pos' = s
    BY <1>3 DEF StartAppend
  <2>2. PosHeld'
    BY <1>3, <2>1 DEF PosHeld, IsHit, Hits, Building, at
  <2> QED BY <2>1, <2>2 DEF DirInv, EndMarker, UniqueFileNames, ItsEntryOnly
<1> QED BY <1>1, <1>2, <1>3 DEF fs_append_file, Call

\* The final entry keeps kind and name of the one the call began with.
LEMMA DirCommit == ASSUME TypeOK, DirInv, Commit PROVE DirInv' /\ ItsEntryOnly
<1> DEFINE e == IF op = "append" THEN [dir[pos] EXCEPT !.size = @ + Len(arg)]
                ELSE [dir[pos] EXCEPT !.first = first, !.size = Len(arg)]
<1>1. PICK w : dir' = Put(dir, pos, e, w)
  BY DEF Commit, PutSlot
<1>2. pc' = "return" /\ name' = name
  BY DEF Commit, PutSlot, call
<1>3. CASE pos \notin Slots
  <2>1. dir' = dir
    BY <1>1, <1>3 DEF Put, TypeOK, TypeVolume, Directory
  <2> QED BY <1>2, <2>1, DirEnding DEF Running, Building, at
<1>4. CASE pos \in Slots
  <2>1. dir[pos].kind = "file" /\ dir[pos].name = name
    BY DEF Commit, Running, Building, at, DirInv, PosHeld
  <2>2. e.kind = "file" /\ e.name = name
    BY <1>4, <2>1 DEF TypeOK, TypeVolume, Directory
  <2> HIDE DEF e
  <2>3. EndMarker' /\ UniqueFileNames'
    BY <1>1, <1>4, <2>1, <2>2, PutKeeps DEF DirInv, Live
  <2>4. ItsEntryOnly
    BY <1>1, <1>2, <1>4, <2>1, <2>2, PutItsEntry
  <2> QED BY <1>2, <2>3, <2>4 DEF DirInv, PosHeld, Running, Building, at
<1> QED BY <1>3, <1>4

\* The steps within a call that write no entry.
LEMMA DirWithin ==
    ASSUME TypeOK, DirInv,
           \/ NextCopy \/ MkDots \/ FreeOne \/ FreeDone
           \/ Alloc \/ Link \/ Unalloc \/ WriteData \/ Cleanup
    PROVE  DirInv' /\ ItsEntryOnly
<1>1. Running /\ UNCHANGED <<dir, call, pos>>
  BY DEF NextCopy, MkDots, FreeOne, FreeDone, Alloc, Link, Unalloc, WriteData, Cleanup,
         Running, disk
<1>2. CASE NextCopy
  <2>1. job.ret \in Returns /\ at = job.ret
    BY <1>2 DEF NextCopy, TypeOK, TypeFlow, Job, at
  <2>2. at' \in {job.ret, OnFail(job.ret)}
    BY <1>2, <2>1, SetCopyPoint DEF NextCopy
  <2>3. Building' => Building
    BY <2>1, <2>2 DEF Returns, OnFail, Building
  <2> QED BY <1>1, <2>3, DirSame
<1>3. CASE MkDots \/ FreeDone
  BY <1>1, <1>3, DirSame DEF MkDots, FreeDone, Building, at
<1>4. CASE FreeOne
  <2>1. ~Building'
    BY <1>4, SetEntryPoint DEF FreeOne, Returns, OnFail, Building
  <2> QED BY <1>1, <2>1, DirSame
<1>5. CASE Alloc \/ Link \/ Unalloc \/ WriteData \/ Cleanup
  <2>1. Building
    BY <1>5 DEF Alloc, Link, Unalloc, WriteData, Cleanup, Building, at
  <2> QED BY <1>1, <2>1, DirSame
<1> QED BY <1>2, <1>3, <1>4, <1>5

LEMMA DirNext == ASSUME TypeOK, DirInv, [Next]_vars PROVE DirInv' /\ (ItsEntryOnly \/ UNCHANGED vars)
<1>1. CASE UNCHANGED vars
  BY <1>1 DEF vars, DirInv, EndMarker, UniqueFileNames, PosHeld, Running, Building, at
<1>2. CASE Step
  <2>1. CASE MkFull \/ Return
    BY <2>1, DirEnding DEF MkFull, Return, disk, Running, Building, at
  <2> QED BY <1>2, <2>1, DirWithin, DirMkEntry, DirCommit DEF Step
<1>3. CASE Request
  <2>1. CASE NotMounted
    BY <2>1, DirEnding DEF NotMounted, disk, Running, Building, at
  <2>2. ASSUME NEW n \in Names, make_dir(n) \/ remove_dir(n) \/ fs_create_file(n)
        PROVE  DirInv' /\ ItsEntryOnly
    BY <2>2, DirMkdir, DirRmdir, DirCreate
  <2>3. ASSUME NEW n \in Names, NEW b \in Buffers, fs_write_file(n, b) \/ fs_append_file(n, b)
        PROVE  DirInv' /\ ItsEntryOnly
    BY <2>3, DirStartWrite, DirAppend DEF fs_write_file
  <2> QED BY <1>3, <2>1, <2>2, <2>3 DEF Request
<1>4. CASE Abort \/ PowerLoss \/ fs_init
  BY <1>4, DirEnding DEF Abort, PowerLoss, fs_init, disk, Running, Building, at
<1> QED BY <1>1, <1>2, <1>3, <1>4 DEF Next

\* What a call finds and holds of the directory stays true under every sequence
\* of calls of fs.c, with writes that fail and calls cut short anywhere.
THEOREM DirectoryHolds == Spec => []DirInv
<1>1. Init => TypeOK /\ DirInv
  BY TypeInit, DirInit
<1>2. TypeOK /\ DirInv /\ [Next]_vars => TypeOK' /\ DirInv'
  BY TypeNext, DirNext
<1> QED BY <1>1, <1>2, PTL DEF Spec

\* Nothing lives behind the end mark, where no scan would find it: make_dir and
\* scan_root's callers take the first free slot (fs.c).
THEOREM NothingHidden == Spec => []EndMarker
<1>1. DirInv => EndMarker
  BY DEF DirInv
<1> QED BY <1>1, DirectoryHolds, PTL

\* There is never a second file of one name: fs_create_file and fs_write_file
\* look before they make one, and what they saw stays true until they write.
THEOREM NamesStayUnique == Spec => []UniqueFileNames
<1>1. DirInv => UniqueFileNames
  BY DEF DirInv
<1> QED BY <1>1, DirectoryHolds, PTL

\* A step of a call changes one entry at most, and that of the call's name: the
\* dir_pos_t kept from the scan is right when store_entry uses it.
THEOREM OthersUntouched == Spec => OnlyItsEntry
<1>1. Init => TypeOK /\ DirInv
  BY TypeInit, DirInit
<1>2. TypeOK /\ DirInv /\ [Next]_vars => TypeOK' /\ DirInv' /\ [ItsEntryOnly]_vars
  BY TypeNext, DirNext
<1> QED BY <1>1, <1>2, PTL DEF Spec, OnlyItsEntry

-----------------------------------------------------------------------------
(* The copies of the table.                                                *)

MirrorInv == MirrorAgree /\ MirrorHeld

\* fat_set_entry has written the primary copy; the others follow or, once it is
\* done, have followed.
LEMMA SetEntryMirror ==
    ASSUME TypeOK, MirrorInv, pc # "mirror", NEW c \in {0} \cup Clusters,
           NEW v \in {FREE, EOC} \cup Clusters, NEW to \in Returns, fat_set_entry(c, v, to)
    PROVE  MirrorInv'
<1>1. PICK w \in Outcomes : SetCopy(1, c, v, to, w)
  BY DEF fat_set_entry
<1>2. fat \in Table /\ 1 \in Fats
  BY GeometryAssumption DEF TypeOK, TypeVolume, Fats
<1>3. SUFFICES ASSUME clean' PROVE MirrorInv'
  BY DEF MirrorInv, MirrorAgree, MirrorHeld
<1>4. clean /\ w = "ok" /\ fat' = [fat EXCEPT ![1][c] = v]
  BY <1>1, <1>3 DEF SetCopy, Note
<1>5. \A f \in Fats, d \in Clusters : fat[f][d] = fat[1][d]
  BY <1>4 DEF MirrorInv, MirrorAgree
<1>6. \A d \in Clusters : fat'[1][d] = IF d = c THEN v ELSE fat[1][d]
  BY <1>2, <1>4 DEF Table
<1>7. \A f \in Fats : f # 1 => fat'[f] = fat[f]
  BY <1>2, <1>4 DEF Table
<1>8. \A f \in Fats, d \in Clusters : fat'[f][d] # fat'[1][d] => f >= 2 /\ d = c
  BY <1>5, <1>6, <1>7 DEF Fats
<1>9. CASE 1 < NumFats
  <2>1. pc' = "mirror" /\ job'.clus = c /\ job'.val = v /\ job'.copy = 2
    BY <1>1, <1>4, <1>9 DEF SetCopy, MoreCopies
  <2> QED BY <1>6, <1>8, <2>1 DEF MirrorInv, MirrorAgree, MirrorHeld
<1>10. CASE ~(1 < NumFats)
  <2>1. Fats = {1}
    BY <1>10, GeometryAssumption DEF Fats
  <2>2. pc' = to /\ to # "mirror"
    BY <1>1, <1>4, <1>10 DEF SetCopy, MoreCopies, Returns
  <2> QED BY <2>1, <2>2 DEF MirrorInv, MirrorAgree, MirrorHeld
<1> QED BY <1>9, <1>10

LEMMA NextCopyMirror == ASSUME TypeOK, MirrorInv, NextCopy PROVE MirrorInv'
<1>1. PICK w \in Outcomes : SetCopy(job.copy, job.clus, job.val, job.ret, w)
  BY DEF NextCopy
<1>2. /\ fat \in Table /\ 1 \in Fats /\ pc = "mirror" /\ job.copy > 1
      /\ job.clus \in {0} \cup Clusters /\ job.copy \in {0} \cup Fats
      /\ job.val \in {FREE, EOC} \cup Clusters /\ job.ret \in Returns
  BY GeometryAssumption DEF NextCopy, TypeOK, TypeVolume, TypeFlow, Job, Fats
<1>3. SUFFICES ASSUME clean' PROVE MirrorInv'
  BY DEF MirrorInv, MirrorAgree, MirrorHeld
<1>4. clean /\ w = "ok" /\ fat' = [fat EXCEPT ![job.copy][job.clus] = job.val]
  BY <1>1, <1>3 DEF SetCopy, Note
<1>5. fat'[1] = fat[1]
  BY <1>2, <1>4 DEF Table
<1>6. \A f \in Fats, d \in Clusters :
         fat'[f][d] = IF f = job.copy /\ d = job.clus THEN job.val ELSE fat[f][d]
  BY <1>2, <1>4 DEF Table
<1>7. \A f \in Fats, d \in Clusters :
         fat'[f][d] # fat'[1][d] => d = job.clus /\ f >= job.copy /\ f # job.copy
  BY <1>2, <1>4, <1>5, <1>6 DEF MirrorInv, MirrorAgree, MirrorHeld
<1>8. CASE job.copy < NumFats
  <2>1. /\ pc' = "mirror" /\ job'.clus = job.clus /\ job'.val = job.val
        /\ job'.copy = job.copy + 1
    BY <1>1, <1>4, <1>8 DEF SetCopy, MoreCopies
  <2>2. \A f \in Fats : f >= job.copy /\ f # job.copy => f >= job.copy + 1
    BY <1>2 DEF Fats
  <2> QED BY <1>2, <1>4, <1>5, <1>7, <2>1, <2>2 DEF MirrorInv, MirrorAgree, MirrorHeld
<1>9. CASE ~(job.copy < NumFats)
  <2>1. \A f \in Fats : ~(f >= job.copy /\ f # job.copy)
    BY <1>2, <1>9, GeometryAssumption DEF Fats
  <2>2. pc' = job.ret /\ job.ret # "mirror"
    BY <1>1, <1>2, <1>4, <1>9 DEF SetCopy, MoreCopies, Returns
  <2> QED BY <1>7, <2>1, <2>2 DEF MirrorInv, MirrorAgree, MirrorHeld
<1> QED BY <1>8, <1>9

\* A step that writes no entry of the table.
LEMMA SameMirror ==
    ASSUME MirrorInv, UNCHANGED fat, clean' => clean, pc # "mirror" \/ ~clean', pc' # "mirror"
    PROVE  MirrorInv'
BY DEF MirrorInv, MirrorAgree, MirrorHeld

LEMMA MirrorNext == ASSUME TypeOK, MirrorInv, [Next]_vars PROVE MirrorInv'
<1>1. CASE UNCHANGED vars
  BY <1>1 DEF vars, MirrorInv, MirrorAgree, MirrorHeld
<1>2. CASE NextCopy
  BY <1>2, NextCopyMirror
<1>3. ASSUME NEW c \in {0} \cup Clusters, NEW v \in {FREE, EOC} \cup Clusters,
             NEW to \in Returns, fat_set_entry(c, v, to), pc # "mirror"
      PROVE  MirrorInv'
  BY <1>3, SetEntryMirror
<1>4. ASSUME UNCHANGED fat, pc # "mirror", pc' # "mirror", clean' => clean
      PROVE  MirrorInv'
  BY <1>4, SameMirror
<1>5. CASE MkDots \/ WriteData \/ Commit
  BY <1>4, <1>5 DEF MkDots, WriteData, Commit, PutSlot, Note
<1>6. CASE MkFull \/ FreeDone \/ Return \/ NotMounted \/ fs_init
  BY <1>4, <1>6 DEF MkFull, FreeDone, Return, NotMounted, fs_init, disk
<1>7. CASE MkEntry
  BY <1>3, <1>4, <1>7 DEF MkEntry, Note, TypeOK, TypeWork, Returns
<1>8. CASE FreeOne
  BY <1>3, <1>8, LinkValues DEF FreeOne, TypeOK, TypeWork, Returns
<1>9. CASE Alloc
  <2>1. CASE pc' = "fail" /\ UNCHANGED <<fat, clean>>
    BY <1>4, <1>9, <2>1 DEF Alloc
  <2>2. ASSUME NEW c \in Clusters, fat_set_entry(c, EOC, "link")
        PROVE  MirrorInv'
    BY <1>3, <1>9, <2>2 DEF Alloc, Returns
  <2> QED BY <1>9, <2>1, <2>2 DEF Alloc
<1>10. CASE Link
  BY <1>3, <1>4, <1>10 DEF Link, TypeOK, TypeWork, Returns, FREE
<1>11. CASE Unalloc \/ Cleanup
  BY <1>3, <1>4, <1>11 DEF Unalloc, Cleanup, TypeOK, TypeWork, Returns
<1>12. CASE Abort \/ PowerLoss
  BY <1>12, SameMirror DEF Abort, PowerLoss, disk, Running
<1>13. ASSUME NEW code, Refuse(code), pc # "mirror"
       PROVE  MirrorInv'
  BY <1>4, <1>13 DEF Refuse, disk
<1>14. ASSUME NEW n \in Names, make_dir(n)
       PROVE  MirrorInv'
  BY <1>3, <1>13, <1>14 DEF make_dir, Call, Returns
<1>15. ASSUME NEW n \in Names, remove_dir(n) \/ fs_create_file(n)
       PROVE  MirrorInv'
  BY <1>4, <1>13, <1>15 DEF remove_dir, fs_create_file, Call, PutSlot, Note
<1>16. ASSUME NEW n, NEW b, StartWrite(n, b)
       PROVE  MirrorInv'
  BY <1>4, <1>13, <1>16 DEF StartWrite, Call, PutSlot, Note
<1>17. ASSUME NEW n, NEW b, fs_write_file(n, b) \/ fs_append_file(n, b)
       PROVE  MirrorInv'
  BY <1>4, <1>13, <1>16, <1>17
     DEF fs_write_file, fs_append_file, StartAppend, Call, PutSlot, Note
<1> QED BY <1>1, <1>2, <1>5, <1>6, <1>7, <1>8, <1>9, <1>10, <1>11, <1>12, <1>14, <1>15, <1>17
        DEF Next, Step, Request

\* As long as nothing was cut short and no write has failed, the copies of the
\* table differ only in the entry fat_set_entry is writing, and only where it
\* has not come to yet.
THEOREM CopiesAgree == Spec => []MirrorAgree
<1>1. Init => TypeOK /\ MirrorInv
  <2>1. Init => \A f \in Fats, c \in Clusters : fat[f][c] = fat[1][c]
    <3>1. 1 \in Fats
      BY GeometryAssumption DEF Fats
    <3> QED BY <3>1 DEF Init
  <2> QED BY <2>1, TypeInit DEF Init, MirrorInv, MirrorAgree, MirrorHeld
<1>2. TypeOK /\ MirrorInv /\ [Next]_vars => TypeOK' /\ MirrorInv'
  BY TypeNext, MirrorNext
<1>3. MirrorInv => MirrorAgree
  BY DEF MirrorInv
<1> QED BY <1>1, <1>2, <1>3, PTL DEF Spec

-----------------------------------------------------------------------------
(* The chains, when no write fails.                                        *)

\* The primary copy of the table, the only one that is read.
P == fat[1]

LEMMA Primary ==
    ASSUME TypeOK
    PROVE  /\ P \in [Clusters -> {FREE, EOC} \cup Clusters]
           /\ dir \in Directory
           /\ \A c \in Clusters : c \notin {0, FREE, EOC}
           /\ RootCluster \in RootChain /\ RootChain \subseteq Clusters
           /\ FREE = 0 /\ EOC # FREE
<1>1. 1 \in Fats
  BY GeometryAssumption DEF Fats
<1>2. RootCluster \in RootChain /\ RootChain \subseteq Clusters
  BY GeometryAssumption DEF RootCluster, RootChain, Clusters
<1> QED BY <1>1, <1>2, LinkValues DEF P, TypeOK, TypeVolume, Table, FREE

\* Where the call stands after fat_set_entry, and what the table is then.
LEMMA SetEffect ==
    ASSUME TypeOK, WriteFaults = FALSE,
           NEW c \in {0} \cup Clusters, NEW v \in {FREE, EOC} \cup Clusters,
           NEW to \in Returns, fat_set_entry(c, v, to)
    PROVE  /\ P' = [P EXCEPT ![c] = v]
           /\ at' = to /\ r' = r
           /\ pc' # "unalloc"
<1>1. SetCopy(1, c, v, to, "ok")
  BY DEF fat_set_entry, Outcomes
<1>2. 1 \in Fats /\ fat \in Table
  BY GeometryAssumption DEF Fats, TypeOK, TypeVolume
<1>3. fat' = [fat EXCEPT ![1][c] = v]
  BY <1>1 DEF SetCopy
<1>4. P' = [P EXCEPT ![c] = v]
  BY <1>2, <1>3 DEF P, Table
<1>5. to # "mirror" /\ to # "unalloc"
  BY DEF Returns
<1>6. at' = to /\ r' = r /\ pc' # "unalloc"
  BY <1>1, <1>5 DEF SetCopy, MoreCopies, at, NoJob
<1> QED BY <1>4, <1>6

LEMMA MirrorEffect ==
    ASSUME TypeOK, WriteFaults = FALSE, pc # "unalloc", NextCopy
    PROVE  P' = P /\ at' = at /\ r' = r /\ pc' # "unalloc"
<1>1. SetCopy(job.copy, job.clus, job.val, job.ret, "ok")
  BY DEF NextCopy, Outcomes
<1>2. fat \in Table /\ job \in Job /\ job.copy > 1 /\ job.ret # "none" /\ pc = "mirror"
  BY DEF NextCopy, TypeOK, TypeVolume, TypeFlow
<1>3. job.copy \in Fats /\ job.copy # 1 /\ 1 \in Fats
  BY <1>2, GeometryAssumption DEF Job, Fats
<1>4. fat' = [fat EXCEPT ![job.copy][job.clus] = job.val]
  BY <1>1 DEF SetCopy
<1>5. P' = P
  BY <1>2, <1>3, <1>4 DEF P, Table
<1>6. job.ret \in Returns
  BY <1>2 DEF Job
<1>7. job.ret # "mirror" /\ job.ret # "unalloc"
  BY <1>6 DEF Returns
<1> QED BY <1>1, <1>2, <1>5, <1>7 DEF SetCopy, MoreCopies, at, NoJob

-----------------------------------------------------------------------------
(* The invariant, in terms of the primary copy.                            *)

\* Chains: NoDangling, NoCrossLink and RootIntact.
Chains == NoDangling /\ NoCrossLink /\ RootIntact

\* A step that writes neither the primary copy nor the directory.
LEMMA ChainsSame ==
    ASSUME Chains, P' = P, dir' = dir
    PROVE  Chains'
BY DEF Chains, NoDangling, NoCrossLink, RootIntact, Heads, P

\* Only the root directory's own clusters lead into its chain.
LEMMA RootClosed ==
    ASSUME TypeOK, Chains, NEW c \in Clusters, P[c] \in RootChain
    PROVE  c \in RootChain
<1> USE Primary DEF Chains
<1>1. P[c] # RootCluster
  BY DEF RootIntact, P
<1>2. P[c] - 1 \in RootChain /\ P[c] - 1 # NumRoot + 1
  BY <1>1, GeometryAssumption DEF RootChain, RootCluster
<1>3. P[c] \in Nat
  BY LinkValues
<1>4. P[P[c] - 1] = P[c]
  BY <1>2, <1>3 DEF RootIntact, RootEntry, P
<1>5. P[c] - 1 = c
  BY <1>2, <1>4 DEF NoCrossLink, P
<1> QED BY <1>2, <1>5

\* A cluster that was free becomes the end of a chain of its own.
LEMMA ChainsAlloc ==
    ASSUME TypeOK, Chains, NEW c \in Clusters, P[c] = FREE,
           P' = [P EXCEPT ![c] = EOC], dir' = dir
    PROVE  /\ Chains'
           /\ c \notin RootChain /\ P'[c] = EOC
           /\ \A d \in Clusters : P[d] # c /\ P'[d] # c
           /\ NoHead(c) /\ NoHead(c)'
<1> USE Primary DEF Chains
<1>1. c \notin RootChain
  BY LinkValues DEF RootIntact, RootEntry, P
<1>2. \A d \in Clusters : P[d] # c /\ P'[d] # c
  BY DEF NoDangling, P
<1>3. NoHead(c) /\ NoHead(c)'
  BY DEF NoHead, NoDangling, Heads, P
<1>4. NoDangling'
  BY DEF NoDangling, Heads, P
<1>5. NoCrossLink'
  <2>1. \A d \in Clusters : P'[d] \in Clusters => P'[d] = P[d]
    OBVIOUS
  <2>2. \A s \in Heads : dir[s].first \in Clusters
    BY DEF Heads, Directory
  <2>3. Heads' = Heads
    BY DEF Heads
  <2> QED BY <2>1, <2>2, <2>3 DEF NoCrossLink, P
<1>6. RootIntact'
  BY <1>1 DEF RootIntact, Heads, P
<1> QED BY <1>1, <1>2, <1>3, <1>4, <1>5, <1>6

\* A cluster that the running call holds and no chain on the volume leads to.
Loose(c) == Taken(c) /\ Unreferenced(c) /\ NoHead(c)

\* A loose cluster is freed: the rest of its chain is loose then.
LEMMA ChainsFree ==
    ASSUME TypeOK, Chains, NEW c, Loose(c),
           P' = [P EXCEPT ![c] = FREE], dir' = dir
    PROVE  /\ Chains'
           /\ \A n \in Clusters : P[c] = n => Loose(n)'
<1> USE Primary DEF Chains
<1>1. c \in Clusters /\ c \notin RootChain
  BY DEF Loose, Taken
<1>2. NoDangling'
  BY <1>1 DEF NoDangling, Heads, P, Loose, Unreferenced, NoHead
<1>3. NoCrossLink'
  <2>1. \A d \in Clusters : P'[d] \in Clusters => P'[d] = P[d]
    BY <1>1
  <2>2. \A s \in Heads : dir[s].first \in Clusters
    BY DEF Heads, Directory
  <2>3. Heads' = Heads
    BY DEF Heads
  <2> QED BY <2>1, <2>2, <2>3 DEF NoCrossLink, P
<1>4. RootIntact'
  BY <1>1 DEF RootIntact, Heads, P, RootCluster
<1>5. ASSUME NEW n \in Clusters, P[c] = n
      PROVE  Loose(n)'
  <2>1. n # c
    BY <1>1, <1>5 DEF Loose, Unreferenced, P
  <2>2. P'[n] # FREE
    BY <1>1, <1>5, <2>1 DEF NoDangling, P
  <2>3. n \notin RootChain
    BY <1>1, <1>5, RootClosed
  <2>4. \A d \in Clusters : P'[d] # n
    BY <1>1, <1>5 DEF NoCrossLink, P
  <2>5. \A s \in Slots : Live(dir[s]) => dir[s].first # n
    BY <1>1, <1>5 DEF NoCrossLink, Heads, P
  <2> QED BY <2>2, <2>3, <2>4, <2>5 DEF Loose, Taken, Unreferenced, NoHead, P
<1> QED BY <1>2, <1>3, <1>4, <1>5

\* The end of a chain that is not the root directory's is set: to its end, or
\* to a loose cluster.
LEMMA ChainsSetTail ==
    ASSUME TypeOK, Chains, NEW c, Taken(c), NEW v,
           v = EOC \/ (Loose(v) /\ v # c),
           P' = [P EXCEPT ![c] = v], dir' = dir
    PROVE  Chains'
<1> USE Primary DEF Chains
<1>1. c \in Clusters /\ c \notin RootChain
  BY DEF Taken
<1>2. v = EOC \/ (v \in Clusters /\ P[v] # FREE /\ v \notin RootChain)
  BY DEF Loose, Taken, P
<1>3. Heads' = Heads /\ \A s \in Heads : dir[s].first \in Clusters
  BY DEF Heads, Directory
<1>4. NoDangling'
  BY <1>1, <1>2, <1>3 DEF NoDangling, P
<1>5. NoCrossLink'
  <2>1. \A d \in Clusters : P'[d] \in Clusters => P'[d] = IF d = c THEN v ELSE P[d]
    BY <1>1
  <2>2. v # EOC => \A d \in Clusters : P[d] # v
    BY DEF Loose, Unreferenced, P
  <2>3. v # EOC => \A s \in Heads : dir[s].first # v
    BY DEF Loose, NoHead, Heads
  <2> QED BY <1>3, <2>1, <2>2, <2>3 DEF NoCrossLink, P
<1>6. RootIntact'
  BY <1>1, <1>2, <1>3, LinkValues DEF RootIntact, P
<1> QED BY <1>4, <1>5, <1>6

\* An append's cleanup cuts what it linked behind the old last cluster.
LEMMA ChainsCut ==
    ASSUME TypeOK, Chains, NEW c, Taken(c), NEW n \in Clusters, P[c] = n,
           P' = [P EXCEPT ![c] = EOC]
    PROVE  Unreferenced(n)'
BY Primary DEF Chains, Taken, NoCrossLink, Unreferenced, P

\* A directory entry gets a chain of its own, or none.
LEMMA ChainsEntry ==
    ASSUME TypeOK, Chains, NEW s \in Slots, NEW e, e.first = 0 \/ Loose(e.first),
           dir' = [dir EXCEPT ![s] = e], P' = P
    PROVE  Chains'
<1> USE Primary DEF Chains
<1>1. \A t \in Heads' : IF t = s THEN Loose(e.first) /\ dir'[t].first = e.first
                        ELSE t \in Heads /\ dir'[t] = dir[t]
  BY DEF Heads, Directory
<1>2. NoDangling'
  BY <1>1 DEF NoDangling, Loose, Taken, P
<1>3. NoCrossLink'
  BY <1>1 DEF NoCrossLink, Loose, Unreferenced, NoHead, Heads, P
<1>4. RootIntact'
  BY <1>1 DEF RootIntact, Loose, Taken, P
<1> QED BY <1>2, <1>3, <1>4

\* An entry that loses its chain leaves it loose.
LEMMA ChainsOrphan ==
    ASSUME TypeOK, Chains, NEW s \in Slots, Live(dir[s]), NEW e, e.first = 0,
           dir' = [dir EXCEPT ![s] = e], P' = P,
           NEW c \in Clusters, dir[s].first = c
    PROVE  Loose(c)'
<1> USE Primary DEF Chains
<1>1. s \in Heads
  BY DEF Heads
<1>2. Taken(c)'
  BY <1>1 DEF Taken, NoDangling, RootIntact, P
<1>3. Unreferenced(c)'
  BY <1>1 DEF Unreferenced, NoCrossLink, P
<1>4. \A t \in Slots : Live(dir'[t]) => dir'[t].first # c
  BY <1>1 DEF NoCrossLink, Heads, Directory
<1> QED BY <1>2, <1>3, <1>4 DEF Loose, NoHead

-----------------------------------------------------------------------------
(* The invariant, action by action.                                        *)

\* A step to a point where the call holds no cluster.
LEMMA NothingHeld ==
    ASSUME Chains', at' \in {"off", "idle", "return", "full"}, pc' # "unalloc"
    PROVE  ChainsInv'
BY DEF ChainsInv, Chains, NewHeld, ChainHeld, CurHeld

LEMMA InitChains == Init => ChainsInv
<1> SUFFICES ASSUME Init PROVE ChainsInv
  OBVIOUS
<1>1. TypeOK
  BY TypeInit
<1> USE Primary, <1>1
<1>2. PICK hosted \in SUBSET {HostDir}, n \in Names :
          /\ hosted \subseteq Clusters
          /\ fat = [f \in Fats |-> [c \in Clusters |->
                       IF c \in RootChain THEN RootEntry(c)
                       ELSE IF c \in hosted THEN EOC ELSE FREE]]
          /\ dir = [s \in Slots |-> IF s = 1 THEN Blank("skip")
                                    ELSE IF s = 2 /\ hosted # {} THEN DirEntry(n, HostDir)
                                    ELSE Blank("end")]
  BY DEF Init
<1>3. 1 \in Fats
  BY GeometryAssumption DEF Fats
<1>4. P = [c \in Clusters |-> IF c \in RootChain THEN RootEntry(c)
                              ELSE IF c \in hosted THEN EOC ELSE FREE]
  BY <1>2, <1>3 DEF P
<1>5. /\ \A c \in RootChain : P[c] = RootEntry(c)
      /\ \A c \in Clusters : P[c] \in Clusters => c \in RootChain /\ P[c] = c + 1
                                                  /\ P[c] \in RootChain
  BY <1>4, LinkValues, GeometryAssumption DEF RootEntry, RootChain
<1>6. \A s \in Heads : s = 2 /\ dir[s].first = HostDir /\ HostDir \in hosted
  BY <1>2 DEF Heads, Live, Blank, DirEntry
<1>7. HostDir \notin RootChain
  BY GeometryAssumption DEF HostDir, RootChain
<1>8. NoDangling
  <2>1. \A s \in Heads : P[dir[s].first] # FREE
    BY <1>2, <1>4, <1>6, <1>7
  <2>2. \A c \in RootChain : P[c] # FREE
    BY <1>5 DEF RootEntry, RootChain
  <2> QED BY <1>5, <2>1, <2>2 DEF NoDangling, P
<1>9. NoCrossLink
  <2>1. \A c, d \in Clusters : P[c] = P[d] /\ P[c] \in Clusters => c = d
    BY <1>5, LinkValues
  <2>2. \A s \in Heads, c \in Clusters : P[c] # dir[s].first
    BY <1>2, <1>5, <1>6, <1>7
  <2>3. \A s, t \in Heads : s = t
    BY <1>6
  <2> QED BY <2>1, <2>2, <2>3 DEF NoCrossLink, P
<1>10. RootIntact
  <2>1. \A c \in Clusters : P[c] # RootCluster
    BY <1>5 DEF RootCluster, RootChain
  <2> QED BY <1>5, <1>6, <1>7, <2>1 DEF RootIntact, P
<1> QED BY <1>8, <1>9, <1>10 DEF ChainsInv, NewHeld, ChainHeld, CurHeld, at, Init

LEMMA MirrorChains ==
    ASSUME TypeOK, ChainsInv, WriteFaults = FALSE, NextCopy
    PROVE  ChainsInv'
<1>1. P' = P /\ at' = at /\ r' = r /\ pc' # "unalloc"
  BY MirrorEffect DEF ChainsInv
<1>2. UNCHANGED <<dir, op, last, new, prev, first, cur>>
  BY DEF NextCopy, call, chain
<1>3. Chains'
  BY <1>1, <1>2, ChainsSame DEF ChainsInv, Chains
<1>4. NewHeld'
  BY <1>1, <1>2 DEF ChainsInv, NewHeld, Taken, NoHead, Unreferenced, P
<1>5. ChainHeld'
  BY <1>1, <1>2 DEF ChainsInv, ChainHeld, Taken, NoHead, Unreferenced, P
<1>6. CurHeld'
  BY <1>1, <1>2 DEF ChainsInv, CurHeld, Taken, NoHead, Unreferenced, P
<1> QED BY <1>1, <1>3, <1>4, <1>5, <1>6 DEF ChainsInv, Chains

LEMMA RefuseChains ==
    ASSUME TypeOK, ChainsInv, NEW code, Refuse(code)
    PROVE  ChainsInv'
<1>1. Chains'
  BY ChainsSame DEF Refuse, disk, ChainsInv, Chains, P
<1> QED BY <1>1, NothingHeld DEF Refuse, at

LEMMA MkdirChains ==
    ASSUME TypeOK, ChainsInv, WriteFaults = FALSE, NEW n, make_dir(n)
    PROVE  ChainsInv'
<1> USE Primary
<1>1. CASE Refuse(FS_ERR_NOSPACE)
  BY <1>1, RefuseChains
<1>2. ASSUME NEW c \in Clusters, IsFirstFree(c), fat_set_entry(c, EOC, "mkDots"),
             new' = c, UNCHANGED <<dir, prev, first>>
      PROVE  ChainsInv'
  <2>1. /\ P' = [P EXCEPT ![c] = EOC]
        /\ at' = "mkDots" /\ pc' # "unalloc"
    BY <1>2, SetEffect DEF Returns
  <2>2. P[c] = FREE
    BY <1>2 DEF IsFirstFree, P
  <2>3. /\ Chains' /\ c \notin RootChain /\ P'[c] = EOC
        /\ \A d \in Clusters : P'[d] # c
        /\ NoHead(c)'
    BY <1>2, <2>1, <2>2, ChainsAlloc DEF ChainsInv, Chains
  <2>4. first = 0 /\ prev = 0
    BY DEF make_dir, Call, TypeOK, TypeWork
  <2>5. NewHeld'
    BY <1>2, <2>1, <2>3, <2>4 DEF NewHeld, Taken, Unreferenced, NoHead, P
  <2> QED BY <2>1, <2>3, <2>5 DEF ChainsInv, Chains, ChainHeld, CurHeld
<1> QED BY <1>1, <1>2 DEF make_dir

LEMMA MkDotsChains ==
    ASSUME TypeOK, ChainsInv, MkDots
    PROVE  ChainsInv'
<1>1. UNCHANGED <<P, dir, new, first, prev>> /\ at = "mkDots" /\ at' = "mkEntry"
      /\ pc' # "unalloc"
  BY DEF MkDots, at, P, chain
<1>2. Chains'
  BY <1>1, ChainsSame DEF ChainsInv, Chains
<1>3. NewHeld'
  BY <1>1 DEF ChainsInv, NewHeld, Taken, NoHead, Unreferenced, P
<1> QED BY <1>1, <1>2, <1>3 DEF ChainsInv, Chains, ChainHeld, CurHeld

LEMMA MkEntryChains ==
    ASSUME TypeOK, ChainsInv, WriteFaults = FALSE, MkEntry
    PROVE  ChainsInv'
<1>1. Loose(new) /\ new \in Clusters
  BY DEF MkEntry, at, ChainsInv, NewHeld, Loose, Taken
<1>2. ASSUME NEW s \in Slots, NEW w \in Outcomes, dir' = Put(dir, s, DirEntry(name, new), w),
             pc' = "return", UNCHANGED fat
      PROVE  ChainsInv'
  <2>1. dir' = [dir EXCEPT ![s] = DirEntry(name, new)] /\ P' = P
    BY <1>2 DEF Put, Outcomes, P
  <2>2. DirEntry(name, new).first = new
    BY DEF DirEntry
  <2>3. Chains'
    BY <1>1, <2>1, <2>2, ChainsEntry DEF ChainsInv, Chains
  <2> QED BY <1>2, <2>3, NothingHeld DEF at
<1>3. CASE fat_set_entry(new, FREE, "full") /\ UNCHANGED dir
  <2>1. P' = [P EXCEPT ![new] = FREE] /\ at' = "full" /\ pc' # "unalloc"
    BY <1>1, <1>3, SetEffect DEF Returns
  <2>2. Chains'
    BY <1>1, <1>3, <2>1, ChainsFree DEF ChainsInv, Chains
  <2> QED BY <2>1, <2>2, NothingHeld
<1> QED BY <1>2, <1>3 DEF MkEntry

\* A call that takes the chain away from a live entry, to free it.
LEMMA OrphanChains ==
    ASSUME TypeOK, ChainsInv, WriteFaults = FALSE, pc = "idle",
           NEW s \in Slots, Live(dir[s]), NEW e, e.first = 0, NEW bad,
           PutSlot(s, e, "free", bad), cur' = dir[s].first,
           UNCHANGED <<fat, last, prev, first>>
    PROVE  ChainsInv'
<1>1. dir' = [dir EXCEPT ![s] = e] /\ P' = P /\ pc' = "free"
  BY DEF PutSlot, Outcomes, Put, P
<1>2. Chains'
  BY <1>1, ChainsEntry DEF ChainsInv, Chains
<1>3. cur' \in {0} \cup Clusters
  BY DEF TypeOK, TypeVolume, Directory
<1>4. IsLink(cur') => Loose(cur)'
  <2>1. ASSUME NEW c \in Clusters, dir[s].first = c
        PROVE  Loose(c)'
    BY <1>1, <2>1, ChainsOrphan DEF ChainsInv, Chains
  <2> QED BY <1>3, <2>1, LinkValues DEF Loose, Taken, Unreferenced, NoHead
<1>5. first = 0 /\ prev = 0 /\ last = 0
  BY DEF TypeOK, TypeWork
<1>6. CurHeld'
  BY <1>4, <1>5 DEF CurHeld, Loose
<1> QED BY <1>1, <1>2, <1>6 DEF ChainsInv, Chains, NewHeld, ChainHeld, at

LEMMA RmdirChains ==
    ASSUME TypeOK, ChainsInv, WriteFaults = FALSE, NEW n, remove_dir(n)
    PROVE  ChainsInv'
<1>1. CASE \E code \in Results : Refuse(code)
  BY <1>1, RefuseChains
<1>2. ASSUME NEW s \in Slots, dir[s].kind = "dir",
             PutSlot(s, Blank("deleted"), "free", "free"),
             cur' = dir[s].first, UNCHANGED <<fat, data, pos, last, chain, job>>
      PROVE  ChainsInv'
  <2>1. pc = "idle" /\ Live(dir[s]) /\ Blank("deleted").first = 0
    BY <1>2 DEF remove_dir, Call, Live, Blank
  <2> QED BY <1>2, <2>1, OrphanChains DEF chain
<1> QED BY <1>1, <1>2, Codes DEF remove_dir

LEMMA CreateChains ==
    ASSUME TypeOK, ChainsInv, WriteFaults = FALSE, NEW n, fs_create_file(n)
    PROVE  ChainsInv'
<1>1. CASE \E code \in Results : Refuse(code)
  BY <1>1, RefuseChains
<1>2. ASSUME NEW s \in Slots, PutSlot(s, FileEntry(n, 0, 0), "return", "return"),
             UNCHANGED fat
      PROVE  ChainsInv'
  <2>1. /\ dir' = [dir EXCEPT ![s] = FileEntry(n, 0, 0)] /\ P' = P
        /\ pc' = "return" /\ FileEntry(n, 0, 0).first = 0
    BY <1>2 DEF PutSlot, Outcomes, Put, P, FileEntry
  <2>2. Chains'
    BY <2>1, ChainsEntry DEF ChainsInv, Chains
  <2> QED BY <2>1, <2>2, NothingHeld DEF at
<1> QED BY <1>1, <1>2, Codes DEF fs_create_file

LEMMA StartWriteChains ==
    ASSUME TypeOK, ChainsInv, WriteFaults = FALSE, NEW n, NEW b, StartWrite(n, b)
    PROVE  ChainsInv'
<1>1. CASE \E code \in Results : Refuse(code)
  BY <1>1, RefuseChains
<1>2. pc = "idle" /\ FileEntry(n, 0, 0).first = 0
  BY DEF StartWrite, Call, FileEntry
<1>3. ASSUME NEW s \in Slots, dir[s].kind = "file",
             PutSlot(s, FileEntry(n, 0, 0), "free", "return"),
             cur' = dir[s].first, UNCHANGED <<fat, data, last, chain, job>>
      PROVE  ChainsInv'
  BY <1>2, <1>3, OrphanChains DEF Live, chain
<1>4. ASSUME NEW s \in Slots, PutSlot(s, FileEntry(n, 0, 0), "alloc", "return"),
             UNCHANGED <<fat, last, chain>>, op' = "write"
      PROVE  ChainsInv'
  <2>1. /\ dir' = [dir EXCEPT ![s] = FileEntry(n, 0, 0)] /\ P' = P
        /\ pc' = "alloc"
    BY <1>4 DEF PutSlot, Outcomes, Put, P
  <2>2. Chains'
    BY <1>2, <2>1, ChainsEntry DEF ChainsInv, Chains
  <2>3. first' = 0 /\ prev' = 0 /\ last' = 0
    BY <1>2, <1>4 DEF chain, TypeOK, TypeWork
  <2>4. ChainHeld'
    BY <1>4, <2>1, <2>3 DEF ChainHeld, at
  <2> QED BY <2>1, <2>2, <2>4 DEF ChainsInv, Chains, NewHeld, CurHeld, at
<1> QED BY <1>1, <1>3, <1>4, Codes DEF StartWrite, Call

\* The walk to the last cluster of a file ends in a cluster of that file.
LEMMA LastCluster ==
    ASSUME TypeOK, Chains, NEW s \in Slots, Live(dir[s]), dir[s].first # 0,
           NEW l \in Chain(dir[s].first), ~IsLink(P[l])
    PROVE  Taken(l) /\ P[l] = EOC
<1> USE Primary DEF Chains
<1> DEFINE S == {c \in Clusters : Taken(c)}
<1>1. dir[s].first \in S
  BY DEF Heads, Directory, NoDangling, RootIntact, Taken, P
<1>2. ASSUME NEW x \in S, P[x] \in Clusters
      PROVE  P[x] \in S
  BY <1>2, RootClosed DEF NoDangling, Taken, P
<1>3. l \in S
  BY <1>1, <1>2 DEF Chain, P
<1> QED BY <1>3, LinkValues DEF Taken, P

LEMMA AppendChains ==
    ASSUME TypeOK, ChainsInv, WriteFaults = FALSE, NEW n, NEW b, fs_append_file(n, b)
    PROVE  ChainsInv'
<1>1. CASE StartWrite(n, b)
  BY <1>1, StartWriteChains
<1>2. CASE \E code \in Results : Refuse(code)
  BY <1>2, RefuseChains
<1>3. ASSUME Call("append", n, b), NEW s \in Slots, dir[s].kind = "file", dir[s].first # 0,
             NEW l \in Clusters, StartAppend(s, l, b)
      PROVE  ChainsInv'
  <2>1. Taken(l) /\ P[l] = EOC /\ l # 0
    BY <1>3, LastCluster, LinkValues
       DEF StartAppend, get_next_cluster, Live, ChainsInv, Chains, P
  <2>2. UNCHANGED <<P, dir, first>> /\ pc' = "alloc" /\ last' = l /\ prev' = l /\ op' = "append"
    BY <1>3 DEF StartAppend, Outcomes, Call, P
  <2>3. first' = 0
    BY <1>3, <2>2 DEF Call, TypeOK, TypeWork
  <2>4. ChainHeld'
    BY <2>1, <2>2, <2>3 DEF ChainHeld, at, Taken, P
  <2> QED BY <2>2, <2>4, ChainsSame DEF ChainsInv, Chains, NewHeld, CurHeld, at
<1> QED BY <1>1, <1>2, <1>3, Codes DEF fs_append_file

LEMMA FreeOneChains ==
    ASSUME TypeOK, ChainsInv, WriteFaults = FALSE, FreeOne
    PROVE  ChainsInv'
<1> USE Primary
<1>1. cur \in Clusters /\ Loose(cur)
  BY LinkValues DEF FreeOne, TypeOK, TypeWork, ChainsInv, CurHeld, at, Loose
<1>2. /\ P' = [P EXCEPT ![cur] = FREE]
      /\ at' = "free" /\ r' = r /\ pc' # "unalloc"
  BY <1>1, SetEffect DEF FreeOne, Returns
<1>3. UNCHANGED <<dir, op, first, prev, last>> /\ cur' = P[cur]
  BY DEF FreeOne, call, chain, get_next_cluster, P
<1>4. /\ Chains'
      /\ \A n \in Clusters : P[cur] = n => Loose(n)'
  BY <1>1, <1>2, <1>3, ChainsFree DEF ChainsInv, Chains
<1>5. IsLink(cur') => Loose(cur)'
  BY <1>1, <1>3, <1>4, LinkValues DEF Loose, Taken, Unreferenced, NoHead
<1>6. CurHeld'
  BY <1>2, <1>3, <1>5 DEF ChainsInv, CurHeld, FreeOne, at, Loose
<1> QED BY <1>2, <1>4, <1>6 DEF ChainsInv, Chains, NewHeld, ChainHeld

LEMMA FreeDoneChains ==
    ASSUME TypeOK, ChainsInv, FreeDone
    PROVE  ChainsInv'
<1>1. UNCHANGED <<P, dir, op, first, prev, last, r>> /\ at = "free"
  BY DEF FreeDone, disk, call, chain, P, at
<1>2. Chains'
  BY <1>1, ChainsSame DEF ChainsInv, Chains
<1>3. CASE pc' = "return"
  BY <1>2, <1>3, NothingHeld DEF at
<1>4. CASE pc' = "alloc" /\ op = "write" /\ r = FS_OK
  <2>1. ChainHeld'
    BY <1>1, <1>4 DEF ChainsInv, CurHeld, ChainHeld, at
  <2> QED BY <1>2, <1>4, <2>1 DEF ChainsInv, Chains, NewHeld, CurHeld, at
<1> QED BY <1>3, <1>4 DEF FreeDone

LEMMA AllocChains ==
    ASSUME TypeOK, ChainsInv, WriteFaults = FALSE, Alloc
    PROVE  ChainsInv'
<1> USE Primary
<1>1. UNCHANGED <<dir, op, last, prev, first>> /\ at = "alloc"
  BY DEF Alloc, call, at
<1>2. CASE pc' = "fail" /\ r' = FS_ERR_NOSPACE /\ UNCHANGED <<fat, new, job, clean>>
  <2>1. P' = P /\ r' # FS_OK
    BY <1>2 DEF P, FS_OK, FS_ERR_NOSPACE
  <2>2. Chains'
    BY <1>1, <2>1, ChainsSame DEF ChainsInv, Chains
  <2>3. ChainHeld'
    BY <1>1, <1>2, <2>1 DEF ChainsInv, ChainHeld, Taken, NoHead, Unreferenced, at, P
  <2> QED BY <1>2, <2>2, <2>3 DEF ChainsInv, Chains, NewHeld, CurHeld, at
<1>3. ASSUME NEW c \in Clusters, IsFirstFree(c), fat_set_entry(c, EOC, "link"), new' = c
      PROVE  ChainsInv'
  <2>1. P' = [P EXCEPT ![c] = EOC] /\ at' = "link" /\ pc' # "unalloc" /\ P[c] = FREE
    BY <1>3, SetEffect DEF Returns, IsFirstFree, P
  <2>2. /\ Chains' /\ c \notin RootChain /\ P'[c] = EOC
        /\ \A d \in Clusters : P[d] # c /\ P'[d] # c
        /\ NoHead(c)'
    BY <1>1, <2>1, ChainsAlloc DEF ChainsInv, Chains
  <2>3. \A d : Taken(d) => d # c /\ d \in Clusters /\ P'[d] = P[d] /\ Taken(d)'
    BY <2>1 DEF Taken, P
  <2>4. ChainHeld'
    BY <1>1, <2>1, <2>2, <2>3 DEF ChainsInv, ChainHeld, NoHead, Unreferenced, P
  <2>5. c # first /\ c # prev
    BY <1>1, <2>3 DEF ChainsInv, ChainHeld
  <2>6. NewHeld'
    BY <1>1, <1>3, <2>1, <2>2, <2>5 DEF NewHeld, Taken, Unreferenced, P
  <2> QED BY <2>1, <2>2, <2>4, <2>6 DEF ChainsInv, Chains, CurHeld
<1> QED BY <1>2, <1>3 DEF Alloc

LEMMA MkFullChains ==
    ASSUME TypeOK, ChainsInv, MkFull
    PROVE  ChainsInv'
<1>1. UNCHANGED <<P, dir>> /\ pc' = "return"
  BY DEF MkFull, disk, P
<1>2. Chains'
  BY <1>1, ChainsSame DEF ChainsInv, Chains
<1> QED BY <1>1, <1>2, NothingHeld DEF at

LEMMA LinkChains ==
    ASSUME TypeOK, ChainsInv, WriteFaults = FALSE, Link
    PROVE  ChainsInv'
<1> USE Primary
<1>1. UNCHANGED <<dir, op, last, new, prev, first>> /\ at = "link"
  BY DEF Link, call, chain, at
<1>2. /\ Taken(new) /\ P[new] = EOC /\ NoHead(new) /\ Unreferenced(new)
      /\ new # first /\ new # prev /\ new # 0
  BY <1>1, LinkValues DEF ChainsInv, NewHeld, Taken, P
<1>3. CASE prev = 0 /\ pc' = "data" /\ UNCHANGED <<fat, job, r, clean>>
  <2>1. P' = P
    BY <1>3 DEF P
  <2>2. Chains'
    BY <1>1, <2>1, ChainsSame DEF ChainsInv, Chains
  <2>3. NewHeld'
    BY <1>1, <1>2, <1>3, <2>1 DEF NewHeld, Taken, NoHead, Unreferenced, at, P
  <2>4. ChainHeld'
    BY <1>1, <1>3, <2>1 DEF ChainsInv, ChainHeld, Taken, NoHead, Unreferenced, at, P
  <2> QED BY <1>3, <2>2, <2>3, <2>4 DEF ChainsInv, Chains, CurHeld, at
<1>4. CASE prev # 0 /\ fat_set_entry(prev, new, "data")
  <2>1. Taken(prev) /\ P[prev] = EOC
    BY <1>1, <1>4 DEF ChainsInv, ChainHeld, P
  <2>2. P' = [P EXCEPT ![prev] = new] /\ at' = "data" /\ pc' # "unalloc"
    BY <1>2, <1>4, <2>1, SetEffect DEF Returns, Taken
  <2>3. Chains'
    BY <1>1, <1>2, <2>1, <2>2, ChainsSetTail DEF ChainsInv, Chains, Loose
  <2>4. P'[prev] = new /\ P'[new] = EOC
    BY <1>2, <2>1, <2>2 DEF Taken
  <2>5. NewHeld'
    BY <1>1, <1>2, <1>4, <2>2, <2>4 DEF NewHeld, Taken, NoHead, P
  <2>6. \A d : Taken(d) => Taken(d)'
    BY <1>2, <2>2 DEF Taken, P
  <2>7. first # 0 => IF last = 0 THEN Unreferenced(first)' ELSE P'[last] = first
    BY <1>1, <1>2, <2>1, <2>2 DEF ChainsInv, ChainHeld, Unreferenced, Taken, P
  <2>8. ChainHeld'
    BY <1>1, <2>1, <2>2, <2>6, <2>7 DEF ChainsInv, ChainHeld, NoHead, P
  <2> QED BY <2>2, <2>3, <2>5, <2>8 DEF ChainsInv, Chains, CurHeld
<1> QED BY <1>3, <1>4 DEF Link

LEMMA WriteDataChains ==
    ASSUME TypeOK, ChainsInv, WriteFaults = FALSE, WriteData
    PROVE  ChainsInv'
<1> USE Primary
<1>1. /\ UNCHANGED <<P, dir, op, last>> /\ at = "data" /\ pc' = "alloc"
      /\ first' = (IF first = 0 THEN new ELSE first) /\ prev' = new
  BY DEF WriteData, Outcomes, call, at, P
<1>2. Chains'
  BY <1>1, ChainsSame DEF ChainsInv, Chains
<1>3. Taken(new) /\ P[new] = EOC /\ NoHead(new) /\ new # 0
  BY <1>1, LinkValues DEF ChainsInv, NewHeld, Taken, P
<1>4. first = 0 => IF last = 0 THEN Unreferenced(new) ELSE P[last] = new
  BY <1>1 DEF ChainsInv, NewHeld, ChainHeld, P
<1>5. ChainHeld'
  BY <1>1, <1>3, <1>4 DEF ChainsInv, ChainHeld, Taken, NoHead, Unreferenced, at, P
<1> QED BY <1>1, <1>2, <1>5 DEF ChainsInv, Chains, NewHeld, CurHeld, at

LEMMA CleanupChains ==
    ASSUME TypeOK, ChainsInv, WriteFaults = FALSE, Cleanup
    PROVE  ChainsInv'
<1> USE Primary
<1>1. /\ UNCHANGED <<dir, op, last, prev, first>> /\ cur' = first /\ at = "fail"
  BY DEF Cleanup, call, chain, at
<1>2. /\ r # FS_OK
      /\ first # 0 => /\ Taken(first) /\ NoHead(first)
                      /\ IF last = 0 THEN Unreferenced(first) ELSE P[last] = first
      /\ last # 0 => Taken(last)
  BY <1>1 DEF ChainsInv, ChainHeld, P
<1>3. IsLink(cur') => first # 0
  BY <1>1, LinkValues DEF IsLink
<1>4. CASE last = 0 /\ pc' = "free" /\ UNCHANGED <<fat, job, r, clean>>
  <2>1. P' = P
    BY <1>4 DEF P
  <2>2. Chains'
    BY <1>1, <2>1, ChainsSame DEF ChainsInv, Chains
  <2>3. CurHeld'
    BY <1>1, <1>2, <1>3, <1>4, <2>1 DEF CurHeld, Taken, NoHead, Unreferenced, P
  <2> QED BY <1>4, <2>2, <2>3 DEF ChainsInv, Chains, NewHeld, ChainHeld, at
<1>5. CASE last # 0 /\ fat_set_entry(last, EOC, "free")
  <2>1. /\ P' = [P EXCEPT ![last] = EOC] /\ at' = "free" /\ r' = r /\ pc' # "unalloc"
    BY <1>2, <1>5, SetEffect DEF Returns, Taken
  <2>2. Chains'
    BY <1>1, <1>2, <1>5, <2>1, ChainsSetTail DEF ChainsInv, Chains
  <2>3. ASSUME first # 0
        PROVE  Unreferenced(first)'
    <3>1. first \in Clusters /\ P[last] = first /\ Taken(last)
      BY <1>2, <1>5, <2>3 DEF Taken
    <3>2. ASSUME NEW n \in Clusters, n = first
          PROVE  Unreferenced(n)'
      BY <2>1, <3>1, <3>2, ChainsCut DEF ChainsInv, Chains
    <3>3. Unreferenced(first)' = (\A d \in Clusters : fat'[1][d] # first)
      BY <1>1 DEF Unreferenced
    <3> QED BY <3>1, <3>2, <3>3 DEF Unreferenced 
  <2>4. first # 0 => Taken(first)' /\ NoHead(first)'
    BY <1>1, <1>2, <1>5, <2>1 DEF Taken, NoHead, P
  <2>5. CurHeld'
    BY <1>1, <1>2, <1>3, <2>1, <2>3, <2>4 DEF CurHeld
  <2> QED BY <2>1, <2>2, <2>5 DEF ChainsInv, Chains, NewHeld, ChainHeld
<1> QED BY <1>4, <1>5 DEF Cleanup

LEMMA CommitChains ==
    ASSUME TypeOK, ChainsInv, WriteFaults = FALSE, Commit
    PROVE  ChainsInv'
<1> USE Primary
<1> DEFINE e == IF op = "append"
                THEN [dir[pos] EXCEPT !.size = @ + Len(arg)]
                ELSE [dir[pos] EXCEPT !.first = first, !.size = Len(arg)]
<1>1. /\ P' = P /\ dir' = [dir EXCEPT ![pos] = e] /\ pc' = "return" /\ at = "alloc"
  BY DEF Commit, PutSlot, Outcomes, Put, at, P
<1>2. CASE pos \notin Slots
  <2>1. dir' = dir
    BY <1>1, <1>2 DEF Directory
  <2> QED BY <1>1, <2>1, ChainsSame, NothingHeld DEF ChainsInv, Chains, at
<1>3. CASE pos \in Slots /\ op = "append"
  <2>1. e.kind = dir[pos].kind /\ e.first = dir[pos].first
    BY <1>3 DEF Directory
  <2>2. \A s \in Slots : dir'[s].kind = dir[s].kind /\ dir'[s].first = dir[s].first
    BY <1>1, <2>1 DEF Directory
  <2>3. Heads' = Heads /\ \A s \in Heads : dir'[s].first = dir[s].first
    BY <2>2 DEF Heads, Live
  <2>4. Chains'
    BY <1>1, <2>3 DEF ChainsInv, Chains, NoDangling, NoCrossLink, RootIntact, P
  <2> QED BY <1>1, <2>4, NothingHeld DEF at
<1>4. CASE pos \in Slots /\ op # "append"
  <2>1. e.first = first
    BY <1>4 DEF Directory
  <2>2. op = "write" /\ last = 0
    BY <1>1, <1>4 DEF ChainsInv, ChainHeld
  <2>3. first = 0 \/ Loose(first)
    BY <1>1, <2>2 DEF ChainsInv, ChainHeld, Loose
  <2>4. Chains'
    BY <1>1, <1>4, <2>1, <2>3, ChainsEntry DEF ChainsInv, Chains
  <2> QED BY <1>1, <2>4, NothingHeld DEF at
<1> QED BY <1>2, <1>3, <1>4

\* The end of the call, of the program or of the power, and a boot: none of
\* them writes, and none leaves a call that holds a cluster.
LEMMA EndingChains ==
    ASSUME TypeOK, ChainsInv,
           NotMounted \/ Return \/ Abort \/ PowerLoss \/ fs_init
    PROVE  ChainsInv'
<1>1. UNCHANGED <<P, dir>> /\ pc' \in {"off", "idle", "return"}
  BY DEF NotMounted, Return, Abort, PowerLoss, fs_init, disk, P
<1>2. Chains'
  BY <1>1, ChainsSame DEF ChainsInv, Chains
<1> QED BY <1>1, <1>2, NothingHeld DEF at

LEMMA ChainsNext ==
    ASSUME TypeOK, ChainsInv, WriteFaults = FALSE, [Next]_vars
    PROVE  ChainsInv'
<1>1. CASE UNCHANGED vars
  BY <1>1 DEF vars, ChainsInv, NoDangling, NoCrossLink, RootIntact, Heads, NewHeld,
     ChainHeld, CurHeld, at, Taken, NoHead, Unreferenced
<1>2. CASE Step
  <2>1. CASE NextCopy
    BY <2>1, MirrorChains
  <2>2. CASE MkDots \/ MkEntry \/ MkFull
    BY <2>2, MkDotsChains, MkEntryChains, MkFullChains
  <2>3. CASE FreeOne \/ FreeDone
    BY <2>3, FreeOneChains, FreeDoneChains
  <2>4. CASE Alloc \/ Link \/ WriteData
    BY <2>4, AllocChains, LinkChains, WriteDataChains
  <2>5. CASE Unalloc
    BY <2>5 DEF Unalloc, ChainsInv
  <2>6. CASE Cleanup \/ Commit
    BY <2>6, CleanupChains, CommitChains
  <2>7. CASE Return
    BY <2>7, EndingChains
  <2> QED BY <1>2, <2>1, <2>2, <2>3, <2>4, <2>5, <2>6, <2>7 DEF Step
<1>3. CASE Request
  <2>1. CASE NotMounted
    BY <2>1, EndingChains
  <2>2. ASSUME NEW n \in Names, make_dir(n) \/ remove_dir(n) \/ fs_create_file(n)
        PROVE  ChainsInv'
    BY <2>2, MkdirChains, RmdirChains, CreateChains
  <2>3. ASSUME NEW n \in Names, NEW b \in Buffers, fs_write_file(n, b) \/ fs_append_file(n, b)
        PROVE  ChainsInv'
    BY <2>3, StartWriteChains, AppendChains DEF fs_write_file
  <2> QED BY <1>3, <2>1, <2>2, <2>3 DEF Request
<1>4. CASE Abort \/ PowerLoss \/ fs_init
  BY <1>4, EndingChains
<1> QED BY <1>1, <1>2, <1>3, <1>4 DEF Next

\* When writes do not fail, no sequence of calls, interrupted by Ctrl-C or by
\* the loss of power between any two sector writes of fs.c, takes a cluster
\* away from a chain that leads to it, or links one cluster into two chains.
THEOREM ChainsStayApart ==
    ASSUME WriteFaults = FALSE
    PROVE  Spec => []ChainsInv
<1>1. Init => TypeOK /\ ChainsInv
  BY TypeInit, InitChains
<1>2. TypeOK /\ ChainsInv /\ [Next]_vars => TypeOK' /\ ChainsInv'
  BY TypeNext, ChainsNext
<1> QED BY <1>1, <1>2, PTL DEF Spec

\* No directory entry and no link of the table ever leads to a free cluster
\* (the order of the writes in remove_dir, fs_write_file, alloc_and_write and
\* the cleanup of fs_append_file), when writes do not fail.
THEOREM NeverDangling ==
    ASSUME WriteFaults = FALSE
    PROVE  Spec => []NoDangling
<1>1. ChainsInv => NoDangling
  BY DEF ChainsInv
<1> QED BY <1>1, ChainsStayApart, PTL

\* No two chains ever share a cluster, when writes do not fail: what
\* find_free_cluster returns, nothing on the volume or in the call leads to.
THEOREM NeverCrossLinked ==
    ASSUME WriteFaults = FALSE
    PROVE  Spec => []NoCrossLink
<1>1. ChainsInv => NoCrossLink
  BY DEF ChainsInv
<1> QED BY <1>1, ChainsStayApart, PTL

-----------------------------------------------------------------------------
(* No cluster is lost.  The clusters along a table Q from c, for any table.*)

Closed(Q, S) == \A x \in S : Q[x] \in Clusters => Q[x] \in S

Along(Q, c) == {d \in Clusters :
                  \A S \in SUBSET Clusters : (c \in Clusters => c \in S) /\ Closed(Q, S) => d \in S}

LEMMA AlongTable ==
    /\ \A c : Chain(c) = Along(P, c)
    /\ \A c : Chain(c)' = Along(P', c)
BY DEF Chain, Along, Closed, P

\* They are the least set that has c and is closed.
LEMMA AlongLeast ==
    ASSUME NEW Q, NEW c, NEW S \in SUBSET Clusters, c \in Clusters => c \in S, Closed(Q, S)
    PROVE  Along(Q, c) \subseteq S
BY DEF Along

LEMMA AlongHas ==
    ASSUME NEW Q, NEW c \in Clusters
    PROVE  c \in Along(Q, c)
BY DEF Along

LEMMA AlongClosed ==
    ASSUME NEW Q, NEW c
    PROVE  Along(Q, c) \in SUBSET Clusters /\ Closed(Q, Along(Q, c))
BY DEF Along, Closed

LEMMA AlongNone ==
    ASSUME NEW Q, NEW c, c \notin Clusters
    PROVE  Along(Q, c) = {}
<1>1. Closed(Q, {})
  BY DEF Closed
<1> QED BY <1>1, AlongLeast

\* From a cluster on the way, they are some of them.
LEMMA AlongRest ==
    ASSUME NEW Q, NEW c, NEW d \in Along(Q, c)
    PROVE  Along(Q, d) \subseteq Along(Q, c)
BY AlongClosed, AlongLeast

\* R is table Q but for the entry of n.
Differ(Q, R, n) == \A x \in Clusters : x # n => R[x] = Q[x]

\* Writing an entry that led nowhere takes none of them away.
LEMMA AlongGrow ==
    ASSUME NEW Q, NEW R, NEW n, Differ(Q, R, n), n \in Clusters => Q[n] \notin Clusters, NEW c
    PROVE  Along(Q, c) \subseteq Along(R, c)
<1>1. Closed(Q, Along(R, c)) /\ Along(R, c) \in SUBSET Clusters
  BY AlongClosed DEF Closed, Differ
<1> QED BY <1>1, AlongHas, AlongLeast

\* Writing the entry of a cluster that nothing leads to changes other chains not.
LEMMA AlongApart ==
    ASSUME NEW Q, NEW R, NEW n, Differ(Q, R, n), \A x \in Clusters : Q[x] # n, NEW c, c # n
    PROVE  Along(Q, c) \subseteq Along(R, c)
<1> DEFINE S == Along(R, c) \ {n}
<1>1. Closed(Q, S) /\ S \in SUBSET Clusters
  BY AlongClosed DEF Closed, Differ
<1>2. c \in Clusters => c \in S
  BY AlongHas
<1>3. Along(Q, c) \subseteq S
  BY <1>1, <1>2, AlongLeast
<1> QED BY <1>3

\* Cutting a chain at n leaves it in two parts.
LEMMA AlongCut ==
    ASSUME NEW Q, NEW R, NEW n, Differ(Q, R, n), NEW c
    PROVE  Along(Q, c) \subseteq Along(R, c) \cup Along(R, Q[n])
<1> DEFINE S == Along(R, c) \cup Along(R, Q[n])
<1>1. S \in SUBSET Clusters
  BY AlongClosed
<1>2. ASSUME NEW x \in S, Q[x] \in Clusters
      PROVE  Q[x] \in S
  <2>1. CASE x = n
    BY <1>2, <2>1, AlongHas
  <2>2. CASE x # n
    BY <1>1, <1>2, <2>2, AlongClosed DEF Closed, Differ
  <2> QED BY <2>1, <2>2
<1>3. Closed(Q, S)
  BY <1>2 DEF Closed
<1>4. c \in Clusters => c \in S
  BY AlongHas
<1> HIDE DEF S
<1>5. Along(Q, c) \subseteq S
  BY <1>1, <1>3, <1>4, AlongLeast
<1> QED BY <1>5 DEF S

\* Taking the first cluster of a chain away leaves the rest.
LEMMA AlongBehead ==
    ASSUME NEW Q, NEW R, NEW n \in Clusters, Differ(Q, R, n)
    PROVE  Along(Q, n) \subseteq {n} \cup Along(R, Q[n])
<1> DEFINE S == {n} \cup Along(R, Q[n])
<1>1. S \in SUBSET Clusters
  BY AlongClosed
<1>2. ASSUME NEW x \in S, Q[x] \in Clusters
      PROVE  Q[x] \in S
  <2>1. CASE x = n
    BY <1>2, <2>1, AlongHas
  <2>2. CASE x # n
    BY <1>1, <1>2, <2>2, AlongClosed DEF Closed, Differ
  <2> QED BY <2>1, <2>2
<1>3. Closed(Q, S)
  BY <1>2 DEF Closed
<1> HIDE DEF S
<1>4. n \in S
  BY DEF S
<1>5. Along(Q, n) \subseteq S
  BY <1>1, <1>3, <1>4, AlongLeast
<1> QED BY <1>5 DEF S

-----------------------------------------------------------------------------
(* What the running call holds of its chain.                               *)

NoLoss == clean => \A c \in Clusters : P[c] # FREE => Accounted(c)

LEMMA LeakParts == /\ LeakInv <=> TailHeld /\ NoLoss
                   /\ LeakInv' <=> TailHeld' /\ NoLoss'
BY DEF LeakInv, NoLoss, P

\* A step to a point where the call builds nothing.
LEMMA NoTail ==
    ASSUME at' \notin {"alloc", "link", "data", "fail"}
    PROVE  TailHeld'
BY DEF TailHeld

\* A step within the building of a chain that takes no cluster away and leaves the
\* locals alone.
LEMMA TailGrows ==
    ASSUME TypeOK, TailHeld, at \in {"alloc", "link", "data", "fail"},
           UNCHANGED <<dir, op, pos, last, prev, first>>,
           NEW n, Differ(P, P', n), n \in Clusters => P[n] \notin Clusters
    PROVE  TailHeld'
<1>1. \A c : Chain(c) \subseteq Along(P', c)
  BY AlongTable, AlongGrow
<1>2. Chain(dir[pos].first)' = Along(P', dir[pos].first) /\ Chain(first)' = Along(P', first)
  BY AlongTable
<1> QED BY <1>1, <1>2 DEF TailHeld

-----------------------------------------------------------------------------
(* What is accounted for stays so.                                         *)

\* Where a taken cluster may be found after a step.
LEMMA LossStep ==
    ASSUME NoLoss, clean' => clean,
           \A s \in Heads : \A c \in Chain(dir[s].first) : P'[c] # FREE => Accounted(c)',
           \A c \in Held : P'[c] # FREE => Accounted(c)',
           \A c \in Clusters : P[c] = FREE /\ P'[c] # FREE => Accounted(c)'
    PROVE  NoLoss'
<1>1. RootChain' = RootChain
  BY DEF RootChain
<1>2. ASSUME clean', NEW c \in Clusters, P'[c] # FREE
      PROVE  Accounted(c)'
  <2>1. CASE c \in RootChain
    BY <1>1, <2>1 DEF Accounted
  <2>2. CASE c \notin RootChain /\ P[c] # FREE
    <3>1. Accounted(c)
      BY <1>2, <2>2 DEF NoLoss
    <3> QED BY <1>2, <2>2, <3>1 DEF Accounted
  <2> QED BY <1>2, <2>1, <2>2
<1> QED BY <1>2 DEF NoLoss

\* What an entry leads to, and what the call holds, is accounted for.
LEMMA HeadAccounts ==
    ASSUME NEW s \in Heads', NEW c \in Along(P', dir'[s].first)
    PROVE  Accounted(c)'
<1>1. c \in Chain(dir[s].first)'
  BY AlongTable
<1> QED BY <1>1 DEF Accounted

LEMMA HeldAccounts ==
    ASSUME NEW c \in Held'
    PROVE  Accounted(c)'
BY DEF Accounted

\* A step that writes neither the primary copy nor the directory.
LEMMA LossSame ==
    ASSUME NoLoss, P' = P /\ UNCHANGED dir, clean' => clean,
           \A c \in Held : Accounted(c)'
    PROVE  NoLoss'
<1>1. ASSUME NEW s \in Heads, NEW c \in Chain(dir[s].first)
      PROVE  Accounted(c)'
  <2>1. s \in Heads' /\ c \in Along(P', dir'[s].first)
    BY <1>1, AlongTable DEF Heads
  <2> QED BY <2>1, HeadAccounts
<1> QED BY <1>1, LossStep

\* A step that writes one entry of the primary copy: the chains the volume leads
\* to keep their clusters if that entry led nowhere, or nothing leads to it.
LEMMA LossTable ==
    ASSUME NoLoss, UNCHANGED dir, clean' => clean,
           NEW n \in Clusters, Differ(P, P', n),
           P[n] \notin Clusters \/ (NoHead(n) /\ Unreferenced(n)),
           \A c \in Held \cup {n} : P'[c] # FREE => Accounted(c)'
    PROVE  NoLoss'
<1>1. ASSUME NEW s \in Heads, NEW c \in Chain(dir[s].first)
      PROVE  Accounted(c)'
  <2>1. s \in Heads' /\ dir'[s] = dir[s] /\ c \in Along(P, dir[s].first)
    BY <1>1, AlongTable DEF Heads
  <2>2. Along(P, dir[s].first) \subseteq Along(P', dir[s].first)
    <3>1. CASE P[n] \notin Clusters
      BY <3>1, AlongGrow
    <3>2. CASE NoHead(n) /\ Unreferenced(n)
      <4>1. dir[s].first # n /\ \A x \in Clusters : P[x] # n
        BY <3>2 DEF NoHead, Unreferenced, Heads, P
      <4> QED BY <4>1, AlongApart
    <3> QED BY <3>1, <3>2
  <2> QED BY <2>1, <2>2, HeadAccounts
<1>2. \A c \in Clusters : P[c] = FREE /\ P'[c] # FREE => c = n
  BY DEF Differ
<1> QED BY <1>1, <1>2, LossStep

\* A step that writes one slot of the directory.
LEMMA LossEntry ==
    ASSUME TypeOK, NoLoss, P' = P, clean' => clean,
           NEW s \in Slots, NEW e, dir' = [dir EXCEPT ![s] = e],
           Live(dir[s]) => \A c \in Along(P', dir[s].first) : Accounted(c)',
           \A c \in Held : Accounted(c)'
    PROVE  NoLoss'
<1>1. ASSUME NEW t \in Heads, NEW c \in Chain(dir[t].first)
      PROVE  Accounted(c)'
  <2>1. c \in Along(P', dir[t].first)
    BY <1>1, AlongTable
  <2>2. CASE t = s
    BY <2>1, <2>2 DEF Heads
  <2>3. CASE t # s
    <3>1. t \in Heads' /\ dir'[t] = dir[t]
      BY <2>3 DEF Heads, TypeOK, TypeVolume, Directory
    <3> QED BY <2>1, <3>1, HeadAccounts
  <2> QED BY <2>2, <2>3
<1> QED BY <1>1, LossStep

\* What is held, point by point.
LEMMA HeldNow ==
    /\ at \in {"idle", "off", "return", "full"} => Held = {}
    /\ at \in {"mkDots", "mkEntry"} => Held = {new}
    /\ at \in {"link", "data"} => Held = {new} \cup Along(P, first)
    /\ at \in {"alloc", "fail"} => Held = Along(P, first)
    /\ at = "free" => Held = Along(P, cur)
BY AlongTable DEF Held

LEMMA HeldNext ==
    /\ at' \in {"mkDots", "mkEntry"} => Held' = {new'}
    /\ at' \in {"link", "data"} => Held' = {new'} \cup Along(P', first')
    /\ at' \in {"alloc", "fail"} => Held' = Along(P', first')
    /\ at' = "free" => Held' = Along(P', cur')
<1>1. Chain(first)' = Along(P', first') /\ Chain(cur)' = Along(P', cur')
  BY DEF Chain, Along, Closed, P
<1> QED BY <1>1 DEF Held

-----------------------------------------------------------------------------
(* LeakInv, action by action.                                              *)

\* A step that writes neither the primary copy nor the directory, between points
\* at which nothing is held.
LEMMA LeakIdle ==
    ASSUME LeakInv, P' = P /\ UNCHANGED dir, clean' => clean,
           at \in {"idle", "off", "return", "full"} \/ ~clean',
           at' \in {"idle", "off", "return", "full"}
    PROVE  LeakInv'
<1>1. TailHeld'
  BY NoTail
<1>2. CASE clean'
  <2>1. Held = {}
    BY <1>2, HeldNow
  <2> QED BY <1>1, <2>1, LossSame, LeakParts
<1>3. CASE ~clean'
  BY <1>1, <1>3, LeakParts DEF NoLoss
<1> QED BY <1>2, <1>3

LEMMA LeakRefuse ==
    ASSUME LeakInv, pc = "idle", NEW code, Refuse(code)
    PROVE  LeakInv'
BY LeakIdle DEF Refuse, disk, at, P

LEMMA LeakInit == Init => LeakInv
<1> SUFFICES ASSUME Init PROVE LeakInv
  OBVIOUS
<1>1. PICK hosted \in SUBSET {HostDir}, n \in Names :
          /\ hosted \subseteq Clusters
          /\ fat = [f \in Fats |-> [c \in Clusters |->
                       IF c \in RootChain THEN RootEntry(c)
                       ELSE IF c \in hosted THEN EOC ELSE FREE]]
          /\ dir = [s \in Slots |-> IF s = 1 THEN Blank("skip")
                                    ELSE IF s = 2 /\ hosted # {} THEN DirEntry(n, HostDir)
                                    ELSE Blank("end")]
  BY DEF Init
<1>2. P = [c \in Clusters |-> IF c \in RootChain THEN RootEntry(c)
                              ELSE IF c \in hosted THEN EOC ELSE FREE]
  BY <1>1, GeometryAssumption DEF P, Fats
<1>3. ASSUME NEW c \in Clusters, c \notin RootChain, P[c] # FREE
      PROVE  Accounted(c)
  <2>1. c = HostDir /\ hosted # {}
    BY <1>2, <1>3
  <2>2. 2 \in Heads /\ dir[2].first = c
    <3>1. 2 \in Slots /\ c # 0
      BY <1>3, GeometryAssumption DEF Slots, Clusters
    <3>2. dir[2] = DirEntry(n, HostDir)
      BY <1>1, <2>1, <3>1
    <3> QED BY <2>1, <3>1, <3>2 DEF Heads, Live, DirEntry
  <2>3. c \in Chain(dir[2].first)
    BY <2>2, AlongHas, AlongTable
  <2> QED BY <2>2, <2>3 DEF Accounted
<1>4. NoLoss
  BY <1>3 DEF NoLoss, Accounted
<1>5. TailHeld
  BY DEF Init, TailHeld, at
<1> QED BY <1>4, <1>5, LeakParts

LEMMA LeakMirror ==
    ASSUME TypeOK, ChainsInv, LeakInv, WriteFaults = FALSE, NextCopy
    PROVE  LeakInv'
<1>1. P' = P /\ at' = at
  BY MirrorEffect DEF ChainsInv
<1>2. UNCHANGED <<dir, op, pos, last, new, prev, first, cur>> /\ (clean' => clean)
  BY DEF NextCopy, call, chain, SetCopy, Note
<1>3. Held' = Held
  BY <1>1, <1>2, AlongTable DEF Held, Chain, P
<1>4. TailHeld'
  BY <1>1, <1>2, LeakParts, AlongTable DEF TailHeld, Chain, P
<1>5. NoLoss'
  BY <1>1, <1>2, <1>3, LossSame, HeldAccounts, LeakParts
<1> QED BY <1>4, <1>5, LeakParts

LEMMA LeakMkdir ==
    ASSUME TypeOK, ChainsInv, LeakInv, WriteFaults = FALSE, NEW n, make_dir(n)
    PROVE  LeakInv'
<1>1. CASE Refuse(FS_ERR_NOSPACE)
  BY <1>1, LeakRefuse DEF make_dir, Call
<1>2. ASSUME NEW c \in Clusters, IsFirstFree(c), fat_set_entry(c, EOC, "mkDots"),
             new' = c, UNCHANGED dir
      PROVE  LeakInv'
  <2>1. P' = [P EXCEPT ![c] = EOC] /\ at' = "mkDots"
    BY <1>2, SetEffect DEF Returns
  <2>2. Differ(P, P', c) /\ P[c] \notin Clusters
    BY <1>2, <2>1, Primary DEF Differ, IsFirstFree, P
  <2>3. at = "idle" /\ (clean' => clean)
    BY <1>2 DEF make_dir, Call, at, fat_set_entry, SetCopy, Note
  <2>4. Held = {} /\ Held' = {c}
    BY <1>2, <2>1, <2>3, HeldNow, HeldNext
  <2>5. NoLoss'
    BY <1>2, <2>2, <2>3, <2>4, LossTable, HeldAccounts, LeakParts
  <2> QED BY <2>1, <2>5, NoTail, LeakParts
<1> QED BY <1>1, <1>2 DEF make_dir

LEMMA LeakMkDots ==
    ASSUME LeakInv, MkDots
    PROVE  LeakInv'
<1>1. P' = P /\ UNCHANGED <<dir, new>> /\ at = "mkDots" /\ at' = "mkEntry" /\ (clean' => clean)
  BY DEF MkDots, chain, at, P, Note
<1>2. Held' = Held
  BY <1>1, HeldNow, HeldNext
<1> QED BY <1>1, <1>2, NoTail, LossSame, HeldAccounts, LeakParts

LEMMA LeakMkEntry ==
    ASSUME TypeOK, ChainsInv, LeakInv, WriteFaults = FALSE, MkEntry
    PROVE  LeakInv'
<1>1. Loose(new) /\ new \in Clusters /\ Held = {new} /\ UNCHANGED new
  BY HeldNow DEF MkEntry, chain, at, ChainsInv, NewHeld, Loose, Taken
<1>2. ASSUME NEW s \in Slots, IsFirstVacant(s), NEW w \in Outcomes,
             dir' = Put(dir, s, DirEntry(name, new), w), Note(w), pc' = "return", UNCHANGED fat
      PROVE  LeakInv'
  <2>1. dir' = [dir EXCEPT ![s] = DirEntry(name, new)] /\ P' = P /\ (clean' => clean)
    BY <1>2 DEF Put, Outcomes, P, Note
  <2>2. dir'[s] = DirEntry(name, new)
    BY <2>1 DEF TypeOK, TypeVolume, Directory
  <2>3. s \in Heads' /\ dir'[s].first = new
    BY <1>1, <2>2, LinkValues DEF Heads, Live, DirEntry
  <2>4. Accounted(new)'
    BY <1>1, <2>3, HeadAccounts, AlongHas
  <2>5. ~Live(dir[s])
    BY <1>2 DEF IsFirstVacant, Vacant, Live
  <2>6. NoLoss'
    BY <1>1, <2>1, <2>4, <2>5, LossEntry, LeakParts
  <2> QED BY <1>2, <2>6, NoTail, LeakParts DEF at
<1>3. CASE fat_set_entry(new, FREE, "full") /\ UNCHANGED dir
  <2>1. P' = [P EXCEPT ![new] = FREE] /\ at' = "full"
    BY <1>1, <1>3, SetEffect DEF Returns, FREE
  <2>2. Differ(P, P', new) /\ P'[new] = FREE
    BY <1>1, <2>1, Primary DEF Differ
  <2>3. clean' => clean
    BY <1>3 DEF fat_set_entry, SetCopy, Note
  <2>4. NoLoss'
    BY <1>1, <1>3, <2>2, <2>3, LossTable, LeakParts DEF Loose
  <2> QED BY <2>1, <2>4, NoTail, LeakParts
<1> QED BY <1>2, <1>3 DEF MkEntry

\* An entry is replaced by one without a chain, and the old chain is to be freed.
LEMMA LeakOrphan ==
    ASSUME TypeOK, LeakInv, at = "idle", clean' => clean,
           NEW s \in Slots, Live(dir[s]), NEW e, dir' = [dir EXCEPT ![s] = e], P' = P,
           cur' = dir[s].first, pc' = "free"
    PROVE  LeakInv'
<1>1. at' = "free" /\ Held = {}
  BY HeldNow DEF at
<1>2. \A c \in Along(P', dir[s].first) : Accounted(c)'
  BY <1>1, HeldNext, HeldAccounts
<1>3. NoLoss'
  BY <1>1, <1>2, LossEntry, LeakParts
<1> QED BY <1>1, <1>3, NoTail, LeakParts

LEMMA LeakRmdir ==
    ASSUME TypeOK, LeakInv, WriteFaults = FALSE, NEW n, remove_dir(n)
    PROVE  LeakInv'
<1>1. CASE \E code : Refuse(code)
  BY <1>1, LeakRefuse DEF remove_dir, Call
<1>2. ASSUME NEW s \in Slots, IsHit(s, n), PutSlot(s, Blank("deleted"), "free", "free"),
             cur' = dir[s].first, UNCHANGED fat
      PROVE  LeakInv'
  <2>1. /\ dir' = [dir EXCEPT ![s] = Blank("deleted")] /\ P' = P /\ pc' = "free"
        /\ Live(dir[s]) /\ (clean' => clean)
    BY <1>2 DEF PutSlot, Outcomes, Put, P, Note, IsHit, Hits
  <2> QED BY <1>2, <2>1, LeakOrphan DEF remove_dir, Call, at
<1> QED BY <1>1, <1>2 DEF remove_dir

\* An entry without a chain is put into a free slot, or over such a one.
LEMMA LossPut ==
    ASSUME TypeOK, LeakInv, at = "idle", clean' => clean,
           NEW s \in Slots, Vacant(dir[s]), NEW e, dir' = [dir EXCEPT ![s] = e], P' = P
    PROVE  NoLoss'
<1>1. ~Live(dir[s]) /\ Held = {}
  BY HeldNow DEF Vacant, Live
<1> QED BY <1>1, LossEntry, LeakParts

LEMMA LeakCreate ==
    ASSUME TypeOK, LeakInv, WriteFaults = FALSE, NEW n, fs_create_file(n)
    PROVE  LeakInv'
<1>1. CASE \E code : Refuse(code)
  BY <1>1, LeakRefuse DEF fs_create_file, Call
<1>2. ASSUME NEW s \in Slots, IsFirstVacant(s),
             PutSlot(s, FileEntry(n, 0, 0), "return", "return"), UNCHANGED fat
      PROVE  LeakInv'
  <2>1. /\ dir' = [dir EXCEPT ![s] = FileEntry(n, 0, 0)] /\ P' = P /\ at' = "return"
        /\ at = "idle" /\ (clean' => clean)
    BY <1>2 DEF PutSlot, Outcomes, Put, P, Note, fs_create_file, Call, at
  <2>2. NoLoss'
    BY <1>2, <2>1, LossPut DEF IsFirstVacant
  <2> QED BY <2>1, <2>2, NoTail, LeakParts
<1> QED BY <1>1, <1>2 DEF fs_create_file

LEMMA LeakStartWrite ==
    ASSUME TypeOK, LeakInv, WriteFaults = FALSE, NEW n, NEW b, StartWrite(n, b)
    PROVE  LeakInv'
<1>1. CASE \E code : Refuse(code)
  BY <1>1, LeakRefuse DEF StartWrite, Call
<1>2. at = "idle" /\ first = 0
  BY DEF StartWrite, Call, at, TypeOK, TypeWork
<1>3. ASSUME NEW s \in Slots, IsHit(s, n), PutSlot(s, FileEntry(n, 0, 0), "free", "return"),
             cur' = dir[s].first, UNCHANGED fat
      PROVE  LeakInv'
  <2>1. /\ dir' = [dir EXCEPT ![s] = FileEntry(n, 0, 0)] /\ P' = P /\ pc' = "free"
        /\ Live(dir[s]) /\ (clean' => clean)
    BY <1>3 DEF PutSlot, Outcomes, Put, P, Note, IsHit, Hits
  <2> QED BY <1>2, <1>3, <2>1, LeakOrphan
<1>4. ASSUME NEW s \in Slots, IsFirstVacant(s),
             PutSlot(s, FileEntry(n, 0, 0), "alloc", "return"),
             UNCHANGED <<fat, chain>>, op' = "write"
      PROVE  LeakInv'
  <2>1. /\ dir' = [dir EXCEPT ![s] = FileEntry(n, 0, 0)] /\ P' = P /\ (clean' => clean)
    BY <1>4 DEF PutSlot, Outcomes, Put, P, Note
  <2>2. NoLoss'
    BY <1>2, <1>4, <2>1, LossPut DEF IsFirstVacant
  <2>3. TailHeld'
    BY <1>2, <1>4 DEF TailHeld, chain
  <2> QED BY <2>2, <2>3, LeakParts
<1> QED BY <1>1, <1>3, <1>4 DEF StartWrite, Call

LEMMA LeakAppend ==
    ASSUME TypeOK, LeakInv, WriteFaults = FALSE, NEW n, NEW b, fs_append_file(n, b)
    PROVE  LeakInv'
<1>1. CASE StartWrite(n, b)
  BY <1>1, LeakStartWrite
<1>2. CASE Call("append", n, b) /\ \E code : Refuse(code)
  BY <1>2, LeakRefuse DEF Call
<1>3. ASSUME Call("append", n, b), NEW s \in Slots, NEW l \in Clusters, StartAppend(s, l, b)
      PROVE  LeakInv'
  <2>1. /\ P' = P /\ UNCHANGED <<dir, first>> /\ pc' = "alloc" /\ last' = l /\ pos' = s
        /\ l \in Chain(dir[s].first) /\ (clean' => clean)
    BY <1>3 DEF StartAppend, Outcomes, P, Note
  <2>2. first = 0 /\ Held = {}
    BY <1>3, HeldNow DEF Call, at, TypeOK, TypeWork
  <2>3. l \in Chain(dir[pos].first)'
    BY <2>1, AlongTable
  <2>4. TailHeld'
    BY <2>1, <2>2, <2>3 DEF TailHeld
  <2> QED BY <2>1, <2>2, <2>4, LossSame, LeakParts
<1> QED BY <1>1, <1>2, <1>3 DEF fs_append_file

LEMMA LeakFreeOne ==
    ASSUME TypeOK, ChainsInv, LeakInv, WriteFaults = FALSE, FreeOne
    PROVE  LeakInv'
<1>1. cur \in Clusters /\ Loose(cur)
  BY LinkValues DEF FreeOne, TypeOK, TypeWork, ChainsInv, CurHeld, at, Loose
<1>2. P' = [P EXCEPT ![cur] = FREE] /\ at' = "free" /\ at = "free"
  BY <1>1, SetEffect DEF FreeOne, Returns, at, FREE
<1>3. cur' = P[cur] /\ UNCHANGED dir /\ (clean' => clean)
  BY DEF FreeOne, get_next_cluster, P, fat_set_entry, SetCopy, Note
<1>4. Differ(P, P', cur) /\ P'[cur] = FREE
  BY <1>1, <1>2, Primary DEF Differ
<1>5. \A c \in Held : P'[c] # FREE => Accounted(c)'
  <2>1. Held = Along(P, cur) /\ Held' = Along(P', P[cur])
    BY <1>2, <1>3, HeldNow, HeldNext
  <2> QED BY <1>1, <1>4, <2>1, AlongBehead, HeldAccounts
<1>6. NoLoss'
  BY <1>1, <1>3, <1>4, <1>5, LossTable, LeakParts DEF Loose
<1> QED BY <1>2, <1>6, NoTail, LeakParts

LEMMA LeakFreeDone ==
    ASSUME TypeOK, ChainsInv, LeakInv, FreeDone
    PROVE  LeakInv'
<1>1. /\ P' = P /\ UNCHANGED <<dir, op, first, r>> /\ at = "free" /\ (clean' => clean)
      /\ cur \notin Clusters
  BY LinkValues DEF FreeDone, disk, call, chain, P, at, TypeOK, TypeWork
<1>2. Held = {}
  BY <1>1, HeldNow, AlongNone
<1>3. NoLoss'
  BY <1>1, <1>2, LossSame, LeakParts
<1>4. at' = "return" \/ (at' = "alloc" /\ op = "write" /\ r = FS_OK)
  BY DEF FreeDone, at
<1>5. TailHeld'
  BY <1>1, <1>4 DEF TailHeld, ChainsInv, CurHeld
<1> QED BY <1>3, <1>5, LeakParts

LEMMA LeakAlloc ==
    ASSUME TypeOK, ChainsInv, LeakInv, WriteFaults = FALSE, Alloc
    PROVE  LeakInv'
<1>1. UNCHANGED <<dir, op, pos, last, prev, first>> /\ at = "alloc"
  BY DEF Alloc, call, at
<1>2. CASE pc' = "fail" /\ UNCHANGED <<fat, clean>>
  <2>1. P' = P /\ at' = "fail"
    BY <1>2 DEF P, at
  <2>2. Held' = Held
    BY <1>1, <2>1, HeldNow, HeldNext
  <2>3. TailHeld'
    BY <1>1, <2>1, LeakParts, AlongTable DEF TailHeld
  <2> QED BY <1>1, <1>2, <2>1, <2>2, <2>3, LossSame, HeldAccounts, LeakParts
<1>3. ASSUME NEW c \in Clusters, IsFirstFree(c), fat_set_entry(c, EOC, "link"), new' = c
      PROVE  LeakInv'
  <2>1. P' = [P EXCEPT ![c] = EOC] /\ at' = "link" /\ P[c] = FREE
    BY <1>3, SetEffect DEF Returns, IsFirstFree, P
  <2>2. Differ(P, P', c) /\ P[c] \notin Clusters /\ (clean' => clean)
    BY <1>3, <2>1, Primary DEF Differ, fat_set_entry, SetCopy, Note
  <2>3. TailHeld'
    BY <1>1, <2>1, <2>2, TailGrows, LeakParts
  <2>4. \A d \in Held \cup {c} : Accounted(d)'
    <3>1. Held = Along(P, first) /\ Held' = {c} \cup Along(P', first)
      BY <1>1, <1>3, <2>1, HeldNow, HeldNext
    <3> QED BY <2>2, <3>1, HeldAccounts, AlongGrow
  <2>5. NoLoss'
    BY <1>1, <2>2, <2>4, LossTable, LeakParts
  <2> QED BY <2>3, <2>5, LeakParts
<1> QED BY <1>2, <1>3 DEF Alloc

LEMMA LeakLink ==
    ASSUME TypeOK, ChainsInv, DirInv, LeakInv, WriteFaults = FALSE, Link
    PROVE  LeakInv'
<1>1. UNCHANGED <<dir, op, pos, last, new, prev, first>> /\ at = "link"
  BY DEF Link, call, chain, at
<1>2. new \in Clusters
  BY <1>1 DEF ChainsInv, NewHeld, Taken
<1>3. CASE prev = 0 /\ pc' = "data" /\ UNCHANGED <<fat, clean>>
  <2>1. P' = P /\ at' = "data"
    BY <1>3 DEF P, at
  <2>2. Held' = Held
    BY <1>1, <2>1, HeldNow, HeldNext
  <2>3. TailHeld'
    BY <1>1, <2>1, LeakParts, AlongTable DEF TailHeld
  <2> QED BY <1>1, <1>3, <2>1, <2>2, <2>3, LossSame, HeldAccounts, LeakParts
<1>4. CASE prev # 0 /\ fat_set_entry(prev, new, "data")
  <2>1. prev \in Clusters /\ P[prev] = EOC
    BY <1>1, <1>4 DEF ChainsInv, ChainHeld, Taken, P
  <2>2. P' = [P EXCEPT ![prev] = new] /\ at' = "data"
    BY <1>2, <1>4, <2>1, SetEffect DEF Returns
  <2>3. Differ(P, P', prev) /\ P[prev] \notin Clusters /\ (clean' => clean)
    BY <1>4, <2>1, <2>2, Primary, LinkValues DEF Differ, fat_set_entry, SetCopy, Note
  <2>4. TailHeld'
    BY <1>1, <2>2, <2>3, TailGrows, LeakParts
  <2>5. \A d \in Held : Accounted(d)'
    BY <1>1, <2>2, <2>3, HeldNow, HeldNext, HeldAccounts, AlongGrow
  <2>6. NoLoss'
    <3>1. CASE first # 0
      <4>1. prev \in Held
        BY <1>1, <3>1, HeldNow, AlongTable, LeakParts DEF TailHeld
      <4> QED BY <1>1, <2>1, <2>3, <2>5, <4>1, LossTable, LeakParts
    <3>2. CASE first = 0
      <4>1. prev = last /\ op = "append"
        BY <1>1, <1>4, <3>2 DEF ChainsInv, ChainHeld
      <4>2. prev \in Chain(dir[pos].first)'
        BY <1>1, <2>2, <2>4, <4>1 DEF TailHeld
      <4>3. pos \in Slots /\ Live(dir[pos])
        BY <1>4, <4>1 DEF Link, DirInv, PosHeld, Running, Live
      <4>4. dir[pos].first \in Clusters
        BY <4>2, <1>1, AlongTable, AlongNone
      <4>5. pos \in Heads'
        BY <1>1, <4>3, <4>4, LinkValues DEF Heads
      <4>6. Accounted(prev)'
        BY <1>1, <4>2, <4>5, AlongTable, HeadAccounts
      <4> QED BY <1>1, <2>1, <2>3, <2>5, <4>6, LossTable, LeakParts
    <3> QED BY <3>1, <3>2
  <2> QED BY <2>4, <2>6, LeakParts
<1> QED BY <1>3, <1>4 DEF Link

LEMMA LeakWriteData ==
    ASSUME TypeOK, ChainsInv, LeakInv, WriteFaults = FALSE, WriteData
    PROVE  LeakInv'
<1>1. /\ P' = P /\ UNCHANGED <<dir, op, pos, last>> /\ at = "data" /\ at' = "alloc"
      /\ first' = (IF first = 0 THEN new ELSE first) /\ prev' = new /\ (clean' => clean)
  BY DEF WriteData, Outcomes, call, at, P, Note
<1>2. new \in Clusters
  BY <1>1 DEF ChainsInv, NewHeld, Taken
<1>3. new \in Along(P, first')
  <2>1. CASE first = 0
    BY <1>1, <1>2, <2>1, AlongHas
  <2>2. CASE first # 0
    <3>1. prev \in Along(P, first)
      BY <1>1, <2>2, AlongTable, LeakParts DEF TailHeld
    <3>2. P[prev] = new
      BY <1>1, <2>2 DEF ChainsInv, NewHeld, ChainHeld, P
    <3> QED BY <1>1, <1>2, <2>2, <3>1, <3>2, AlongClosed DEF Closed
  <2> QED BY <2>1, <2>2
<1>4. TailHeld'
  BY <1>1, <1>3, AlongTable, LeakParts DEF TailHeld
<1>5. \A c \in Held : c \in Held'
  <2>1. Held = {new} \cup Along(P, first) /\ Held' = Along(P, first')
    BY <1>1, HeldNow, HeldNext
  <2>2. Along(P, first) \subseteq Along(P, first')
    BY <1>1, LinkValues, AlongNone
  <2> QED BY <1>3, <2>1, <2>2
<1>6. NoLoss'
  BY <1>1, <1>5, LossSame, HeldAccounts, LeakParts
<1> QED BY <1>4, <1>6, LeakParts

LEMMA LeakCleanup ==
    ASSUME TypeOK, ChainsInv, LeakInv, WriteFaults = FALSE, Cleanup
    PROVE  LeakInv'
<1>1. UNCHANGED <<dir, op, last, prev, first>> /\ cur' = first /\ at = "fail"
  BY DEF Cleanup, call, chain, at
<1>2. CASE last = 0 /\ pc' = "free" /\ UNCHANGED <<fat, clean>>
  <2>1. P' = P /\ at' = "free"
    BY <1>2 DEF P, at
  <2>2. Held' = Held
    BY <1>1, <2>1, HeldNow, HeldNext
  <2> QED BY <1>1, <1>2, <2>1, <2>2, NoTail, LossSame, HeldAccounts, LeakParts
<1>3. CASE last # 0 /\ fat_set_entry(last, EOC, "free")
  <2>1. last \in Clusters /\ P[last] \in {EOC, first}
    BY <1>1, <1>3 DEF ChainsInv, ChainHeld, Taken, P
  <2>2. P' = [P EXCEPT ![last] = EOC] /\ at' = "free" /\ (clean' => clean)
    BY <1>3, <2>1, SetEffect DEF Returns, fat_set_entry, SetCopy, Note
  <2>3. Differ(P, P', last) /\ EOC \notin Clusters
    BY <2>1, <2>2, Primary, LinkValues DEF Differ
  <2>4. Held = Along(P, first) /\ Held' = Along(P', first)
    BY <1>1, <2>2, HeldNow, HeldNext
  <2>5. \A c : Along(P, c) \subseteq Along(P', c) \cup Along(P', first)
    BY <2>1, <2>3, AlongCut, AlongNone
  <2>6. ASSUME NEW s \in Heads, NEW c \in Chain(dir[s].first)
        PROVE  Accounted(c)'
    <3>1. s \in Heads' /\ dir'[s] = dir[s] /\ c \in Along(P, dir[s].first)
      BY <1>1, <2>6, AlongTable DEF Heads
    <3> QED BY <2>4, <2>5, <3>1, HeadAccounts, HeldAccounts
  <2>7. \A c \in Held : Accounted(c)'
    BY <2>4, <2>5, HeldAccounts
  <2>8. \A c \in Clusters : ~(P[c] = FREE /\ P'[c] # FREE)
    BY <2>1, <2>3, <1>1, <1>3, Primary DEF Differ, ChainsInv, ChainHeld, Taken, P
  <2>9. NoLoss'
    BY <2>2, <2>6, <2>7, <2>8, LossStep, LeakParts
  <2> QED BY <2>2, <2>9, NoTail, LeakParts
<1> QED BY <1>2, <1>3 DEF Cleanup

LEMMA LeakCommit ==
    ASSUME TypeOK, ChainsInv, DirInv, LeakInv, WriteFaults = FALSE, Commit
    PROVE  LeakInv'
<1> DEFINE e == IF op = "append"
                THEN [dir[pos] EXCEPT !.size = @ + Len(arg)]
                ELSE [dir[pos] EXCEPT !.first = first, !.size = Len(arg)]
<1>1. /\ P' = P /\ dir' = [dir EXCEPT ![pos] = e] /\ at' = "return" /\ at = "alloc"
      /\ (clean' => clean)
  BY DEF Commit, PutSlot, Outcomes, Put, at, P, Note
<1>2. /\ op \in {"write", "append"} /\ pos \in Slots /\ dir[pos].kind = "file"
      /\ op = "write" => dir[pos].first = 0
  BY <1>1 DEF Commit, DirInv, PosHeld, Building, Running
<1>3. Held = Along(P, first)
  BY <1>1, HeldNow
<1>4. dir'[pos] = e
  BY <1>1, <1>2 DEF TypeOK, TypeVolume, Directory
<1>5. e.kind = "file" /\ e.first = IF op = "append" THEN dir[pos].first ELSE first
  BY <1>2 DEF TypeOK, TypeVolume, Directory
<1> HIDE DEF e
<1>6. first \in Clusters \/ Along(P, first) = {}
  BY AlongNone
<1>7. \A c \in Held \cup Along(P, dir[pos].first) : Accounted(c)'
  <2>1. CASE op = "write"
    <3>1. Along(P, dir[pos].first) = {}
      BY <1>2, <2>1, LinkValues, AlongNone
    <3>2. first \in Clusters => pos \in Heads'
      BY <1>2, <1>4, <1>5, <2>1, LinkValues DEF Heads, Live
    <3> QED BY <1>1, <1>3, <1>4, <1>5, <1>6, <2>1, <3>1, <3>2, HeadAccounts
  <2>2. CASE op = "append"
    <3>1. last \in Along(P, dir[pos].first)
      BY <1>1, <2>2, AlongTable, LeakParts DEF TailHeld
    <3>2. dir[pos].first \in Clusters
      BY <3>1, AlongNone
    <3>3. pos \in Heads'
      BY <1>2, <1>4, <1>5, <2>2, <3>2, LinkValues DEF Heads, Live
    <3>4. first \in Clusters => first \in Along(P, dir[pos].first)
      <4>1. first \in Clusters => P[last] = first
        BY <1>1, <2>2, LinkValues DEF ChainsInv, ChainHeld, P
      <4> QED BY <3>1, <4>1, AlongClosed DEF Closed
    <3>5. Along(P, first) \subseteq Along(P, dir[pos].first)
      BY <1>6, <3>4, AlongRest
    <3> QED BY <1>1, <1>3, <1>4, <1>5, <2>2, <3>3, <3>5, HeadAccounts
  <2> QED BY <1>2, <2>1, <2>2
<1>8. NoLoss'
  BY <1>1, <1>2, <1>7, LossEntry, LeakParts
<1> QED BY <1>1, <1>8, NoTail, LeakParts

\* The end of the call, of the program or of the power, and a boot.
LEMMA LeakEnding ==
    ASSUME LeakInv, MkFull \/ NotMounted \/ Return \/ Abort \/ PowerLoss \/ fs_init
    PROVE  LeakInv'
<1>1. P' = P /\ UNCHANGED dir
  BY DEF MkFull, NotMounted, Return, Abort, PowerLoss, fs_init, disk, P
<1>4. clean' => clean
  BY DEF MkFull, NotMounted, Return, Abort, PowerLoss, fs_init
<1>2. at' \in {"idle", "off", "return"}
  BY DEF MkFull, NotMounted, Return, Abort, PowerLoss, fs_init, at
<1>3. at \in {"idle", "off", "return", "full"} \/ ~clean'
  BY DEF MkFull, NotMounted, Return, Abort, PowerLoss, fs_init, Running, at
<1> QED BY <1>1, <1>2, <1>3, <1>4, LeakIdle

LEMMA LeakNext ==
    ASSUME TypeOK, ChainsInv, DirInv, LeakInv, WriteFaults = FALSE, [Next]_vars
    PROVE  LeakInv'
<1>1. CASE UNCHANGED vars
  BY <1>1 DEF vars, LeakInv, TailHeld, Accounted, Heads, Held, Chain, at
<1>2. CASE Step
  <2>1. CASE NextCopy \/ MkDots \/ MkEntry \/ MkFull \/ Return
    BY <2>1, LeakMirror, LeakMkDots, LeakMkEntry, LeakEnding
  <2>2. CASE FreeOne \/ FreeDone
    BY <2>2, LeakFreeOne, LeakFreeDone
  <2>3. CASE Alloc \/ Link \/ WriteData
    BY <2>3, LeakAlloc, LeakLink, LeakWriteData
  <2>4. CASE Unalloc
    BY <2>4 DEF Unalloc, ChainsInv
  <2>5. CASE Cleanup \/ Commit
    BY <2>5, LeakCleanup, LeakCommit
  <2> QED BY <1>2, <2>1, <2>2, <2>3, <2>4, <2>5 DEF Step
<1>3. CASE Request
  <2>1. ASSUME NEW n \in Names, make_dir(n) \/ remove_dir(n) \/ fs_create_file(n)
        PROVE  LeakInv'
    BY <2>1, LeakMkdir, LeakRmdir, LeakCreate
  <2>2. ASSUME NEW n \in Names, NEW b \in Buffers, fs_write_file(n, b) \/ fs_append_file(n, b)
        PROVE  LeakInv'
    BY <2>2, LeakStartWrite, LeakAppend DEF fs_write_file
  <2> QED BY <1>3, <2>1, <2>2, LeakEnding DEF Request
<1>4. CASE Abort \/ PowerLoss \/ fs_init
  BY <1>4, LeakEnding
<1> QED BY <1>1, <1>2, <1>3, <1>4 DEF Next

\* Between two calls every allocated cluster belongs to the root directory or to
\* the chain of an entry, as long as nothing was cut short: every error path of
\* fs.c gives back what it took, when writes do not fail.
THEOREM NothingLeaks ==
    ASSUME WriteFaults = FALSE
    PROVE  Spec => []NoLeak
<1>1. Init => TypeOK /\ ChainsInv /\ DirInv /\ LeakInv
  BY TypeInit, InitChains, DirInit, LeakInit
<1>2. TypeOK /\ ChainsInv /\ DirInv /\ LeakInv /\ [Next]_vars
         => TypeOK' /\ ChainsInv' /\ DirInv' /\ LeakInv'
  BY TypeNext, ChainsNext, DirNext, LeakNext
<1>3. LeakInv => NoLeak
  <2> SUFFICES ASSUME LeakInv, clean, pc \in {"idle", "return"},
                      NEW c \in Clusters, fat[1][c] # FREE
               PROVE  c \in RootChain \cup UNION {Chain(dir[s].first) : s \in Heads}
    BY DEF NoLeak
  <2>1. Held = {}
    BY HeldNow DEF at
  <2>2. Accounted(c)
    BY DEF LeakInv
  <2> QED BY <2>1, <2>2 DEF Accounted
<1> QED BY <1>1, <1>2, <1>3, PTL DEF Spec

-----------------------------------------------------------------------------
(* Directories are written before they are led to.                         *)

InitInv == DirInitialised /\ DotsHeld

LEMMA InitInit == Init => InitInv
<1> SUFFICES ASSUME Init PROVE InitInv
  OBVIOUS
<1>1. PICK hosted \in SUBSET {HostDir}, n \in Names :
          /\ hosted \subseteq Clusters
          /\ data = [c \in Clusters |-> IF c \in hosted THEN HostFiles
                                        ELSE [i \in 1..ClusterBytes |-> Zero]]
          /\ dir = [s \in Slots |-> IF s = 1 THEN Blank("skip")
                                    ELSE IF s = 2 /\ hosted # {} THEN DirEntry(n, HostDir)
                                    ELSE Blank("end")]
  BY DEF Init
<1>2. \A s \in Slots : dir[s].kind = "dir" => hosted = {HostDir} /\ dir[s].first = HostDir
  BY <1>1 DEF Blank, DirEntry
<1>3. HostDir \in hosted => data[HostDir] = HostFiles /\ HostDir # 0
  BY <1>1, LinkValues
<1> QED BY <1>2, <1>3 DEF Init, InitInv, DirInitialised, DotsHeld

\* A step that writes neither entries nor clusters.
LEMMA InitSame ==
    ASSUME InitInv, UNCHANGED <<dir, data>>, pc' # "mkEntry"
    PROVE  InitInv'
BY DEF InitInv, DirInitialised, DotsHeld

\* An entry that is written leads to a directory, if it is one.
LEMMA InitEntry ==
    ASSUME TypeOK, InitInv, UNCHANGED data, pc' # "mkEntry",
           NEW s \in Slots, NEW e, dir' = [dir EXCEPT ![s] = e],
           e.kind = "dir" => e.first # 0 /\ data[e.first] \in {Dots, HostFiles}
    PROVE  InitInv'
<1>1. \A t \in Slots : dir'[t] = IF t = s THEN e ELSE dir[t]
  BY DEF TypeOK, TypeVolume, Directory
<1> QED BY <1>1 DEF InitInv, DirInitialised, DotsHeld

\* A cluster that is written is no directory's.
LEMMA InitData ==
    ASSUME TypeOK, InitInv, UNCHANGED dir, pc' # "mkEntry",
           NEW c, NEW b, data' = [data EXCEPT ![c] = b],
           \A s \in Slots : dir[s].kind = "dir" => dir[s].first # c
    PROVE  InitInv'
<1>1. \A d \in Clusters : d # c => data'[d] = data[d]
  BY DEF TypeOK, TypeVolume
<1>2. \A s \in Slots : dir[s].kind = "dir" => dir[s].first \in Clusters
  BY DEF InitInv, DirInitialised, TypeOK, TypeVolume, Directory
<1> QED BY <1>1, <1>2 DEF InitInv, DirInitialised, DotsHeld

\* A chain does not run through the head of another.
LEMMA NoForeignHead ==
    ASSUME TypeOK, Chains, NEW s \in Heads, NEW t \in Heads,
           dir[t].first \in Chain(dir[s].first)
    PROVE  s = t
<1> SUFFICES ASSUME s # t PROVE FALSE
  OBVIOUS
<1> DEFINE h == dir[t].first
           S == Clusters \ {h}
<1>1. dir[s].first # h /\ \A x \in Clusters : P[x] # h
  BY DEF Chains, NoCrossLink, P
<1>2. Closed(P, S)
  BY <1>1 DEF Closed
<1>3. Along(P, dir[s].first) \subseteq S
  BY <1>1, <1>2, AlongLeast
<1> QED BY <1>3, AlongTable

LEMMA InitMkDots == ASSUME TypeOK, ChainsInv, InitInv, WriteFaults = FALSE, MkDots PROVE InitInv'
<1>1. data' = [data EXCEPT ![new] = Dots] /\ UNCHANGED <<dir, new>>
  BY DEF MkDots, Outcomes, Put, chain
<1>2. new \in Clusters
  BY DEF MkDots, ChainsInv, NewHeld, Taken, at
<1>3. data'[new] = Dots /\ \A d \in Clusters : data'[d] \in {data[d], Dots}
  BY <1>1, <1>2 DEF TypeOK, TypeVolume
<1>4. \A s \in Slots : dir[s].kind = "dir" => dir[s].first \in Clusters
  BY DEF InitInv, DirInitialised, TypeOK, TypeVolume, Directory
<1> QED BY <1>1, <1>3, <1>4 DEF InitInv, DirInitialised, DotsHeld

LEMMA InitMkEntry == ASSUME TypeOK, ChainsInv, InitInv, WriteFaults = FALSE, MkEntry PROVE InitInv'
<1>1. ASSUME NEW s \in Slots, NEW w \in Outcomes,
             dir' = Put(dir, s, DirEntry(name, new), w), pc' = "return"
      PROVE  InitInv'
  <2>1. dir' = [dir EXCEPT ![s] = DirEntry(name, new)] /\ UNCHANGED data
    BY <1>1 DEF MkEntry, Put, Outcomes
  <2>2. DirEntry(name, new).first = new /\ new # 0 /\ data[new] = Dots
    BY LinkValues DEF DirEntry, MkEntry, ChainsInv, NewHeld, Taken, at, InitInv, DotsHeld
  <2> QED BY <1>1, <2>1, <2>2, InitEntry
<1>2. CASE fat_set_entry(new, FREE, "full") /\ UNCHANGED dir
  <2>1. pc' # "mkEntry"
    BY <1>2 DEF fat_set_entry, SetCopy, OnFail
  <2> QED BY <1>2, <2>1, InitSame DEF MkEntry
<1> QED BY <1>1, <1>2 DEF MkEntry

LEMMA InitWriteData ==
    ASSUME TypeOK, ChainsInv, InitInv, WriteFaults = FALSE, WriteData
    PROVE  InitInv'
<1>1. data' = [data EXCEPT ![new] = NextBlock] /\ UNCHANGED dir /\ pc' # "mkEntry"
  BY DEF WriteData, Outcomes, Put
<1>2. NoHead(new)
  BY DEF WriteData, ChainsInv, NewHeld, at
<1> QED BY <1>1, <1>2, InitData DEF NoHead, Live

LEMMA InitStartWrite ==
    ASSUME TypeOK, InitInv, WriteFaults = FALSE, NEW n, NEW b, StartWrite(n, b)
    PROVE  InitInv'
<1>1. CASE \E code : Refuse(code)
  BY <1>1, InitSame DEF Refuse, disk
<1>2. ASSUME NEW s \in Slots, NEW ok \in {"free", "alloc"},
             PutSlot(s, FileEntry(n, 0, 0), ok, "return"), UNCHANGED data
      PROVE  InitInv'
  BY <1>2, InitEntry DEF PutSlot, Outcomes, Put, FileEntry
<1> QED BY <1>1, <1>2 DEF StartWrite

LEMMA InitAppend ==
    ASSUME TypeOK, ChainsInv, InitInv, WriteFaults = FALSE, NEW n, NEW b, fs_append_file(n, b)
    PROVE  InitInv'
<1>1. CASE StartWrite(n, b)
  BY <1>1, InitStartWrite
<1>2. CASE \E code : Refuse(code)
  BY <1>2, InitSame DEF Refuse, disk
<1>3. ASSUME NEW s \in Slots, dir[s].kind = "file", dir[s].first # 0,
             NEW l \in Clusters, StartAppend(s, l, b)
      PROVE  InitInv'
  <2>1. UNCHANGED dir /\ pc' # "mkEntry" /\ l \in Chain(dir[s].first)
    BY <1>3 DEF StartAppend
  <2>2. data' = data \/ data' = [data EXCEPT ![l] = Filled(l, Used(s), b)]
    BY <1>3 DEF StartAppend, Outcomes, Put
  <2>3. ASSUME NEW t \in Slots, dir[t].kind = "dir", dir[t].first = l
        PROVE  FALSE
    <3>1. s \in Heads /\ t \in Heads
      BY <1>3, <2>3, LinkValues DEF Heads, Live
    <3> QED BY <1>3, <2>1, <2>3, <3>1, NoForeignHead DEF ChainsInv, Chains
  <2> QED BY <2>1, <2>2, <2>3, InitSame, InitData
<1> QED BY <1>1, <1>2, <1>3 DEF fs_append_file

LEMMA InitCommit == ASSUME TypeOK, DirInv, InitInv, WriteFaults = FALSE, Commit PROVE InitInv'
<1> DEFINE e == IF op = "append"
                THEN [dir[pos] EXCEPT !.size = @ + Len(arg)]
                ELSE [dir[pos] EXCEPT !.first = first, !.size = Len(arg)]
<1>1. /\ dir' = [dir EXCEPT ![pos] = e] /\ pc' = "return" /\ UNCHANGED data
  BY DEF Commit, PutSlot, Outcomes, Put
<1>2. pos \in Slots /\ dir[pos].kind = "file"
  BY DEF Commit, DirInv, PosHeld, Building, Running, at
<1>3. e.kind = "file"
  BY <1>2 DEF TypeOK, TypeVolume, Directory
<1> QED BY <1>1, <1>2, <1>3, InitEntry

LEMMA InitNext ==
    ASSUME TypeOK, ChainsInv, DirInv, InitInv, WriteFaults = FALSE, [Next]_vars
    PROVE  InitInv'
<1>1. CASE UNCHANGED vars
  BY <1>1 DEF vars, InitInv, DirInitialised, DotsHeld
<1>2. ASSUME NEW f, NEW c, NEW v, NEW to \in Returns, NEW w, SetCopy(f, c, v, to, w)
      PROVE  pc' # "mkEntry"
  BY <1>2 DEF Returns, SetCopy, OnFail
<1>3. CASE Step
  <2>1. CASE NextCopy
    <3>1. job.ret \in Returns
      BY <2>1 DEF NextCopy, TypeOK, TypeFlow, Job
    <3> QED BY <1>2, <2>1, <3>1, InitSame DEF NextCopy
  <2>2. CASE MkDots \/ MkEntry \/ WriteData \/ Commit
    BY <2>2, InitMkDots, InitMkEntry, InitWriteData, InitCommit
  <2>3. CASE MkFull \/ FreeDone \/ Return
    BY <2>3, InitSame DEF MkFull, FreeDone, Return, disk
  <2>4. CASE FreeOne \/ Alloc \/ Link \/ Unalloc \/ Cleanup
    <3>1. pc' # "mkEntry"
      BY <1>2, <2>4 DEF FreeOne, Alloc, Link, Unalloc, Cleanup, fat_set_entry, Returns
    <3> QED BY <2>4, <3>1, InitSame DEF FreeOne, Alloc, Link, Unalloc, Cleanup
  <2> QED BY <1>3, <2>1, <2>2, <2>3, <2>4 DEF Step
<1>4. CASE Request
  <2>1. ASSUME NEW code, Refuse(code)
        PROVE  InitInv'
    BY <2>1, InitSame DEF Refuse, disk
  <2>2. CASE NotMounted
    BY <2>2, InitSame DEF NotMounted, disk
  <2>3. ASSUME NEW n \in Names, make_dir(n)
        PROVE  InitInv'
    <3>1. ASSUME NEW c, fat_set_entry(c, EOC, "mkDots"), UNCHANGED <<dir, data>>
          PROVE  InitInv'
      BY <1>2, <3>1, InitSame DEF fat_set_entry, Returns
    <3> QED BY <2>1, <2>3, <3>1 DEF make_dir
  <2>4. ASSUME NEW n \in Names, remove_dir(n)
        PROVE  InitInv'
    <3>1. ASSUME NEW s \in Slots, PutSlot(s, Blank("deleted"), "free", "free"), UNCHANGED data
          PROVE  InitInv'
      BY <3>1, InitEntry DEF PutSlot, Outcomes, Put, Blank
    <3> QED BY <2>1, <2>4, <3>1 DEF remove_dir
  <2>5. ASSUME NEW n \in Names, fs_create_file(n)
        PROVE  InitInv'
    <3>1. ASSUME NEW s \in Slots, UNCHANGED data,
                 PutSlot(s, FileEntry(n, 0, 0), "return", "return")
          PROVE  InitInv'
      BY <3>1, InitEntry DEF PutSlot, Outcomes, Put, FileEntry
    <3> QED BY <2>1, <2>5, <3>1 DEF fs_create_file
  <2>6. ASSUME NEW n \in Names, NEW b \in Buffers, fs_write_file(n, b) \/ fs_append_file(n, b)
        PROVE  InitInv'
    BY <2>6, InitStartWrite, InitAppend DEF fs_write_file
  <2> QED BY <1>4, <2>2, <2>3, <2>4, <2>5, <2>6 DEF Request
<1>5. CASE Abort \/ PowerLoss \/ fs_init
  BY <1>5, InitSame DEF Abort, PowerLoss, fs_init, disk
<1> QED BY <1>1, <1>3, <1>4, <1>5 DEF Next

\* A directory entry always leads to a cluster that holds a directory: make_dir
\* writes the dot entries first, and no write or append ever touches them (fs.c,
\* when writes do not fail).
THEOREM DirectoriesInitialised ==
    ASSUME WriteFaults = FALSE
    PROVE  Spec => []DirInitialised
<1>1. Init => TypeOK /\ ChainsInv /\ DirInv /\ InitInv
  BY TypeInit, InitChains, DirInit, InitInit
<1>2. TypeOK /\ ChainsInv /\ DirInv /\ InitInv /\ [Next]_vars
         => TypeOK' /\ ChainsInv' /\ DirInv' /\ InitInv'
  BY TypeNext, ChainsNext, DirNext, InitNext
<1>3. InitInv => DirInitialised
  BY DEF InitInv
<1> QED BY <1>1, <1>2, <1>3, PTL DEF Spec
=============================================================================
