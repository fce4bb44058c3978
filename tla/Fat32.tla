------------------------------- MODULE Fat32 -------------------------------
(***************************************************************************)
(* The FAT32 driver of src/src/fs.c: directory and file operations on the  *)
(* root directory, as the sequence of sector writes each of them makes.    *)
(*                                                                         *)
(* The kernel is single-threaded, so what can fall between two writes is   *)
(* only the end of the operation: the power goes (PowerLoss), or the user  *)
(* presses Ctrl-C and the keyboard handler longjmps out of the program     *)
(* that made the system call (Abort).  One action is therefore one sector  *)
(* write together with everything the code reads and computes since the    *)
(* write before it.                                                        *)
(*                                                                         *)
(* Abstracted: sectors inside a cluster, the upper four bits of a FAT      *)
(* entry (kept by the code), time stamps (zeroed), the 8.3 form of a name  *)
(* (Names are the results of format_fat_name), and the position of a slot  *)
(* in the root chain (slots are numbered along it).                        *)
(***************************************************************************)
EXTENDS Integers, Sequences, FiniteSets

CONSTANTS NumClusters,   \* total_clusters: data clusters are 2..NumClusters+1
          NumRoot,       \* clusters in the root directory's chain
          NumFats,       \* num_fats
          NumSlots,      \* directory slots in the root chain
          ClusterBytes,  \* fs_cluster_size()
          Names,         \* 8.3 names
          Bytes,         \* values of a byte of a file
          Buffers,       \* what callers pass as (data, size)
          Ops,           \* the entry points that are called
          WriteFaults,   \* TRUE: ata_write_sector may fail
          Crashes        \* those that may be cut short

CHAIN_END   == 268435448      \* 0x0FFFFFF8
EntryPoints == {"mkdir", "rmdir", "create", "write", "append"}

ASSUME GeometryAssumption ==
    /\ NumRoot \in Nat \ {0}
    /\ NumClusters \in Nat /\ NumRoot <= NumClusters
    /\ NumClusters + 2 < CHAIN_END
    /\ NumFats \in Nat \ {0}
    /\ NumSlots \in Nat /\ NumSlots >= 2       \* a sector alone holds 16
    /\ ClusterBytes \in Nat \ {0}

ASSUME CallerAssumption ==
    /\ Buffers \subseteq Seq(Bytes)
    /\ {"zero", "dots", "hostfiles"} \cap Bytes = {}
    /\ "none" \notin Names
    /\ Ops \subseteq EntryPoints
    /\ WriteFaults \in BOOLEAN
    /\ Crashes \subseteq Ops

-----------------------------------------------------------------------------
FREE == 0
EOC  == 268435455             \* 0x0FFFFFFF

\* The loops' test of a table entry.
IsLink(v) == 2 <= v /\ v < CHAIN_END

Clusters    == 2..(NumClusters + 1)
RootCluster == 2                               \* root_cluster as mkfs.vfat sets it
RootChain   == 2..(NumRoot + 1)
Fats        == 1..NumFats
Slots       == 1..NumSlots

FS_OK          == 0
FS_ERR_NOFS    == -1
FS_ERR_EXISTS  == -2
FS_ERR_NOTFOUND == -3
FS_ERR_NOTDIR  == -4
FS_ERR_NOTEMPTY == -5
FS_ERR_NOSPACE == -6
FS_ERR_IO      == -7
FS_ERR_ISDIR   == -8
FS_ERR_DIRFULL == -9
Results == -9..0

\* What a cluster holds: bytes of a file (Zero pads the last cluster), a
\* directory with only its dot entries, or one a host put files into.
Zero      == "zero"
Dots      == [i \in 1..ClusterBytes |-> "dots"]
HostFiles == [i \in 1..ClusterBytes |-> "hostfiles"]
Block     == [1..ClusterBytes -> Bytes \cup {Zero, "dots", "hostfiles"}]

\* A slot of the root directory.  "skip" is a volume label or a long-name slot.
Kinds     == {"end", "deleted", "skip", "file", "dir"}
Slot      == [kind : Kinds, name : Names \cup {"none"}, first : Nat, size : Nat]
Blank(k)  == [kind |-> k, name |-> "none", first |-> 0, size |-> 0]
Live(e)   == e.kind \in {"file", "dir"}
Vacant(e) == e.kind \in {"end", "deleted"}

VARIABLES
    fat,       \* fat[f][c]: entry of cluster c in copy f of the table
    dir,       \* the root directory's slots
    data,      \* contents of the data clusters
    fs_ready,  \* the volume is mounted
    pc,        \* where the running operation stands
    op, name, arg,  \* the running call: entry point, 8.3 name, buffer
    pos,       \* dir_pos_t of the entry it works on (0: none)
    last,      \* fs_append_file's old last cluster (0: not appending)
    new,       \* cluster allocated and not yet linked or written
    prev,      \* tail of the chain under construction
    first,     \* *first_out: its head
    cur,       \* free_cluster_chain's cursor
    done,      \* bytes of arg already written
    job,       \* fat_set_entry's progress through the copies
    r,         \* result of the call so far
    clean      \* history: no operation was cut short, no write has failed

disk  == <<fat, dir, data>>
call  == <<op, name, arg>>
chain == <<new, prev, first, done>>
vars  == <<fat, dir, data, fs_ready, pc, op, name, arg, pos, last, new, prev,
           first, cur, done, job, r, clean>>

NoJob == [clus |-> 0, val |-> 0, copy |-> 0, ret |-> "none"]
Returns == {"mkDots", "full", "free", "link", "data", "fail"}

-----------------------------------------------------------------------------
(* Reading the volume: only the first copy of the table is ever read.      *)

get_next_cluster(c) == fat[1][c]

\* Fault: find_free_cluster takes the end of a chain for a free cluster.
LooksFree(c) == /\ c \in Clusters
                /\ ~IsLink(fat[1][c])
                /\ \A d \in Clusters : d < c => IsLink(fat[1][d])

IsFirstFree(c) == /\ c \in Clusters
                  /\ fat[1][c] = FREE
                  /\ \A d \in Clusters : d < c => fat[1][d] # FREE
NoFreeCluster == \A c \in Clusters : fat[1][c] # FREE

\* The clusters a walk along the table from c visits.
Chain(c) == {d \in Clusters :
               \A S \in SUBSET Clusters :
                  ( /\ c \in Clusters => c \in S
                    /\ \A x \in S : fat[1][x] \in Clusters => fat[1][x] \in S )
                  => d \in S}

\* scan_root: the scan passes slot s when no slot up to s is an end marker.
Scanned(s) == \A t \in Slots : t <= s => dir[t].kind # "end"
\* Faults: the scan ends at a deleted entry; it compares no names.
HitsBeforeGap(n) == {s \in Slots : Live(dir[s]) /\ dir[s].name = n
                                   /\ \A t \in Slots : t <= s => ~Vacant(dir[t])}
HitsAnyName(n)   == {s \in Slots : Live(dir[s]) /\ Scanned(s)}

Hits(n)    == {s \in Slots : Live(dir[s]) /\ dir[s].name = n /\ Scanned(s)}
IsHit(s, n)  == s \in Hits(n) /\ \A t \in Hits(n) : s <= t
\* Fault: the scan keeps any free slot it passes, not the first.
IsSomeVacant(s) == s \in Slots /\ Vacant(dir[s])

IsFirstVacant(s) == /\ s \in Slots
                    /\ Vacant(dir[s])
                    /\ \A t \in Slots : t < s => ~Vacant(dir[t])
DirFull == \A s \in Slots : ~Vacant(dir[s])

\* dir_is_empty of the directory at cluster c.  The bytes of a file taken for
\* a directory may look either way.
EmptyAnswers(c) == IF ~IsLink(c) \/ data[c] = Dots THEN {TRUE}
                   ELSE IF data[c] = HostFiles THEN {FALSE}
                   ELSE BOOLEAN

\* fs_find_file looks at files only; scan_root takes a directory as well.
Files(n) == {s \in Hits(n) : dir[s].kind = "file"}

\* fs_read_file: the clusters in the order it reads them, then their bytes.
Walk(c) == LET w[k \in 1..NumClusters] ==
                  IF k = 1 THEN c
                  ELSE IF IsLink(w[k - 1]) THEN get_next_cluster(w[k - 1]) ELSE w[k - 1]
           IN w
fs_read_file(c, size) ==
    LET w == Walk(c)
        held == ClusterBytes * Cardinality({k \in 1..NumClusters : IsLink(w[k])})
    IN [i \in 1..(IF size < held THEN size ELSE held) |->
           data[w[((i - 1) \div ClusterBytes) + 1]][((i - 1) % ClusterBytes) + 1]]

-----------------------------------------------------------------------------
(* Writing it.  A write succeeds, fails without effect, or has its effect  *)
(* and is reported as failed.                                              *)

Outcomes == IF WriteFaults THEN {"ok", "lost", "late"} ELSE {"ok"}
Note(w)  == clean' = (clean /\ w = "ok")
Put(f, k, v, w) == IF w = "lost" THEN f ELSE [f EXCEPT ![k] = v]

\* Fault: no caller looks at fat_set_entry's result.
OnFailGoesOn(to) == to

\* Where a failed fat_set_entry leaves its caller, by the point a successful
\* one returns to; three callers look at the result.
OnFail(to) == CASE to = "mkDots" -> "return"
                [] to = "link"   -> "fail"
                [] to = "data"   -> "unalloc"
                [] OTHER         -> to
Checked(to) == to \in {"mkDots", "link", "data"}

\* Faults: the last copy is never written; one too many is.
FewerCopies(f)   == f < NumFats - 1
OneMoreCopy(f)   == f <= NumFats
MoreCopies(f)    == f < NumFats

\* One turn of fat_set_entry's loop: copy f of the entry of cluster c.
SetCopy(f, c, v, to, w) ==
    /\ fat' = IF w = "lost" THEN fat ELSE [fat EXCEPT ![f][c] = v]
    /\ IF w = "ok" /\ MoreCopies(f)
       THEN pc' = "mirror" /\ job' = [clus |-> c, val |-> v, copy |-> f + 1, ret |-> to]
       ELSE pc' = (IF w = "ok" THEN to ELSE OnFail(to)) /\ job' = NoJob
    /\ r' = IF w # "ok" /\ Checked(to) THEN FS_ERR_IO ELSE r
    /\ Note(w)

fat_set_entry(c, v, to) ==
    \E w \in Outcomes : SetCopy(1, c, v, to, w)

NextCopy ==
    /\ pc = "mirror"
    /\ \E w \in Outcomes : SetCopy(job.copy, job.clus, job.val, job.ret, w)
    /\ UNCHANGED <<dir, data, fs_ready, call, pos, last, chain, cur>>

\* A directory write, to slot s; ok and bad are where the caller goes on.
PutSlot(s, e, ok, bad) ==
    \E w \in Outcomes :
       /\ dir' = Put(dir, s, e, w)
       /\ pc' = IF w = "ok" THEN ok ELSE bad
       /\ r'  = IF w # "ok" /\ bad = "return" THEN FS_ERR_IO ELSE FS_OK
       /\ Note(w)

FileEntry(n, c, len) == [kind |-> "file", name |-> n, first |-> c, size |-> len]
DirEntry(n, c)       == [kind |-> "dir",  name |-> n, first |-> c, size |-> 0]

-----------------------------------------------------------------------------
(* The start of a call.                                                    *)

Call(o, n, b) == /\ pc = "idle" /\ fs_ready
                 /\ op' = o /\ name' = n /\ arg' = b

\* The call ends before it writes anything.
Refuse(code) == /\ pc' = "return" /\ r' = code
                /\ UNCHANGED <<disk, pos, last, chain, cur, job, clean>>

NotMounted == /\ pc = "idle" /\ ~fs_ready
              /\ pc' = "return" /\ r' = FS_ERR_NOFS
              /\ UNCHANGED <<disk, fs_ready, call, pos, last, chain, cur, job, clean>>

make_dir(n) ==
    /\ "mkdir" \in Ops
    /\ Call("mkdir", n, <<>>)
    /\ UNCHANGED fs_ready
    /\ \/ NoFreeCluster /\ Refuse(FS_ERR_NOSPACE)
       \/ \E c \in Clusters :
             /\ IsFirstFree(c)
             /\ fat_set_entry(c, EOC, "mkDots")
             /\ new' = c
             /\ UNCHANGED <<dir, data, pos, last, prev, first, done, cur>>

\* Fault: the dot entries are not written.
NoDots == /\ pc = "mkDots" /\ pc' = "mkEntry"
          /\ UNCHANGED <<disk, fs_ready, call, pos, last, chain, cur, job, r, clean>>

\* write_cluster's result is not looked at, here and for the entry.
MkDots ==
    /\ pc = "mkDots"
    /\ \E w \in Outcomes : data' = Put(data, new, Dots, w) /\ Note(w)
    /\ pc' = "mkEntry"
    /\ UNCHANGED <<fat, dir, fs_ready, call, pos, last, chain, cur, job, r>>

MkEntry ==
    /\ pc = "mkEntry"
    /\ \/ \E s \in Slots :
             /\ IsFirstVacant(s)
             /\ \E w \in Outcomes : dir' = Put(dir, s, DirEntry(name, new), w) /\ Note(w)
             /\ pc' = "return"
             /\ UNCHANGED <<fat, job, r>>
       \/ /\ DirFull
          /\ fat_set_entry(new, FREE, "full")
          /\ UNCHANGED dir
    /\ UNCHANGED <<data, fs_ready, call, pos, last, chain, cur>>

MkFull ==
    /\ pc = "full"
    /\ pc' = "return" /\ r' = FS_ERR_DIRFULL
    /\ UNCHANGED <<disk, fs_ready, call, pos, last, chain, cur, job, clean>>

\* The write of the 0xE5 mark goes unchecked: the chain is freed all the same.
remove_dir(n) ==
    /\ "rmdir" \in Ops
    /\ Call("rmdir", n, <<>>)
    /\ UNCHANGED fs_ready
    /\ \/ Hits(n) = {} /\ Refuse(FS_ERR_NOTFOUND)
       \/ \E s \in Slots, empty \in BOOLEAN :
             /\ IsHit(s, n)
             /\ empty \in EmptyAnswers(dir[s].first)
             /\ \/ dir[s].kind = "file" /\ Refuse(FS_ERR_NOTDIR)
                \/ dir[s].kind = "dir" /\ ~empty /\ Refuse(FS_ERR_NOTEMPTY)
                \/ /\ dir[s].kind = "dir" /\ empty
                   /\ PutSlot(s, Blank("deleted"), "free", "free")
                   /\ cur' = dir[s].first
                   /\ UNCHANGED <<fat, data, pos, last, chain, job>>

fs_create_file(n) ==
    /\ "create" \in Ops
    /\ Call("create", n, <<>>)
    /\ UNCHANGED fs_ready
    /\ \/ Hits(n) # {} /\ Refuse(FS_ERR_EXISTS)
       \/ Hits(n) = {} /\ DirFull /\ Refuse(FS_ERR_DIRFULL)
       \/ /\ Hits(n) = {}
          /\ \E s \in Slots :
                /\ IsFirstVacant(s)
                /\ PutSlot(s, FileEntry(n, 0, 0), "return", "return")
          /\ UNCHANGED <<fat, data, pos, last, chain, cur, job>>

\* fs_write_file up to its first write: an existing file is emptied before its
\* chain is freed, a new one gets an empty entry.
StartWrite(n, b) ==
    /\ Call("write", n, b)
    /\ UNCHANGED fs_ready
    /\ \/ \E s \in Slots : IsHit(s, n) /\ dir[s].kind = "dir" /\ Refuse(FS_ERR_ISDIR)
       \/ Hits(n) = {} /\ DirFull /\ Refuse(FS_ERR_DIRFULL)
       \/ \E s \in Slots :
             /\ \/ /\ IsHit(s, n) /\ dir[s].kind = "file"
                   /\ PutSlot(s, FileEntry(n, 0, 0), "free", "return")
                   /\ cur' = dir[s].first
                \/ /\ Hits(n) = {} /\ IsFirstVacant(s)
                   /\ PutSlot(s, FileEntry(n, 0, 0), "alloc", "return")
                   /\ UNCHANGED cur
             /\ pos' = s
             /\ UNCHANGED <<fat, data, last, chain, job>>

fs_write_file(n, b) == "write" \in Ops /\ StartWrite(n, b)

\* Bytes in use in the last cluster of the file in slot s, and what the cluster
\* holds once the first bytes of b fill its slack.
Used(s) == LET over == dir[s].size - (Cardinality(Chain(dir[s].first)) - 1) * ClusterBytes
           IN IF over <= 0 THEN 0 ELSE IF over > ClusterBytes THEN ClusterBytes ELSE over
Fill(s, b) == IF ClusterBytes - Used(s) > Len(b) THEN Len(b) ELSE ClusterBytes - Used(s)
Filled(c, used, b) == [i \in 1..ClusterBytes |->
    IF used < i /\ i - used <= Len(b) THEN b[i - used] ELSE data[c][i]]

\* fs_append_file up to its first write, which fills the slack of the last
\* cluster; there may be none to fill, and then nothing is written yet.
StartAppend(s, l, b) ==
    /\ l \in Chain(dir[s].first) /\ ~IsLink(get_next_cluster(l))
    /\ \E w \in (IF Fill(s, b) > 0 THEN Outcomes ELSE {"ok"}) :
          /\ data' = IF Fill(s, b) > 0 THEN Put(data, l, Filled(l, Used(s), b), w) ELSE data
          /\ pc' = IF w = "ok" THEN "alloc" ELSE "return"
          /\ r'  = IF w = "ok" THEN FS_OK ELSE FS_ERR_IO
          /\ Note(w)
    /\ last' = l /\ prev' = l /\ done' = Fill(s, b) /\ pos' = s
    /\ UNCHANGED <<fat, dir, new, first, cur, job>>

\* fs_append_file has no caller in the tree; it is exported by fs.c.
fs_append_file(n, b) ==
    /\ "append" \in Ops
    /\ \/ Hits(n) = {} /\ StartWrite(n, b)
       \/ \E s \in Slots :
             /\ IsHit(s, n) /\ dir[s].kind = "file" /\ dir[s].first = 0 /\ b # <<>>
             /\ StartWrite(n, b)
       \/ /\ Call("append", n, b) /\ UNCHANGED fs_ready
          /\ \E s \in Slots :
                /\ IsHit(s, n)
                /\ \/ dir[s].kind = "dir" /\ Refuse(FS_ERR_ISDIR)
                   \/ dir[s].kind = "file" /\ b = <<>> /\ Refuse(FS_OK)
                   \/ /\ dir[s].kind = "file" /\ b # <<>> /\ dir[s].first # 0
                      /\ \E l \in Clusters : StartAppend(s, l, b)

-----------------------------------------------------------------------------
(* free_cluster_chain, for its three callers.                              *)

\* Fault: the next cluster is never read.
FreeOneStuck == /\ pc = "free" /\ IsLink(cur)
                /\ fat_set_entry(cur, FREE, "free")
                /\ UNCHANGED <<dir, data, fs_ready, call, pos, last, chain, cur>>

FreeOne ==
    /\ pc = "free" /\ IsLink(cur)
    /\ fat_set_entry(cur, FREE, "free")
    /\ cur' = get_next_cluster(cur)
    /\ UNCHANGED <<dir, data, fs_ready, call, pos, last, chain>>

FreeDone ==
    /\ pc = "free" /\ ~IsLink(cur)
    /\ pc' = IF op = "write" /\ r = FS_OK THEN "alloc" ELSE "return"
    /\ cur' = 0
    /\ UNCHANGED <<disk, fs_ready, call, pos, last, chain, job, r, clean>>

-----------------------------------------------------------------------------
(* alloc_and_write: allocate, link behind the previous cluster, write.     *)

Alloc ==
    /\ pc = "alloc" /\ done < Len(arg)
    /\ \/ /\ NoFreeCluster
          /\ pc' = "fail" /\ r' = FS_ERR_NOSPACE
          /\ UNCHANGED <<fat, new, job, clean>>
       \/ \E c \in Clusters :
             /\ IsFirstFree(c)
             /\ fat_set_entry(c, EOC, "link")
             /\ new' = c
    /\ UNCHANGED <<dir, data, fs_ready, call, pos, last, prev, first, done, cur>>

Link ==
    /\ pc = "link"
    /\ \/ /\ prev = 0
          /\ pc' = "data"
          /\ UNCHANGED <<fat, job, r, clean>>
       \/ /\ prev # 0
          /\ fat_set_entry(prev, new, "data")
    /\ UNCHANGED <<dir, data, fs_ready, call, pos, last, chain, cur>>

\* The link failed: the new cluster is given back.
Unalloc ==
    /\ pc = "unalloc"
    /\ fat_set_entry(new, FREE, "fail")
    /\ new' = 0
    /\ UNCHANGED <<dir, data, fs_ready, call, pos, last, prev, first, done, cur>>

\* Fault: the last byte of the buffer is taken for padding.
ShortBlock == [i \in 1..ClusterBytes |->
                  IF done + i < Len(arg) THEN arg[done + i] ELSE Zero]

\* What is left of arg, cut to a cluster and padded with zeros.
NextBlock == [i \in 1..ClusterBytes |->
                 IF done + i <= Len(arg) THEN arg[done + i] ELSE Zero]

WriteData ==
    /\ pc = "data"
    /\ first' = IF first = 0 THEN new ELSE first
    /\ \E w \in Outcomes :
          /\ data' = Put(data, new, NextBlock, w)
          /\ IF w = "ok"
             THEN /\ pc' = "alloc" /\ UNCHANGED r
                  /\ done' = IF done + ClusterBytes > Len(arg) THEN Len(arg)
                             ELSE done + ClusterBytes
                  /\ prev' = new
             ELSE pc' = "fail" /\ r' = FS_ERR_IO /\ UNCHANGED <<done, prev>>
          /\ Note(w)
    /\ new' = 0
    /\ UNCHANGED <<fat, dir, fs_ready, call, pos, last, cur, job>>

\* Faults: an append does not cut its chain; the new clusters are not freed.
CleanupUncut == /\ pc = "fail" /\ pc' = "free" /\ cur' = first
                /\ UNCHANGED <<disk, fs_ready, call, pos, last, chain, job, r, clean>>
CleanupForgets == /\ pc = "fail"
                  /\ \/ last = 0 /\ pc' = "free" /\ UNCHANGED <<fat, job, r, clean>>
                     \/ last # 0 /\ fat_set_entry(last, EOC, "free")
                  /\ cur' = 0
                  /\ UNCHANGED <<dir, data, fs_ready, call, pos, last, chain>>

\* The caller's cleanup: an append cuts the chain behind the old last cluster,
\* then both free what was built.
Cleanup ==
    /\ pc = "fail"
    /\ \/ /\ last = 0
          /\ pc' = "free"
          /\ UNCHANGED <<fat, job, r, clean>>
       \/ /\ last # 0
          /\ fat_set_entry(last, EOC, "free")
    /\ cur' = first
    /\ UNCHANGED <<dir, data, fs_ready, call, pos, last, chain>>

\* The final store_entry of a write or an append.
Commit ==
    /\ pc = "alloc" /\ done = Len(arg)
    /\ PutSlot(pos, IF op = "append"
                    THEN [dir[pos] EXCEPT !.size = @ + Len(arg)]
                    ELSE [dir[pos] EXCEPT !.first = first, !.size = Len(arg)],
               "return", "return")
    /\ UNCHANGED <<fat, data, fs_ready, call, pos, last, chain, cur, job>>

-----------------------------------------------------------------------------
(* The end of a call, of the program, of the power.                        *)

\* The locals die with the call.
Forget == /\ op' = "none" /\ name' = "none" /\ arg' = <<>> /\ pos' = 0 /\ last' = 0
          /\ new' = 0 /\ prev' = 0 /\ first' = 0 /\ cur' = 0 /\ done' = 0
          /\ job' = NoJob /\ r' = FS_OK

Return == /\ pc = "return" /\ pc' = "idle"
          /\ Forget
          /\ UNCHANGED <<disk, fs_ready, clean>>

Running == pc \notin {"idle", "return", "off"}

\* Ctrl-C: app_abort longjmps from the keyboard interrupt to exec_program.
Abort == /\ op \in Crashes /\ Running
         /\ pc' = "idle" /\ clean' = FALSE
         /\ Forget
         /\ UNCHANGED <<disk, fs_ready>>

PowerLoss == /\ op \in Crashes \cup {"none"} /\ pc # "off"
             /\ pc' = "off" /\ fs_ready' = FALSE
             /\ clean' = (clean /\ ~Running)
             /\ Forget
             /\ UNCHANGED disk

\* Boot: the boot sector is readable and plausible, or the volume stays away.
fs_init == /\ pc = "off" /\ pc' = "idle"
           /\ fs_ready' \in BOOLEAN
           /\ UNCHANGED <<disk, call, pos, last, chain, cur, job, r, clean>>

-----------------------------------------------------------------------------
\* A volume as build/disk.sh makes it: the label in the first slot, then what
\* a host copied; here nothing, or one directory with files in it.
RootEntry(c) == IF c = NumRoot + 1 THEN EOC ELSE c + 1
HostDir      == NumRoot + 2

Init ==
    /\ \E hosted \in {h \in SUBSET {HostDir} : h \subseteq Clusters} :
          /\ fat = [f \in Fats |-> [c \in Clusters |->
                       IF c \in RootChain THEN RootEntry(c)
                       ELSE IF c \in hosted THEN EOC ELSE FREE]]
          /\ data = [c \in Clusters |-> IF c \in hosted THEN HostFiles
                                       ELSE [i \in 1..ClusterBytes |-> Zero]]
          /\ \E n \in Names :
                dir = [s \in Slots |-> IF s = 1 THEN Blank("skip")
                                       ELSE IF s = 2 /\ hosted # {} THEN DirEntry(n, HostDir)
                                       ELSE Blank("end")]
    /\ fs_ready = FALSE /\ pc = "off" /\ clean = TRUE
    /\ op = "none" /\ name = "none" /\ arg = <<>> /\ pos = 0 /\ last = 0
    /\ new = 0 /\ prev = 0 /\ first = 0 /\ cur = 0 /\ done = 0
    /\ job = NoJob /\ r = FS_OK

Step == \/ NextCopy \/ MkDots \/ MkEntry \/ MkFull
        \/ FreeOne \/ FreeDone
        \/ Alloc \/ Link \/ Unalloc \/ WriteData \/ Cleanup \/ Commit
        \/ Return

Request == \/ NotMounted
           \/ \E n \in Names :
                 \/ make_dir(n) \/ remove_dir(n) \/ fs_create_file(n)
                 \/ \E b \in Buffers : fs_write_file(n, b) \/ fs_append_file(n, b)

Next == Step \/ Request \/ Abort \/ PowerLoss \/ fs_init

Spec == Init /\ [][Next]_vars

\* The processor keeps executing the call it is in.
FairSpec == Spec /\ WF_vars(Step)

-----------------------------------------------------------------------------
(* What the driver owes the volume, after every single write.              *)

Table     == [Fats -> [Clusters -> {FREE, EOC} \cup Clusters]]
Directory == [Slots -> [kind : Kinds, name : Names \cup {"none"},
                        first : {0} \cup Clusters, size : Nat]]
Job       == [clus : {0} \cup Clusters, val : {FREE, EOC} \cup Clusters,
              copy : {0} \cup Fats, ret : Returns \cup {"none"}]

TypeVolume == /\ fat \in Table /\ dir \in Directory /\ data \in [Clusters -> Block]
              /\ fs_ready \in BOOLEAN /\ clean \in BOOLEAN
TypeCall == /\ op \in EntryPoints \cup {"none"} /\ name \in Names \cup {"none"}
            /\ arg \in Seq(Bytes) /\ done \in 0..Len(arg)
            /\ pos \in 0..NumSlots
            /\ r \in Results
TypeWork == /\ last \in {0} \cup Clusters /\ new \in {0} \cup Clusters
            /\ prev \in {0} \cup Clusters /\ first \in {0} \cup Clusters
            /\ cur \in {0, EOC} \cup Clusters
            /\ pc \in {"idle", "off"} =>
                  last = 0 /\ new = 0 /\ prev = 0 /\ first = 0 /\ done = 0
TypeFlow == /\ pc \in {"off", "idle", "mirror", "mkEntry", "alloc", "unalloc", "return"}
                      \cup Returns
            /\ job \in Job
            /\ pc = "mirror" => job.copy > 1 /\ job.ret # "none"

\* Types of all variables, at every step of every operation (all of fs.c).
TypeOK == TypeVolume /\ TypeCall /\ TypeWork /\ TypeFlow

Heads == {s \in Slots : Live(dir[s]) /\ dir[s].first # 0}

\* No entry of the directory and no link of the table leads to a free cluster:
\* alloc_and_write marks a cluster before it links it, fs_write_file and
\* remove_dir take the entry away before they free its chain.
NoDangling ==
    /\ \A s \in Heads : fat[1][dir[s].first] # FREE
    /\ \A c \in Clusters : fat[1][c] \in Clusters => fat[1][fat[1][c]] # FREE

\* Two chains never share a cluster: a cluster has one predecessor at most, the
\* head of an entry's chain has none and belongs to that entry alone.
NoCrossLink ==
    /\ \A c, d \in Clusters : fat[1][c] = fat[1][d] /\ fat[1][c] \in Clusters => c = d
    /\ \A s \in Heads, c \in Clusters : fat[1][c] # dir[s].first
    /\ \A s, t \in Heads : dir[s].first = dir[t].first => s = t

\* No operation touches the chain of the root directory (which no code grows).
RootIntact ==
    /\ \A c \in RootChain : fat[1][c] = RootEntry(c)
    /\ \A c \in Clusters : fat[1][c] # RootCluster
    /\ \A s \in Heads : dir[s].first \notin RootChain

\* Nothing lives behind the end marker, where no scan would find it.
EndMarker == \A s, t \in Slots : s < t /\ dir[s].kind = "end" => dir[t].kind = "end"

\* A directory entry leads to a cluster that holds a directory: make_dir writes
\* the dot entries before the entry that makes them reachable.
DirInitialised ==
    \A s \in Slots : dir[s].kind = "dir" =>
        /\ dir[s].first # 0
        /\ data[dir[s].first] \in {Dots, HostFiles}

\* fs_create_file and fs_write_file never make a second file of one name
\* (make_dir, which does not look, may make a directory of it).
UniqueFileNames ==
    \A s, t \in Slots : dir[s].kind = "file" /\ dir[t].kind = "file"
                        /\ dir[s].name = dir[t].name => s = t

\* A file's size is the size of its chain, to the cluster, also after a write
\* was cut short (fs_write_file) and after an append found no space; only an
\* append cut short leaves a chain that is too long.
SizeMatchesChain ==
    \A s \in Slots : dir[s].kind = "file" /\ ~(op = "append" /\ Running /\ s = pos) =>
        LET n == Cardinality(Chain(dir[s].first)) * ClusterBytes
        IN dir[s].size <= n /\ n < dir[s].size + ClusterBytes

\* The copies of the table are equal whenever no fat_set_entry is under way, as
\* long as nothing was cut short.
MirrorAgree ==
    clean => \A f \in Fats, c \in Clusters :
        fat[f][c] # fat[1][c] => pc = "mirror" /\ c = job.clus /\ f >= job.copy

\* Between calls every allocated cluster belongs to the root directory or to an
\* entry, as long as nothing was cut short: the error paths give back all.
NoLeak ==
    clean /\ pc \in {"idle", "return"} =>
        {c \in Clusters : fat[1][c] # FREE} \subseteq
            RootChain \cup UNION {Chain(dir[s].first) : s \in Heads}

\* A write that returned FS_OK is what a reader gets.
WriteIsRead ==
    pc = "return" /\ op = "write" /\ r = FS_OK =>
        /\ Files(name) # {}
        /\ \A s \in Files(name) : fs_read_file(dir[s].first, dir[s].size) = arg

\* What entries lead to stays allocated and apart even when writes fail: an
\* error path frees only what no entry reaches.  (NoDangling is more than this:
\* an unreached chain that free_cluster_chain failed to free keeps its links.)
ReachableSafe ==
    /\ \A s \in Heads, c \in Clusters :
          c \in Chain(dir[s].first) => fat[1][c] # FREE /\ c \notin RootChain
    /\ \A s, t \in Heads :
          s # t => Chain(dir[s].first) \cap Chain(dir[t].first) = {}

\* A step changes no entry of another name than the call's, and no two.
ItsEntryOnly == \A s \in Slots : dir'[s] # dir[s] =>
                   /\ Live(dir[s]) => dir[s].name = name'
                   /\ Live(dir'[s]) => dir'[s].name = name'
                   /\ \A t \in Slots : dir'[t] # dir[t] => t = s
OnlyItsEntry == [][ItsEntryOnly]_vars

\* Every call ends: no chain is circular, no loop fails to advance.
CallsEnd == (pc = "return" \/ Running) ~> pc \in {"idle", "off"}

-----------------------------------------------------------------------------
(* The inductive invariant behind NoDangling, NoCrossLink and RootIntact,  *)
(* when writes do not fail: what the running operation holds.              *)

\* Where the call goes on once all copies of an entry are written.
at == IF pc = "mirror" THEN job.ret ELSE pc

Unreferenced(c) == \A d \in Clusters : fat[1][d] # c
NoHead(c)  == \A s \in Slots : Live(dir[s]) => dir[s].first # c
Taken(c)   == c \in Clusters /\ c \notin RootChain /\ fat[1][c] # FREE

\* The cluster alloc_and_write or make_dir has just allocated.
NewHeld ==
    at \in {"mkDots", "mkEntry", "link", "data"} =>
        /\ Taken(new) /\ fat[1][new] = EOC /\ NoHead(new)
        /\ new # first /\ new # prev
        /\ IF at = "data" /\ prev # 0 THEN fat[1][prev] = new ELSE Unreferenced(new)

\* The chain it builds: loose for a write, behind last for an append.
ChainHeld ==
    at \in {"alloc", "link", "data", "fail"} =>
        /\ op \in {"write", "append"} /\ (last = 0 <=> op = "write")
        /\ IF first = 0 THEN prev = last ELSE prev # 0
        /\ prev # 0 => /\ Taken(prev)
                       /\ at # "data" => fat[1][prev] = EOC
        /\ first # 0 => /\ Taken(first) /\ NoHead(first)
                        /\ IF last = 0 THEN Unreferenced(first)
                           ELSE fat[1][last] = first
        /\ last # 0 => Taken(last)
        /\ at = "fail" => r # FS_OK

\* The rest of the chain free_cluster_chain is freeing: an old one, before a
\* write builds its own, or the new one of a write that failed.
CurHeld ==
    at = "free" =>
        /\ IsLink(cur) => Taken(cur) /\ Unreferenced(cur) /\ NoHead(cur)
        /\ op = "write" /\ r = FS_OK => first = 0 /\ prev = 0 /\ last = 0

\* No step takes a cluster away from a chain that still leads to it: together
\* with what the running call holds, the chains on the volume stay apart.
ChainsInv == /\ NoDangling /\ NoCrossLink /\ RootIntact
             /\ NewHeld /\ ChainHeld /\ CurHeld
             /\ pc # "unalloc"

-----------------------------------------------------------------------------
(* What the running call holds of the directory and of the mirror, also    *)
(* when writes fail: the inductive invariants behind EndMarker,            *)
(* UniqueFileNames, OnlyItsEntry and MirrorAgree.                          *)

\* The points at which a call builds a chain.
Building == at \in {"alloc", "link", "data", "unalloc", "fail"}

\* The entry a write or an append works on is a file of its name; a write has
\* emptied it.
PosHeld ==
    /\ Building => op \in {"write", "append"}
    /\ op \in {"write", "append"} /\ Running =>
          /\ pos \in Slots /\ dir[pos].kind = "file" /\ dir[pos].name = name
          /\ op = "write" => dir[pos].first = 0

DirInv == EndMarker /\ UniqueFileNames /\ PosHeld

\* The primary copy has the entry that is being written to the others.
MirrorHeld == clean /\ pc = "mirror" /\ job.clus \in Clusters =>
                 fat[1][job.clus] = job.val

-----------------------------------------------------------------------------
(* The inductive invariant behind NoLeak, when writes do not fail: every   *)
(* allocated cluster is led to, or the running call can name it.           *)

\* What an append builds hangs behind a cluster of its file, what any call builds
\* is one chain from first to prev.
TailHeld ==
    at \in {"alloc", "link", "data", "fail"} =>
        /\ op = "append" => last \in Chain(dir[pos].first)
        /\ first # 0 => prev \in Chain(first)

\* The clusters the running call has yet to link, to enter or to free.
Held == CASE at \in {"mkDots", "mkEntry"}  -> {new}
          [] at \in {"link", "data", "unalloc"} -> {new} \cup Chain(first)
          [] at \in {"alloc", "fail"}      -> Chain(first)
          [] at = "free"                   -> Chain(cur)
          [] OTHER                         -> {}

Accounted(c) == c \in RootChain \cup Held \/ \E s \in Heads : c \in Chain(dir[s].first)

LeakInv == /\ TailHeld
           /\ clean => \A c \in Clusters : fat[1][c] # FREE => Accounted(c)

-----------------------------------------------------------------------------
(* The volume as a program sees it.                                        *)

Contents(n) == IF Files(n) = {} THEN <<>>
               ELSE LET s == CHOOSE s \in Files(n) : TRUE
                    IN fs_read_file(dir[s].first, dir[s].size)

FileNames    == {n \in Names : Files(n) # {}}
FileContents == [n \in Names |-> Contents(n)]
DirCounts    == [n \in Names |-> Cardinality({s \in Slots :
                    dir[s].kind = "dir" /\ dir[s].name = n /\ Scanned(s)})]
Writing      == IF Running /\ op = "write" THEN [file |-> name, buffer |-> arg]
                ELSE [file |-> "none", buffer |-> <<>>]

Store == INSTANCE FileStore WITH exists <- FileNames, contents <- FileContents,
                                 dirs <- DirCounts, writing <- Writing

\* The sequence of sector writes, cut short anywhere, shows a program nothing
\* but the steps of FileStore (the file operations of fs.c together).
RefinesFileStore == Store!Spec

-----------------------------------------------------------------------------
\* The dot entries are on the disk when the entry of the directory is made.
DotsHeld == pc = "mkEntry" => data[new] = Dots
=============================================================================
