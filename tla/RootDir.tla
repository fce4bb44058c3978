------------------------------ MODULE RootDir -------------------------------
(***************************************************************************)
(* The root directory under src/src/fs.c, by sectors and buffers: how a    *)
(* call scans the chain one cluster at a time into a static buffer, and    *)
(* how it puts one entry back by writing the whole cluster, sector by      *)
(* sector.  Fat32 has all that as single steps on slots.                   *)
(*                                                                         *)
(* A sector that cannot be read leaves in the buffer what was there, and   *)
(* nobody notices.  Between two calls a buffer holds what earlier calls    *)
(* left (Junk).  make_dir, remove_dir, fs_find_file and fat32_list_files   *)
(* each have a buffer of their own; the others share io_buf, also with the *)
(* bytes of the file they write.  No call is inside another, so that one   *)
(* variable stands for all of them.                                        *)
(*                                                                         *)
(* The table and the clusters of files are Fat32's.  Ctrl-C and power loss *)
(* are one action here: both leave of the call what is on the disk.        *)
(***************************************************************************)
EXTENDS Integers, Sequences, FiniteSetsExt

CONSTANTS NumRoot,      \* clusters in the root directory's chain
          SecPerClus,   \* sec_per_clus
          SlotsPerSec,  \* entries in a sector
          Names,        \* 8.3 names
          BadReads,     \* reads that fail in a behaviour, at most
          WriteFaults   \* TRUE: ata_write_sector may fail

ASSUME RootDirAssumption ==
    /\ NumRoot \in Nat \ {0} /\ SecPerClus \in Nat \ {0} /\ SlotsPerSec \in Nat \ {0}
    /\ BadReads \in Nat /\ WriteFaults \in BOOLEAN

PerClus == SecPerClus * SlotsPerSec    \* per_clus
Indices == 1 .. PerClus
Slots   == 1 .. NumRoot * PerClus

ClusterOf(s)   == (s - 1) \div PerClus + 1
IndexOf(s)     == ((s - 1) % PerClus) + 1
SlotAt(c, i)   == (c - 1) * PerClus + i
SectorOf(i)    == (i - 1) \div SlotsPerSec + 1

VARIABLES
    root,     \* the slots, on the disk
    pc,       \* where the call stands
    op, name, \* the call
    buf,      \* its static buffer, as entries
    clus,     \* the cluster it scans, counted along the chain
    hit, slot, \* dir_pos_t: the slots found (0: not found)
    out,      \* the entries fat32_list_files has shown
    job,      \* the entry being stored: its slot, contents, where to go on
    sec,      \* the sector write_cluster writes next
    failed,   \* a read of this call has failed
    bad       \* reads that have failed so far

call == <<op, name, hit, slot, out>>
vars == <<root, pc, op, name, buf, clus, hit, slot, out, job, sec, failed, bad>>

Dir == INSTANCE Directory WITH slots <- root, trouble <- failed, PerCluster <- PerClus

Junk  == [kind |-> "junk", name |-> "none", val |-> 0]
Bytes == [kind |-> "bytes", name |-> "none", val |-> 0]
NoJob == [slot |-> 0, new |-> FALSE, val |-> 0, ret |-> "return"]

\* What Junk may turn out to be: zeros, bytes of a file, an entry.
Leftovers == {Dir!Blank("end"), Bytes} \union {Dir!File(n, 0) : n \in Names}

-----------------------------------------------------------------------------
(* Clusters in and out.                                                    *)

\* read_cluster when the sectors of lost cannot be read.
read_cluster(c, lost, junk) ==
    [i \in Indices |-> IF SectorOf(i) \notin lost THEN root[SlotAt(c, i)]
                       ELSE IF buf[i] = Junk THEN junk ELSE buf[i]]

\* n reads fail.
Fail(n) == /\ bad + n <= BadReads
           /\ bad' = bad + n /\ failed' = (failed \/ n > 0)

Outcomes == IF WriteFaults THEN {"ok", "lost", "late"} ELSE {"ok"}

Unchecked == op \in {"mkdir", "rmdir"}

\* One turn of write_cluster's loop.
WriteSector ==
    /\ pc = "put"
    /\ \E w \in Outcomes :
          /\ root' = IF w = "lost" THEN root
                     ELSE [s \in Slots |->
                              IF ClusterOf(s) = ClusterOf(job.slot) /\ SectorOf(IndexOf(s)) = sec
                              THEN buf[IndexOf(s)] ELSE root[s]]
          /\ IF w = "ok" /\ sec < SecPerClus
             THEN sec' = sec + 1 /\ UNCHANGED pc
             ELSE sec' = 1 /\ pc' = IF w = "ok" \/ Unchecked THEN job.ret ELSE "return"
    /\ UNCHANGED <<call, buf, clus, job, failed, bad>>

-----------------------------------------------------------------------------
(* The scans.                                                              *)

Scanners == {"create", "write", "append"}    \* those that call scan_root

IsNamed(e) == Dir!Live(e) /\ e.name = name

\* The entry at which a loop over a cluster ends.
Ends(e) == CASE op = "mkdir" -> Dir!Vacant(e)
             [] op = "list"  -> e.kind = "end"
             [] op = "find"  -> e.kind = "end" \/ (e.kind = "file" /\ e.name = name)
             [] OTHER        -> e.kind = "end" \/ IsNamed(e)

Call(o, n) == /\ pc = "idle" /\ pc' = "scan"
              /\ op' = o /\ name' = n
              /\ UNCHANGED <<root, buf, clus, hit, slot, out, job, sec, failed, bad>>

fs_create_file(n)   == Call("create", n)
fs_write_file(n)    == Call("write", n)
fs_append_file(n)   == Call("append", n)
make_dir(n)         == Call("mkdir", n)
remove_dir(n)       == Call("rmdir", n)
fs_find_file(n)     == Call("find", n)    \* also for exec_program and fs_cat
fat32_list_files    == \E n \in Names : Call("list", n)

\* Fault: the last free slot is kept, not the first.
SlotLast(b, stop) ==
    LET free == {i \in 1 .. stop : Dir!Vacant(b[i])}
    IN IF free = {} THEN slot ELSE SlotAt(clus, Max(free))

\* The free slot that is remembered after the entries up to stop.
SlotAfter(b, stop) ==
    LET free == {i \in 1 .. stop : Dir!Vacant(b[i])}
    IN IF slot # 0 \/ free = {} THEN slot ELSE SlotAt(clus, Min(free))

\* One cluster of the chain, and where the table says it goes on (0: nowhere).  A
\* table that cannot be read is taken to say what is left in its buffer: the chain
\* may end early or lead back.  It may also lead into a file: what the call then
\* does, it does not do to the directory, as if it were cut short.
Scan ==
    /\ pc = "scan"
    /\ \E lost \in SUBSET (1 .. SecPerClus), junk \in Leftovers, next \in 0 .. NumRoot :
        LET b     == read_cluster(clus, lost, junk)
            ends  == {i \in Indices : Ends(b[i])}
            stop  == IF ends = {} THEN PerClus ELSE Min(ends)
            right == IF clus = NumRoot \/ ends # {} THEN 0 ELSE clus + 1
        IN /\ ends # {} => next = 0
           /\ Fail(Cardinality(lost) + IF next # right THEN 1 ELSE 0)
           /\ buf' = b
           /\ slot' = SlotAfter(b, stop)
           /\ hit' = IF ends # {} /\ IsNamed(b[stop]) THEN SlotAt(clus, stop) ELSE 0
           /\ out' = IF op = "list" THEN Dir!Shown(out, b, stop) ELSE out
           /\ pc' = IF next = 0 THEN "found" ELSE "scan"
           /\ clus' = IF next = 0 THEN clus ELSE next
    /\ UNCHANGED <<root, op, name, job, sec>>

-----------------------------------------------------------------------------
(* What the calls do with what they found.                                 *)

Keep == UNCHANGED <<root, call, clus, sec, failed, bad>>

\* The call goes on with storing an entry.
Store(s, new, v, ret) == /\ pc' = "store"
                         /\ job' = [slot |-> s, new |-> new, val |-> v, ret |-> ret]
                         /\ UNCHANGED buf

\* It writes back the buffer of its scan, with slot s changed to e.
PutBack(s, e) == /\ pc' = "put"
                 /\ buf' = [buf EXCEPT ![IndexOf(s)] = e]
                 /\ job' = [NoJob EXCEPT !.slot = s]

Done == pc' = "return" /\ UNCHANGED <<buf, job>>

\* The entry scan_root copied: nothing has touched the buffer since.
hit_entry == buf[IndexOf(hit)]

Create == /\ pc = "found" /\ op = "create" /\ Keep
          /\ \/ hit # 0 /\ Done
             \/ hit = 0 /\ slot = 0 /\ Done
             \/ hit = 0 /\ slot # 0 /\ Store(slot, TRUE, 0, "return")

Write == /\ pc = "found" /\ op = "write" /\ Keep
         /\ \/ hit # 0 /\ hit_entry.kind = "dir" /\ Done
            \/ hit # 0 /\ hit_entry.kind # "dir" /\ Store(hit, FALSE, 0, "build")
            \/ hit = 0 /\ slot = 0 /\ Done
            \/ hit = 0 /\ slot # 0 /\ Store(slot, TRUE, 0, "build")

\* A file without clusters is written like a new one, from the scan on.
AppendWrites == /\ pc = "found" /\ op = "append"
                /\ hit = 0 \/ (hit_entry.kind # "dir" /\ hit_entry.val = 0)
                /\ pc' = "scan" /\ op' = "write"
                /\ clus' = 1 /\ hit' = 0 /\ slot' = 0
                /\ UNCHANGED <<root, name, buf, out, job, sec, failed, bad>>

\* Nothing to append is done at once.
Append_ == /\ pc = "found" /\ op = "append" /\ hit # 0 /\ Keep
           /\ \/ Done
              \/ /\ hit_entry.kind # "dir" /\ hit_entry.val # 0
                 /\ pc' = "build" /\ job' = [NoJob EXCEPT !.slot = hit] /\ UNCHANGED buf

\* Without a free slot the new cluster is given back.
MakeDir == /\ pc = "found" /\ op = "mkdir" /\ Keep
           /\ \/ slot = 0 /\ Done
              \/ slot # 0 /\ PutBack(slot, Dir!Folder(name))

\* The directory may not be empty.
RemoveDir == /\ pc = "found" /\ op = "rmdir" /\ Keep
             /\ \/ Done
                \/ hit # 0 /\ hit_entry.kind = "dir" /\ PutBack(hit, Dir!Blank("deleted"))

FindOrList == pc = "found" /\ op \in {"find", "list"} /\ Keep /\ Done

\* alloc_and_write (and the filling of the last cluster): the bytes of the file
\* pass through io_buf, unless there are none.
Build == /\ pc = "build"
         /\ \E n \in Indices \union {0} :
               buf' = IF n = 0 THEN buf
                      ELSE [i \in Indices |-> IF i <= n THEN Bytes ELSE Dir!Blank("end")]
         /\ \/ pc' = "return" /\ UNCHANGED job
            \/ pc' = "store" /\ job' = [job EXCEPT !.new = FALSE, !.val = 1, !.ret = "return"]
         /\ Keep

\* Fault: the cluster is taken to be still in the buffer.
StoreUnread == /\ pc = "store" /\ pc' = "put"
               /\ buf' = [buf EXCEPT ![IndexOf(job.slot)] =
                             IF job.new THEN Dir!File(name, job.val) ELSE [@ EXCEPT !.val = job.val]]
               /\ UNCHANGED <<root, call, clus, job, sec, failed, bad>>

\* store_entry reads the cluster again.
StoreEntry ==
    /\ pc = "store" /\ pc' = "put"
    /\ \E lost \in SUBSET (1 .. SecPerClus), junk \in Leftovers :
          /\ Fail(Cardinality(lost))
          /\ buf' = [read_cluster(ClusterOf(job.slot), lost, junk) EXCEPT ![IndexOf(job.slot)] =
                        IF job.new THEN Dir!File(name, job.val) ELSE [@ EXCEPT !.val = job.val]]
    /\ UNCHANGED <<root, call, clus, job, sec>>

-----------------------------------------------------------------------------
\* The locals are gone, the buffer is left.
Forget == /\ pc' = "idle" /\ op' = "none" /\ name' = "none"
          /\ buf' = [i \in Indices |-> Junk]
          /\ clus' = 1 /\ hit' = 0 /\ slot' = 0 /\ out' = <<>>
          /\ job' = NoJob /\ sec' = 1 /\ failed' = FALSE
          /\ UNCHANGED <<root, bad>>

Return   == pc = "return" /\ Forget
CutShort == pc \notin {"idle", "return"} /\ Forget

Init == /\ root = [s \in Slots |-> IF s = 1 THEN Dir!Blank("skip") ELSE Dir!Blank("end")]
        /\ pc = "idle" /\ op = "none" /\ name = "none"
        /\ buf = [i \in Indices |-> Junk]
        /\ clus = 1 /\ hit = 0 /\ slot = 0 /\ out = <<>>
        /\ job = NoJob /\ sec = 1 /\ failed = FALSE /\ bad = 0

Request == \/ fat32_list_files
           \/ \E n \in Names :
                 \/ fs_create_file(n) \/ fs_write_file(n) \/ fs_append_file(n)
                 \/ make_dir(n) \/ remove_dir(n) \/ fs_find_file(n)

Next == \/ Request \/ Scan
        \/ Create \/ Write \/ AppendWrites \/ Append_ \/ MakeDir \/ RemoveDir \/ FindOrList
        \/ Build \/ StoreEntry \/ WriteSector
        \/ Return \/ CutShort

Spec == Init /\ [][Next]_vars

-----------------------------------------------------------------------------
\* Whatever is cut short between two sectors, and whatever earlier calls and the
\* file's own bytes have left in the buffers, a call changes one slot, in one
\* piece, and the right one; when one of its reads has failed, it spoils no more
\* than one cluster at a time (all of fs.c's directory access).
RefinesDirectory == Dir!Spec

\* The loops over clusters find what a look at the whole directory would: the
\* first entry of a name, the first free slot, the listing (scan_root, make_dir,
\* remove_dir, fs_find_file, fat32_list_files), unless a read has failed.
ScansAreRight ==
    pc = "found" /\ ~failed =>
        /\ op \in Scanners \union {"rmdir"} => hit = Dir!FirstNamed(name)
        /\ op \in Scanners /\ hit = 0 => slot = Dir!FirstVacant
        /\ op = "mkdir" => slot = Dir!FirstVacant
        /\ op = "find" => hit = Dir!FirstFile(name)
        /\ op = "list" => out = Dir!Listing
=============================================================================
