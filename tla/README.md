# ZareboonOS in TLA+

Models of the ZareboonOS kernel (a small 32-bit x86 kernel in C), checked by
TLC on small instances and proved by TLAPS for every value of the constants.
Paths below are paths of the repository.

## 1. The system

### How it runs

The kernel has one thread. `shell_main` (`src/shell.c`) reads keys, edits a
line and runs a command; `run` loads a program over the previous one and calls
it; the program calls back through a table of function pointers
(`src/syscall.c`). What happens *besides* that thread is small, and it is where
the difficult behaviour comes from:

* the **keyboard interrupt** (`src/keyboard.c`) at any instruction with
  interrupts enabled: it shares a ring buffer, the modifier flags and
  `app_running` with the thread;
* **Ctrl-C**: the keyboard handler calls `app_abort` (`src/loader.c`), which
  longjmps out of the program, whatever kernel function the program was in;
* the **timer interrupt** (`src/time.c`), a tick counter;
* **interrupts being off**: in a handler, in the allocator, and after the
  longjmp until `exec_program` turns them on again;
* **the power**: the disk keeps what sector writes have reached it.

### Components, their state, their operations

| Component | State | Operations | What makes it hard | What makes it correct |
|---|---|---|---|---|
| FAT32 driver `src/fs.c` | table copies, root directory, clusters on disk; `fs_ready` | `fs_init`, `make_dir`, `remove_dir`, `fs_create_file`, `fs_write_file`, `fs_append_file`, lookups and reads | many writes per operation, cut short by Ctrl-C or power; failing writes; full volume | chains never dangle or cross, contents are all or nothing, nothing leaks when nothing is cut short, copies agree; a directory write changes one entry, whatever the static buffers hold |
| ATA driver `src/ata.c` | device phase (BSY, DRQ), last status | probe, read, write, flush | polling with time-outs; a transfer abandoned half-way | a command never meets a device that waits for data of an earlier one |
| Keyboard `src/keyboard.c` | ring of 256, head, tail, modifiers | handler, `keyboard_has_input`, `keyboard_read_char` | handler between any two steps of the reader; full ring | keys come out in order, none twice, dropped only when full |
| Loader `src/loader.c` | `app_running`, `app_jmp`, program memory | `exec_program`, `app_abort` | Ctrl-C at every point of the call, also before `setjmp` | Ctrl-C ends the program it was meant for and nothing else |
| Shell `src/shell.c` | line being edited, `console_suspended` | keys, commands, suspend/resume | the flags follow the display's, across longjmp | the console is usable whenever no program shows graphics |
| Display `src/display.c` | buffers, size, dirty rows, `active` | open, close, pixel, fill, present | buffers on the heap; abandoned in the middle | what is presented is what was drawn; buffers are freed |
| Heap `src/stdlib.c` | first-fit list of blocks | `kmalloc`, `kfree` | split and merge arithmetic | live blocks do not overlap |
| System calls `src/syscall.c` | table | 17 entries | unsupported entries answer -1 | the API does what its README says |
| Timer `src/time.c` | `timer_ticks` | `sleep`, handler | 32-bit arithmetic | sleeps at least what was asked |
| Arguments `src/args.c`, `api_1/src/args.c` | the line; a program's parsed copy | `args_set`, `args_get`, parse | program memory is not cleared | a program sees its own arguments |
| Console `src/console.c`, `src/cursor.c`, `src/stdio.c` | cursor, where it is drawn | `print_char`, `print`, `update_cursor`, `clear` | screen border, 16 bits | text lands in a cell of the screen, the cursor is erased where it was drawn, formats mean what they say |
| Interrupts `src/idt.c`, `asm/entry.asm` | interrupt flag, controller lines, stack | gates, stubs, end of interrupt, `cli`, `sti` | a longjmp out of a handler | a handler runs alone, never in the allocator; keys and ticks go on |
| Graphics primitives `src/video.c` | frame buffer | pixel, fill, row, blit | clipping, two pixel sizes, rows with a pitch | nothing is written outside the buffer |
| Editor, library, examples (`build/zrn`) | text buffer, cached mode | programs over the system calls | what calls return | a saved text is what was edited |
| Boot, floppy | – | straight-line set-up, unused driver | – | not modelled |

The hazards of this code, each at its line with the properties aimed at it, are
in `PROJECT.json` ("hazards").

## 2. Plan

Modules in the order they are written; those marked *done* are in this
directory.

1. **Fat32** (*done*): `fs.c`, one action per sector write; **FileStore**
   (*done*): what a program may rely on, which Fat32 refines; **MCFat32**
   (*done*): instances.
2. **Fat32Proofs** (*done*): types, the directory's entries, the copies of the
   table, chains, leaks, directory clusters; **Fat32FileProofs** (*done*): what
   entries lead to when writes fail, sizes, that what was written is read, and
   the refinement of FileStore.
   **RootDir**, **Directory**, **MCRootDir** (*done*):
   the root directory by sectors and buffers, with failing reads, and the row of
   slots that Fat32 takes it for; **RootDirProofs** (*done*): what its scans find
   and the refinement, and what is proved of Layout and FatName.
3. **Keyboard** (*done*): handler and reader of the ring at the grain of
   memory accesses; **KeyQueue** (*done*), the bounded queue it implements;
   **MCKeyboard** (*done*); **KeyboardProofs** (*done*): types, modifiers and the
   refinement for every ring size, and the arithmetic of Sleep.
4. **Heap** (*done*): `kmalloc` and `kfree` as operators on the block list;
   **Display** (*done*, extends Heap): open, close, draw and present;
   **AppRun** (*done*, extends Display): `exec_program`, `app_abort`, the run
   command, with Ctrl-C between any two assignments; **MCAppRun** (*done*);
   **AppRunProofs** (*done*): all its invariants, for every heap and screen, and
   what is proved of FrameBuffer.
5. **AtaPio** (*done*): driver loops against the device's phases, with
   time-outs and abandoned transfers; **AtaPioProofs** (*done*). Next, a device
   that ignores commands in the middle of a transfer.
6. **LineEdit** (*done*): the shell's line on the console; **Editor** (*done*):
   the editor over several runs; **Session** (*done*): both together, joined by
   `run` and its arguments; **MCSession**; **SessionProofs** (*done*): all its
   properties that hold, for lines and texts of any length. **Characters** names
   the characters that both look for.
7. **Layout** (*done*): sector arithmetic; **FatName** (*done*): the 8.3
   conversion; **Sleep** (*done*): tick arithmetic.
8. **Interrupts**, **InterruptsProofs** (*done*): the controller, the interrupt
   flag and the longjmp out of a handler.
9. **FrameBuffer** (*done*): which bytes the primitives write and where text
   goes; **Printing** (*done*): what is printed.
10. Failing reads of the table in Fat32; the library's cursor and terminal
   (`api_1/src/cursor.c`, `term.c`) over the display.

Theorems worth proving next: Fat32's chains and leaks with failing writes, which
need a weaker statement than the one that holds without them.

## 3. Fat32

### Model and code

| Model | Code |
|---|---|
| `fat[f][c]` | entry of cluster `c` in table copy `f` (`fat_set_entry`, `get_next_cluster`, `find_free_cluster`) |
| `dir[s]` | slot `s` of the root directory, numbered along its chain: "end" (0x00), "deleted" (0xE5), "skip" (label, long name), "file", "dir" |
| `data[c]` | what the cluster holds |
| `pc` | the write the running operation does next |
| `pos`, `last`, `new`, `prev`, `first`, `cur`, `done`, `r` | the locals of the functions the operation is in |
| `job` | the copies that `fat_set_entry` has still to write |
| `clean` | history: nothing was cut short, no write failed |

One action is one sector write with everything the code reads and computes
since the write before it. Nothing else runs in between, except the end of the
operation, so finer steps would show nothing more: `Abort` (Ctrl-C) and
`PowerLoss` may come after every write. A write that fails has had its effect
or not (`Outcomes`); the code cannot tell.

`make_dir` is `make_dir`, `MkDots`, `MkEntry`, `MkFull`; `remove_dir` is
`remove_dir` and the shared `FreeOne`, `FreeDone` (`free_cluster_chain`);
`fs_write_file` is `StartWrite`, freeing, `Alloc`, `Link`, `Unalloc`,
`WriteData` (`alloc_and_write`), `Cleanup`, `Commit`; `fs_append_file` begins
with `StartAppend` and shares the rest. For the two functions that return
nothing, `r` holds the message they print.

Abstracted: the sectors of a cluster (a cluster is written in one step; what is
not linked or lies beyond the size of a file is not visible, and that of a
directory cluster only one slot changes is what RootDir shows), the upper four bits of table entries, time
stamps, the 8.3 conversion (`Names` are its results; FatName is the conversion)
and where clusters and entries lie (Layout). Reads do not fail
(RootDir has failing reads of the directory).
Definitions whose comment begins "Fault" stand for plausible mistakes; no
action uses them.

### Properties

* `ChainsInv`, of which `NoDangling`, `NoCrossLink` and `RootIntact` are parts:
  the order of the writes keeps the volume's structure valid after every one of
  them.
* `RefinesFileStore`: a program sees, of every file, the old contents, the
  empty file, or all of the new contents, and no change to other files; an
  append shows at once.
* `WriteIsRead`, `SizeMatchesChain`, `NoLeak`, `MirrorAgree`,
  `DirInitialised`, `EndMarker`, `UniqueFileNames`, `OnlyItsEntry`.
* `ReachableSafe`: what remains of `NoDangling` and `NoCrossLink` when writes
  fail.
* `CallsEnd`: every call ends. Fairness is weak fairness of `Step`, the steps
  of the running call: the processor executes the thread, and no other thread
  can hold it up. Nothing is assumed of calls, Ctrl-C or power.

### Runs

| Run | Instance | Shows |
|---|---|---|
| store | 2 free clusters of 2 bytes, 2 slots beside the label, 2 names, files of 0, 1 and 2 clusters, all five operations, one copy of the table; Ctrl-C and power loss in all but appends; fairness | `RefinesFileStore`, `CallsEnd`, `NoLeak`, `SizeMatchesChain` |
| volume | root chain of 2 clusters, 3 free clusters, 2 copies, all five operations; Ctrl-C and power loss | structure and mirror after every write |
| faults | as store, 2 copies, every write may fail; no rmdir (see below) | `ReachableSafe`, `RootIntact`, `SizeMatchesChain`, `WriteIsRead` |

The bounds let every case happen: beside a file of one cluster another write of
two runs full half-way, and so does an append to a full cluster; a rewrite frees
and reuses clusters of an old chain of two (run volume and run faults have a
third free cluster, so a file of two and one more); two slots make the directory full and leave deleted slots
before used ones; two names give a file, a directory and both under one name;
two copies of the table let the mirror fall behind. The passing runs check for
deadlock: no call gets stuck. The two names are symmetric (nothing orders
them); run store, which checks liveness, uses no symmetry.

With failing writes `remove_dir` is left out of run **faults**: it does not look
at the result of writing its mark (`fs.c:436`) and frees the chain all the same,
so an entry may then lead to free clusters. `DirInitialised` is not claimed there
either: `make_dir` does not look at the result of writing the dot entries
(`fs.c:331`), and makes an entry for the cluster all the same. `ReachableSafe`
says that such a directory's chain is at least allocated and its own.

Run store leaves Ctrl-C and power loss out of appends, and so `SizeMatchesChain`
is not checked of appends cut short (run volume cuts them short too): an append cut
short leaves clusters behind the last one of the file, and a later append takes
them for the end of the file. `fs_append_file` has no caller in the tree and is
not declared in `inc/fs.h`, so this is recorded as a hazard only.

### Proofs

Assumptions on the constants: `GeometryAssumption` (a root chain within the
volume, at least one table copy, at least two slots, fewer clusters than
0x0FFFFFF8; the root directory has a cluster, which holds 16 entries a sector)
and `CallerAssumption`.

**Fat32Proofs**, with failing writes, Ctrl-C and power loss, for every geometry:

* `TypeCorrect`: `Spec => []TypeOK`;
* `NothingHidden` and `NamesStayUnique`: `[]EndMarker`, `[]UniqueFileNames`, from
  `DirInv`. Neither is inductive alone: that an entry stored late in a call goes
  to a slot that is free and makes no second file of a name rests on what the call
  found at its beginning, and for a write or append on `PosHeld`, that its entry
  is still there (for a write, empty), through all steps of the table;
* `OthersUntouched`: `Spec => OnlyItsEntry`, from the same invariant;
* `CopiesAgree`: `[]MirrorAgree`. `MirrorHeld` adds that the primary copy already
  has what is on its way to the others, until a write fails or the call is cut
  short.

and, assuming `WriteFaults = FALSE` (with failing writes `NoDangling` is false:
`free_cluster_chain` goes on after a failed write):

* `ChainsStayApart`: `[]ChainsInv`, and from it `NeverDangling`,
  `NeverCrossLinked`. `NoDangling` and `NoCrossLink` are not
  inductive: whether linking a cluster is safe depends on what the running call
  knows of it. `ChainsInv` adds that: `NewHeld` (the cluster just allocated is
  marked, no entry and no link leads to it, or only the link just made),
  `ChainHeld` (the chain under construction is loose, or hangs behind `last`
  only, and `prev` is its end) and `CurHeld` (the rest of the chain being freed is
  led to by nothing). `at` is the point at which the call goes on when all copies
  are written, so that the steps of the mirror preserve everything. The lemmas
  `ChainsAlloc`, `ChainsFree`, `ChainsSetTail`, `ChainsCut`, `ChainsEntry`,
  `ChainsOrphan` say what each kind of write does to the chains; then there is
  one lemma per action;
* `NothingLeaks`: `[]NoLeak`. While a call runs, a cluster may belong to no entry;
  `LeakInv` names whose it is (`Held`: the one just allocated, the chain being
  built, the chain being freed) and says that every allocated cluster belongs to
  the root, to an entry or to the call. `Chain(c)` is defined as the least set
  that has `c` and is closed under links, so that what a write of the table does
  to it follows from that it is the least: no induction over the length of a
  chain is needed. `TailHeld` keeps the chain being built in one piece, an append's
  behind a cluster of its file;
* `DirectoriesInitialised`: `[]DirInitialised`. `DotsHeld` adds that the dot
  entries are on the disk before the entry that leads to them, and the chains'
  invariant that no later call writes to that cluster.

**Fat32FileProofs**, with failing writes if there are no appends and no rmdirs
(`WriteFaults => Ops \cap {"append", "rmdir"} = {}`, the operations of run faults),
and with all operations if writes do not fail. The restriction is the code's: when
`remove_dir` fails to write its mark it frees the chain all the same, and when the
write that links an append's new cluster is reported as failed but was done, or
the one that cuts the chain again is not done, the clusters that are then freed
stay behind the file's last one; in each case an entry leads to free clusters.

* `ReachableStaysSafe`: `[]ReachableSafe`, and `RootStays`: `[]RootIntact`. When
  writes fail, links lead anywhere but the chains of entries: `FaultInv` says that
  entries lead to allocated clusters and to no common ones, that what the call
  holds is on none of their chains (`Safe`, the root's chain included), that the
  call knows the state of the cluster it links and of the end it links it to (`Own`),
  and that it frees nothing it still builds (`Sound`). Without failing writes both
  follow from `ChainsInv`;
* `SizesMatch`: `[]SizeMatchesChain`, for appends that are not cut short (they may
  leave a longer chain). Both worlds give `Ground`, what the argument needs of the
  chains. `SizeInv` relates `done` to the number of clusters built so far
  (`BuiltSize`), and what an append goes back to when it finds no space to the size
  of the entry (`OldSize`);
* `WrittenIsRead`: `[]WriteIsRead`. `Written` says that the clusters of a write are
  a sequence w[1..n], each linked to the next, none twice, with `done` bytes of
  `arg` in them one cluster after the other; `ReadIs`, that a reader (`Walk`) that
  begins where such a sequence does returns those bytes. Induction over the links
  a reader follows is an argument by the least one that goes wrong (`Least`, from
  the library's theorems on well-founded relations).

* `StoreRefined`: `Spec => RefinesFileStore`, under what run store assumes: no
  write fails (`WriteFaults = FALSE`) and appends are not cut short
  (`"append" \notin Crashes`). FileStore says that an append adds exactly its bytes;
  one that is cut short leaves linked clusters behind the file's last one, and the
  next append takes the wrong one for the last. The calls that are cut short anywhere
  are the other four. `View` says what a program sees in terms of the volume: a
  file with a first cluster and size shows what a sequence of clusters that lists
  its chain spells (`Shows`, `ListsFile`); every file has one (`AllListed`: a walk
  of a sound chain never comes to a cluster twice, so that it ends). Most steps
  are `Steady`: they write the table or a cluster no file has, and every file shows
  after them what it showed before, so that a program sees nothing. The others
  write one entry, of the file that the call is about (`FilePut`), of a directory, or
  the mark of a deleted one. `ReadInv` gives what the last step of a write shows;
  for that of an append `AppendInv` adds that the file's chain followed by the
  clusters under construction is one list, that holds, behind as many bytes as the
  entry says, the ones written so far. `CallHeld` bounds the name and buffer of the
  running call. `CallerAssumption` names "none" as no file's name: it stands for no
  call under way.

Only model-checked: `CallsEnd` (liveness).

### RootDir and Directory

Fat32 changes one slot of the directory in one step. In the code that is a scan
into a static buffer, cluster by cluster, a change in the buffer and a write of
the whole cluster, sector by sector; and nobody looks at a read that failed.
**RootDir** has these steps, **Directory** is the row of slots they should amount
to, and `RefinesDirectory` is the refinement.

| Model | Code |
|---|---|
| `root` | the slots on the disk, cluster after cluster, sector after sector |
| `buf` | the buffer of the running call: `io_buf` or a static of its own |
| `Scan` | one turn of the loop over clusters in `scan_root`, `make_dir`, `remove_dir`, `fs_find_file`, `fat32_list_files`, with the read of the table that ends it |
| `hit`, `slot` | `dir_pos_t` |
| `Build` | the file's bytes passing through `io_buf` (`alloc_and_write`, the fill of `fs_append_file`) |
| `StoreEntry`, `WriteSector` | `store_entry` up to its write; one turn of `write_cluster` |
| `CutShort` | Ctrl-C or power loss |

Between two calls the buffer holds anything (`Junk`, which is resolved only where
a failed read leaves it in place: into zeros, bytes of a file, or an entry). A
read of the table that fails lets the scan end early or go to any cluster of the
chain (`next`). A write may fail with or without effect.

* `RefinesDirectory`: a call adds, changes or removes one entry, the first of its
  name or the first free slot, in one piece, also when it is cut between two
  sectors. A call one of whose reads failed may spoil more (`Spoil`), and that
  the code does: store_entry puts the stale sector back to disk. What is claimed
  is that it spoils slots of one cluster in a step, and that the calls after it
  are sound again.
* `ScansAreRight`: without a failed read, hit, free slot and listing are what a
  look at the whole directory gives, over the border of clusters and sectors, the
  end mark and deleted entries.

Run **dir**: two clusters of two sectors with one slot each, two names, two reads
that fail, failing writes. One slot in a sector is the strictest case: any two
slots of a cluster may come apart. The four slots (one holds the label) are full
after three calls, and entries lie in both clusters.

`RootDirProofs` proves both properties for a directory, clusters and sectors of
any size, any names and any number of failing reads, with failing writes:
`ScansFind` (`[]ScansAreRight`) and `DirectoryRefined` (`RefinesDirectory`). Only
`RootDirAssumption` is assumed: there is at least one slot. The inductive
invariant, `DirHeld`, says what a call knows at each place as long as none of its
reads has failed:

* `ScanHeld`: before the cluster it scans next nothing has stopped it, the slot
  it remembers is the first free one so far (`FreeTo`), and what it has shown is
  what a listing up to there shows (`ShownTo`);
* `FoundHeld`: the buffer is the cluster of the entry that stopped it;
* `StoreHeld`, `BuildHeld`: the entry it is about to store goes to the first slot
  of its name, or to the first free one when there is none;
* `PutHeld`: the buffer is the cluster but for the one entry, and in that too once
  its sector is written (`PutAs`), and Directory permits the change (`Permits`).
  So a sector written changes one slot or nothing;
* `RetHeld`: the calls that do not look at what their write returns are those
  that write no second time.

That there is a first slot with a property comes from the well-foundedness of the
natural numbers (`Least`). The listing is taken apart at the border of clusters,
where the function by which `Shown` recurs starts again from the entries shown
before. A step of a call with a failed read changes slots of one cluster only,
which is `Spoil`; that the next call is sound again follows from `Return` and
`CutShort`, which leave nothing of the call behind.

### Layout

Fat32 takes for granted that a write of a cluster or of an entry changes
nothing else. **Layout** is the arithmetic behind that: `calculate_LBA`, the
sector and offset of an entry (`get_next_cluster`, `fat_set_entry`), what
`fs_init` computes, `find_free_cluster`'s bound, and the 28 bits of a sector's
number that `ata.c` hands on. It has no steps. A volume is the record of the
fields of its boot sector; `Word` is 2^32, and sums and products wrap.

`RootDirProofs` proves for every word size, sector size and volume that no two
clusters share a sector (`ClustersAreApart`), that clusters lie behind the
tables and inside the volume (`ClustersAreInside`), entries inside the tables
(`TablesAreInside`), and that no two entries and no two copies overlap
(`EntriesAreApart`). What is assumed of a volume is `Volume`: fields that are
words, at least one sector in a cluster (which `fs_init` checks), and
`Formatted`: the tables end inside the volume and the volume inside the disk.
`fs_init` does not check that; `mkfs.vfat` (`build/disk.sh:37`) makes volumes
so. `LayoutAssumption` says that the disk's addresses, four times over, fit in a
word: 2^28 sectors in 2^32. The argument: the bounds show that nothing wraps
(`VolumeSizes`, `ClusterAddress`, `EntrySector`), and a place in rows of equal
length is one row and one place in the row (`SamePlace`).

### FatName

**FatName** is `format_fat_name` and `fat_name_equal` as functions, a name being
a sequence of characters. `RootDirProofs` proves for fields of any length that
names differing in case only become one (`CaseNeverMatters`), and that of names
that fit an entry no others do (`NamesAreKeptApart`). Names that do not fit
(longer ones, the empty one, one ending in a dot) may share an entry with
others: the code refuses none of them. The proof has to show that the first dot,
which `Stop` chooses, exists (`StopThere`, from the well-foundedness of the
natural numbers) and is the same in both names.

TLC evaluates both modules' properties on small volumes and short names when it
starts any of the Fat32 runs (`LayoutHolds`, `NamesHold` in MCFat32).

## 4. Keyboard

### Model and code

| Model | Code |
|---|---|
| `key_buffer`, `buf_head`, `buf_tail`, the four flags | the static variables of `keyboard.c` |
| `keyboard_handler_c` | one interrupt, one byte; interrupts are off in it, so it is one action |
| `ReadSlot`, `MoveTail` | `keyboard_read_char` up to its read of the slot, and its write of `buf_tail`; `c` is its local |
| `Poll`, `handle_key` | `shell_main`'s loop: the test, the use of the key, then `hlt` |
| `getch`, `ProgramEnds` | a program that reads keys through the system call, and returns |
| `app_abort` | Ctrl-C in a program: the thread is back in the shell, wherever it was |
| `TimerIrq` | ends a `hlt`, 100 times a second |
| `held`, `wire` | which keys are down, and the bytes of the last press or release not yet read (external) |

A key is a sequence of one or two bytes; `Board` is the keyboard. Abstracted:
all printing keys but `1` and `c` (one that Caps Lock changes and one that it
does not), all extended keys but Up and the right Ctrl. The keyboard sends a
key's bytes after those of the one before are read, so no byte is lost in the
controller. The console is not suspended at the prompt; when that is so is
AppRun's question, and its finding is an exception to `KeysHandled`.

### Properties and runs

Run **ring** (ring of 3, left Shift, both Ctrl keys, C, Up; fairness):

* `RefinesKeyQueue`: what readers get is what a bounded queue gives, each
  accepted key once and in order, with handlers between the two accesses of a
  read and Ctrl-C in the middle of it. A key that finds the ring full leaves no
  trace; that a key is accepted when there is room is the guard of
  `buffer_push` and not claimed by the refinement.
* `KeyStaysPut`: the handler leaves the slot alone that a read is about to give
  up. `ShellGetsKey`: the test and the read of the shell agree, although other
  steps come in between. `ModifiersFollowKeys`: no flag is left set when no key
  of its kind is down, over all orders of press, repeat and release.

* `KeysHandled`: a key that waits at the prompt is taken. Fairness is weak
  fairness of `Thread` (the processor executes the shell's loop; programs need
  not return, so their steps are not in it) and of `TimerIrq` (the timer is
  programmed once in `init_timer` and never masked; without it a key that comes
  between the test and the `hlt` waits for the next key).

A ring of 3 holds 2 keys: it is full, wraps, and is overrun within a few
presses. The handler treats a key by its class, and the keyboard of the run has
a member of each but Caps Lock (five times the states); the theorems hold for
every keyboard.

### Proofs

`KeyboardProofs` proves for every ring size above 1 and every keyboard whose
keys send one byte or the prefix and one byte (`SizeAssumption`,
`BoardAssumption`; no key has the code whose release byte is the prefix itself,
0xE0 - 0x80, which no keyboard of this kind uses):

* `TypeCorrect`: `Spec => []TypeOK`, the indices in range included;
* `ReadIsSafe`: `Spec => []KeyStaysPut`;
* `RingIsQueue`: `Spec => RefinesKeyQueue`, from `TypeOK /\ KeyStaysPut`, which
  is inductive. The lemmas `Dist...` and `Slot...` are the arithmetic modulo
  `Size`; `ContentPush` and `ContentPop` say that storing at the head appends
  and moving the tail takes the first; then `RefinesStep` maps each action to
  `Accept`, `Take`, `Forget` or a stutter;
* `ShellReadsKey`: `Spec => []ShellGetsKey`. `ReadsSure` adds what is needed:
  `app_running` tells in which of its places the thread is, and a read begun by
  the shell finds the ring not empty; `Filled` (every key that waits is one) is
  read off the refinement.
* `NoModifierStuck`: `Spec => []ModifiersFollowKeys`. `ModInv` follows the flags
  through the bytes of one key: nothing unread and the flags as the keys are, or
  a press unread and the flags without that key, or a release and with it, with
  `extended` telling how much of a prefix was read.

Only model-checked: `KeysHandled` (liveness).

### Sleep

**Sleep** is the arithmetic of `sleep` (`src/time.c`) with a counter that
wraps; the theorems are in `KeyboardProofs`. `SleepsItsTicks`: it ends at the
tick it counts out and at none before, also when the counter comes back to zero
in between (`HandlerTicks`: `Ticks` is what the handler does to it). `SleepFits`: what it counts out is the whole ticks
in the time asked for, or one, for times whose product with the frequency does
not wrap (11.9 hours). The first tick may come at once, so a sleep may be up to
two ticks shorter than asked for. `TimerAssumption`: a word holds more than 1000
values, between 1 and 1000 ticks in a second. TLC evaluates the same with small
numbers in run ring (`SleepHolds`).

## 5. Heap, Display, AppRun

### Model and code

One thread goes through `cmd_run`, `exec_program`, the program, `display_open`
and `display_close`, one action per assignment to something that is read after
a Ctrl-C: `app_running`, `app_jmp`, `display.active`, the two buffers,
`console_suspended`. `app_abort` is enabled at each of these points while
`app_running`. The stores are taken in the order of the source. `new` and
`was_active` are the locals of `display_open` and `display_close`, `ret` is the
stack of places to return to.

`heap` is the allocator's list of blocks, free or not, with addresses in words
of 4 bytes; `kmalloc` and `kfree` run with interrupts off and are one step. A
header that a block was split behind lies in memory like any buffer: whether it
falls into one that is drawn on is what `BuffersApart` and
`FailedOpenKeepsBuffers` ask. The question is real, since `kfree` joins
neighbouring blocks whether they are in use or not: after every `kfree` of this
system the list is one free block, with a live buffer in it or not.

`back`, `front` and `screen` hold one value per row; a row the kernel has
printed on is "text". A pixel changes a row to another colour; a fill changes
rows to any, the colours they had included. `VisibleRows` is the height of the
screen, the rest is cut off by `blit32`.

Left out: colours within a row, and a program that damages the kernel.

### Properties and run

Run **apprun**:

* `PromptHasScreen`: back at the prompt no display is open and its buffers are
  forgotten; the console takes keys unless `cut` says that Ctrl-C fell into the
  window of the finding below. Run **suspended** checks the same without that
  exception.
* `BuffersApart`: a program that draws has two buffers in the heap, apart from
  each other and from every header of the list, after any number of opens.
* `FailedOpenKeepsBuffers`: when the second allocation of a reopen fails, the
  split of the first has not written into the buffers still in use. It holds
  because of the limit on the size and of the ratio of that limit to the heap
  (64 MB for a buffer, 512 MB of heap: seven of the largest fit).
* `MemoryComesBack`: at the prompt the heap is one free block again, unless
  Ctrl-C fell into `display_open` before its buffers were stored ("open" in
  `cut`); what was allocated there is then lost until the next `kfree`
  joins everything.
* `SuspendedWithDisplay`, `AbortLandsInExec` (the flag is down before the frame
  it protects is gone), `NoRowMissed` (a visible row is on the screen, or dirty,
  or printed over).

`AbortLandsInExec` excepts the instant between `app_running = true` and
`setjmp` (`loader.c:58-60`). A Ctrl-C there jumps with the buffer of an earlier
run, which leads to the same place of the same frame, or in the first run with
an empty one ("lost").

Bounds: a heap of 46 words and buffers of up to 4 words keep the real ratio. The
sizes 2x2 and 3x1 are accepted; 3x2 and 6x4 are over the limit, and 6x4 would
fit in the heap once and not twice; 0x1 is empty. One row is visible and one or
two are drawn, so a dirty range can begin or end at the row that is seen. All states
of this instance are explored.

### Proofs

`AppRunProofs` proves every invariant of the runs, and
`FailedOpenKeepsBuffers`, for a heap, a limit of the size and a screen of any
extent. The invariant has four layers, each proved with the ones before it:

* `Standing`, `Jumps`: where the thread stands and to whom it returns, and that
  `app_running` is set only while `app_jmp` is live: `AbortLands`
  (`[]AbortLandsInExec`);
* `Shaped`: what the display's record holds at each place, `Suspended`: whether
  the console is, counting a `cut`: `PromptIsBack` (`[]PromptHasScreen`),
  `ConsoleFollowsDisplay` (`[]SuspendedWithDisplay`);
* `Drawn`: pictures have the display's size, and a row that is not dirty is in
  the front buffer as in the back one: `RowsReachTheScreen` (`[]NoRowMissed`);
* `Heaped`: `AllComesBack` (`[]MemoryComesBack`), `BuffersStayApart`
  (`[]BuffersApart`), `FailedOpenSpares` (`FailedOpenKeepsBuffers`). The key is
  `Grown`, the shape of the list: blocks follow each other without gaps, and
  only the last can be free. `kmalloc` keeps it by splitting the last block;
  `kfree` of such a list leaves one free block (`FreedIs`), by the argument of the
  first place where that fails. So the display's buffers are either blocks of the
  list or lie in the one free block, where the next two allocations begin behind
  one another at the bottom (`Kept`).

`RoomAssumption` says that two of the largest buffers with their headers fit in
half of the heap (64 MB each, 512 MB). Without it, a failed second allocation
could follow a first one that split inside a live buffer.

## 6. AtaPio

The driver's variables are `ata_present` and where the thread stands in a call
(`pc`, `call`, `buffer`: words read, or words still to be written); the rest is
the device. A polling loop ends with the status that lets it go on, with an
error, or with its time-out, which may come whenever the device is not ready:
nothing is assumed of its speed. `Insw` and `Outsw` move one word; `Abort`
(Ctrl-C) may come between any two and leaves the device as it is.

The device, external: it works (`BSY`), hands out or takes words (`DRQ`), may
refuse a command or fail a flush (`ERR`), stores a taken sector whole in its
cache and brings it to the medium at a flush or by itself; a power loss keeps
the medium. A new command ends an unfinished transfer, and a flush sent while a
sector is being stored waits for it. ATA leaves both to the device: one that
ignores such commands (as emulators do) would break `ReadIsWritten` after a
Ctrl-C in a transfer and `AckedIsStored` at once, because the driver looks
only at BSY before a command and at nothing before the flush.

Run **ata** (2 sectors of 2 words, 2 values; 2 words are enough to be cut short
between them): `ReadIsWritten` states that a good read returns a whole sector
that was written there, consistent with earlier good writes and reads (`may`
and `kept` are the history); `AckedIsStored` that a good write is on the medium;
`CallReturns` that every call ends (weak fairness of the thread only, the
time-outs do the rest). In this run storing a taken sector does not fail
(`CommitFaults = FALSE`); run **ata_acked** is what happens otherwise.

`AtaPioProofs` proves `ReadsAreWritten` (`[]ReadIsWritten`) and `AckedIsOnDisk`
(`[]AckedIsStored`) for sectors of any length and number, assuming
`~CommitFaults`. Neither is inductive. `IInv` adds what the device is doing at
each place of the driver's code (`InCall`: it was given this command for this
sector, has handed out or taken so many words, and those are the words in
`buffer`), what it may still do by itself after a call was given up (`Pending`:
a sector it stores or caches is one that `may` has), and that the history is
consistent (`Sound`: what is on the medium or in the cache is in `may`).
`CallReturns` is liveness and only model-checked.

Fat32 relies on this contract: a sector write has its effect and says so, or
says it failed and has had its effect or not (`Outcomes`).

## 7. LineEdit, Editor, Session

### Model and code

**LineEdit** is the shell's line: `line` is the struct of that name (both
buffers, `index`, `command_length`, `in_command`), the actions are the branches
of `handle_key`. `console` is the cursor's column, the place where it is drawn,
and the cells of the prompt's row; `print_char`, `update_cursor`,
`erase_previous_cell` are functions of it. `typed` is history: the characters
that the keys make, with those taken back removed. The buffers begin with
anything in them, as they are on the stack.

**Editor** is the editor as a program that runs, ends, and is run again.
`bss` is what its library keeps in uninitialised data: nobody clears it, neither
the loader nor the program, so it is carried from run to run; before the first
run it is taken for zero. `stage` is the place in `main`: waiting to begin, in
`read_name`, in `edit`, in `save`. `getch` may answer with any key. `save` leaves
what `fs_write_file` may leave, cut short by Ctrl-C or failing.

**Session** joins them: `cmd_run` takes the line apart and hands over the
arguments, the editor runs, the prompt comes back.

Left out: the row breaks (`left` says that a line has left the prompt's row, and
its picture is no longer looked at), old text below the prompt, the editor's
picture, further programs, and a use of the editor on its own file.

### Properties and runs

Run **shell** (lines of 3 characters, a screen row of 7 cells, one tab per line,
two letters, names of one letter, texts of 3 characters):

* `RunsWhatIsTyped`: whatever was typed and taken back, over the border of
  command and argument and at a full buffer, the strings that `execute` gets
  are the line cut at its first space.
* `EchoMatches`: the row shows the line and the cursor behind it, unless a tab
  was typed (it moves the cursor and is no part of the line, so a backspace then
  erases the wrong cell).
* `ArgsAreTyped`: the program is told what stands behind its name, without the
  spaces before it.
* `OnlySavedText`: a file changes only by `:wq` of the editor that was opened
  for it, to the text without that line or, when the write is cut short, to
  nothing.

Lines of 3 hold a command, a space and an argument in each of the shapes that
matter (full command, full argument, empty either); a row of 7 cells makes the
longest lines break; texts of 3 hold a line, a break and `:wq` (one letter here).

Run **args** (three letters) is a finding. `SYS_READ_FILE` is documented
(`build/zrn/api/README.md:91`) and never installed (`syscall.c:45-66`), so
`read_file` answers -1: `load` is translated with that answer, and the editor
opens every file as a new one.

### Proofs

`SessionProofs` proves every property of run shell for lines, rows, names and
texts of any length, and any letters that are neither the space nor NUL. The one
assumption of its own, `ProgramAssumption`, is that the editor's name is not
empty.

* `CommandsAreTyped` (`[]RunsWhatIsTyped`). What `execute` would get is fixed by
  the two buffers long before Enter is pressed, so the invariant `LineHolds` says
  of every moment which cells carry which of the characters typed, that the part
  before the first space is a word, and which buffer is already ended by a NUL.
  What else is in the buffers stays open: the stack, or letters taken back.
* `EchoIsLine` (`[]EchoMatches`), from `ConsoleHolds`: as long as the line has not
  left its row, the cursor is drawn where it is, behind the line and four cells
  for every tab; without tabs, every cell of the row is known. A backspace
  needs all of that: it erases the cell before the cursor, whatever is there.
* `ToldWhatIsTyped` (`[]ArgsAreTyped`): a word, the spaces behind it and the rest
  put together are the line again (`WordGapRest`).
* `OnlySaved` (`Spec => OnlySavedText`), from `TextHolds`: the text fits its
  buffer, and ends with a line break, or is empty, when it is saved.

## 8. Interrupts

### Model and code

**Interrupts** is the machinery that the other models take for granted: that a
handler is one step, that it never falls into the allocator, and that ticks and
keys go on after Ctrl-C has left a handler by longjmp.

| Model | Code |
|---|---|
| `iflag` | the interrupt flag: `cli` and `sti` in `stdlib.c`, `idt.c`, `loader.c`; a gate of type 0x8E clears it (`set_idt_gate`), `iretd` brings it back |
| `irr`, `isr`, `remapped` | lines requested and in service, and `pic_remap` (external) |
| `port` | the byte in the keyboard's port |
| `pc`, `frames` | where the processor is, and the places on the stack to which `iretd` returns |
| `Deliver` | an interrupt taken through its gate; `timer_handler_c`, `keyboard_handler_c`, `SendEoi`, `app_abort`, `Iret` are the handlers, up to and behind the end of interrupt |
| `pic_remap`, `Lidt`, `Sti` | `init_idt`, from the state in which `kernel.asm` hands over (interrupts off) |
| `Loop`, `exec_program`, `Alloc`, `AllocEnd`, `sleep`, `ProgramReturns`, `Aborted`, `CommandOver` | the thread, as far as it touches the flag, `app_running` or a tick |
| `Exception`, `isr_handler_c` | a processor exception: a loop with interrupts off |

An interrupt goes before the next instruction of the thread (`Step` needs
`~Ready`). The lines are edge triggered: an edge on a line already requested is
lost, which for the keyboard is why a byte must be read before the next can come.

### Properties and run

Run **interrupts** (no constants; all states):

* `HandlersAlone`: what is interrupted is interrupted by one handler, which runs
  alone to its end: none on top of another, none before the table is loaded, none
  between the `cli` and the `sti` of the allocator. So Ctrl-C never leaves the
  list of blocks half changed (Heap and AppRun rely on it).
* `NothingInService`: in the thread no line is in service. The keyboard's handler
  sends the end of interrupt before it may leave by longjmp; if it did not, the
  controller would hold back every later key.
* `KeysAndTicks`: every byte of the keyboard is read, and every sleep sees its
  tick. It excepts the end in an exception's loop, and a key pressed while
  `pic_remap` sets the controller up (`early`): the edge is lost, nobody reads the
  byte, and no later key raises an edge. Nothing in the code empties the port.

Fairness: weak of the processor and of the timer's edges (programmed once, never
masked). Without more, a tick could come in every keyboard handler and a key in
every timer handler, and the thread would never run: handlers take microseconds,
ticks are ten milliseconds apart and keys further, so it is assumed that it gets
quiet again and again (`Quiet`: the thread is at work and no interrupt waits), and
that the thread then gets its turn (strong fairness of `Thread`). Nothing is
assumed of the keys themselves.

### Proofs

`InterruptsProofs` proves `HandlersRunAlone` (`Spec => []HandlersAlone`) and
`LinesAreFree` (`Spec => []NothingInService`). Neither is inductive; the
invariant adds at which places the flag is set, that the flag is off in a
handler, and which line is in service at each place of a handler. `KeysAndTicks` is liveness and only
model-checked.

## 9. FrameBuffer and Printing

**FrameBuffer** takes a primitive of `video.c` for the set of bytes it writes:
`put_pixel`, `video_memset`, `fill_rect`, `blit32`, each with its clipping and in
both pixel sizes; and has the cursor of `cursor.c` and `console.c` as a record,
with the cell a character is drawn in. It has no steps. `AppRunProofs`
proves, for every mode and font size that satisfy the two assumptions:

* `WritesStayInside`: no primitive writes outside the buffer, whatever its
  arguments;
* `PixelsAreApart`, `BlockIsPixels`: pixels share no byte, and rows written in one
  go are the same as pixel by pixel;
* `ClearsTheScreen`: `clear` reaches every pixel;
* `TextOnScreen`: a character is drawn in a whole cell of the screen, right of the
  margin, wherever a sane cursor was. The code keeps the cursor's row in 16
  bits and multiplies it by 16: a row above 2047 wraps (`Sane`). Only newlines
  with no character between them lead there, since a character brings the cursor
  back to the top;
* `CursorIsErased`: the bytes `erase_cursor` clears are those `update_cursor`
  painted.

`ModeAssumption` is what `kernel.asm` looks for (1024 by 768, 24 or 32 bits; the
theorems ask less) and that a row fits into the pitch, which the BIOS answers
for. `CellAssumption`: the screen is made of whole cells, three or more in a row.
Coordinates are integers: the sums of `fill_rect` and `blit32` wrap only for
arguments that no caller comes near. TLC compares `video_memset`, whose rows are
given in closed form, with the loop of the code when it starts run apprun
(`MemsetIsLoop`), in a screen of three cells by two, once with 24 bits and once
with 32 (run suspended).

**Printing** is what `print` makes of a format and its arguments, as text, with
`print_number`, `print_str`, `print_pad`, `atoi`; the clock (`bcd_to_bin`,
`print_format_time`); and what `fs_cat` lets through. TLC evaluates when it starts run shell, for all
words of 10 bits (the arithmetic is the same modulo any power of two):
`NumbersReadBack` and `SignsReadBack` (also of the least int), `ColumnsHold`,
`FormatsPrint`, `ClockReads`, `CatEndsLine`. `Printing` is recursive through and
through, and what it computes for every input is out of reach of the proofs.

`print` takes any text for a format: `echo` hands it the user's line
(`shell.c:75`), so `echo 50%` prints no per cent sign.

## 10. Findings

* `src/loader.c:49`: program memory behind the file's bytes is not cleared, and
  the flag of `api_1/src/args.c` that says the arguments are parsed survives the
  program: the second run of the editor edits the first run's file (run args).
* `src/display.c:89`: Ctrl-C in `display_close`, after the display is marked
  closed and before the console is resumed, leaves a prompt that takes no keys
  (run suspended).
* `src/ata.c:206`: the flush is sent right behind the last word of a write, so
  an error in storing the sector is cleared before anyone looks, and the write
  is reported as good (run ata_acked).

Seen while modelling, and said by no document to be otherwise: `make_dir` makes a
directory of a name that a file has (`fs.c:341`); when it comes first in the
directory, the file can be read and no longer written.

## 11. What is proved, what is checked, what is not modelled

Proved for every value of the constants:

* Fat32: types, the directory's entries and the mirror with failing writes; also
  what entries lead to, sizes and that what was written is read, if there are then
  no appends and rmdirs; chains, leaks, directory clusters and the refinement of
  FileStore without failing writes (section 3); the layout of the volume and the
  conversion of names;
* RootDir: `ScansAreRight` and the refinement of Directory, with failing reads and
  writes (section 3);
* Keyboard: types, every invariant, and the refinement of the ring; the
  arithmetic of sleep (section 4);
* AppRun with Display and Heap: every safety property that the runs check
  (section 5);
* AtaPio: both its safety properties, while storing a sector does not fail
  (section 6);
* Session with LineEdit and Editor: every property of run shell (section 7);
* Interrupts: `HandlersAlone` and `NothingInService` (section 8);
* the bytes of the graphics primitives and the places of text and cursor
  (section 9).

Model-checked only: Printing and all liveness. Liveness is out of reach of the
prover, and so is what Printing computes by recursion.

Not modelled: boot (`bootloader.asm`, `kernel.asm`: straight-line code on BIOS
services), the floppy driver (nothing calls it), the example programs, colours
and the shapes of the font; memory by address, so that neither the limit of a
program's size against the kernel's stack (`loader.c:9`) nor clusters larger than
the static buffers (`fs.c:72`) can be seen; failing reads of the table while
chains are built or freed; the three registers of the clock read one after the
other; and the parts that "partly" names in `PROJECT.json`.
