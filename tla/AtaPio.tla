------------------------------- MODULE AtaPio -------------------------------
(***************************************************************************)
(* The disk driver src/src/ata.c, polling one ATA device.                  *)
(*                                                                         *)
(* The device is external: it works while BSY is set, hands out or takes   *)
(* the words of a sector while DRQ is set, and keeps what it has taken in  *)
(* a cache that a flush, or the device in its own time, brings to the      *)
(* medium.  It may be slower than any of the driver's time-outs.           *)
(*                                                                         *)
(* The registers of a command matter once its code is written, so a        *)
(* command is one step; a polling loop is the status that ends it, or the  *)
(* time-out.  The transfer is a string instruction that can be interrupted *)
(* between words: Ctrl-C may come there as anywhere else.                  *)
(***************************************************************************)
EXTENDS Naturals, Sequences

CONSTANTS Lba, Data, \* sectors; what callers write into every word of one
          Words,     \* words of a sector
          CommitFaults \* may the device fail to store what it has taken?

ASSUME WordsAssumption == Words \in Nat /\ Words > 0
ASSUME CommitAssumption == CommitFaults \in BOOLEAN

Old == "old"     \* what is on the disk before the first write
Whole(v) == [i \in 1..Words |-> v]
Values   == Data \cup {Old}

VARIABLES
    media, cache, \* external: what survives a power loss, what a read sees
    dev,          \* external: the device's phase
    ata_present,
    pc, call,     \* where the thread stands, in which call
    buffer,       \* words read so far; of a write, words still to go
    may,          \* history: what a read of each sector may return,
    kept          \* and what it may after a power loss

disk   == <<media, cache>>
caller == <<call, may, kept>>
vars   == <<media, cache, dev, ata_present, pc, call, buffer, may, kept>>

Quiet  == [st |-> "idle", lba |-> 0, words |-> <<>>, err |-> FALSE, flush |-> FALSE]
NoCall == [op |-> "none", lba |-> 0, v |-> Old]

BSY == dev.st \in {"read", "write", "commit", "flush"}
DRQ == dev.st \in {"give", "take"}
ERR == dev.err

Init == /\ media = [l \in Lba |-> Whole(Old)] /\ cache = media
        /\ dev = Quiet /\ ata_present = FALSE
        /\ pc = "off" /\ call = NoCall /\ buffer = <<>>
        /\ may = [l \in Lba |-> {Old}] /\ kept = may

-----------------------------------------------------------------------------
(* The device.                                                             *)

Fails == dev' = [dev EXCEPT !.st = "idle", !.err = TRUE]

DevRead == /\ dev.st = "read"
           /\ \/ dev' = [dev EXCEPT !.st = "give", !.words = cache[dev.lba]]
              \/ Fails
           /\ UNCHANGED disk

DevWrite == /\ dev.st = "write"
            /\ \/ dev' = [dev EXCEPT !.st = "take", !.words = <<>>]
               \/ Fails
            /\ UNCHANGED disk

\* What comes after the sector: a flush that was asked for in the meantime is a
\* new command, and clears the error of the one before.
AfterCommit(err) == dev' = IF dev.flush THEN [Quiet EXCEPT !.st = "flush"]
                                        ELSE [Quiet EXCEPT !.err = err]

DevCommit == /\ dev.st = "commit"
             /\ \/ cache' = [cache EXCEPT ![dev.lba] = dev.words] /\ AfterCommit(FALSE)
                \/ CommitFaults /\ UNCHANGED cache /\ AfterCommit(TRUE)
             /\ UNCHANGED media

DevFlush == /\ dev.st = "flush"
            /\ \/ media' = cache /\ dev' = Quiet
               \/ UNCHANGED media /\ Fails
            /\ UNCHANGED cache

WriteBack(l) == media[l] # cache[l] /\ media' = [media EXCEPT ![l] = cache[l]]
                /\ UNCHANGED <<cache, dev>>

Device == /\ \/ DevRead \/ DevWrite \/ DevCommit \/ DevFlush
             \/ \E l \in Lba : WriteBack(l)
          /\ UNCHANGED <<ata_present, pc, caller, buffer>>

\* What the driver does to it.  A command ends a transfer left unfinished; a
\* flush waits for the sector before it; outside a transfer the data port gives
\* junk and takes nothing.
Accept(st, l) == dev' = [Quiet EXCEPT !.st = st, !.lba = l]
AcceptFlush   == dev' = IF BSY THEN [dev EXCEPT !.flush = TRUE]
                               ELSE [Quiet EXCEPT !.st = "flush"]
Word   == IF dev.st = "give" THEN Head(dev.words) ELSE "junk"
Given  == dev' = IF dev.st # "give" THEN dev
                 ELSE IF Len(dev.words) = 1 THEN Quiet
                 ELSE [dev EXCEPT !.words = Tail(@)]
Taken(w) == LET words == Append(dev.words, w)
            IN dev' = IF dev.st # "take" THEN dev
                      ELSE [dev EXCEPT !.st = IF Len(words) = Words THEN "commit" ELSE @,
                                       !.words = words]

-----------------------------------------------------------------------------
(* The driver.                                                             *)

\* A step of the thread, and one that leaves the device alone too.
Goes(from, to)  == pc = from /\ pc' = to /\ UNCHANGED <<disk, ata_present, caller>>
Polls(from, to) == Goes(from, to) /\ UNCHANGED <<dev, buffer>>

\* A drive is found, or none.
ata_init == /\ pc = "off" /\ pc' = "idle"
            /\ ata_present' \in BOOLEAN
            /\ UNCHANGED <<disk, dev, caller, buffer>>

\* ata_read_sector and ata_write_sector up to their first loop.
Start(op, l, v) ==
    /\ pc = "idle" /\ pc' = IF ata_present THEN "select" ELSE "failed"
    /\ call' = [op |-> op, lba |-> l, v |-> v]
    /\ buffer' = IF op = "write" THEN Whole(v) ELSE <<>>
    /\ IF op = "write" THEN /\ may'  = [may  EXCEPT ![l] = @ \cup {v}]
                            /\ kept' = [kept EXCEPT ![l] = @ \cup {v}]
                       ELSE UNCHANGED <<may, kept>>
    /\ UNCHANGED <<disk, dev, ata_present>>

\* Fault: the loop has no time-out.
SelectForever == ~BSY /\ Polls("select", "command")

Select == \/ ~BSY /\ Polls("select", "command")
          \/ BSY  /\ Polls("select", "failed")

Command == Goes("command", "poll") /\ Accept(call.op, call.lba) /\ UNCHANGED buffer

\* Fault: data is moved as soon as the device is not busy.
PollBusyOnly == \/ ~BSY /\ Polls("poll", "transfer")
                \/ BSY  /\ Polls("poll", "failed")

Poll == \/ ~ERR /\ ~BSY /\ DRQ    /\ Polls("poll", "transfer")
        \/ (ERR \/ BSY \/ ~DRQ)   /\ Polls("poll", "failed")

InDone == Len(buffer') = Words

Insw == /\ pc = "transfer" /\ call.op = "read"
        /\ buffer' = Append(buffer, Word) /\ Given
        /\ Goes("transfer", IF InDone THEN "done" ELSE "transfer")

Outsw == /\ pc = "transfer" /\ call.op = "write"
         /\ buffer' = Tail(buffer) /\ Taken(Head(buffer))
         /\ Goes("transfer", IF buffer' = <<>> THEN "flush" ELSE "transfer")

\* The command follows the last word without a look at the status.
Flush == Goes("flush", "settle") /\ AcceptFlush /\ UNCHANGED buffer

\* Fault: what the flush says is not looked at.
SettleBlind == Polls("settle", "done")

Settle == \/ ~BSY /\ ~ERR  /\ Polls("settle", "done")
          \/ (BSY \/ ERR)  /\ Polls("settle", "failed")

\* The call returns, true or false.
Return == /\ pc \in {"done", "failed"} /\ pc' = "idle"
          /\ may' = IF pc = "failed" THEN may
                     ELSE [may EXCEPT ![call.lba] = IF call.op = "write" THEN {call.v}
                                                    ELSE {v \in @ : buffer = Whole(v)}]
          /\ kept' = IF pc = "done" /\ call.op = "write"
                     THEN [kept EXCEPT ![call.lba] = {call.v}] ELSE kept
          /\ call' = NoCall /\ buffer' = <<>>
          /\ UNCHANGED <<disk, dev, ata_present>>

Thread == \/ Select \/ Command \/ Poll \/ Insw \/ Outsw \/ Flush \/ Settle \/ Return

-----------------------------------------------------------------------------
\* Ctrl-C: the caller is gone, the device goes on.
Abort == /\ pc \notin {"off", "idle"} /\ pc' = "idle"
         /\ call' = NoCall /\ buffer' = <<>>
         /\ UNCHANGED <<disk, dev, ata_present, may, kept>>

\* What is only in the cache is lost.
PowerLoss == /\ pc # "off" /\ pc' = "off"
             /\ cache' = media /\ dev' = Quiet /\ may' = kept
             /\ call' = NoCall /\ buffer' = <<>>
             /\ UNCHANGED <<media, ata_present, kept>>

Next == \/ Device \/ ata_init \/ Thread
        \/ \E l \in Lba : Start("read", l, Old) \/ \E v \in Data : Start("write", l, v)
        \/ Abort \/ PowerLoss

Spec == Init /\ [][Next]_vars

\* The thread runs on; of the device nothing is assumed.
FairSpec == Spec /\ WF_vars(Thread)

-----------------------------------------------------------------------------
\* A read that says true has the whole of a sector, and of the right one: what
\* the last good write left there, or one that failed or was cut short since,
\* and what an earlier read has shown, unless the power went since.  It holds
\* after time-outs, errors, Ctrl-C in a transfer, and loss of power.
ReadIsWritten == pc = "done" /\ call.op = "read" =>
                    \E v \in may[call.lba] : buffer = Whole(v)

\* A write that says true has reached the medium.
AckedIsStored == pc = "done" /\ call.op = "write" => media[call.lba] = Whole(call.v)

\* Every call returns, however slow the device.
CallReturns == [](pc \notin {"off", "idle"} => <>(pc \in {"off", "idle"}))
=============================================================================
