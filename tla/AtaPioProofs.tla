---------------------------- MODULE AtaPioProofs ----------------------------
(***************************************************************************)
(* Proofs about AtaPio, for sectors of any length and any number of them:  *)
(* a read that says true shows what may be there, and a write that says    *)
(* true is on the medium.  Neither is inductive: both rest on what the     *)
(* device is doing at each place of the driver's code (InCall), and on     *)
(* what it still does after a call was given up (Pending).                 *)
(***************************************************************************)
EXTENDS AtaPio, SequenceTheorems, TLAPS

\* n words alike.
Run(v, n) == [i \in 1..n |-> v]

Sectors == {Whole(v) : v \in Values}

Typed ==
    /\ media \in [Lba -> Sectors] /\ cache \in [Lba -> Sectors]
    /\ may \in [Lba -> SUBSET Values] /\ kept \in [Lba -> SUBSET Values]
    /\ dev = [st |-> dev.st, lba |-> dev.lba, words |-> dev.words,
              err |-> dev.err, flush |-> dev.flush]
    /\ dev.st \in {"idle", "read", "give", "write", "take", "commit", "flush"}
    /\ dev.err \in BOOLEAN /\ dev.flush \in BOOLEAN
    /\ pc \in {"off", "idle", "select", "command", "poll", "transfer",
               "flush", "settle", "done", "failed"}

\* The cache holds what a read may return, and the medium what may be there
\* after a power loss; what is in the cache may come to the medium any time.
Sound ==
    \A l \in Lba : /\ may[l] \subseteq kept[l]
                   /\ \E v \in may[l]  : cache[l] = Whole(v)
                   /\ \E v \in kept[l] : media[l] = Whole(v)

\* What the device has taken of a call, also of one that was given up.
Pending ==
    /\ dev.st = "read" => dev.lba \in Lba
    /\ dev.st = "commit" => dev.lba \in Lba /\ \E v \in may[dev.lba] : dev.words = Whole(v)

\* The call, and what it has in hand before it moves data.
Called ==
    pc \notin {"off", "idle"} =>
        /\ call.op \in {"read", "write"} /\ call.lba \in Lba
        /\ call.op = "write" => call.v \in may[call.lba]
        /\ pc \in {"select", "command", "poll"} =>
               buffer = IF call.op = "write" THEN Whole(call.v) ELSE <<>>

Reading ==
    call.op = "read" =>
        /\ pc = "poll" => /\ dev.st \in {"read", "give", "idle"} /\ dev.lba = call.lba
                          /\ dev.st = "give" => dev.words = cache[call.lba]
        /\ pc = "transfer" => /\ dev.st = "give"
                              /\ \E u \in may[call.lba], n \in 1..Words :
                                     /\ cache[call.lba] = Whole(u)
                                     /\ buffer = Run(u, Words - n) /\ dev.words = Run(u, n)
        /\ pc = "done" => dev.st = "idle" /\ buffer = cache[call.lba]
        /\ pc \notin {"flush", "settle"}

Writing ==
    call.op = "write" =>
        /\ pc = "poll" => /\ dev.st \in {"write", "take", "idle"} /\ dev.lba = call.lba /\ ~dev.flush
                          /\ dev.st = "take" => dev.words = <<>>
        /\ pc = "transfer" => /\ dev.st = "take" /\ dev.lba = call.lba /\ ~dev.flush
                              /\ \E n \in 1..Words : /\ buffer = Run(call.v, n)
                                                     /\ dev.words = Run(call.v, Words - n)
        /\ pc \in {"flush", "settle"} /\ dev.st = "commit" =>
               /\ dev.lba = call.lba /\ dev.words = Whole(call.v)
               /\ dev.flush <=> pc = "settle"
        /\ pc \in {"flush", "settle"} /\ dev.st # "commit" => cache[call.lba] = Whole(call.v)
        /\ pc = "flush"  => dev.st \in {"commit", "idle"}
        /\ pc = "settle" => dev.st \in {"commit", "flush", "idle"}
        /\ pc = "settle" /\ dev.st = "idle" /\ ~dev.err => media[call.lba] = Whole(call.v)
        /\ pc = "done" => /\ dev.st = "idle"
                          /\ cache[call.lba] = Whole(call.v) /\ media[call.lba] = Whole(call.v)

\* A command is given to a device that is not busy.
InCall == Called /\ Reading /\ Writing /\ (pc = "command" => ~BSY)

IInv == Typed /\ Sound /\ Pending /\ InCall

-----------------------------------------------------------------------------
(* Words alike.                                                            *)

LEMMA RunIs ==
    ASSUME NEW v, NEW n \in Nat
    PROVE  /\ Run(v, n) \in Seq({v}) /\ Len(Run(v, n)) = n
           /\ Run(v, 0) = <<>> /\ Run(v, Words) = Whole(v)
           /\ n > 0 => Run(v, n) # <<>> /\ Head(Run(v, n)) = v /\ Tail(Run(v, n)) = Run(v, n - 1)
           /\ Append(Run(v, n), v) = Run(v, n + 1)
<1>1. Run(v, n) \in Seq({v}) /\ Len(Run(v, n)) = n
  BY DEF Run
<1>2. Run(v, 0) = <<>> /\ Run(v, Words) = Whole(v)
  BY DEF Run, Whole
<1>3. ASSUME n > 0
      PROVE  Run(v, n) # <<>> /\ Head(Run(v, n)) = v /\ Tail(Run(v, n)) = Run(v, n - 1)
  <2>1. Run(v, n) # <<>> /\ Head(Run(v, n)) = v
    BY <1>1, <1>3 DEF Run
  <2>2. /\ Tail(Run(v, n)) \in Seq({v}) /\ Len(Tail(Run(v, n))) = n - 1
        /\ \A i \in 1..(n - 1) : Tail(Run(v, n))[i] = Run(v, n)[i + 1]
    BY <1>1, <2>1, HeadTailProperties
  <2>3. \A i \in 1..(n - 1) : Run(v, n)[i + 1] = v /\ Run(v, n - 1)[i] = v
    BY <1>3 DEF Run
  <2>4. Run(v, n - 1) \in Seq({v}) /\ Len(Run(v, n - 1)) = n - 1
    BY <1>3 DEF Run
  <2> HIDE DEF Run
  <2> QED BY <2>1, <2>2, <2>3, <2>4, SeqEqual
<1>4. Append(Run(v, n), v) = Run(v, n + 1)
  BY DEF Run
<1> QED BY <1>1, <1>2, <1>3, <1>4

LEMMA WholeIs ==
    ASSUME NEW v
    PROVE  Whole(v) = Run(v, Words) /\ Run(v, 0) = <<>>
BY DEF Whole, Run

\* A sector of the disk is alike all over.
LEMMA InSectors == ASSUME NEW v \in Values PROVE Whole(v) \in Sectors
BY DEF Sectors

-----------------------------------------------------------------------------
LEMMA InitInv == Init => IInv
<1> SUFFICES ASSUME Init PROVE IInv
  OBVIOUS
<1>1. Old \in Values /\ Whole(Old) \in Sectors
  BY InSectors DEF Values
<1> HIDE DEF Values
<1>2. Typed
  BY <1>1 DEF Init, Typed, Quiet
<1>3. Sound
  BY DEF Init, Sound
<1>4. Pending /\ InCall
  BY DEF Init, Pending, InCall, Called, Reading, Writing, Quiet, NoCall
<1> QED BY <1>2, <1>3, <1>4 DEF IInv

-----------------------------------------------------------------------------
(* The device.                                                             *)

\* What may be where is for the calls to say.
LEMMA DeviceKeeps ==
    ASSUME IInv, Device
    PROVE  UNCHANGED <<ata_present, pc, call, may, kept, buffer>>
BY DEF Device, caller

LEMMA DevReadKeeps == ASSUME IInv, Device, DevRead PROVE IInv'
<1>1. UNCHANGED <<ata_present, pc, call, may, kept, buffer, media, cache>>
  BY DeviceKeeps DEF DevRead, disk
<1>2. /\ dev.st = "read" /\ dev.lba \in Lba
      /\ \/ dev' = [dev EXCEPT !.st = "give", !.words = cache[dev.lba]]
         \/ dev' = [dev EXCEPT !.st = "idle", !.err = TRUE]
  BY DEF DevRead, Fails, IInv, Pending
<1>3. Typed' /\ dev'.st \in {"give", "idle"} /\ dev'.lba = dev.lba
      /\ (dev'.st = "give" => dev'.words = cache[dev.lba])
  BY <1>1, <1>2 DEF IInv, Typed
<1>4. Sound' /\ Pending'
  BY <1>1, <1>3 DEF IInv, Sound, Pending
<1>5. InCall'
  BY <1>1, <1>2, <1>3 DEF IInv, InCall, Called, Reading, Writing, BSY
<1> QED BY <1>3, <1>4, <1>5 DEF IInv

LEMMA DevWriteKeeps == ASSUME IInv, Device, DevWrite PROVE IInv'
<1>1. UNCHANGED <<ata_present, pc, call, may, kept, buffer, media, cache>>
  BY DeviceKeeps DEF DevWrite, disk
<1>2. /\ dev.st = "write"
      /\ \/ dev' = [dev EXCEPT !.st = "take", !.words = <<>>]
         \/ dev' = [dev EXCEPT !.st = "idle", !.err = TRUE]
  BY DEF DevWrite, Fails
<1>3. Typed' /\ dev'.st \in {"take", "idle"} /\ dev'.lba = dev.lba
      /\ dev'.flush = dev.flush /\ (dev'.st = "take" => dev'.words = <<>>)
  BY <1>1, <1>2 DEF IInv, Typed
<1>4. Sound' /\ Pending'
  BY <1>1, <1>3 DEF IInv, Sound, Pending
<1>5. InCall'
  BY <1>1, <1>2, <1>3 DEF IInv, InCall, Called, Reading, Writing, BSY
<1> QED BY <1>3, <1>4, <1>5 DEF IInv

\* The sector that was taken is in the cache, and nothing else changes there.
LEMMA DevCommitKeeps == ASSUME ~CommitFaults, IInv, Device, DevCommit PROVE IInv'
<1>1. UNCHANGED <<ata_present, pc, call, may, kept, buffer, media>>
  BY DeviceKeeps DEF DevCommit
<1>2. /\ dev.st = "commit" /\ cache' = [cache EXCEPT ![dev.lba] = dev.words]
      /\ dev' = IF dev.flush THEN [Quiet EXCEPT !.st = "flush"] ELSE [Quiet EXCEPT !.err = FALSE]
  BY DEF DevCommit, AfterCommit
<1>3. PICK v \in may[dev.lba] : dev.words = Whole(v)
  BY <1>2 DEF IInv, Pending
<1>4. dev.lba \in Lba /\ v \in Values
  BY <1>2, <1>3 DEF IInv, Pending, Typed
<1>5. dev'.st = (IF dev.flush THEN "flush" ELSE "idle") /\ dev'.err = FALSE
  BY <1>2 DEF Quiet
<1>6. Typed'
  BY <1>1, <1>2, <1>3, <1>4, InSectors DEF IInv, Typed, Quiet
<1>7. Sound'
  BY <1>1, <1>2, <1>3, <1>4 DEF IInv, Typed, Sound
<1>8. Pending'
  BY <1>5 DEF Pending
<1>9. pc \notin {"off", "idle"} =>
          cache'[call.lba] = IF call.lba = dev.lba THEN dev.words ELSE cache[call.lba]
  BY <1>2 DEF IInv, Typed, InCall, Called
<1>10. InCall'
  <2>1. Called' /\ (pc' = "command" => ~BSY')
    BY <1>1, <1>2 DEF IInv, InCall, Called, BSY
  <2>2. Reading'
    BY <1>1, <1>2 DEF IInv, InCall, Called, Reading
  <2>3. Writing'
    BY <1>1, <1>2, <1>5, <1>9 DEF IInv, Typed, InCall, Called, Writing
  <2> QED BY <2>1, <2>2, <2>3 DEF InCall
<1> QED BY <1>6, <1>7, <1>8, <1>10 DEF IInv

LEMMA DevFlushKeeps == ASSUME IInv, Device, DevFlush PROVE IInv'
<1>1. UNCHANGED <<ata_present, pc, call, may, kept, buffer, cache>>
  BY DeviceKeeps DEF DevFlush
<1>2. /\ dev.st = "flush"
      /\ \/ media' = cache /\ dev' = Quiet
         \/ media' = media /\ dev' = [dev EXCEPT !.st = "idle", !.err = TRUE]
  BY DEF DevFlush, Fails
<1>3. /\ Typed' /\ dev'.st = "idle"
      /\ (media' = cache \/ (media' = media /\ dev'.err))
  <2>1. CASE media' = cache /\ dev' = Quiet
    BY <1>1, <2>1 DEF IInv, Typed, Quiet
  <2>2. CASE media' = media /\ dev' = [dev EXCEPT !.st = "idle", !.err = TRUE]
    BY <1>1, <2>2 DEF IInv, Typed
  <2> QED BY <1>2, <2>1, <2>2
<1>4. Sound'
  BY <1>1, <1>3 DEF IInv, Sound
<1>5. Pending'
  BY <1>3 DEF Pending
<1>6. InCall'
  BY <1>1, <1>2, <1>3 DEF IInv, InCall, Called, Reading, Writing, BSY
<1> QED BY <1>3, <1>4, <1>5, <1>6 DEF IInv

LEMMA WriteBackKeeps == ASSUME IInv, Device, NEW l \in Lba, WriteBack(l) PROVE IInv'
<1>1. UNCHANGED <<ata_present, pc, call, may, kept, buffer, cache, dev>>
  BY DeviceKeeps DEF WriteBack
<1>2. media' = [media EXCEPT ![l] = cache[l]]
  BY DEF WriteBack
<1>3. Typed'
  BY <1>1, <1>2 DEF IInv, Typed
<1>4. Sound'
  BY <1>1, <1>2 DEF IInv, Typed, Sound
<1>5. Pending' /\ Called' /\ Reading' /\ (pc' = "command" => ~BSY')
  BY <1>1 DEF IInv, InCall, Pending, Called, Reading, BSY
<1>6. Writing'
  <2>1. \A k \in Lba : media'[k] = IF k = l THEN cache[k] ELSE media[k]
    BY <1>2 DEF IInv, Typed
  <2> QED BY <1>1, <2>1 DEF IInv, InCall, Called, Writing
<1> QED BY <1>3, <1>4, <1>5, <1>6 DEF IInv, InCall

-----------------------------------------------------------------------------
(* The driver.                                                             *)

\* A call begins: from now on its value may be found.
LEMMA StartKeeps ==
    ASSUME IInv, NEW l \in Lba, NEW op \in {"read", "write"}, NEW v \in Values, Start(op, l, v)
    PROVE  IInv'
<1>1. /\ UNCHANGED <<media, cache, dev, ata_present>>
      /\ pc = "idle" /\ pc' \in {"select", "failed"}
      /\ call' = [op |-> op, lba |-> l, v |-> v]
      /\ buffer' = IF op = "write" THEN Whole(v) ELSE <<>>
  BY DEF Start, disk
<1>2. /\ may'  = [k \in Lba |-> IF op = "write" /\ k = l THEN may[k] \cup {v} ELSE may[k]]
      /\ kept' = [k \in Lba |-> IF op = "write" /\ k = l THEN kept[k] \cup {v} ELSE kept[k]]
  BY DEF Start, IInv, Typed
<1>3. Typed'
  BY <1>1, <1>2 DEF IInv, Typed
<1>4. Sound'
  BY <1>1, <1>2 DEF IInv, Sound
<1>5. Pending'
  BY <1>1, <1>2 DEF IInv, Pending
<1>6. InCall'
  BY <1>1, <1>2 DEF InCall, Called, Reading, Writing
<1> QED BY <1>3, <1>4, <1>5, <1>6 DEF IInv

LEMMA SelectKeeps == ASSUME IInv, Select PROVE IInv'
<1>1. /\ UNCHANGED <<media, cache, ata_present, call, may, kept, dev, buffer>>
      /\ pc = "select" /\ ((pc' = "command" /\ ~BSY) \/ pc' = "failed")
  BY DEF Select, Polls, Goes, disk, caller
<1>2. pc = "select"
  BY DEF Select, Polls, Goes
<1> QED BY <1>1, <1>2 DEF IInv, Typed, Sound, Pending, InCall, Called, Reading, Writing, BSY

LEMMA CommandKeeps == ASSUME IInv, Command PROVE IInv'
<1>1. /\ UNCHANGED <<media, cache, ata_present, call, may, kept, buffer>>
      /\ pc = "command" /\ pc' = "poll"
      /\ dev' = [Quiet EXCEPT !.st = call.op, !.lba = call.lba]
  BY DEF Command, Accept, Goes, disk, caller
<1>2. call.op \in {"read", "write"} /\ call.lba \in Lba
  BY <1>1 DEF IInv, InCall, Called
<1>3. Typed' /\ dev'.st = call.op /\ dev'.lba = call.lba /\ ~dev'.flush
  BY <1>1, <1>2 DEF IInv, Typed, Quiet
<1>4. Sound' /\ Pending'
  BY <1>1, <1>2, <1>3 DEF IInv, Sound, Pending
<1>5. InCall'
  BY <1>1, <1>2, <1>3 DEF IInv, InCall, Called, Reading, Writing
<1> QED BY <1>3, <1>4, <1>5 DEF IInv

LEMMA PollKeeps == ASSUME IInv, Poll PROVE IInv'
<1>1. /\ UNCHANGED <<media, cache, ata_present, call, may, kept, dev, buffer>>
      /\ pc = "poll" /\ pc' \in {"transfer", "failed"}
      /\ pc' = "transfer" => dev.st \in {"give", "take"}
  BY DEF Poll, Polls, Goes, disk, caller, DRQ
<1>2. Typed' /\ Sound' /\ Pending' /\ Called'
  BY <1>1 DEF IInv, Typed, Sound, Pending, InCall, Called
<1>3. call.op \in {"read", "write"} /\ call.lba \in Lba
      /\ buffer = IF call.op = "write" THEN Whole(call.v) ELSE <<>>
  BY <1>1 DEF IInv, InCall, Called
<1>4. Words \in 1..Words /\ Words - Words = 0
  BY WordsAssumption
<1>5. Reading'
  <2> SUFFICES ASSUME call.op = "read", pc' = "transfer"
               PROVE  /\ dev.st = "give"
                      /\ \E u \in may[call.lba], n \in 1..Words :
                             /\ cache[call.lba] = Whole(u)
                             /\ buffer = Run(u, Words - n) /\ dev.words = Run(u, n)
    BY <1>1 DEF Reading
  <2>1. dev.st = "give" /\ dev.words = cache[call.lba]
    BY <1>1 DEF IInv, InCall, Reading
  <2>2. PICK u \in may[call.lba] : cache[call.lba] = Whole(u)
    BY <1>3 DEF IInv, Sound
  <2>3. buffer = Run(u, Words - Words) /\ dev.words = Run(u, Words)
    BY <1>3, <1>4, <2>1, <2>2, WholeIs
  <2> QED BY <1>4, <2>1, <2>2, <2>3
<1>6. Writing'
  <2> SUFFICES ASSUME call.op = "write", pc' = "transfer"
               PROVE  /\ dev.st = "take" /\ dev.lba = call.lba /\ ~dev.flush
                      /\ \E n \in 1..Words : /\ buffer = Run(call.v, n)
                                             /\ dev.words = Run(call.v, Words - n)
    BY <1>1 DEF Writing
  <2>1. dev.st = "take" /\ dev.words = <<>> /\ dev.lba = call.lba /\ ~dev.flush
    BY <1>1 DEF IInv, InCall, Writing
  <2>2. buffer = Run(call.v, Words) /\ dev.words = Run(call.v, Words - Words)
    BY <1>3, <1>4, <2>1, WholeIs
  <2> QED BY <1>4, <2>1, <2>2
<1> QED BY <1>1, <1>2, <1>5, <1>6 DEF IInv, InCall

\* A word comes in: of the sector that the device hands out, and not one short.
LEMMA InswKeeps == ASSUME IInv, Insw PROVE IInv'
<1>1. /\ UNCHANGED <<media, cache, ata_present, call, may, kept>>
      /\ pc = "transfer" /\ call.op = "read"
      /\ buffer' = Append(buffer, Word) /\ Given
      /\ pc' = IF Len(buffer') = Words THEN "done" ELSE "transfer"
  BY DEF Insw, Goes, disk, caller, InDone
<1>2. dev.st = "give" /\ call.lba \in Lba
  BY <1>1 DEF IInv, InCall, Called, Reading
<1>3. PICK u \in may[call.lba], n \in 1..Words :
         /\ cache[call.lba] = Whole(u)
         /\ buffer = Run(u, Words - n) /\ dev.words = Run(u, n)
  BY <1>1 DEF IInv, InCall, Reading
<1>4. Words - n \in Nat /\ n \in Nat /\ n > 0 /\ (Words - n) + 1 = Words - (n - 1)
  BY WordsAssumption
<1>5. Head(dev.words) = u /\ Tail(dev.words) = Run(u, n - 1) /\ Len(dev.words) = n
  BY <1>3, <1>4, RunIs
<1>6. buffer' = Run(u, Words - (n - 1)) /\ Len(buffer') = Words - (n - 1)
  <2>1. Append(Run(u, Words - n), u) = Run(u, (Words - n) + 1)
    BY <1>4, RunIs
  <2>2. Words - (n - 1) \in Nat
    BY WordsAssumption
  <2>3. buffer' = Run(u, Words - (n - 1))
    BY <1>1, <1>2, <1>3, <1>4, <1>5, <2>1 DEF Word
  <2> QED BY <2>2, <2>3, RunIs
<1>7. dev' = IF n = 1 THEN Quiet ELSE [dev EXCEPT !.words = Run(u, n - 1)]
  BY <1>1, <1>2, <1>5 DEF Given
<1>8. pc' = IF n = 1 THEN "done" ELSE "transfer"
  BY <1>1, <1>6, WordsAssumption
<1>9. Typed' /\ dev'.st = (IF n = 1 THEN "idle" ELSE "give")
      /\ (n # 1 => dev'.words = Run(u, n - 1))
  BY <1>1, <1>2, <1>7, <1>8 DEF IInv, Typed, Quiet
<1>10. Sound' /\ Pending' /\ Called' /\ Writing' /\ pc' # "command"
  BY <1>1, <1>8, <1>9 DEF IInv, Sound, Pending, InCall, Called, Writing
<1>11. Reading'
  <2>1. CASE n = 1
    <3>1. buffer' = Whole(u)
      BY <1>6, <2>1, WordsAssumption, WholeIs
    <3> QED BY <1>1, <1>3, <1>8, <1>9, <2>1, <3>1 DEF Reading
  <2>2. CASE n # 1
    <3>1. n - 1 \in 1..Words
      BY <2>2, WordsAssumption
    <3> QED BY <1>1, <1>3, <1>6, <1>8, <1>9, <2>2, <3>1 DEF Reading
  <2> QED BY <2>1, <2>2
<1> QED BY <1>9, <1>10, <1>11 DEF IInv, InCall

\* A word goes out; the last one makes the device store the sector.
LEMMA OutswKeeps == ASSUME IInv, Outsw PROVE IInv'
<1>1. /\ UNCHANGED <<media, cache, ata_present, call, may, kept>>
      /\ pc = "transfer" /\ call.op = "write"
      /\ buffer' = Tail(buffer) /\ Taken(Head(buffer))
      /\ pc' = IF buffer' = <<>> THEN "flush" ELSE "transfer"
  BY DEF Outsw, Goes, disk, caller
<1>2. dev.st = "take" /\ dev.lba = call.lba /\ ~dev.flush
      /\ call.lba \in Lba /\ call.v \in may[call.lba]
  BY <1>1 DEF IInv, InCall, Called, Writing
<1>3. PICK n \in 1..Words : buffer = Run(call.v, n) /\ dev.words = Run(call.v, Words - n)
  BY <1>1 DEF IInv, InCall, Writing
<1>4. Words - n \in Nat /\ n \in Nat /\ n > 0 /\ (Words - n) + 1 = Words - (n - 1) /\ n - 1 \in Nat
  BY WordsAssumption
<1>5. Head(buffer) = call.v /\ buffer' = Run(call.v, n - 1)
  BY <1>1, <1>3, <1>4, RunIs
<1>6. buffer' = <<>> <=> n = 1
  <2>1. Len(buffer') = n - 1 /\ buffer' \in Seq({call.v})
    BY <1>4, <1>5, RunIs
  <2> QED BY <1>4, <2>1, EmptySeq
<1>7. /\ Append(dev.words, call.v) = Run(call.v, Words - (n - 1))
      /\ Len(Append(dev.words, call.v)) = Words - (n - 1)
  <2>1. Append(Run(call.v, Words - n), call.v) = Run(call.v, (Words - n) + 1)
    BY <1>4, RunIs
  <2>2. Words - (n - 1) \in Nat
    BY WordsAssumption
  <2>3. Append(dev.words, call.v) = Run(call.v, Words - (n - 1))
    BY <1>3, <1>4, <2>1
  <2> QED BY <2>2, <2>3, RunIs
<1>8. Len(Append(dev.words, call.v)) = Words <=> n = 1
  BY <1>7, WordsAssumption
<1>9. dev' = IF n = 1 THEN [dev EXCEPT !.st = "commit", !.words = Run(call.v, Words - (n - 1))]
             ELSE [dev EXCEPT !.words = Run(call.v, Words - (n - 1))]
  BY <1>1, <1>2, <1>5, <1>7, <1>8 DEF Taken
<1>10. /\ Typed' /\ dev'.lba = call.lba /\ dev'.words = Run(call.v, Words - (n - 1))
       /\ dev'.st = IF n = 1 THEN "commit" ELSE "take"
       /\ dev'.flush = dev.flush
  BY <1>1, <1>2, <1>9 DEF IInv, Typed
<1>11. n = 1 => dev'.words = Whole(call.v)
  <2>1. n = 1 => Words - (n - 1) = Words
    BY WordsAssumption
  <2> QED BY <1>10, <2>1, WholeIs
<1>12. Sound' /\ Called' /\ Reading' /\ pc' # "command"
  BY <1>1 DEF IInv, Sound, InCall, Called, Reading
<1>13. Pending'
  BY <1>1, <1>2, <1>10, <1>11 DEF Pending
<1>14. Writing'
  <2>1. CASE n = 1
    BY <1>1, <1>2, <1>6, <1>10, <1>11, <2>1 DEF IInv, InCall, Writing
  <2>2. CASE n # 1
    <3>1. n - 1 \in 1..Words
      BY <2>2, WordsAssumption
    <3> QED BY <1>1, <1>2, <1>5, <1>6, <1>10, <2>2, <3>1 DEF Writing
  <2> QED BY <2>1, <2>2
<1> QED BY <1>10, <1>12, <1>13, <1>14 DEF IInv, InCall

LEMMA FlushKeeps == ASSUME IInv, Flush PROVE IInv'
<1>1. /\ UNCHANGED <<media, cache, ata_present, call, may, kept, buffer>>
      /\ pc = "flush" /\ pc' = "settle"
      /\ dev' = IF BSY THEN [dev EXCEPT !.flush = TRUE] ELSE [Quiet EXCEPT !.st = "flush"]
  BY DEF Flush, AcceptFlush, Goes, disk, caller
<1>2. /\ call.op = "write" /\ call.lba \in Lba /\ call.v \in may[call.lba]
      /\ dev.st \in {"commit", "idle"}
  BY <1>1 DEF IInv, InCall, Called, Reading, Writing
<1>3. \/ /\ dev.st = "commit" /\ dev'.st = "commit" /\ dev'.flush
         /\ dev'.lba = dev.lba /\ dev'.words = dev.words /\ Typed'
      \/ dev.st = "idle" /\ dev'.st = "flush" /\ Typed'
  <2>1. CASE dev.st = "commit"
    <3>1. dev' = [dev EXCEPT !.flush = TRUE]
      BY <1>1, <2>1 DEF BSY
    <3> QED BY <1>1, <2>1, <3>1 DEF IInv, Typed
  <2>2. CASE dev.st = "idle"
    <3>1. dev' = [Quiet EXCEPT !.st = "flush"]
      BY <1>1, <2>2 DEF BSY
    <3> QED BY <1>1, <2>2, <3>1 DEF IInv, Typed, Quiet
  <2> QED BY <1>2, <2>1, <2>2
<1>4. Sound' /\ Pending'
  BY <1>1, <1>3 DEF IInv, Sound, Pending
<1>5. InCall'
  BY <1>1, <1>2, <1>3 DEF IInv, InCall, Called, Reading, Writing
<1> QED BY <1>3, <1>4, <1>5 DEF IInv

LEMMA SettleKeeps == ASSUME IInv, Settle PROVE IInv'
<1>1. /\ UNCHANGED <<media, cache, ata_present, call, may, kept, dev, buffer>>
      /\ pc = "settle" /\ pc' \in {"done", "failed"}
      /\ pc' = "done" => ~BSY /\ ~dev.err
  BY DEF Settle, Polls, Goes, disk, caller, ERR
<1>2. call.op = "write"
  BY <1>1 DEF IInv, InCall, Called, Reading
<1>3. pc' = "done" => /\ dev.st = "idle" /\ cache[call.lba] = Whole(call.v)
                      /\ media[call.lba] = Whole(call.v)
  BY <1>1, <1>2 DEF IInv, InCall, Writing, BSY
<1> QED BY <1>1, <1>2, <1>3 DEF IInv, Typed, Sound, Pending, InCall, Called, Reading, Writing

\* What is known of a sector after a call that says true is what is there.
LEMMA ReturnKeeps == ASSUME IInv, Return PROVE IInv'
<1>1. /\ UNCHANGED <<media, cache, dev, ata_present>>
      /\ pc \in {"done", "failed"} /\ pc' = "idle"
      /\ may' = IF pc = "failed" THEN may
                 ELSE [may EXCEPT ![call.lba] = IF call.op = "write" THEN {call.v}
                                                ELSE {v \in @ : buffer = Whole(v)}]
      /\ kept' = IF pc = "done" /\ call.op = "write"
                 THEN [kept EXCEPT ![call.lba] = {call.v}] ELSE kept
  BY DEF Return, disk
<1>2. call.lba \in Lba /\ call.op \in {"read", "write"}
      /\ (call.op = "write" => call.v \in may[call.lba])
  BY <1>1 DEF IInv, InCall, Called
<1>3. InCall'
  BY <1>1 DEF InCall, Called, Reading, Writing
<1>4. CASE pc = "failed"
  <2>1. may' = may /\ kept' = kept
    BY <1>1, <1>2, <1>4 DEF IInv, Typed
  <2> QED BY <1>1, <1>3, <2>1 DEF IInv, Typed, Sound, Pending
<1>5. CASE pc = "done" /\ call.op = "write"
  <2>1. may' = [may EXCEPT ![call.lba] = {call.v}] /\ kept' = [kept EXCEPT ![call.lba] = {call.v}]
    BY <1>1, <1>5
  <2>2. /\ dev.st = "idle"
        /\ cache[call.lba] = Whole(call.v) /\ media[call.lba] = Whole(call.v)
    BY <1>5 DEF IInv, InCall, Writing
  <2>3. Typed'
    BY <1>1, <1>2, <1>5, <2>1 DEF IInv, Typed
  <2>4. Sound' /\ Pending'
    BY <1>1, <1>2, <2>1, <2>2 DEF IInv, Typed, Sound, Pending
  <2> QED BY <1>3, <2>3, <2>4 DEF IInv
<1>6. CASE pc = "done" /\ call.op = "read"
  <2>1. /\ may' = [may EXCEPT ![call.lba] = {v \in @ : buffer = Whole(v)}]
        /\ kept' = kept
    BY <1>1, <1>6
  <2>2. dev.st = "idle" /\ buffer = cache[call.lba]
    BY <1>6 DEF IInv, InCall, Reading
  <2>3. Typed'
    BY <1>1, <1>2, <1>6, <2>1 DEF IInv, Typed
  <2>4. Sound' /\ Pending'
    BY <1>1, <1>2, <2>1, <2>2 DEF IInv, Typed, Sound, Pending
  <2> QED BY <1>3, <2>3, <2>4 DEF IInv
<1> QED BY <1>1, <1>2, <1>4, <1>5, <1>6

\* The device goes on with what it has, whoever the call was for.
LEMMA AbortKeeps == ASSUME IInv, Abort PROVE IInv'
<1>1. /\ UNCHANGED <<media, cache, dev, ata_present, may, kept>> /\ pc' = "idle"
  BY DEF Abort, disk
<1> QED BY <1>1 DEF IInv, Typed, Sound, Pending, InCall, Called, Reading, Writing

LEMMA PowerLossKeeps == ASSUME IInv, PowerLoss PROVE IInv'
<1>1. /\ UNCHANGED <<media, ata_present, kept>> /\ pc' = "off"
      /\ cache' = media /\ dev' = Quiet /\ may' = kept
  BY DEF PowerLoss
<1> QED BY <1>1 DEF IInv, Typed, Sound, Pending, InCall, Called, Reading, Writing, Quiet

LEMMA InitCallKeeps == ASSUME IInv, ata_init PROVE IInv'
<1>1. /\ UNCHANGED <<media, cache, dev, may, kept>> /\ pc' = "idle"
  BY DEF ata_init, disk, caller
<1> QED BY <1>1 DEF IInv, Typed, Sound, Pending, InCall, Called, Reading, Writing

-----------------------------------------------------------------------------
LEMMA Inductive == ASSUME ~CommitFaults, IInv, [Next]_vars PROVE IInv'
<1>1. CASE Device
  BY <1>1, DevReadKeeps, DevWriteKeeps, DevCommitKeeps, DevFlushKeeps, WriteBackKeeps DEF Device
<1>2. CASE Thread
  BY <1>2, SelectKeeps, CommandKeeps, PollKeeps, InswKeeps, OutswKeeps, FlushKeeps,
     SettleKeeps, ReturnKeeps DEF Thread
<1>3. ASSUME NEW l \in Lba, Start("read", l, Old) \/ \E v \in Data : Start("write", l, v)
      PROVE  IInv'
  BY <1>3, StartKeeps DEF Values
<1>4. CASE ata_init \/ Abort \/ PowerLoss
  BY <1>4, InitCallKeeps, AbortKeeps, PowerLossKeeps
<1>5. CASE UNCHANGED vars
  BY <1>5 DEF vars, IInv, Typed, Sound, Pending, InCall, Called, Reading, Writing, BSY
<1> QED BY <1>1, <1>2, <1>3, <1>4, <1>5 DEF Next

\* With a device that stores what it has taken, a read that says true has a whole sector, and one that may be there: after
\* time-outs, errors, calls cut short and losses of power.
THEOREM ReadsAreWritten == ASSUME ~CommitFaults PROVE Spec => []ReadIsWritten
<1>1. IInv => ReadIsWritten
  BY DEF IInv, Sound, InCall, Called, Reading, ReadIsWritten
<1> QED BY <1>1, InitInv, Inductive, PTL DEF Spec

\* And a write that says true is on the medium, flushed from the cache.
THEOREM AckedIsOnDisk == ASSUME ~CommitFaults PROVE Spec => []AckedIsStored
<1>1. IInv => AckedIsStored
  BY DEF IInv, InCall, Writing, AckedIsStored
<1> QED BY <1>1, InitInv, Inductive, PTL DEF Spec
=============================================================================
