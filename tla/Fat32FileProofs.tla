-------------------------- MODULE Fat32FileProofs ---------------------------
(***************************************************************************)
(* Proofs about the files on a volume of Fat32, also when writes fail:     *)
(* entries lead to chains that are allocated and apart, the root's is not  *)
(* touched (FaultInv), a file's size is that of its chain (SizeInv), what  *)
(* was written is what is read (ReadInv), and a program sees of the sector *)
(* writes only the steps of FileStore (Seen).                              *)
(*                                                                         *)
(* When writes fail the proofs leave out appends and rmdir: a link that is *)
(* written and reported as failed, or a mark that is not written, leaves   *)
(* an entry leading to clusters that are freed.                            *)
(***************************************************************************)
EXTENDS Fat32Proofs, NaturalsInduction, WellFoundedInduction, SequenceTheorems

-----------------------------------------------------------------------------
(* Chains that do not meet.                                                *)

\* Writing the entry of a cluster that is not on a chain changes nothing of it.
LEMMA AlongSame ==
    ASSUME NEW Q, NEW R, NEW n, Differ(Q, R, n), NEW c, n \notin Along(Q, c)
    PROVE  Along(R, c) = Along(Q, c)
<1>1. Along(R, c) \subseteq Along(Q, c)
  <2>1. Closed(R, Along(Q, c)) /\ Along(Q, c) \in SUBSET Clusters
    BY AlongClosed DEF Closed, Differ
  <2> QED BY <2>1, AlongHas, AlongLeast
<1>2. Along(Q, c) \subseteq Along(R, c)
  <2>1. Closed(Q, Along(R, c)) /\ Along(R, c) \in SUBSET Clusters
    BY <1>1, AlongClosed DEF Closed, Differ
  <2> QED BY <2>1, AlongHas, AlongLeast
<1> QED BY <1>1, <1>2

\* What a table reads from c when the entry of n changes, and n then leads nowhere
\* or to what is already there.
LEMMA AlongWithin ==
    ASSUME NEW Q, NEW R, NEW n, Differ(Q, R, n), NEW c, NEW S \in SUBSET Clusters,
           Along(Q, c) \subseteq S, Closed(R, S)
    PROVE  Along(R, c) \subseteq S
<1>1. c \in Clusters => c \in S
  BY AlongHas
<1> QED BY <1>1, AlongLeast

\* Where no two clusters lead to the same one, chains that begin at clusters
\* nothing leads to are apart.
LEMMA SourcesApart ==
    ASSUME NEW Q, \A c, d \in Clusters : Q[c] = Q[d] /\ Q[c] \in Clusters => c = d,
           NEW a, NEW b, a # b, \A x \in Clusters : Q[x] # a /\ Q[x] # b
    PROVE  Along(Q, a) \cap Along(Q, b) = {}
<1> DEFINE A == Along(Q, a)
           B == Along(Q, b)
           S == A \ B
<1>0. A \in SUBSET Clusters /\ Closed(Q, A) /\ B \in SUBSET Clusters /\ Closed(Q, B)
  BY AlongClosed
<1>1. a \notin B
  <2>1. Closed(Q, B \ {a}) /\ B \ {a} \in SUBSET Clusters
    BY <1>0 DEF Closed
  <2>2. b \in Clusters => b \in B \ {a}
    BY AlongHas
  <2> HIDE DEF B
  <2>3. Along(Q, b) \subseteq B \ {a}
    BY <2>1, <2>2, AlongLeast
  <2> QED BY <2>3 DEF B
<1>2. ASSUME NEW x \in S, Q[x] \in Clusters, Q[x] \in B PROVE FALSE
  <2> DEFINE y == Q[x]
             T == B \ {y}
  <2>1. y # b /\ x \in Clusters /\ x \notin B
    BY <1>0
  <2>2. Closed(Q, T) /\ T \in SUBSET Clusters
    BY <1>0, <1>2, <2>1 DEF Closed
  <2>3. b \in Clusters => b \in T
    BY <2>1, AlongHas
  <2> HIDE DEF T
  <2>4. B \subseteq T
    BY <2>2, <2>3, AlongLeast
  <2> QED BY <1>2, <2>4 DEF T
<1>3. Closed(Q, S) /\ S \in SUBSET Clusters
  BY <1>0, <1>2 DEF Closed
<1>4. a \in Clusters => a \in S
  BY <1>1, AlongHas
<1> HIDE DEF S
<1>5. A \subseteq S
  BY <1>3, <1>4, AlongLeast
<1> QED BY <1>5 DEF S

-----------------------------------------------------------------------------
(* The table under writes that may fail.                                   *)

LEMMA SetAny ==
    ASSUME TypeOK, NEW c \in {0} \cup Clusters, NEW v \in {FREE, EOC} \cup Clusters,
           NEW to \in Returns, fat_set_entry(c, v, to)
    PROVE  /\ P' \in {P, [P EXCEPT ![c] = v]}
           /\ \/ at' = to /\ r' = r /\ P' = [P EXCEPT ![c] = v]
              \/ WriteFaults /\ at' = OnFail(to) /\ r' = IF Checked(to) THEN FS_ERR_IO ELSE r
<1>1. PICK w \in Outcomes : SetCopy(1, c, v, to, w)
  BY DEF fat_set_entry
<1>2. 1 \in Fats /\ fat \in Table
  BY GeometryAssumption DEF Fats, TypeOK, TypeVolume
<1>3. P' = IF w = "lost" THEN P ELSE [P EXCEPT ![c] = v]
  <2>1. fat' = IF w = "lost" THEN fat ELSE [fat EXCEPT ![1][c] = v]
    BY <1>1 DEF SetCopy
  <2> QED BY <1>2, <2>1 DEF P, Table
<1>4. to # "mirror" /\ OnFail(to) # "mirror"
  BY DEF Returns, OnFail
<1>5. CASE w = "ok"
  <2>1. at' = to /\ r' = r
    BY <1>1, <1>4, <1>5 DEF SetCopy, MoreCopies, at, NoJob
  <2> QED BY <1>3, <1>5, <2>1
<1>6. CASE w # "ok"
  <2>1. WriteFaults
    BY <1>6, CallerAssumption DEF Outcomes
  <2>2. at' = OnFail(to) /\ r' = IF Checked(to) THEN FS_ERR_IO ELSE r
    BY <1>1, <1>4, <1>6 DEF SetCopy, at
  <2> QED BY <1>3, <2>1, <2>2
<1> QED BY <1>5, <1>6

LEMMA MirrorAny ==
    ASSUME TypeOK, NextCopy
    PROVE  /\ P' = P /\ at \in Returns
           /\ \/ at' = at /\ r' = r
              \/ WriteFaults /\ at' = OnFail(at) /\ r' = IF Checked(at) THEN FS_ERR_IO ELSE r
<1>1. PICK w \in Outcomes : SetCopy(job.copy, job.clus, job.val, job.ret, w)
  BY DEF NextCopy
<1>2. fat \in Table /\ job \in Job /\ job.copy > 1 /\ job.ret # "none" /\ pc = "mirror"
  BY DEF NextCopy, TypeOK, TypeVolume, TypeFlow
<1>3. job.copy \in Fats /\ job.copy # 1 /\ 1 \in Fats
  BY <1>2, GeometryAssumption DEF Job, Fats
<1>4. fat' = IF w = "lost" THEN fat ELSE [fat EXCEPT ![job.copy][job.clus] = job.val]
  BY <1>1 DEF SetCopy
<1>5. P' = P
  BY <1>2, <1>3, <1>4 DEF P, Table
<1>6. job.ret \in Returns /\ at = job.ret
  BY <1>2 DEF Job, at
<1>7. job.ret # "mirror" /\ OnFail(job.ret) # "mirror"
  BY <1>6 DEF Returns, OnFail
<1>8. CASE w = "ok"
  BY <1>1, <1>5, <1>6, <1>7, <1>8 DEF SetCopy, MoreCopies, at, NoJob
<1>9. CASE w # "ok"
  <2>1. WriteFaults
    BY <1>9, CallerAssumption DEF Outcomes
  <2>2. at' = OnFail(job.ret) /\ r' = IF Checked(job.ret) THEN FS_ERR_IO ELSE r
    BY <1>1, <1>7, <1>9 DEF SetCopy, at
  <2> QED BY <1>5, <1>6, <2>1, <2>2
<1> QED BY <1>8, <1>9

-----------------------------------------------------------------------------
(* What entries lead to, when writes fail.                                 *)

\* No entry leads to what the call holds, nor is it the root directory's.
HeldOut == \A c \in Held : c \notin RootChain /\ \A s \in Heads : c \notin Along(P, dir[s].first)

\* No link leads into the root directory's chain from elsewhere.
Sealed == /\ \A c \in RootChain : P[c] = RootEntry(c)
          /\ \A c \in Clusters \ RootChain : P[c] \notin RootChain

\* Entries' chains are allocated, not the root directory's, and apart.
HeadsSafe ==
    /\ \A s \in Heads : \A c \in Along(P, dir[s].first) : P[c] # FREE /\ c \notin RootChain
    /\ \A s, t \in Heads : s # t => Along(P, dir[s].first) \cap Along(P, dir[t].first) = {}

LEMMA HeadsSafeIs == (ReachableSafe <=> HeadsSafe) /\ (ReachableSafe' <=> HeadsSafe')
<1>1. ReachableSafe <=> HeadsSafe
  <2>1. \A s \in Heads : Along(P, dir[s].first) \subseteq Clusters
    BY AlongClosed
  <2> QED BY <2>1, AlongTable DEF ReachableSafe, HeadsSafe, P
<1>2. ReachableSafe' <=> HeadsSafe'
  <2>1. \A s \in Heads' : Along(P', dir'[s].first) \subseteq Clusters
    BY AlongClosed
  <2>2. \A s \in Heads' : Chain(dir[s].first)' = Along(P', dir'[s].first)
    BY AlongTable
  <2> QED BY <2>1, <2>2 DEF ReachableSafe, HeadsSafe, P
<1> QED BY <1>1, <1>2

Safe == HeadsSafe /\ HeldOut /\ Sealed

\* A step that writes one entry of the table, which the call holds or which was free.
LEMMA SafeTable ==
    ASSUME TypeOK, Safe, UNCHANGED dir, NEW n, Differ(P, P', n),
           n \in Held \/ (n \in Clusters /\ P[n] = FREE),
           n \in Clusters => P'[n] \notin RootChain,
           Held' \subseteq Held \cup {n}
    PROVE  Safe'
<1>1. n \notin RootChain
  <2>1. \A c \in RootChain : P[c] # FREE
    BY GeometryAssumption, Primary DEF Safe, Sealed, RootEntry, RootChain
  <2> QED BY <2>1 DEF Safe, HeldOut
<1>2. \A s \in Heads : n \notin Along(P, dir[s].first)
  BY DEF Safe, HeldOut, HeadsSafe
<1>3. Heads' = Heads /\ \A s \in Heads : Along(P', dir'[s].first) = Along(P, dir[s].first)
  BY <1>2, AlongSame DEF Heads
<1>4. \A s \in Heads : \A c \in Along(P, dir[s].first) : c # n /\ c \in Clusters
  BY <1>2, AlongClosed
<1>5. HeadsSafe'
  BY <1>3, <1>4 DEF Safe, HeadsSafe, Differ, RootChain
<1>6. HeldOut'
  BY <1>1, <1>2, <1>3 DEF Safe, HeldOut, RootChain
<1>7. Sealed'
  BY <1>1, Primary DEF Safe, Sealed, Differ, RootChain, RootEntry
<1> QED BY <1>5, <1>6, <1>7 DEF Safe

\* One that writes neither the primary copy nor the directory.
LEMMA SafeSame ==
    ASSUME Safe, P' = P, UNCHANGED dir, Held' \subseteq Held
    PROVE  Safe'
BY DEF Safe, HeadsSafe, HeldOut, Sealed, Heads, RootChain, RootEntry

\* An entry that leads nowhere is written; what the old one led to may be held now.
LEMMA SafeEmpty ==
    ASSUME TypeOK, Safe, P' = P, NEW s \in Slots, NEW e, e.first = 0,
           dir' \in {dir, [dir EXCEPT ![s] = e]},
           dir' = [dir EXCEPT ![s] = e] /\ s \in Heads =>
               Held' \subseteq Held \cup Along(P, dir[s].first),
           dir' = dir \/ s \notin Heads => Held' \subseteq Held
    PROVE  Safe'
<1>1. CASE dir' = dir
  BY <1>1, SafeSame
<1>2. CASE dir' = [dir EXCEPT ![s] = e]
  <2>1. \A t \in Heads' : t \in Heads /\ t # s /\ dir'[t] = dir[t]
    BY <1>2 DEF Heads, TypeOK, TypeVolume, Directory
  <2>2. HeadsSafe'
    BY <2>1 DEF Safe, HeadsSafe, RootChain
  <2>3. Held' \subseteq Held \cup (IF s \in Heads THEN Along(P, dir[s].first) ELSE {})
    BY <1>2
  <2>4. HeldOut'
    BY <2>1, <2>3 DEF Safe, HeldOut, HeadsSafe, RootChain
  <2> QED BY <2>2, <2>4 DEF Safe, Sealed, RootChain, RootEntry
<1> QED BY <1>1, <1>2

\* An entry gets the chain that the call held.
LEMMA SafeGiven ==
    ASSUME TypeOK, Safe, P' = P, NEW s \in Slots, NEW e,
           dir' \in {dir, [dir EXCEPT ![s] = e]},
           Along(P, e.first) \subseteq Held, \A c \in Along(P, e.first) : P[c] # FREE,
           Held' = {}
    PROVE  Safe'
<1>1. CASE dir' = dir
  BY <1>1, SafeSame
<1>2. CASE dir' = [dir EXCEPT ![s] = e]
  <2>1. \A t \in Heads' : /\ t # s => t \in Heads /\ dir'[t] = dir[t]
                          /\ t = s => dir'[t].first = e.first
    BY <1>2 DEF Heads, TypeOK, TypeVolume, Directory
  <2>2. HeadsSafe'
    <3>1. ASSUME NEW t \in Heads', NEW c \in Along(P', dir'[t].first)
          PROVE  P'[c] # FREE /\ c \notin RootChain
      BY <2>1, <3>1 DEF Safe, HeadsSafe, HeldOut
    <3>2. ASSUME NEW t \in Heads', NEW u \in Heads', t # u
          PROVE  Along(P', dir'[t].first) \cap Along(P', dir'[u].first) = {}
      BY <2>1, <3>2 DEF Safe, HeadsSafe, HeldOut
    <3> QED BY <3>1, <3>2 DEF HeadsSafe, RootChain
  <2>3. HeldOut'
    BY DEF HeldOut
  <2> QED BY <2>2, <2>3 DEF Safe, Sealed, RootChain, RootEntry
<1> QED BY <1>1, <1>2

-----------------------------------------------------------------------------
(* The running call.                                                       *)

\* Held, from its parts.
HeldAs(Q, a, n, f, c) ==
    (IF a \in {"mkDots", "mkEntry", "link", "data", "unalloc"} THEN {n} ELSE {})
    \cup (IF a \in {"link", "data", "unalloc", "alloc", "fail"} THEN Along(Q, f) ELSE {})
    \cup (IF a = "free" THEN Along(Q, c) ELSE {})

LEMMA HeldIs == /\ Held = HeldAs(P, at, new, first, cur)
                /\ Held' = HeldAs(P', at', new', first', cur')
<1>1. Chain(first) = Along(P, first) /\ Chain(cur) = Along(P, cur)
  BY AlongTable
<1>2. Chain(first)' = Along(P', first') /\ Chain(cur)' = Along(P', cur')
  BY DEF Chain, Along, Closed, P
<1> QED BY <1>1, <1>2 DEF Held, HeldAs

\* What it knows of the chain it builds.
Own == /\ at \in {"link", "data"} => new \in Clusters /\ P[new] = EOC
       /\ at = "link" => /\ new \notin Along(P, first)
                         /\ \A s \in Heads : new \notin Along(P, dir[s].first)
       /\ at \in {"alloc", "link", "data"} =>
             /\ first = 0 => prev = last
             /\ first # 0 => prev \in Along(P, first)
             /\ prev # 0 => P[prev] = IF at = "data" THEN new ELSE EOC

\* And when writes fail, and there are no appends.
Sound == /\ at \in {"alloc", "link", "data"} => \A c \in Along(P, first) : P[c] # FREE
         /\ at \in {"mkDots", "mkEntry"} => new \in Clusters /\ P[new] = EOC
         /\ at = "free" /\ op = "write" /\ r = FS_OK => first = 0 /\ prev = 0
         /\ at \in {"fail", "unalloc"} => r # FS_OK

Plain == last = 0 /\ op \notin {"append", "rmdir"}

FaultInv == Safe /\ Own /\ Sound /\ Plain

\* The points at which the call holds nothing.
Resting == {"idle", "off", "return", "full"}

LEMMA AtRest ==
    ASSUME at' \in Resting, Safe', Plain'
    PROVE  FaultInv'
BY DEF FaultInv, Own, Sound, Resting

LEMMA RestHolds ==
    ASSUME at' \in Resting
    PROVE  Held' = {}
BY HeldIs DEF HeldAs, Resting

\* A step that writes neither the primary copy nor the directory, to rest.
LEMMA FaultRest ==
    ASSUME FaultInv, P' = P, UNCHANGED dir, at' \in Resting, Plain'
    PROVE  FaultInv'
BY RestHolds, SafeSame, AtRest DEF FaultInv

LEMMA FaultRefuse ==
    ASSUME FaultInv, NEW code, Refuse(code), op' \notin {"append", "rmdir"}
    PROVE  FaultInv'
BY FaultRest DEF Refuse, disk, P, at, Resting, FaultInv, Plain

LEMMA FaultMirror == ASSUME TypeOK, FaultInv, NextCopy PROVE FaultInv'
<1>1. /\ P' = P /\ at \in Returns
      /\ \/ at' = at /\ r' = r
         \/ at' = OnFail(at) /\ r' = IF Checked(at) THEN FS_ERR_IO ELSE r
  BY MirrorAny
<1>2. UNCHANGED <<dir, op, last, new, prev, first, cur>>
  BY DEF NextCopy, call, chain
<1>3. Held' \subseteq Held
  BY <1>1, <1>2, HeldIs DEF HeldAs, Returns, OnFail
<1>4. Safe' /\ Plain'
  BY <1>1, <1>2, <1>3, SafeSame DEF FaultInv, Plain
<1>5. CASE at' = at /\ r' = r
  <2>1. Own' /\ Sound'
    BY <1>1, <1>2, <1>5 DEF FaultInv, Own, Sound, Heads
  <2> QED BY <1>4, <2>1 DEF FaultInv
<1>6. CASE at' = OnFail(at) /\ r' = IF Checked(at) THEN FS_ERR_IO ELSE r
  <2>1. Own' /\ Sound'
    BY <1>1, <1>2, <1>6 DEF FaultInv, Own, Sound, Returns, OnFail, Checked, FS_ERR_IO, FS_OK, Heads
  <2> QED BY <1>4, <2>1 DEF FaultInv
<1> QED BY <1>1, <1>5, <1>6

\* A free cluster is marked; the call holds it if that went well.
LEMMA FaultTaken ==
    ASSUME TypeOK, FaultInv, UNCHANGED dir, NEW c \in Clusters, P[c] = FREE,
           NEW to \in {"mkDots", "link"}, fat_set_entry(c, EOC, to), new' = c,
           to = "link" => at = "alloc" /\ first' = first,
           to = "mkDots" => at = "idle"
    PROVE  /\ Safe'
           /\ P' \in {P, [P EXCEPT ![c] = EOC]}
           /\ \/ at' = to /\ r' = r /\ P' = [P EXCEPT ![c] = EOC]
              \/ at' = OnFail(to) /\ r' = FS_ERR_IO
<1>1. /\ P' \in {P, [P EXCEPT ![c] = EOC]}
      /\ \/ at' = to /\ r' = r /\ P' = [P EXCEPT ![c] = EOC]
         \/ at' = OnFail(to) /\ r' = FS_ERR_IO
  <2>1. c \in {0} \cup Clusters /\ EOC \in {FREE, EOC} \cup Clusters /\ to \in Returns
    BY DEF Returns
  <2>2. Checked(to)
    BY DEF Checked
  <2> QED BY <2>1, <2>2, SetAny
<1>2. Differ(P, P', c) /\ P'[c] \notin RootChain
  BY <1>1, Primary DEF Differ
<1>3. Held' \subseteq Held \cup {c}
  <2>1. CASE to = "mkDots"
    BY <1>1, <2>1, HeldIs DEF HeldAs, OnFail
  <2>2. CASE to = "link"
    <3>1. Along(P', first) \subseteq Held
      <4>1. c \notin Along(P, first)
        BY <2>2 DEF FaultInv, Sound
      <4>2. Along(P', first) = Along(P, first)
        BY <1>2, <4>1, AlongSame
      <4> QED BY <2>2, <4>2, HeldIs DEF HeldAs
    <3> QED BY <1>1, <2>2, <3>1, HeldIs DEF HeldAs, OnFail
  <2> QED BY <2>1, <2>2
<1>4. Safe'
  BY <1>2, <1>3, SafeTable DEF FaultInv
<1> QED BY <1>1, <1>4

LEMMA FaultMkdir == ASSUME TypeOK, FaultInv, NEW n, make_dir(n) PROVE FaultInv'
<1>0. op' = "mkdir" /\ pc = "idle" /\ at = "idle"
  BY DEF make_dir, Call, at
<1>1. CASE Refuse(FS_ERR_NOSPACE)
  BY <1>0, <1>1, FaultRefuse
<1>2. ASSUME NEW c \in Clusters, IsFirstFree(c), fat_set_entry(c, EOC, "mkDots"),
             new' = c, UNCHANGED <<dir, last>>
      PROVE  FaultInv'
  <2>1. P[c] = FREE
    BY <1>2 DEF IsFirstFree, P
  <2>2. /\ Safe'
        /\ \/ at' = "mkDots" /\ P' = [P EXCEPT ![c] = EOC]
           \/ at' = "return"
    BY <1>0, <1>2, <2>1, FaultTaken DEF OnFail
  <2>3. Plain'
    BY <1>0, <1>2 DEF FaultInv, Plain
  <2>4. CASE at' = "return"
    BY <2>2, <2>3, <2>4, AtRest DEF Resting
  <2>5. CASE at' = "mkDots" /\ P' = [P EXCEPT ![c] = EOC]
    BY <1>2, <2>2, <2>3, <2>5, Primary DEF FaultInv, Own, Sound
  <2> QED BY <2>2, <2>4, <2>5
<1> QED BY <1>1, <1>2 DEF make_dir

LEMMA FaultMkDots == ASSUME TypeOK, FaultInv, MkDots PROVE FaultInv'
<1>1. /\ P' = P /\ at = "mkDots" /\ at' = "mkEntry"
      /\ UNCHANGED <<dir, op, last, new, prev, first, cur>>
  BY DEF MkDots, call, chain, P, at
<1>2. Held' \subseteq Held
  BY <1>1, HeldIs DEF HeldAs
<1> QED BY <1>1, <1>2, SafeSame DEF FaultInv, Own, Sound, Plain

LEMMA FaultMkEntry == ASSUME TypeOK, FaultInv, MkEntry PROVE FaultInv'
<1>1. UNCHANGED <<op, last, new, first, cur>> /\ at = "mkEntry"
  BY DEF MkEntry, call, chain, at
<1>2. new \in Clusters /\ P[new] = EOC /\ Held = {new}
  BY <1>1, HeldIs DEF FaultInv, Sound, HeldAs
<1>3. Plain'
  BY <1>1 DEF FaultInv, Plain
<1>4. ASSUME NEW s \in Slots, NEW w, dir' = Put(dir, s, DirEntry(name, new), w),
             pc' = "return", UNCHANGED fat
      PROVE  FaultInv'
  <2> DEFINE e == DirEntry(name, new)
  <2>1. P' = P /\ at' = "return" /\ dir' \in {dir, [dir EXCEPT ![s] = e]}
    BY <1>4 DEF P, at, Put
  <2>2. Along(P, e.first) \subseteq {new}
    <3>1. Closed(P, {new}) /\ {new} \in SUBSET Clusters
      BY <1>2, Primary, LinkValues DEF Closed
    <3> QED BY <3>1, AlongLeast DEF DirEntry
  <2>3. \A c \in Along(P, e.first) : P[c] # FREE
    BY <1>2, <2>2, Primary
  <2> HIDE DEF e
  <2>4. Held' = {}
    BY <2>1, RestHolds DEF Resting
  <2>5. Safe'
    BY <1>2, <2>1, <2>2, <2>3, <2>4, SafeGiven DEF FaultInv
  <2> QED BY <1>3, <2>1, <2>5, AtRest DEF Resting
<1>5. ASSUME fat_set_entry(new, FREE, "full"), UNCHANGED dir PROVE FaultInv'
  <2>1. /\ P' \in {P, [P EXCEPT ![new] = FREE]} /\ at' = "full"
    BY <1>2, <1>5, SetAny DEF Returns, OnFail
  <2>2. Differ(P, P', new) /\ P'[new] \notin RootChain
    BY <1>2, <2>1, Primary DEF Differ
  <2>3. Held' = {}
    BY <2>1, RestHolds DEF Resting
  <2>4. Safe'
    BY <1>2, <1>5, <2>2, <2>3, SafeTable DEF FaultInv
  <2> QED BY <1>3, <2>1, <2>4, AtRest DEF Resting
<1> QED BY <1>4, <1>5 DEF MkEntry

LEMMA FaultCreate == ASSUME TypeOK, FaultInv, NEW n, fs_create_file(n) PROVE FaultInv'
<1>0. op' = "create"
  BY DEF fs_create_file, Call
<1>1. CASE \E code : Refuse(code)
  BY <1>0, <1>1, FaultRefuse
<1>2. ASSUME NEW s \in Slots, PutSlot(s, FileEntry(n, 0, 0), "return", "return"),
             UNCHANGED <<fat, last>>
      PROVE  FaultInv'
  <2> DEFINE e == FileEntry(n, 0, 0)
  <2>1. P' = P /\ at' = "return" /\ dir' \in {dir, [dir EXCEPT ![s] = e]} /\ e.first = 0
    BY <1>2 DEF PutSlot, Put, P, at, FileEntry
  <2> HIDE DEF e
  <2>2. Held' = {}
    BY <2>1, RestHolds DEF Resting
  <2>3. Safe' /\ Plain'
    BY <1>0, <1>2, <2>1, <2>2, SafeEmpty DEF FaultInv, Plain
  <2> QED BY <2>1, <2>3, AtRest DEF Resting
<1> QED BY <1>1, <1>2 DEF fs_create_file

LEMMA FaultStartWrite == ASSUME TypeOK, FaultInv, NEW n, NEW b, StartWrite(n, b) PROVE FaultInv'
<1>0. /\ op' = "write" /\ at = "idle" /\ first = 0 /\ prev = 0
  BY DEF StartWrite, Call, at, TypeOK, TypeWork
<1>1. CASE \E code : Refuse(code)
  BY <1>0, <1>1, FaultRefuse
<1>2. ASSUME NEW s \in Slots, NEW ok \in {"free", "alloc"},
             PutSlot(s, FileEntry(n, 0, 0), ok, "return"),
             UNCHANGED <<fat, last, chain>>,
             ok = "free" => Live(dir[s]) /\ cur' = dir[s].first
      PROVE  FaultInv'
  <2> DEFINE e == FileEntry(n, 0, 0)
  <2>0. P' = P /\ e.first = 0 /\ UNCHANGED <<first, prev, last>>
    BY <1>2 DEF P, FileEntry, chain
  <2>1. \/ dir' = [dir EXCEPT ![s] = e] /\ at' = ok
        \/ dir' \in {dir, [dir EXCEPT ![s] = e]} /\ at' = "return"
    BY <1>2 DEF PutSlot, Put, at
  <2> HIDE DEF e
  <2>2. Along(P, 0) = {} /\ 0 \notin Clusters
    BY AlongNone, Primary
  <2>3. CASE at' = "return"
    <3>1. Held' = {}
      BY <2>3, RestHolds DEF Resting
    <3>2. Safe'
      BY <2>0, <2>1, <2>3, <3>1, SafeEmpty DEF FaultInv
    <3> QED BY <1>0, <1>2, <2>3, <3>2, AtRest DEF Resting, FaultInv, Plain
  <2>4. CASE dir' = [dir EXCEPT ![s] = e] /\ at' = "alloc"
    <3>1. Held' = {}
      BY <1>0, <2>0, <2>2, <2>4, HeldIs DEF HeldAs
    <3>2. Safe'
      BY <2>0, <2>4, <3>1, SafeEmpty DEF FaultInv
    <3> QED BY <1>0, <2>0, <2>2, <2>4, <3>2 DEF FaultInv, Plain, Own, Sound
  <2>5. CASE dir' = [dir EXCEPT ![s] = e] /\ at' = "free" /\ ok = "free"
    <3>1. Held' = Along(P, dir[s].first)
      BY <1>2, <2>0, <2>5, HeldIs DEF HeldAs
    <3>2. s \notin Heads => Held' = {}
      BY <1>2, <2>2, <2>5, <3>1 DEF Heads
    <3>3. dir' = dir => s \notin Heads
      BY <2>0, <2>5 DEF Heads, TypeOK, TypeVolume, Directory
    <3>4. Safe'
      BY <2>0, <2>5, <3>1, <3>2, <3>3, SafeEmpty DEF FaultInv
    <3> QED BY <1>0, <2>0, <2>5, <3>4 DEF FaultInv, Plain, Own, Sound
  <2> QED BY <2>1, <2>3, <2>4, <2>5
<1>3. UNCHANGED last
  BY DEF StartWrite, Refuse
<1> QED BY <1>1, <1>2, <1>3 DEF StartWrite, IsHit, Hits

LEMMA FaultFreeOne == ASSUME TypeOK, FaultInv, FreeOne PROVE FaultInv'
<1>1. /\ UNCHANGED <<dir, op, last, new, prev, first>> /\ at = "free" /\ pc = "free"
      /\ cur \in Clusters /\ cur' = P[cur]
  <2>1. cur \in {0, EOC} \cup Clusters /\ IsLink(cur)
    BY DEF FreeOne, TypeOK, TypeWork
  <2>2. cur \in Clusters
    BY <2>1, LinkValues
  <2> QED BY <2>2 DEF FreeOne, call, chain, at, get_next_cluster, P
<1>2. P' \in {P, [P EXCEPT ![cur] = FREE]} /\ at' = "free" /\ r' = r
  <2>1. /\ cur \in {0} \cup Clusters /\ FREE \in {FREE, EOC} \cup Clusters /\ "free" \in Returns
        /\ ~Checked("free") /\ OnFail("free") = "free"
    BY <1>1 DEF Returns, Checked, OnFail
  <2> QED BY <2>1, SetAny DEF FreeOne
<1>3. Differ(P, P', cur) /\ P'[cur] \in {P[cur], FREE}
  BY <1>1, <1>2, Primary DEF Differ
<1>4. Held' \subseteq Held
  <2>1. Held = Along(P, cur) /\ Held' = Along(P', P[cur])
    BY <1>1, <1>2, HeldIs DEF HeldAs
  <2>2. Along(P, cur) \in SUBSET Clusters /\ Closed(P, Along(P, cur)) /\ cur \in Along(P, cur)
    BY <1>1, AlongClosed, AlongHas
  <2>3. Closed(P', Along(P, cur)) /\ (P[cur] \in Clusters => P[cur] \in Along(P, cur))
    BY <1>3, <2>2, Primary DEF Closed, Differ
  <2> QED BY <2>1, <2>2, <2>3, AlongLeast
<1>5. cur \in Held
  BY <1>1, AlongHas, HeldIs DEF HeldAs
<1>6. P[cur] \notin RootChain /\ FREE \notin RootChain
  BY <1>1, <1>5, Primary DEF FaultInv, Safe, HeldOut, Sealed
<1>7. Safe'
  BY <1>1, <1>3, <1>4, <1>5, <1>6, SafeTable DEF FaultInv
<1> QED BY <1>1, <1>2, <1>7 DEF FaultInv, Own, Sound, Plain

LEMMA FaultFreeDone == ASSUME TypeOK, FaultInv, FreeDone PROVE FaultInv'
<1>1. /\ UNCHANGED <<dir, op, last, new, prev, first, r>> /\ P' = P /\ at = "free"
      /\ at' = IF op = "write" /\ r = FS_OK THEN "alloc" ELSE "return"
  BY DEF FreeDone, disk, call, chain, P, at
<1>2. Plain'
  BY <1>1 DEF FaultInv, Plain
<1>3. CASE at' = "return"
  BY <1>1, <1>2, <1>3, FaultRest DEF Resting
<1>4. CASE at' = "alloc"
  <2>1. first' = 0 /\ prev' = 0 /\ last' = 0
    BY <1>1, <1>4 DEF FaultInv, Sound, Plain
  <2>2. Along(P', 0) = {}
    BY AlongNone, Primary
  <2>3. Held' = {}
    BY <1>4, <2>1, <2>2, HeldIs DEF HeldAs
  <2>4. Safe'
    BY <1>1, <2>3, SafeSame DEF FaultInv
  <2> QED BY <1>2, <1>4, <2>1, <2>2, <2>4 DEF FaultInv, Own, Sound
<1> QED BY <1>1, <1>3, <1>4

LEMMA FaultAlloc == ASSUME TypeOK, FaultInv, Alloc PROVE FaultInv'
<1>1. UNCHANGED <<dir, op, last, prev, first, cur>> /\ at = "alloc"
  BY DEF Alloc, call, at
<1>2. Plain'
  BY <1>1 DEF FaultInv, Plain
<1>3. CASE pc' = "fail" /\ r' = FS_ERR_NOSPACE /\ UNCHANGED fat
  <2>1. P' = P /\ at' = "fail" /\ r' # FS_OK
    BY <1>3 DEF P, at, FS_ERR_NOSPACE, FS_OK
  <2>2. Held' = Held
    BY <1>1, <2>1, HeldIs DEF HeldAs
  <2>3. Safe'
    BY <1>1, <2>1, <2>2, SafeSame DEF FaultInv
  <2> QED BY <1>2, <2>1, <2>3 DEF FaultInv, Own, Sound
<1>4. ASSUME NEW c \in Clusters, IsFirstFree(c), fat_set_entry(c, EOC, "link"), new' = c
      PROVE  FaultInv'
  <2>1. P[c] = FREE
    BY <1>4 DEF IsFirstFree, P
  <2>2. /\ Safe'
        /\ \/ at' = "link" /\ r' = r /\ P' = [P EXCEPT ![c] = EOC]
           \/ at' = "fail" /\ r' = FS_ERR_IO
    BY <1>1, <1>4, <2>1, FaultTaken DEF OnFail
  <2>3. CASE at' = "fail" /\ r' = FS_ERR_IO
    BY <1>2, <2>2, <2>3 DEF FaultInv, Own, Sound, FS_ERR_IO, FS_OK
  <2>4. CASE at' = "link" /\ r' = r /\ P' = [P EXCEPT ![c] = EOC]
    <3>1. c \notin Along(P, first) /\ \A s \in Heads : c \notin Along(P, dir[s].first)
      BY <1>1, <2>1 DEF FaultInv, Sound, Safe, HeadsSafe
    <3>2. Differ(P, P', c) /\ P'[c] = EOC
      BY <2>4, Primary DEF Differ
    <3>3. /\ Along(P', first') = Along(P, first)
          /\ \A s \in Heads : Along(P', dir'[s].first) = Along(P, dir[s].first)
      BY <1>1, <3>1, <3>2, AlongSame
    <3>4. Along(P, first) \in SUBSET Clusters /\ prev \in {0} \cup Clusters /\ 0 \notin Clusters
      BY AlongClosed, Primary DEF TypeOK, TypeWork
    <3>5. prev # 0 => prev \in Clusters /\ prev # c /\ P'[prev] = EOC
      BY <1>1, <2>1, <3>2, <3>4, Primary DEF FaultInv, Own, Differ
    <3>6. Own'
      BY <1>1, <1>4, <2>4, <3>1, <3>2, <3>3, <3>5 DEF FaultInv, Own, Heads
    <3>7. Sound'
      BY <1>1, <2>4, <3>1, <3>2, <3>3, <3>4 DEF FaultInv, Sound, Differ
    <3> QED BY <1>2, <2>2, <3>6, <3>7 DEF FaultInv
  <2> QED BY <2>2, <2>3, <2>4
<1> QED BY <1>3, <1>4 DEF Alloc

LEMMA FaultLink == ASSUME TypeOK, FaultInv, Link PROVE FaultInv'
<1>1. UNCHANGED <<dir, op, last, new, prev, first, cur>> /\ at = "link"
  BY DEF Link, call, chain, at
<1>2. Plain'
  BY <1>1 DEF FaultInv, Plain
<1>3. /\ new \in Clusters /\ P[new] = EOC /\ new \notin Along(P, first)
      /\ Held = {new} \cup Along(P, first) /\ last = 0
      /\ \A c \in Along(P, first) : P[c] # FREE
  BY <1>1, HeldIs DEF FaultInv, Own, Sound, Plain, HeldAs
<1>4. CASE prev = 0 /\ pc' = "data" /\ UNCHANGED <<fat, r>>
  <2>1. P' = P /\ at' = "data"
    BY <1>4 DEF P, at
  <2>2. Held' = Held
    BY <1>1, <2>1, HeldIs DEF HeldAs
  <2>3. Safe'
    BY <1>1, <2>1, <2>2, SafeSame DEF FaultInv
  <2> QED BY <1>1, <1>2, <1>4, <2>1, <2>3 DEF FaultInv, Own, Sound
<1>5. CASE prev # 0 /\ fat_set_entry(prev, new, "data")
  <2>0. Along(P, first) \in SUBSET Clusters /\ Closed(P, Along(P, first))
    BY AlongClosed
  <2>1. prev \in Along(P, first) /\ prev \in Clusters /\ P[prev] = EOC /\ prev # new
    BY <1>1, <1>3, <1>5, <2>0 DEF FaultInv, Own
  <2>2. /\ P' \in {P, [P EXCEPT ![prev] = new]}
        /\ \/ at' = "data" /\ r' = r /\ P' = [P EXCEPT ![prev] = new]
           \/ at' = "unalloc" /\ r' = FS_ERR_IO
    <3>1. /\ prev \in {0} \cup Clusters /\ new \in {FREE, EOC} \cup Clusters /\ "data" \in Returns
          /\ Checked("data") /\ OnFail("data") = "unalloc"
      BY <1>3, <2>1 DEF Returns, Checked, OnFail
    <3> QED BY <1>5, <3>1, SetAny
  <2>3. Differ(P, P', prev) /\ P'[prev] \in {EOC, new} /\ P'[new] = EOC
    BY <1>3, <2>1, <2>2, Primary DEF Differ
  <2>4. Along(P', first) \subseteq {new} \cup Along(P, first)
    <3> DEFINE S == {new} \cup Along(P, first)
    <3>1. S \in SUBSET Clusters /\ Along(P, first) \subseteq S
      BY <1>3, <2>0
    <3>2. Closed(P', S)
      <4>1. ASSUME NEW x \in S, P'[x] \in Clusters PROVE P'[x] \in S
        <5>1. CASE x \in {new, prev}
          BY <2>3, <4>1, <5>1, Primary, LinkValues
        <5>2. CASE x \notin {new, prev}
          BY <2>0, <2>3, <4>1, <5>2 DEF Closed, Differ
        <5> QED BY <5>1, <5>2
      <4> QED BY <4>1 DEF Closed
    <3> HIDE DEF S
    <3>3. Along(P', first) \subseteq S
      BY <2>3, <3>1, <3>2, AlongWithin
    <3> QED BY <3>3 DEF S
  <2>5. Held' \subseteq Held
    BY <1>1, <1>3, <2>2, <2>4, HeldIs DEF HeldAs
  <2>6. new \notin RootChain /\ EOC \notin RootChain
    BY <1>3, Primary, LinkValues DEF FaultInv, Safe, HeldOut
  <2>7. Safe'
    BY <1>1, <1>3, <2>1, <2>3, <2>5, <2>6, SafeTable DEF FaultInv
  <2>8. CASE at' = "unalloc" /\ r' = FS_ERR_IO
    BY <1>2, <2>7, <2>8 DEF FaultInv, Own, Sound, FS_ERR_IO, FS_OK
  <2>9. CASE at' = "data" /\ r' = r /\ P' = [P EXCEPT ![prev] = new]
    <3>1. prev \in Along(P', first) /\ P'[prev] = new
      <4>1. P[prev] \notin Clusters
        BY <2>1, LinkValues
      <4>2. Along(P, first) \subseteq Along(P', first)
        BY <2>3, <4>1, AlongGrow
      <4> QED BY <2>1, <2>9, <4>2, Primary
    <3>2. Own'
      BY <1>1, <1>3, <2>3, <2>9, <3>1 DEF FaultInv, Own
    <3>3. \A c \in Along(P', first) : P'[c] # FREE
      BY <1>3, <2>0, <2>3, <2>4, Primary, LinkValues DEF Differ
    <3>4. Sound'
      BY <1>1, <2>9, <3>3 DEF Sound
    <3> QED BY <1>2, <2>7, <3>2, <3>4 DEF FaultInv
  <2> QED BY <2>2, <2>8, <2>9
<1> QED BY <1>4, <1>5 DEF Link

LEMMA FaultUnalloc == ASSUME TypeOK, FaultInv, Unalloc PROVE FaultInv'
<1>1. UNCHANGED <<dir, op, last, prev, first, cur>> /\ at = "unalloc"
  BY DEF Unalloc, call, at
<1>2. P' \in {P, [P EXCEPT ![new] = FREE]} /\ at' = "fail" /\ r' = r
  <2>1. /\ new \in {0} \cup Clusters /\ FREE \in {FREE, EOC} \cup Clusters /\ "fail" \in Returns
        /\ ~Checked("fail") /\ OnFail("fail") = "fail"
    BY DEF TypeOK, TypeWork, Returns, Checked, OnFail
  <2> QED BY <2>1, SetAny DEF Unalloc
<1>3. Differ(P, P', new) /\ (new \in Clusters => P'[new] \in {P[new], FREE})
  BY <1>2, Primary DEF Differ
<1>4. new \in Held /\ Held = {new} \cup Along(P, first) /\ Held' = Along(P', first)
  BY <1>1, <1>2, HeldIs DEF HeldAs
<1>5. Held' \subseteq Held
  <2>1. Along(P, first) \in SUBSET Clusters /\ Closed(P, Along(P, first))
    BY AlongClosed
  <2>2. Closed(P', Along(P, first))
    BY <1>3, <2>1, Primary DEF Closed, Differ
  <2>3. Along(P', first) \subseteq Along(P, first)
    BY <1>3, <2>1, <2>2, AlongWithin
  <2> QED BY <1>4, <2>3
<1>6. new \in Clusters => P'[new] \notin RootChain
  <2>1. new \notin RootChain
    BY <1>4 DEF FaultInv, Safe, HeldOut
  <2> QED BY <1>3, <2>1, Primary DEF FaultInv, Safe, Sealed
<1>7. Safe'
  BY <1>1, <1>3, <1>4, <1>5, <1>6, SafeTable DEF FaultInv
<1> QED BY <1>1, <1>2, <1>7 DEF FaultInv, Own, Sound, Plain

LEMMA FaultWriteData == ASSUME TypeOK, FaultInv, WriteData PROVE FaultInv'
<1>1. /\ UNCHANGED <<dir, op, last, cur>> /\ P' = P /\ at = "data"
      /\ first' = IF first = 0 THEN new ELSE first
      /\ \/ at' = "alloc" /\ r' = r /\ prev' = new
         \/ at' = "fail" /\ r' = FS_ERR_IO
  BY DEF WriteData, call, P, at
<1>2. Plain'
  BY <1>1 DEF FaultInv, Plain
<1>3. /\ new \in Clusters /\ P[new] = EOC /\ last = 0
      /\ Held = {new} \cup Along(P, first)
      /\ \A c \in Along(P, first) : P[c] # FREE
      /\ first # 0 => prev \in Along(P, first) /\ (prev # 0 => P[prev] = new)
  BY <1>1, HeldIs DEF FaultInv, Own, Sound, Plain, HeldAs
<1>4. Along(P, first') \subseteq {new} \cup Along(P, first) /\ new \in Along(P, first')
  <2>1. CASE first = 0
    <3>1. Closed(P, {new}) /\ {new} \in SUBSET Clusters
      BY <1>3, LinkValues DEF Closed
    <3> QED BY <1>1, <1>3, <2>1, <3>1, AlongLeast, AlongHas
  <2>2. CASE first # 0
    <3>1. Along(P, first) \in SUBSET Clusters /\ Closed(P, Along(P, first))
      BY AlongClosed
    <3>2. prev \in Clusters /\ P[prev] = new
      BY <1>3, <2>2, <3>1, Primary
    <3>3. new \in Along(P, first)
      BY <1>3, <2>2, <3>1, <3>2 DEF Closed
    <3> QED BY <1>1, <2>2, <3>3
  <2> QED BY <2>1, <2>2
<1>5. Held' \subseteq Held
  BY <1>1, <1>3, <1>4, HeldIs DEF HeldAs
<1>6. Safe'
  BY <1>1, <1>5, SafeSame DEF FaultInv
<1>7. CASE at' = "fail" /\ r' = FS_ERR_IO
  BY <1>2, <1>6, <1>7 DEF FaultInv, Own, Sound, FS_ERR_IO, FS_OK
<1>8. CASE at' = "alloc" /\ r' = r /\ prev' = new
  <2>1. first' # 0
    BY <1>1, <1>3, Primary
  <2>2. Own'
    BY <1>1, <1>3, <1>4, <1>8, <2>1 DEF Own
  <2>3. \A c \in Along(P, first') : P[c] # FREE
    BY <1>3, <1>4, Primary
  <2>4. Sound'
    BY <1>1, <1>8, <2>3 DEF Sound
  <2> QED BY <1>2, <1>6, <2>2, <2>4 DEF FaultInv
<1> QED BY <1>1, <1>7, <1>8

LEMMA FaultCleanup == ASSUME TypeOK, FaultInv, Cleanup PROVE FaultInv'
<1>1. /\ UNCHANGED <<dir, op, last, new, prev, first, r>> /\ P' = P
      /\ at = "fail" /\ at' = "free" /\ cur' = first
  BY DEF Cleanup, call, chain, P, at, FaultInv, Plain
<1>2. Held' = Held
  BY <1>1, HeldIs DEF HeldAs
<1>3. Safe'
  BY <1>1, <1>2, SafeSame DEF FaultInv
<1> QED BY <1>1, <1>3 DEF FaultInv, Own, Sound, Plain

LEMMA FaultCommit == ASSUME TypeOK, DirInv, FaultInv, Commit PROVE FaultInv'
<1> DEFINE e == [dir[pos] EXCEPT !.first = first, !.size = Len(arg)]
<1>1. /\ UNCHANGED <<op, last, first>> /\ P' = P /\ at = "alloc" /\ at' = "return"
  BY DEF Commit, PutSlot, call, chain, P, at
<1>2. op = "write" /\ pos \in Slots
  BY <1>1 DEF DirInv, PosHeld, Building, FaultInv, Plain, Commit, Running
<1>3. dir' \in {dir, [dir EXCEPT ![pos] = e]}
  BY <1>2 DEF Commit, PutSlot, Put
<1>4. e.first = first
  BY <1>2 DEF TypeOK, TypeVolume, Directory
<1> HIDE DEF e
<1>5. Along(P, e.first) \subseteq Held /\ \A c \in Along(P, e.first) : P[c] # FREE
  BY <1>1, <1>4, HeldIs DEF HeldAs, FaultInv, Sound
<1>6. Held' = {}
  BY <1>1, RestHolds DEF Resting
<1>7. Safe'
  BY <1>1, <1>2, <1>3, <1>5, <1>6, SafeGiven DEF FaultInv
<1>8. Plain'
  BY <1>1 DEF FaultInv, Plain
<1> QED BY <1>1, <1>7, <1>8, AtRest DEF Resting

LEMMA FaultEnding ==
    ASSUME TypeOK, FaultInv, NotMounted \/ MkFull \/ Return \/ Abort \/ PowerLoss \/ fs_init
    PROVE  FaultInv'
<1>1. /\ P' = P /\ UNCHANGED dir /\ at' \in Resting
  BY DEF NotMounted, MkFull, Return, Abort, PowerLoss, fs_init, disk, P, at, Resting
<1>2. Plain'
  BY DEF NotMounted, MkFull, Return, Abort, PowerLoss, fs_init, Forget, call, FaultInv, Plain
<1> QED BY <1>1, <1>2, FaultRest

LEMMA FaultNext ==
    ASSUME TypeOK, DirInv, FaultInv, Ops \cap {"append", "rmdir"} = {}, [Next]_vars
    PROVE  FaultInv'
<1>1. CASE UNCHANGED vars
  <2>1. P' = P /\ at' = at /\ UNCHANGED <<dir, op, last, new, prev, first, cur, r>>
    BY <1>1 DEF vars, P, at
  <2>2. Held' = Held
    BY <2>1, HeldIs DEF HeldAs
  <2>3. Safe'
    BY <2>1, <2>2, SafeSame DEF FaultInv
  <2> QED BY <2>1, <2>3 DEF FaultInv, Own, Sound, Plain, Heads
<1>2. CASE Step
  <2>1. CASE NextCopy \/ MkDots \/ MkEntry \/ MkFull
    BY <2>1, FaultMirror, FaultMkDots, FaultMkEntry, FaultEnding
  <2>2. CASE FreeOne \/ FreeDone \/ Alloc \/ Link \/ Unalloc
    BY <2>2, FaultFreeOne, FaultFreeDone, FaultAlloc, FaultLink, FaultUnalloc
  <2>3. CASE WriteData \/ Cleanup \/ Commit \/ Return
    BY <2>3, FaultWriteData, FaultCleanup, FaultCommit, FaultEnding
  <2> QED BY <1>2, <2>1, <2>2, <2>3 DEF Step
<1>3. CASE Request
  <2>1. CASE NotMounted
    BY <2>1, FaultEnding
  <2>2. ASSUME NEW n \in Names, make_dir(n) \/ remove_dir(n) \/ fs_create_file(n)
        PROVE  FaultInv'
    <3>1. ~remove_dir(n)
      BY DEF remove_dir
    <3> QED BY <2>2, <3>1, FaultMkdir, FaultCreate
  <2>3. ASSUME NEW n \in Names, NEW b \in Buffers, fs_write_file(n, b) \/ fs_append_file(n, b)
        PROVE  FaultInv'
    <3>1. ~fs_append_file(n, b)
      BY DEF fs_append_file
    <3> QED BY <2>3, <3>1, FaultStartWrite DEF fs_write_file
  <2> QED BY <1>3, <2>1, <2>2, <2>3 DEF Request
<1>4. CASE Abort \/ PowerLoss \/ fs_init
  BY <1>4, FaultEnding
<1> QED BY <1>1, <1>2, <1>3, <1>4 DEF Next

LEMMA FaultInit == Init => FaultInv
<1> SUFFICES ASSUME Init PROVE FaultInv
  OBVIOUS
<1>1. TypeOK
  BY TypeInit
<1> USE Primary, <1>1
<1>2. PICK hosted \in SUBSET {HostDir}, n \in Names :
          /\ hosted \subseteq Clusters
          /\ fat = [f \in Fats |-> [c \in Clusters |->
                       IF c \in RootChain THEN RootEntry(c)
                       ELSE IF c \in hosted THEN EOC ELSE FREE]]
          /\ dir = [s \in Slots |-> IF s = 1 THEN Blank("skip")
                                    ELSE IF s = 2 /\ hosted # {} THEN DirEntry(n, HostDir)
                                    ELSE Blank("end")]
  BY DEF Init
<1>3. 1 \in Fats
  BY GeometryAssumption DEF Fats
<1>4. P = [c \in Clusters |-> IF c \in RootChain THEN RootEntry(c)
                              ELSE IF c \in hosted THEN EOC ELSE FREE]
  BY <1>2, <1>3 DEF P
<1>5. \A s \in Heads : s = 2 /\ dir[s].first = HostDir /\ HostDir \in hosted /\ HostDir \in Clusters
  BY <1>2 DEF Heads, Live, Blank, DirEntry
<1>6. HostDir \notin RootChain
  BY GeometryAssumption DEF HostDir, RootChain
<1>7. \A s \in Heads : Along(P, dir[s].first) \subseteq {HostDir} /\ P[HostDir] = EOC
  <2>1. ASSUME NEW s \in Heads PROVE Along(P, HostDir) \subseteq {HostDir} /\ P[HostDir] = EOC
    <3>1. P[HostDir] = EOC /\ {HostDir} \in SUBSET Clusters
      BY <1>4, <1>5, <1>6
    <3>2. Closed(P, {HostDir})
      BY <3>1, LinkValues DEF Closed
    <3> QED BY <3>1, <3>2, AlongLeast
  <2> QED BY <1>5, <2>1
<1>8. Sealed
  <2>1. \A c \in Clusters \ RootChain : P[c] \in {EOC, FREE}
    BY <1>4
  <2>2. EOC \notin RootChain /\ FREE \notin RootChain
    BY LinkValues
  <2> QED BY <1>4, <2>1, <2>2 DEF Sealed
<1>9. HeadsSafe
  <2>1. \A s, t \in Heads : s = t
    BY <1>5
  <2> QED BY <1>6, <1>7, <2>1 DEF HeadsSafe
<1>10. at = "off" /\ Held = {} /\ last = 0 /\ op = "none"
  <2>1. at = "off" /\ last = 0 /\ op = "none"
    BY DEF Init, at
  <2> QED BY <2>1, HeldIs DEF HeldAs
<1> QED BY <1>8, <1>9, <1>10 DEF FaultInv, Safe, HeldOut, Own, Sound, Plain

-----------------------------------------------------------------------------
(* And when they do not: the chains stay apart, so what entries lead to.   *)

LEMMA ApartIsSafe ==
    ASSUME TypeOK, ChainsInv
    PROVE  HeadsSafe /\ Sealed
<1>1. /\ \A s \in Heads : P[dir[s].first] # FREE /\ dir[s].first \notin RootChain
      /\ \A c \in Clusters : P[c] \in Clusters => P[P[c]] # FREE
  BY DEF ChainsInv, NoDangling, RootIntact, P
<1>2. /\ \A c, d \in Clusters : P[c] = P[d] /\ P[c] \in Clusters => c = d
      /\ \A s \in Heads, c \in Clusters : P[c] # dir[s].first
      /\ \A s, t \in Heads : dir[s].first = dir[t].first => s = t
  BY DEF ChainsInv, NoCrossLink, P
<1>3. Sealed
  <2>1. /\ \A c \in RootChain : P[c] = RootEntry(c)
        /\ \A c \in Clusters : P[c] # RootCluster
    BY DEF ChainsInv, RootIntact, P
  <2>2. ASSUME NEW c \in Clusters \ RootChain, P[c] \in RootChain PROVE FALSE
    <3>1. PICK d \in RootChain : P[c] = d /\ d # RootCluster
      BY <2>1, <2>2
    <3>2. d - 1 \in RootChain /\ RootEntry(d - 1) = d
      BY <3>1, GeometryAssumption DEF RootChain, RootCluster, RootEntry
    <3>3. P[d - 1] = d /\ d - 1 \in Clusters
      BY <2>1, <3>2, Primary
    <3>4. c = d - 1
      BY <1>2, <3>1, <3>3, Primary
    <3> QED BY <2>2, <3>2, <3>4
  <2> QED BY <2>1, <2>2 DEF Sealed
<1>4. ASSUME NEW s \in Heads, NEW c \in Along(P, dir[s].first)
      PROVE  P[c] # FREE /\ c \notin RootChain
  <2> DEFINE S == {x \in Clusters : P[x] # FREE /\ x \notin RootChain}
  <2>1. Closed(P, S)
    BY <1>1, <1>3 DEF Closed, Sealed
  <2>2. S \in SUBSET Clusters /\ (dir[s].first \in Clusters => dir[s].first \in S)
    BY <1>1
  <2> HIDE DEF S
  <2>3. Along(P, dir[s].first) \subseteq S
    BY <2>1, <2>2, AlongLeast
  <2> QED BY <2>3 DEF S
<1>5. ASSUME NEW s \in Heads, NEW t \in Heads, s # t
      PROVE  Along(P, dir[s].first) \cap Along(P, dir[t].first) = {}
  BY <1>2, <1>5, SourcesApart
<1> QED BY <1>3, <1>4, <1>5 DEF HeadsSafe

LEMMA SealedIsIntact ==
    ASSUME TypeOK, HeadsSafe, Sealed
    PROVE  RootIntact
<1>1. \A c \in RootChain : RootEntry(c) # RootCluster
  BY GeometryAssumption, LinkValues, Primary DEF RootEntry, RootChain, RootCluster
<1>2. \A c \in Clusters : P[c] # RootCluster
  BY <1>1, Primary DEF Sealed
<1>3. ASSUME NEW s \in Heads PROVE dir[s].first \notin RootChain
  <2>1. dir[s].first \in Clusters
    BY DEF Heads, TypeOK, TypeVolume, Directory
  <2> QED BY <2>1, AlongHas DEF HeadsSafe
<1> QED BY <1>2, <1>3 DEF Sealed, RootIntact, P

\* What entries lead to stays allocated, apart from the root directory and from
\* every other entry's chain, after every sector write: for every sequence of
\* calls when writes do not fail, and also when any of them may fail as long as
\* no call is a remove_dir or an append.
THEOREM ReachableStaysSafe ==
    ASSUME WriteFaults => Ops \cap {"append", "rmdir"} = {}
    PROVE  Spec => []ReachableSafe
<1>1. CASE WriteFaults
  <2>1. Init => TypeOK /\ DirInv /\ FaultInv
    BY TypeInit, DirInit, FaultInit
  <2>2. TypeOK /\ DirInv /\ FaultInv /\ [Next]_vars => TypeOK' /\ DirInv' /\ FaultInv'
    BY <1>1, TypeNext, DirNext, FaultNext
  <2>3. FaultInv => ReachableSafe
    BY HeadsSafeIs DEF FaultInv, Safe
  <2> QED BY <2>1, <2>2, <2>3, PTL DEF Spec
<1>2. CASE ~WriteFaults
  <2>1. WriteFaults = FALSE
    BY <1>2, CallerAssumption
  <2>2. TypeOK /\ ChainsInv => ReachableSafe
    BY ApartIsSafe, HeadsSafeIs
  <2> QED BY <2>1, <2>2, TypeCorrect, ChainsStayApart, PTL
<1> QED BY <1>1, <1>2

\* The chain of the root directory stays as mkfs.vfat made it, and no entry
\* leads into it, under the same assumption.
THEOREM RootStays ==
    ASSUME WriteFaults => Ops \cap {"append", "rmdir"} = {}
    PROVE  Spec => []RootIntact
<1>1. CASE WriteFaults
  <2>1. Init => TypeOK /\ DirInv /\ FaultInv
    BY TypeInit, DirInit, FaultInit
  <2>2. TypeOK /\ DirInv /\ FaultInv /\ [Next]_vars => TypeOK' /\ DirInv' /\ FaultInv'
    BY <1>1, TypeNext, DirNext, FaultNext
  <2>3. TypeOK /\ FaultInv => RootIntact
    BY SealedIsIntact DEF FaultInv, Safe
  <2> QED BY <2>1, <2>2, <2>3, PTL DEF Spec
<1>2. CASE ~WriteFaults
  <2>1. WriteFaults = FALSE
    BY <1>2, CallerAssumption
  <2>2. ChainsInv => RootIntact
    BY DEF ChainsInv
  <2> QED BY <2>1, <2>2, ChainsStayApart, PTL
<1> QED BY <1>1, <1>2

-----------------------------------------------------------------------------
(* The size of a chain.                                                    *)

\* What nothing leads to is on no chain but its own.
LEMMA Unreached ==
    ASSUME NEW Q, NEW n, \A x \in Clusters : Q[x] # n, NEW c, c # n
    PROVE  n \notin Along(Q, c)
<1> DEFINE S == Clusters \ {n}
<1>1. Closed(Q, S) /\ S \in SUBSET Clusters
  BY DEF Closed
<1>2. c \in Clusters => c \in S
  OBVIOUS
<1> HIDE DEF S
<1>3. Along(Q, c) \subseteq S
  BY <1>1, <1>2, AlongLeast
<1> QED BY <1>3 DEF S

\* Linking a chain's last cluster p to another that ends a chain adds that one.
LEMMA AlongLink ==
    ASSUME NEW Q, NEW R, NEW p \in Clusters, NEW n \in Clusters, Differ(Q, R, p), R[p] = n,
           Q[p] \notin Clusters, Q[n] \notin Clusters, n # p, NEW x, n \notin Along(Q, x)
    PROVE  /\ Along(Q, x) = Along(R, x) \ {n}
           /\ p \in Along(Q, x) => n \in Along(R, x)
<1> DEFINE S == Along(Q, x) \cup {n}
<1>1. Along(Q, x) \in SUBSET Clusters /\ Closed(Q, Along(Q, x))
  BY AlongClosed
<1>2. Closed(R, S) /\ S \in SUBSET Clusters /\ Along(Q, x) \subseteq S
  <2>1. ASSUME NEW d \in S, R[d] \in Clusters PROVE R[d] \in S
    BY <1>1, <2>1 DEF Differ, Closed
  <2> QED BY <1>1, <2>1 DEF Closed
<1> HIDE DEF S
<1>3. Along(R, x) \subseteq S
  BY <1>2, AlongWithin
<1>4. Along(Q, x) \subseteq Along(R, x)
  BY AlongGrow
<1>5. p \in Along(Q, x) => n \in Along(R, x)
  BY <1>4, AlongClosed DEF Closed
<1> QED BY <1>3, <1>4, <1>5 DEF S

\* Cutting a chain that nothing leads to behind one of its clusters leaves what
\* was not behind it.
LEMMA AlongHalves ==
    ASSUME NEW Q, \A c, d \in Clusters : Q[c] = Q[d] /\ Q[c] \in Clusters => c = d,
           NEW a, \A x \in Clusters : Q[x] # a,
           NEW l \in Along(Q, a), NEW R, Differ(Q, R, l), R[l] \notin Clusters
    PROVE  Along(R, a) = Along(Q, a) \ Along(Q, Q[l])
<1> DEFINE b == Q[l]
           C == Along(Q, a)
           A == Along(R, a)
           B == Along(R, b)
<1>0. C \in SUBSET Clusters /\ Closed(Q, C) /\ l \in Clusters
  BY AlongClosed
<1>1. A \in SUBSET Clusters /\ Closed(R, A) /\ B \in SUBSET Clusters /\ Closed(R, B)
  BY AlongClosed
<1>2. A \subseteq C
  <2>1. Closed(R, C)
    BY <1>0 DEF Closed, Differ
  <2> HIDE DEF C
  <2>2. a \in Clusters => a \in C
    BY AlongHas DEF C
  <2> QED BY <1>0, <2>1, <2>2, AlongLeast
<1>3. C \subseteq A \cup B
  BY AlongCut
<1>4. CASE b \notin Clusters
  BY <1>2, <1>3, <1>4, AlongNone
<1>5. CASE b \in Clusters
  <2>1. A \cap B = {}
    <3>1. \A c, d \in Clusters : R[c] = R[d] /\ R[c] \in Clusters => c = d
      BY DEF Differ
    <3>2. a # b /\ \A x \in Clusters : R[x] # a /\ R[x] # b
      <4>1. a \in Clusters
        BY AlongNone
      <4> QED BY <1>0, <1>5, <4>1 DEF Differ
    <3> HIDE DEF b
    <3> QED BY <3>1, <3>2, SourcesApart
  <2>2. l \in A
    <3>1. CASE l \notin A
      <4>1. Closed(Q, A)
        BY <1>1, <3>1 DEF Closed, Differ
      <4>2. a \in Clusters => a \in A
        BY AlongHas
      <4> HIDE DEF A, C
      <4>3. Along(Q, a) \subseteq A
        BY <1>1, <4>1, <4>2, AlongLeast
      <4> QED BY <3>1, <4>3
    <3> QED BY <3>1
  <2>3. Along(Q, b) = B
    <3>1. l \notin B /\ Differ(R, Q, l)
      BY <2>1, <2>2 DEF Differ
    <3> HIDE DEF b
    <3> QED BY <3>1, AlongSame
  <2> HIDE DEF A, B, b
  <2>4. A = C \ B
    BY <1>2, <1>3, <2>1
  <2> QED BY <2>3, <2>4 DEF A, C, b
<1> QED BY <1>4, <1>5

-----------------------------------------------------------------------------
(* What holds of the running call's chains, whether writes may fail or not. *)

Ground ==
    /\ HeadsSafe /\ Own
    /\ \A c \in Held, s \in Heads :
          c \in Along(P, dir[s].first) => s = pos /\ op = "append" /\ Building
    /\ at \in {"alloc", "link", "data"} => \A c \in Along(P, first) : P[c] # FREE
    /\ at = "free" /\ op = "write" /\ r = FS_OK => first = 0 /\ prev = 0
    /\ at = "fail" => r # FS_OK
    /\ Building /\ op = "write" => last = 0
    /\ WriteFaults => op # "append"
    /\ WriteFaults = FALSE => NoCrossLink /\ at # "unalloc"
    /\ op = "append" /\ Building =>
          /\ last \in Along(P, dir[pos].first)
          /\ Along(P, first) \subseteq Along(P, dir[pos].first)
          /\ first # 0 => P[last] = first

LEMMA GroundFaults ==
    ASSUME TypeOK, FaultInv, WriteFaults
    PROVE  Ground
<1>1. HeadsSafe /\ Own /\ HeldOut /\ Sound /\ Plain
  BY DEF FaultInv, Safe
<1>2. \A c \in Held, s \in Heads : c \notin Along(P, dir[s].first)
  BY <1>1 DEF HeldOut
<1>3. op # "append" /\ last = 0 /\ WriteFaults # FALSE
  BY <1>1 DEF Plain
<1>4. /\ at \in {"alloc", "link", "data"} => \A c \in Along(P, first) : P[c] # FREE
      /\ at = "free" /\ op = "write" /\ r = FS_OK => first = 0 /\ prev = 0
      /\ at = "fail" => r # FS_OK
  BY <1>1 DEF Sound
<1> QED BY <1>1, <1>2, <1>3, <1>4 DEF Ground

LEMMA GroundOwn ==
    ASSUME TypeOK, ChainsInv, LeakInv
    PROVE  Own
<1>1. TailHeld
  BY LeakParts
<1>2. ASSUME at \in {"link", "data"} PROVE new \in Clusters /\ P[new] = EOC
  BY <1>2 DEF ChainsInv, NewHeld, Taken, P
<1>3. ASSUME at = "link"
      PROVE  new \notin Along(P, first) /\ \A s \in Heads : new \notin Along(P, dir[s].first)
  <2>1. new # first /\ \A x \in Clusters : P[x] # new
    BY <1>3 DEF ChainsInv, NewHeld, Unreferenced, P
  <2>2. \A s \in Heads : dir[s].first # new
    BY <1>3 DEF ChainsInv, NewHeld, NoHead, Heads
  <2> QED BY <2>1, <2>2, Unreached
<1>4. ASSUME at \in {"alloc", "link", "data"}
      PROVE  /\ first = 0 => prev = last
             /\ first # 0 => prev \in Along(P, first)
             /\ prev # 0 => P[prev] = IF at = "data" THEN new ELSE EOC
  <2>1. first # 0 => prev \in Along(P, first)
    BY <1>1, <1>4, AlongTable DEF TailHeld
  <2>2. prev # 0 /\ at = "data" => P[prev] = new
    BY <1>4 DEF ChainsInv, NewHeld, P
  <2> QED BY <1>4, <2>1, <2>2 DEF ChainsInv, ChainHeld, P
<1> QED BY <1>2, <1>3, <1>4 DEF Own

\* The chain an append builds is part of its file's.
LEMMA GroundAppend ==
    ASSUME TypeOK, ChainsInv, DirInv, LeakInv, op = "append", Building
    PROVE  /\ pos \in Heads
           /\ last \in Along(P, dir[pos].first)
           /\ Along(P, first) \subseteq Along(P, dir[pos].first)
           /\ first # 0 => P[last] = first
<1>1. at \in {"alloc", "link", "data", "fail"}
  <2>1. job.ret \in Returns \cup {"none"} /\ pc # "unalloc"
    BY DEF TypeOK, TypeFlow, Job, ChainsInv
  <2> QED BY <2>1 DEF Building, at, Returns
<1>2. last \in Along(P, dir[pos].first)
  BY <1>1, LeakParts, AlongTable DEF TailHeld
<1>3. last # 0 /\ (first # 0 => P[last] = first)
  BY <1>1 DEF ChainsInv, ChainHeld, P
<1>4. Along(P, dir[pos].first) \in SUBSET Clusters /\ Closed(P, Along(P, dir[pos].first))
  BY AlongClosed
<1>5. Along(P, first) \subseteq Along(P, dir[pos].first)
  <2>1. CASE first \in Clusters
    <3>1. first \in Along(P, dir[pos].first)
      BY <1>2, <1>3, <1>4, <2>1, Primary DEF Closed
    <3> QED BY <3>1, AlongRest
  <2>2. CASE first \notin Clusters
    BY <2>2, AlongNone
  <2> QED BY <2>1, <2>2
<1>6. pos \in Heads
  <2>1. pos \in Slots /\ Live(dir[pos])
    <3>1. Running
      BY <1>1 DEF Running, at
    <3> QED BY <3>1 DEF DirInv, PosHeld, Live
  <2>2. dir[pos].first \in Clusters
    BY <1>2, AlongNone
  <2> QED BY <2>1, <2>2, Primary DEF Heads
<1> QED BY <1>2, <1>3, <1>5, <1>6

LEMMA GroundApart ==
    ASSUME TypeOK, ChainsInv, DirInv, LeakInv, NEW c \in Held, NEW s \in Heads,
           c \in Along(P, dir[s].first)
    PROVE  s = pos /\ op = "append" /\ Building
<1>1. /\ \A a, b \in Clusters : P[a] = P[b] /\ P[a] \in Clusters => a = b
      /\ \A t \in Heads, x \in Clusters : P[x] # dir[t].first
  BY DEF ChainsInv, NoCrossLink, P
<1>2. HeadsSafe /\ Own
  BY ApartIsSafe, GroundOwn
<1>3. c \in HeldAs(P, at, new, first, cur)
  BY HeldIs
<1>4. ASSUME op = "append", Building PROVE s = pos
  <2>1. pos \in Heads /\ last \in Along(P, dir[pos].first)
        /\ Along(P, first) \subseteq Along(P, dir[pos].first)
    BY <1>4, GroundAppend
  <2>2. c \in Along(P, dir[pos].first)
    <3>1. CASE c \in Along(P, first)
      BY <2>1, <3>1
    <3>2. CASE c = new /\ at = "link"
      BY <1>2, <3>2 DEF Own
    <3>3. CASE c = new /\ at = "data"
      <4>1. prev \in Along(P, dir[pos].first) /\ P[prev] = new /\ new \in Clusters
        <5>1. prev \in Along(P, dir[pos].first)
          BY <1>2, <2>1, <3>3 DEF Own
        <5>2. prev # 0
          BY <5>1, AlongClosed, Primary
        <5> QED BY <1>2, <3>3, <5>1, <5>2 DEF Own
      <4> QED BY <3>3, <4>1, AlongClosed DEF Closed
    <3>4. at \notin {"mkDots", "mkEntry", "unalloc", "free"}
      <4>1. job.ret \in Returns \cup {"none"} /\ pc # "unalloc"
        BY DEF TypeOK, TypeFlow, Job, ChainsInv
      <4> QED BY <1>4, <4>1 DEF Building, at, Returns
    <3> QED BY <1>3, <3>1, <3>2, <3>3, <3>4 DEF HeldAs
  <2> QED BY <1>2, <2>1, <2>2 DEF HeadsSafe
<1>5. ASSUME NEW x, dir[s].first # x, \A y \in Clusters : P[y] # x
      PROVE  c \notin Along(P, x)
  BY <1>1, <1>5, SourcesApart
<1>6. ASSUME at \in {"mkDots", "mkEntry", "link"} PROVE c # new
  <2>1. \A y \in Clusters : P[y] # new
    BY <1>6 DEF ChainsInv, NewHeld, Unreferenced, P
  <2>2. dir[s].first # new
    BY <1>6 DEF ChainsInv, NewHeld, NoHead, Heads
  <2> QED BY <2>1, <2>2, Unreached
<1>7. ASSUME at = "free" PROVE FALSE
  <2>1. c \in Along(P, cur)
    BY <1>3, <1>7 DEF HeldAs
  <2>2. IsLink(cur)
    BY <2>1, AlongNone, LinkValues
  <2>3. dir[s].first # cur /\ \A y \in Clusters : P[y] # cur
    BY <1>7, <2>2 DEF ChainsInv, CurHeld, Unreferenced, NoHead, P, Heads
  <2> QED BY <1>5, <2>1, <2>3
<1>8. ASSUME at \in {"alloc", "link", "data", "fail"}, op # "append", c \in Along(P, first) PROVE FALSE
  <2>1. last = 0 /\ first # 0
    BY <1>8, AlongNone, Primary DEF ChainsInv, ChainHeld
  <2>2. dir[s].first # first /\ \A y \in Clusters : P[y] # first
    BY <1>8, <2>1 DEF ChainsInv, ChainHeld, Unreferenced, NoHead, P, Heads
  <2> QED BY <1>5, <1>8, <2>2
<1>9. ASSUME at = "data", op # "append", c = new PROVE FALSE
  <2>1. CASE prev = 0
    <3>1. \A y \in Clusters : P[y] # new
      BY <1>9, <2>1 DEF ChainsInv, NewHeld, Unreferenced, P
    <3>2. dir[s].first # new
      BY <1>9 DEF ChainsInv, NewHeld, NoHead, Heads
    <3> QED BY <1>9, <3>1, <3>2, Unreached
  <2>2. CASE prev # 0
    <3>1. last = 0
      BY <1>9 DEF ChainsInv, ChainHeld
    <3>2. prev \in Along(P, first) /\ P[prev] = new /\ new \in Clusters
      BY <1>2, <1>9, <2>2, <3>1 DEF Own
    <3>3. new \in Along(P, first)
      BY <3>2, AlongClosed DEF Closed
    <3> QED BY <1>8, <1>9, <3>3
  <2> QED BY <2>1, <2>2
<1>10. CASE op = "append" /\ Building
  BY <1>4, <1>10
<1>11. CASE ~(op = "append" /\ Building)
  <2>1. at \in {"alloc", "link", "data", "unalloc", "fail"} => op # "append"
    BY <1>11 DEF Building
  <2>2. at # "unalloc"
    <3>1. job.ret \in Returns \cup {"none"} /\ pc # "unalloc"
      BY DEF TypeOK, TypeFlow, Job, ChainsInv
    <3> QED BY <3>1 DEF at, Returns
  <2> QED BY <1>3, <1>6, <1>7, <1>8, <1>9, <2>1, <2>2 DEF HeldAs
<1> QED BY <1>10, <1>11

LEMMA GroundChains ==
    ASSUME TypeOK, ChainsInv, DirInv, LeakInv, WriteFaults = FALSE
    PROVE  Ground
<1>1. HeadsSafe /\ Own /\ NoCrossLink
  BY ApartIsSafe, GroundOwn DEF ChainsInv
<1>2. at \in {"alloc", "link", "data"} => \A c \in Along(P, first) : P[c] # FREE
  <2> DEFINE S == {x \in Clusters : P[x] # FREE}
  <2> SUFFICES ASSUME at \in {"alloc", "link", "data"} PROVE Along(P, first) \subseteq S
    OBVIOUS
  <2>1. Closed(P, S)
    BY DEF Closed, ChainsInv, NoDangling, P
  <2>2. S \in SUBSET Clusters /\ (first \in Clusters => first \in S)
    BY Primary DEF ChainsInv, ChainHeld, Taken, P
  <2> HIDE DEF S
  <2> QED BY <2>1, <2>2, AlongLeast
<1>3. /\ at = "free" /\ op = "write" /\ r = FS_OK => first = 0 /\ prev = 0
      /\ at = "fail" => r # FS_OK
  BY DEF ChainsInv, CurHeld, ChainHeld
<1>4. Building /\ op = "write" => last = 0
  <2>1. job.ret \in Returns \cup {"none"} /\ pc # "unalloc"
    BY DEF TypeOK, TypeFlow, Job, ChainsInv
  <2>2. Building => at \in {"alloc", "link", "data", "fail"}
    BY <2>1 DEF Building, at, Returns
  <2> QED BY <2>2 DEF ChainsInv, ChainHeld
<1>5. at # "unalloc"
  <2>1. job.ret \in Returns \cup {"none"} /\ pc # "unalloc"
    BY DEF TypeOK, TypeFlow, Job, ChainsInv
  <2> QED BY <2>1 DEF at, Returns
<1> QED BY <1>1, <1>2, <1>3, <1>4, <1>5, GroundApart, GroundAppend DEF Ground

-----------------------------------------------------------------------------
(* Sizes.                                                                  *)

\* n clusters are just enough for z bytes.
Fits(z, n) == z <= n * ClusterBytes /\ n * ClusterBytes < z + ClusterBytes

Exempt(s) == op = "append" /\ Running /\ s = pos

EntrySizes == \A s \in Slots : dir[s].kind = "file" /\ ~Exempt(s) =>
                 Fits(dir[s].size, Cardinality(Along(P, dir[s].first)))

LEMMA SizeMatchesIs == SizeMatchesChain <=> EntrySizes
BY AlongTable DEF SizeMatchesChain, EntrySizes, Exempt, Fits

\* The clusters the call has filled: of the file it appends to, and of its own.
Whole == Along(P, dir[pos].first) \cup Along(P, first)
Built == Whole \ (IF at = "data" THEN {new} ELSE {})

\* They are just enough for what was written, and full when there is more.
BuiltSize ==
    at \in {"alloc", "link", "data"} =>
        /\ Fits(dir[pos].size + done, Cardinality(Built))
        /\ done < Len(arg) => dir[pos].size + done = Cardinality(Built) * ClusterBytes
        /\ at # "alloc" => done < Len(arg)

\* The old clusters of a file that is appended to are just enough for its old size.
OldSize == op = "append" /\ Building =>
              Fits(dir[pos].size, Cardinality(Along(P, dir[pos].first) \ Along(P, P[last])))

\* While a chain is freed.
FreeSize == at = "free" =>
              /\ op = "append" => Fits(dir[pos].size, Cardinality(Along(P, dir[pos].first)))
              /\ op = "write" /\ r = FS_OK => done = 0

\* The points only make_dir reaches.
MkdirOnly == at \in {"mkDots", "mkEntry", "full"} => op = "mkdir"

SizeInv == EntrySizes /\ BuiltSize /\ OldSize /\ FreeSize /\ MkdirOnly

Grounded == TypeOK /\ DirInv /\ Ground /\ SizeInv

LEMMA Finite == \A S : S \subseteq Clusters => IsFiniteSet(S) /\ Cardinality(S) \in Nat
<1>1. IsFiniteSet(Clusters)
  BY FS_Interval, GeometryAssumption DEF Clusters
<1> QED BY <1>1, FS_Subset, FS_CardinalityType

LEMMA FitsNone == Fits(0, Cardinality({}))
BY FS_EmptySet, GeometryAssumption DEF Fits

\* At rest, entries are all there is.
LEMMA SizeRest ==
    ASSUME EntrySizes', at' \in Resting \ {"full"}
    PROVE  SizeInv'
BY DEF SizeInv, BuiltSize, OldSize, FreeSize, MkdirOnly, Building, Resting

\* Where no entry that counts reaches the cluster whose table entry is written.
LEMMA EntrySame ==
    ASSUME TypeOK, EntrySizes, UNCHANGED dir, NEW n, Differ(P, P', n),
           \A s \in Slots : dir[s].kind = "file" /\ ~Exempt(s)' =>
               ~Exempt(s) /\ n \notin Along(P, dir[s].first)
    PROVE  EntrySizes'
<1>1. ASSUME NEW s \in Slots, dir[s].kind = "file" /\ ~Exempt(s)'
      PROVE  Fits(dir[s].size, Cardinality(Along(P', dir[s].first)))
  <2>1. Along(P', dir[s].first) = Along(P, dir[s].first)
    BY <1>1, AlongSame
  <2> QED BY <1>1, <2>1 DEF EntrySizes
<1> QED BY <1>1 DEF EntrySizes, Fits

LEMMA EntryKept ==
    ASSUME EntrySizes, UNCHANGED dir, P' = P, \A s \in Slots : ~Exempt(s)' => ~Exempt(s)
    PROVE  EntrySizes'
BY DEF EntrySizes, Fits

\* Such clusters are the free ones and those the call holds.
LEMMA FreeOff ==
    ASSUME TypeOK, Ground, NEW n \in Clusters, P[n] = FREE, NEW s \in Slots, dir[s].kind = "file"
    PROVE  n \notin Along(P, dir[s].first)
<1>1. CASE dir[s].first = 0
  BY <1>1, AlongNone, Primary
<1>2. CASE dir[s].first # 0
  <2>1. s \in Heads
    BY <1>2 DEF Heads, Live
  <2> QED BY <2>1 DEF Ground, HeadsSafe
<1> QED BY <1>1, <1>2

LEMMA BuildingRuns ==
    Building => Running
BY DEF Building, Running, at

LEMMA HeldOff ==
    ASSUME TypeOK, Ground, NEW n \in Held, NEW s \in Slots, dir[s].kind = "file", ~Exempt(s)
    PROVE  n \notin Along(P, dir[s].first)
<1>1. CASE dir[s].first = 0
  BY <1>1, AlongNone, Primary
<1>2. CASE dir[s].first # 0
  <2>1. s \in Heads
    BY <1>2 DEF Heads, Live
  <2> QED BY <2>1, BuildingRuns DEF Ground, Exempt
<1> QED BY <1>1, <1>2

\* An entry is written.
LEMMA EntryPut ==
    ASSUME TypeOK, EntrySizes, P' = P, NEW s \in Slots, NEW e,
           dir' \in {dir, [dir EXCEPT ![s] = e]},
           \A t \in Slots : ~Exempt(t)' => ~Exempt(t) \/ (t = s /\ dir' = [dir EXCEPT ![s] = e]),
           e.kind = "file" => Fits(e.size, Cardinality(Along(P, e.first)))
    PROVE  EntrySizes'
<1>1. CASE dir' = [dir EXCEPT ![s] = e]
  <2>1. \A t \in Slots : dir'[t] = IF t = s THEN e ELSE dir[t]
    BY <1>1 DEF TypeOK, TypeVolume, Directory
  <2> QED BY <1>1, <2>1 DEF EntrySizes, Fits
<1>2. CASE dir' = dir /\ dir' # [dir EXCEPT ![s] = e]
  BY <1>2, EntryKept
<1> QED BY <1>1, <1>2

-----------------------------------------------------------------------------
(* SizeInv, action by action.                                              *)

LEMMA SizeRefuse ==
    ASSUME Grounded, NEW code, Refuse(code), pc = "idle"
    PROVE  SizeInv'
<1>1. P' = P /\ UNCHANGED dir /\ at' = "return"
  BY DEF Refuse, disk, P, at
<1>2. \A s \in Slots : ~Exempt(s)
  BY DEF Exempt, Running
<1>3. EntrySizes'
  BY <1>1, <1>2, EntryKept DEF Grounded, SizeInv
<1> QED BY <1>1, <1>3, SizeRest DEF Resting

LEMMA SizeMirror == ASSUME Grounded, NextCopy PROVE SizeInv'
<1>1. /\ P' = P /\ at \in Returns
      /\ \/ at' = at /\ r' = r
         \/ WriteFaults /\ at' = OnFail(at) /\ r' = IF Checked(at) THEN FS_ERR_IO ELSE r
  BY MirrorAny DEF Grounded
<1>2. UNCHANGED <<dir, op, arg, pos, last, new, prev, first, done, cur>> /\ pc = "mirror"
  BY DEF NextCopy, call, chain
<1>3. op = "append" => at' = at /\ r' = r
  BY <1>1 DEF Grounded, Ground
<1>4. EntrySizes'
  <2>1. \A s \in Slots : ~Exempt(s)' => ~Exempt(s)
    BY <1>1, <1>2, <1>3 DEF Exempt, Running, at, Returns
  <2> QED BY <1>1, <1>2, <2>1, EntryKept DEF Grounded, SizeInv
<1>5. CASE at' = at /\ r' = r
  BY <1>1, <1>2, <1>4, <1>5 DEF Grounded, SizeInv, BuiltSize, Built, Whole, OldSize, FreeSize,
     MkdirOnly, Building, Fits
<1>6. CASE op # "append" /\ at' = OnFail(at) /\ r' = IF Checked(at) THEN FS_ERR_IO ELSE r
  <2>1. \/ at' = at /\ r' = r
        \/ at' \in {"return", "fail", "unalloc"}
    BY <1>1, <1>6 DEF OnFail, Returns, Checked
  <2>2. CASE at' \in {"return", "fail", "unalloc"}
    BY <1>2, <1>4, <1>6, <2>2 DEF SizeInv, BuiltSize, OldSize, FreeSize, MkdirOnly
  <2> QED BY <1>5, <2>1, <2>2
<1> QED BY <1>1, <1>3, <1>5, <1>6

LEMMA SizeMkdir == ASSUME Grounded, NEW n, make_dir(n) PROVE SizeInv'
<1>0. op' = "mkdir" /\ pc = "idle" /\ \A s \in Slots : ~Exempt(s)
  BY DEF make_dir, Call, Exempt, Running
<1>1. CASE Refuse(FS_ERR_NOSPACE)
  BY <1>0, <1>1, SizeRefuse
<1>2. ASSUME NEW c \in Clusters, IsFirstFree(c), fat_set_entry(c, EOC, "mkDots"), UNCHANGED dir
      PROVE  SizeInv'
  <2>1. P[c] = FREE
    BY <1>2 DEF IsFirstFree, P
  <2>2. P' \in {P, [P EXCEPT ![c] = EOC]} /\ at' \in {"mkDots", "return"}
    <3>1. /\ c \in {0} \cup Clusters /\ EOC \in {FREE, EOC} \cup Clusters /\ "mkDots" \in Returns
          /\ OnFail("mkDots") = "return"
      BY DEF Returns, OnFail
    <3> QED BY <1>2, <3>1, SetAny DEF Grounded
  <2>3. Differ(P, P', c)
    BY <2>2, Primary DEF Differ, Grounded
  <2>4. EntrySizes'
    BY <1>0, <1>2, <2>1, <2>3, FreeOff, EntrySame DEF Grounded, SizeInv
  <2> QED BY <1>0, <2>2, <2>4 DEF SizeInv, BuiltSize, OldSize, FreeSize, MkdirOnly, Building
<1> QED BY <1>1, <1>2 DEF make_dir

LEMMA SizeMkDots == ASSUME Grounded, MkDots PROVE SizeInv'
<1>1. P' = P /\ UNCHANGED <<dir, op, pos>> /\ at = "mkDots" /\ at' = "mkEntry" /\ op = "mkdir"
  BY DEF MkDots, call, P, at, Grounded, SizeInv, MkdirOnly
<1>2. EntrySizes'
  BY <1>1, EntryKept DEF Exempt, Grounded, SizeInv
<1> QED BY <1>1, <1>2 DEF SizeInv, BuiltSize, OldSize, FreeSize, MkdirOnly, Building

LEMMA SizeMkEntry == ASSUME Grounded, MkEntry PROVE SizeInv'
<1>1. op = "mkdir" /\ UNCHANGED op /\ at = "mkEntry"
  BY DEF MkEntry, call, at, Grounded, SizeInv, MkdirOnly
<1>2. \A s \in Slots : ~Exempt(s)
  BY <1>1 DEF Exempt
<1>3. ASSUME NEW s \in Slots, NEW w, dir' = Put(dir, s, DirEntry(name, new), w),
             pc' = "return", UNCHANGED fat
      PROVE  SizeInv'
  <2> DEFINE e == DirEntry(name, new)
  <2>1. P' = P /\ at' = "return" /\ dir' \in {dir, [dir EXCEPT ![s] = e]} /\ e.kind = "dir"
    BY <1>3 DEF P, at, Put, DirEntry
  <2> HIDE DEF e
  <2>2. EntrySizes'
    BY <1>2, <2>1, EntryPut DEF Grounded, SizeInv
  <2> QED BY <2>1, <2>2, SizeRest DEF Resting
<1>4. ASSUME fat_set_entry(new, FREE, "full"), UNCHANGED dir PROVE SizeInv'
  <2>1. new \in Held
    BY <1>1, HeldIs DEF HeldAs
  <2>2. P' \in {P, [P EXCEPT ![new] = FREE]} /\ at' = "full"
    <3>1. /\ new \in {0} \cup Clusters /\ FREE \in {FREE, EOC} \cup Clusters /\ "full" \in Returns
          /\ OnFail("full") = "full"
      BY DEF TypeOK, TypeWork, Returns, OnFail, Grounded
    <3> QED BY <1>4, <3>1, SetAny DEF Grounded
  <2>3. Differ(P, P', new)
    BY <2>2, Primary DEF Differ, Grounded
  <2>4. EntrySizes'
    BY <1>2, <1>4, <2>1, <2>3, HeldOff, EntrySame DEF Grounded, SizeInv
  <2> QED BY <1>1, <2>2, <2>4 DEF SizeInv, BuiltSize, OldSize, FreeSize, MkdirOnly, Building
<1> QED BY <1>3, <1>4 DEF MkEntry

LEMMA SizeRmdir == ASSUME Grounded, NEW n, remove_dir(n) PROVE SizeInv'
<1>0. op' = "rmdir" /\ pc = "idle" /\ \A s \in Slots : ~Exempt(s)
  BY DEF remove_dir, Call, Exempt, Running
<1>1. CASE \E code : Refuse(code)
  BY <1>0, <1>1, SizeRefuse
<1>2. ASSUME NEW s \in Slots, PutSlot(s, Blank("deleted"), "free", "free"), UNCHANGED fat
      PROVE  SizeInv'
  <2> DEFINE e == Blank("deleted")
  <2>1. P' = P /\ at' = "free" /\ dir' \in {dir, [dir EXCEPT ![s] = e]} /\ e.kind = "deleted"
    BY <1>2 DEF PutSlot, Put, P, at, Blank
  <2> HIDE DEF e
  <2>2. EntrySizes'
    BY <1>0, <2>1, EntryPut DEF Grounded, SizeInv
  <2> QED BY <1>0, <2>1, <2>2 DEF SizeInv, BuiltSize, OldSize, FreeSize, MkdirOnly, Building
<1> QED BY <1>1, <1>2 DEF remove_dir

LEMMA SizeCreate == ASSUME Grounded, NEW n, fs_create_file(n) PROVE SizeInv'
<1>0. pc = "idle" /\ \A s \in Slots : ~Exempt(s)
  BY DEF fs_create_file, Call, Exempt, Running
<1>1. CASE \E code : Refuse(code)
  BY <1>0, <1>1, SizeRefuse
<1>2. ASSUME NEW s \in Slots, PutSlot(s, FileEntry(n, 0, 0), "return", "return"), UNCHANGED fat
      PROVE  SizeInv'
  <2> DEFINE e == FileEntry(n, 0, 0)
  <2>1. /\ P' = P /\ at' = "return" /\ dir' \in {dir, [dir EXCEPT ![s] = e]}
        /\ e.first = 0 /\ e.size = 0
    BY <1>2 DEF PutSlot, Put, P, at, FileEntry
  <2>2. Along(P, e.first) = {}
    BY <2>1, AlongNone, Primary DEF Grounded
  <2> HIDE DEF e
  <2>3. EntrySizes'
    BY <1>0, <2>1, <2>2, FitsNone, EntryPut DEF Grounded, SizeInv
  <2> QED BY <2>1, <2>3, SizeRest DEF Resting
<1> QED BY <1>1, <1>2 DEF fs_create_file

LEMMA SizeStartWrite == ASSUME Grounded, NEW n, NEW b \in Seq(Bytes), StartWrite(n, b) PROVE SizeInv'
<1>0. /\ op' = "write" /\ arg' = b /\ pc = "idle" /\ \A s \in Slots : ~Exempt(s)
      /\ first = 0 /\ prev = 0 /\ done = 0 /\ Len(b) \in Nat
  BY DEF StartWrite, Call, Exempt, Running, Grounded, TypeOK, TypeWork
<1>1. CASE \E code : Refuse(code)
  BY <1>0, <1>1, SizeRefuse
<1>2. ASSUME NEW s \in Slots, NEW ok \in {"free", "alloc"},
             PutSlot(s, FileEntry(n, 0, 0), ok, "return"), UNCHANGED <<fat, chain>>, pos' = s
      PROVE  SizeInv'
  <2> DEFINE e == FileEntry(n, 0, 0)
  <2>1. /\ P' = P /\ e.first = 0 /\ e.size = 0 /\ first' = 0 /\ done' = 0
        /\ \/ dir' = [dir EXCEPT ![s] = e] /\ at' = ok
           \/ dir' \in {dir, [dir EXCEPT ![s] = e]} /\ at' = "return"
    BY <1>0, <1>2 DEF PutSlot, Put, P, at, FileEntry, chain
  <2>2. Along(P, 0) = {}
    BY AlongNone, Primary DEF Grounded
  <2> HIDE DEF e
  <2>3. EntrySizes'
    <3>1. Fits(e.size, Cardinality(Along(P, e.first))) /\ dir' \in {dir, [dir EXCEPT ![s] = e]}
      BY <2>1, <2>2, FitsNone
    <3> QED BY <1>0, <2>1, <3>1, EntryPut DEF Grounded, SizeInv
  <2>4. CASE at' = "return"
    BY <2>3, <2>4, SizeRest DEF Resting
  <2>5. CASE dir' = [dir EXCEPT ![s] = e] /\ at' = "alloc"
    <3>1. dir'[pos'].first = 0 /\ dir'[pos'].size = 0
      BY <1>2, <2>1, <2>5 DEF Grounded, TypeOK, TypeVolume, Directory
    <3>2. Built' = {}
      BY <2>1, <2>2, <2>5, <3>1 DEF Built, Whole
    <3>3. BuiltSize'
      <4>1. Cardinality(Built') = 0 /\ Fits(0, 0)
        BY <3>2, FitsNone, FS_EmptySet
      <4> QED BY <2>1, <2>5, <3>1, <4>1, GeometryAssumption DEF BuiltSize, Fits
    <3> QED BY <1>0, <2>3, <2>5, <3>3 DEF SizeInv, OldSize, FreeSize, MkdirOnly
  <2>6. CASE at' = "free"
    BY <1>0, <2>1, <2>3, <2>6 DEF SizeInv, BuiltSize, OldSize, FreeSize, MkdirOnly, Building
  <2> QED BY <2>1, <2>4, <2>5, <2>6
<1> QED BY <1>1, <1>2 DEF StartWrite, IsHit, Hits

\* How much of b the last of n clusters takes when they hold z bytes.
LEMMA FillSize ==
    ASSUME NEW z \in Nat, NEW n \in Nat \ {0}, Fits(z, n), NEW len \in Nat,
           NEW over, over = z - (n - 1) * ClusterBytes,
           NEW used, used = IF over <= 0 THEN 0 ELSE IF over > ClusterBytes THEN ClusterBytes ELSE over,
           NEW fill, fill = IF ClusterBytes - used > len THEN len ELSE ClusterBytes - used
    PROVE  /\ fill \in Nat
           /\ Fits(z + fill, n)
           /\ fill < len => z + fill = n * ClusterBytes
<1> DEFINE k == n * ClusterBytes
<1>1. ClusterBytes \in Nat /\ ClusterBytes > 0 /\ k \in Nat
  BY GeometryAssumption
<1>2. (n - 1) * ClusterBytes = k - ClusterBytes
  BY <1>1
<1>3. z <= k /\ k < z + ClusterBytes
  BY DEF Fits
<1> HIDE DEF k
<1>4. over = z - k + ClusterBytes
  BY <1>1, <1>2
<1>5. used = over /\ over > 0 /\ over <= ClusterBytes /\ over \in Int
  BY <1>1, <1>3, <1>4
<1>6. fill = IF k - z > len THEN len ELSE k - z
  BY <1>1, <1>4, <1>5
<1>7. fill \in Nat /\ z + fill <= k /\ k < z + fill + ClusterBytes /\ (fill < len => z + fill = k)
  BY <1>1, <1>3, <1>6
<1> QED BY <1>7 DEF k, Fits

LEMMA SizeStartAppend ==
    ASSUME Grounded, NEW n, NEW b \in Seq(Bytes), Call("append", n, b),
           NEW s \in Slots, dir[s].kind = "file", NEW l \in Clusters, StartAppend(s, l, b)
    PROVE  SizeInv'
<1>0. /\ op' = "append" /\ arg' = b /\ pc = "idle" /\ \A t \in Slots : ~Exempt(t)
      /\ first = 0 /\ Len(b) \in Nat
  BY DEF Call, Exempt, Running, Grounded, TypeOK, TypeWork
<1>1. /\ P' = P /\ UNCHANGED dir /\ at' \in {"alloc", "return"} /\ last' = l /\ pos' = s
      /\ first' = 0 /\ done' = Fill(s, b)
  BY <1>0 DEF StartAppend, P, at
<1>2. EntrySizes'
  BY <1>0, <1>1, EntryKept DEF Grounded, SizeInv
<1>3. CASE at' = "return"
  BY <1>2, <1>3, SizeRest DEF Resting
<1>4. CASE at' = "alloc"
  <2> DEFINE C == Along(P, dir[s].first)
  <2>1. l \in C /\ P[l] \notin Clusters /\ C \subseteq Clusters
    <3>1. ~IsLink(P[l]) /\ l \in Chain(dir[s].first)
      BY DEF StartAppend, get_next_cluster, P
    <3> QED BY <3>1, AlongTable, AlongClosed, LinkValues
  <2>2. Cardinality(C) \in Nat \ {0}
    <3>1. IsFiniteSet(C) /\ Cardinality(C) \in Nat /\ C # {}
      BY <2>1, Finite
    <3> QED BY <3>1, FS_EmptySet
  <2>3. Fits(dir[s].size, Cardinality(C)) /\ dir[s].size \in Nat
    BY <1>0 DEF Grounded, SizeInv, EntrySizes, TypeOK, TypeVolume, Directory
  <2>4. /\ Fill(s, b) \in Nat
        /\ Fits(dir[s].size + Fill(s, b), Cardinality(C))
        /\ Fill(s, b) < Len(b) => dir[s].size + Fill(s, b) = Cardinality(C) * ClusterBytes
    <3>1. Cardinality(Chain(dir[s].first)) = Cardinality(C)
      BY AlongTable
    <3> HIDE DEF C
    <3> QED BY <1>0, <2>2, <2>3, <3>1, FillSize DEF Fill, Used
  <2>5. Along(P, 0) = {} /\ Along(P, P[l]) = {}
    BY <2>1, AlongNone, Primary DEF Grounded
  <2>6. Built' = C
    BY <1>1, <1>4, <2>5 DEF Built, Whole
  <2>7. BuiltSize'
    BY <1>0, <1>1, <1>4, <2>4, <2>6 DEF BuiltSize, Fits
  <2>8. OldSize'
    <3>1. (Along(P, dir[pos].first) \ Along(P, P[last]))' = C
      BY <1>1, <2>5
    <3> QED BY <1>1, <2>3, <3>1 DEF OldSize, Fits
  <2> QED BY <1>2, <1>4, <2>7, <2>8 DEF SizeInv, FreeSize, MkdirOnly
<1> QED BY <1>1, <1>3, <1>4

LEMMA SizeAppend == ASSUME Grounded, NEW n, NEW b \in Seq(Bytes), fs_append_file(n, b) PROVE SizeInv'
<1>1. CASE StartWrite(n, b)
  BY <1>1, SizeStartWrite
<1>2. CASE Call("append", n, b) /\ \E code : Refuse(code)
  BY <1>2, SizeRefuse DEF Call
<1>3. ASSUME Call("append", n, b), NEW s \in Slots, dir[s].kind = "file", NEW l \in Clusters,
             StartAppend(s, l, b)
      PROVE  SizeInv'
  BY <1>3, SizeStartAppend
<1> QED BY <1>1, <1>2, <1>3 DEF fs_append_file

LEMMA SizeFreeOne == ASSUME Grounded, FreeOne PROVE SizeInv'
<1>1. /\ UNCHANGED <<dir, op, pos, done>> /\ at = "free" /\ pc = "free" /\ cur \in Clusters
  <2>1. cur \in {0, EOC} \cup Clusters /\ IsLink(cur)
    BY DEF FreeOne, TypeOK, TypeWork, Grounded
  <2>2. cur \in Clusters
    BY <2>1, LinkValues
  <2> QED BY <2>2 DEF FreeOne, call, chain, at
<1>2. P' \in {P, [P EXCEPT ![cur] = FREE]} /\ at' = "free" /\ r' = r
  <2>1. /\ cur \in {0} \cup Clusters /\ FREE \in {FREE, EOC} \cup Clusters /\ "free" \in Returns
        /\ ~Checked("free") /\ OnFail("free") = "free"
    BY <1>1 DEF Returns, Checked, OnFail
  <2> QED BY <2>1, SetAny DEF FreeOne, Grounded
<1>3. Differ(P, P', cur) /\ cur \in Held
  BY <1>1, <1>2, Primary, AlongHas, HeldIs DEF Differ, HeldAs, Grounded
<1>4. \A s \in Slots : ~Exempt(s)' => ~Exempt(s)
  BY <1>1, <1>2 DEF Exempt, Running, at
<1>5. EntrySizes'
  BY <1>1, <1>3, <1>4, HeldOff, EntrySame DEF Grounded, SizeInv
<1>6. ASSUME op = "append" PROVE Fits(dir[pos].size, Cardinality(Along(P', dir[pos].first)))
  <2>1. cur \notin Along(P, dir[pos].first)
    <3>1. CASE dir[pos].first = 0
      BY <3>1, AlongNone, Primary DEF Grounded
    <3>2. CASE dir[pos].first # 0
      <4>1. pos \in Heads
        BY <1>1, <1>6, <3>2 DEF Grounded, DirInv, PosHeld, Running, Heads, Live
      <4> QED BY <1>1, <1>3, <4>1 DEF Grounded, Ground, Building
    <3> QED BY <3>1, <3>2
  <2>2. Along(P', dir[pos].first) = Along(P, dir[pos].first)
    BY <1>3, <2>1, AlongSame
  <2> QED BY <1>1, <1>6, <2>2 DEF Grounded, SizeInv, FreeSize
<1>7. FreeSize'
  BY <1>1, <1>2, <1>6 DEF Grounded, SizeInv, FreeSize, Fits
<1> QED BY <1>2, <1>5, <1>7 DEF SizeInv, BuiltSize, OldSize, MkdirOnly, Building

LEMMA SizeFreeDone == ASSUME Grounded, FreeDone PROVE SizeInv'
<1>1. /\ UNCHANGED <<dir, op, pos, arg, last, new, prev, first, done, r>> /\ P' = P /\ at = "free"
      /\ at' = IF op = "write" /\ r = FS_OK THEN "alloc" ELSE "return"
  BY DEF FreeDone, disk, call, chain, P, at
<1>2. Running
  BY DEF FreeDone, Running
<1>3. CASE at' = "return"
  <2>1. ASSUME NEW s \in Slots, dir[s].kind = "file"
        PROVE  Fits(dir[s].size, Cardinality(Along(P, dir[s].first)))
    BY <1>1, <2>1 DEF Grounded, SizeInv, EntrySizes, Exempt, FreeSize
  <2>2. EntrySizes'
    BY <1>1, <2>1 DEF EntrySizes, Fits
  <2> QED BY <1>3, <2>2, SizeRest DEF Resting
<1>4. CASE at' = "alloc"
  <2>1. op = "write" /\ r = FS_OK /\ first = 0 /\ done = 0
    BY <1>1, <1>4 DEF Grounded, Ground, SizeInv, FreeSize
  <2>2. pos \in Slots /\ dir[pos].kind = "file" /\ dir[pos].first = 0
    BY <1>2, <2>1 DEF Grounded, DirInv, PosHeld
  <2>3. Along(P, 0) = {}
    BY AlongNone, Primary DEF Grounded
  <2>4. dir[pos].size = 0
    <3>1. Fits(dir[pos].size, 0) /\ dir[pos].size \in Nat
      BY <2>1, <2>2, <2>3, FS_EmptySet DEF Grounded, SizeInv, EntrySizes, Exempt, TypeOK, TypeVolume, Directory
    <3> QED BY <3>1, GeometryAssumption DEF Fits
  <2>5. EntrySizes'
    BY <1>1, <2>1, EntryKept DEF Grounded, SizeInv, Exempt
  <2>6. Built' = {}
    BY <1>1, <1>4, <2>1, <2>2, <2>3 DEF Built, Whole
  <2>7. BuiltSize'
    <3>1. Cardinality(Built') = 0 /\ Fits(0, 0)
      BY <2>6, FitsNone, FS_EmptySet
    <3> QED BY <1>1, <1>4, <2>1, <2>4, <3>1, GeometryAssumption DEF BuiltSize, Fits
  <2> QED BY <1>1, <1>4, <2>1, <2>5, <2>7 DEF SizeInv, OldSize, FreeSize, MkdirOnly
<1> QED BY <1>1, <1>3, <1>4

\* The entry a call builds a chain for; a write has emptied it.
LEMMA ItsEntry ==
    ASSUME Grounded, Building
    PROVE  /\ op \in {"write", "append"} /\ Running
           /\ pos \in Slots /\ dir[pos].kind = "file"
           /\ dir[pos].size \in Nat /\ done \in Nat /\ Len(arg) \in Nat
           /\ op = "write" => /\ dir[pos].first = 0 /\ dir[pos].size = 0 /\ last = 0
                              /\ Along(P, dir[pos].first) = {} /\ Along(P', dir[pos].first) = {}
<1>1. Running /\ op \in {"write", "append"}
  BY BuildingRuns DEF Grounded, DirInv, PosHeld
<1>2. pos \in Slots /\ dir[pos].kind = "file" /\ (op = "write" => dir[pos].first = 0)
  BY <1>1 DEF Grounded, DirInv, PosHeld
<1>3. dir[pos].size \in Nat /\ done \in Nat /\ Len(arg) \in Nat
  BY <1>2 DEF Grounded, TypeOK, TypeVolume, TypeCall, Directory
<1>4. Along(P, 0) = {} /\ Along(P', 0) = {}
  BY AlongNone, Primary DEF Grounded
<1>5. op = "write" => dir[pos].size = 0
  <2> SUFFICES ASSUME op = "write" PROVE dir[pos].size = 0
    OBVIOUS
  <2>1. Fits(dir[pos].size, 0)
    BY <1>2, <1>4, FS_EmptySet DEF Grounded, SizeInv, EntrySizes, Exempt
  <2> QED BY <1>3, <2>1, GeometryAssumption DEF Fits
<1> QED BY <1>1, <1>2, <1>3, <1>4, <1>5 DEF Grounded, Ground

\* What is behind the old last cluster is part of the file's chain.
LEMMA Behind ==
    ASSUME Grounded, Building, op = "append"
    PROVE  /\ WriteFaults = FALSE /\ pos \in Heads /\ last \in Clusters
           /\ last \in Along(P, dir[pos].first)
           /\ Along(P, dir[pos].first) \subseteq Clusters
           /\ Closed(P, Along(P, dir[pos].first))
           /\ Along(P, P[last]) \subseteq Along(P, dir[pos].first)
           /\ Along(P, first) \subseteq Along(P, dir[pos].first)
           /\ \A c \in Along(P, dir[pos].first) : P[c] # FREE
<1>1. /\ last \in Along(P, dir[pos].first) /\ Along(P, first) \subseteq Along(P, dir[pos].first)
      /\ WriteFaults = FALSE
  BY CallerAssumption DEF Grounded, Ground
<1>2. Along(P, dir[pos].first) \in SUBSET Clusters /\ Closed(P, Along(P, dir[pos].first))
  BY AlongClosed
<1>3. pos \in Heads
  <2>1. dir[pos].first \in Clusters
    BY <1>1, AlongNone
  <2> QED BY <2>1, ItsEntry, Primary DEF Heads, Live, Grounded
<1>4. Along(P, P[last]) \subseteq Along(P, dir[pos].first)
  <2>1. CASE P[last] \in Clusters
    <3>1. P[last] \in Along(P, dir[pos].first)
      BY <1>1, <1>2, <2>1 DEF Closed
    <3> QED BY <3>1, AlongRest
  <2>2. CASE P[last] \notin Clusters
    BY <2>2, AlongNone
  <2> QED BY <2>1, <2>2
<1> QED BY <1>1, <1>2, <1>3, <1>4 DEF Grounded, Ground, HeadsSafe

LEMMA SizeAlloc == ASSUME Grounded, Alloc PROVE SizeInv'
<1>1. /\ UNCHANGED <<dir, op, pos, arg, last, prev, first, done, cur>> /\ at = "alloc" /\ pc = "alloc"
      /\ done < Len(arg)
  BY DEF Alloc, call, at
<1>2. Building /\ Running
  BY <1>1, BuildingRuns DEF Building
<1>3. CASE pc' = "fail" /\ UNCHANGED fat
  <2>1. P' = P /\ at' = "fail" /\ Running'
    BY <1>3 DEF P, at, Running
  <2>2. EntrySizes'
    BY <1>1, <1>2, <2>1, EntryKept DEF Exempt, Grounded, SizeInv
  <2>3. OldSize'
    BY <1>1, <1>2, <2>1 DEF Grounded, SizeInv, OldSize, Fits
  <2> QED BY <2>1, <2>2, <2>3 DEF SizeInv, BuiltSize, FreeSize, MkdirOnly
<1>4. ASSUME NEW c \in Clusters, IsFirstFree(c), fat_set_entry(c, EOC, "link"), new' = c
      PROVE  SizeInv'
  <2>1. P[c] = FREE
    BY <1>4 DEF IsFirstFree, P
  <2>2. /\ P' \in {P, [P EXCEPT ![c] = EOC]} /\ at' \in {"link", "fail"}
        /\ at' = "fail" => WriteFaults
    <3>1. /\ c \in {0} \cup Clusters /\ EOC \in {FREE, EOC} \cup Clusters /\ "link" \in Returns
          /\ OnFail("link") = "fail"
      BY DEF Returns, OnFail
    <3> QED BY <1>4, <3>1, SetAny DEF Grounded
  <2>3. Differ(P, P', c)
    BY <2>2, Primary DEF Differ, Grounded
  <2>4. Running'
    BY <2>2 DEF Running, at
  <2>5. EntrySizes'
    BY <1>1, <1>2, <2>1, <2>3, <2>4, FreeOff, EntrySame DEF Exempt, Grounded, SizeInv
  <2>6. Along(P', dir[pos].first) = Along(P, dir[pos].first) /\ Along(P', first) = Along(P, first)
    <3>1. c \notin Along(P, dir[pos].first)
      BY <1>2, <2>1, ItsEntry, FreeOff DEF Grounded
    <3>2. c \notin Along(P, first)
      BY <1>1, <2>1 DEF Grounded, Ground
    <3> QED BY <2>3, <3>1, <3>2, AlongSame
  <2>7. OldSize'
    <3> SUFFICES ASSUME op = "append"
                 PROVE  Fits(dir[pos].size, Cardinality(Along(P', dir[pos].first) \ Along(P', P'[last])))
      BY <1>1 DEF OldSize, Fits
    <3>1. last \in Clusters /\ last # c /\ c \notin Along(P, P[last])
      BY <1>2, <2>1, Behind
    <3>2. P'[last] = P[last] /\ Along(P', P[last]) = Along(P, P[last])
      BY <2>3, <3>1, AlongSame DEF Differ
    <3> QED BY <1>2, <2>6, <3>2 DEF Grounded, SizeInv, OldSize
  <2>8. BuiltSize'
    <3>1. at' = "link" => Built' = Built
      BY <1>1, <2>6 DEF Built, Whole
    <3> QED BY <1>1, <2>2, <3>1 DEF Grounded, SizeInv, BuiltSize, Fits
  <2> QED BY <2>2, <2>5, <2>7, <2>8 DEF SizeInv, FreeSize, MkdirOnly
<1> QED BY <1>3, <1>4 DEF Alloc

LEMMA SizeUnalloc == ASSUME Grounded, Unalloc PROVE SizeInv'
<1>1. UNCHANGED <<dir, op, pos, last>> /\ at = "unalloc"
  BY DEF Unalloc, call, at
<1>2. Building /\ Running
  BY <1>1, BuildingRuns DEF Building
<1>3. P' \in {P, [P EXCEPT ![new] = FREE]} /\ at' = "fail"
  <2>1. /\ new \in {0} \cup Clusters /\ FREE \in {FREE, EOC} \cup Clusters /\ "fail" \in Returns
        /\ OnFail("fail") = "fail"
    BY DEF TypeOK, TypeWork, Returns, OnFail, Grounded
  <2> QED BY <2>1, SetAny DEF Unalloc, Grounded
<1>4. Differ(P, P', new) /\ new \in Held /\ Running'
  BY <1>1, <1>3, Primary, HeldIs DEF Differ, HeldAs, Grounded, Running, at
<1>5. EntrySizes'
  BY <1>1, <1>2, <1>4, HeldOff, EntrySame DEF Exempt, Grounded, SizeInv
<1>6. OldSize'
  <2> SUFFICES ASSUME op = "append" PROVE FALSE
    BY <1>1 DEF OldSize
  <2>1. WriteFaults = FALSE
    BY <1>2, Behind
  <2> QED BY <1>1, <2>1 DEF Grounded, Ground, Unalloc
<1> QED BY <1>3, <1>5, <1>6 DEF SizeInv, BuiltSize, FreeSize, MkdirOnly

\* The link of a chain's last cluster to the new one.
LEMMA SizeLinked ==
    ASSUME Grounded, Link, prev # 0, fat_set_entry(prev, new, "data")
    PROVE  SizeInv'
<1>1. UNCHANGED <<dir, op, pos, arg, last, new, prev, first, done, cur>> /\ at = "link" /\ pc = "link"
  BY DEF Link, call, chain, at
<1>2. Building /\ Running
  BY <1>1, BuildingRuns DEF Building
<1>3. /\ new \in Clusters /\ P[new] = EOC /\ new \notin Along(P, first)
      /\ new \notin Along(P, dir[pos].first) /\ new \in Held
  <2>1. CASE dir[pos].first = 0
    BY <1>1, <2>1, HeldIs, AlongNone, Primary DEF Grounded, Ground, Own, HeldAs
  <2>2. CASE dir[pos].first # 0
    <3>1. pos \in Heads
      BY <1>2, <2>2, ItsEntry DEF Heads, Live
    <3> QED BY <1>1, <3>1, HeldIs DEF Grounded, Ground, Own, HeldAs
  <2> QED BY <2>1, <2>2
<1>4. P[prev] = EOC /\ (first = 0 => prev = last) /\ (first # 0 => prev \in Along(P, first))
  BY <1>1 DEF Grounded, Ground, Own
<1>5. prev \in Clusters /\ prev # new /\ (op = "write" => prev \in Along(P, first))
  <2>1. op = "write" => first # 0
    BY <1>2, <1>4, ItsEntry
  <2>2. op = "append" /\ first = 0 => prev \in Along(P, dir[pos].first)
    BY <1>2, <1>4, Behind
  <2> QED BY <1>2, <1>3, <1>4, <2>1, <2>2, ItsEntry, AlongClosed
<1>6. /\ P' \in {P, [P EXCEPT ![prev] = new]} /\ at' \in {"data", "unalloc"}
      /\ at' = "data" /\ WriteFaults = FALSE => P' = [P EXCEPT ![prev] = new]
      /\ at' = "unalloc" => WriteFaults
      /\ at' = "data" => P' = [P EXCEPT ![prev] = new]
  <2>1. /\ prev \in {0} \cup Clusters /\ new \in {FREE, EOC} \cup Clusters /\ "data" \in Returns
        /\ OnFail("data") = "unalloc"
    BY <1>3, <1>5 DEF Returns, OnFail
  <2> QED BY <2>1, SetAny DEF Grounded
<1>7. Differ(P, P', prev) /\ Running'
  BY <1>5, <1>6, Primary DEF Differ, Grounded, Running, at
<1>8. EntrySizes'
  <2>1. ASSUME NEW s \in Slots, dir[s].kind = "file", ~Exempt(s)
        PROVE  prev \notin Along(P, dir[s].first)
    <3>1. CASE prev \in Along(P, first)
      <4>1. prev \in Held
        BY <1>1, <3>1, HeldIs DEF HeldAs
      <4> QED BY <2>1, <4>1, HeldOff DEF Grounded
    <3>2. CASE op = "append" /\ prev = last
      <4>1. pos \in Heads /\ prev \in Along(P, dir[pos].first) /\ s # pos
        BY <1>2, <2>1, <3>2, Behind DEF Exempt
      <4>2. CASE s \in Heads
        BY <4>1, <4>2 DEF Grounded, Ground, HeadsSafe
      <4>3. CASE s \notin Heads
        <5>1. dir[s].first = 0
          BY <2>1, <4>3 DEF Heads, Live
        <5> QED BY <5>1, AlongNone, Primary DEF Grounded
      <4> QED BY <4>2, <4>3
    <3> QED BY <1>2, <1>4, <1>5, <3>1, <3>2, ItsEntry
  <2> QED BY <1>1, <1>2, <1>7, <2>1, EntrySame DEF Exempt, Grounded, SizeInv
<1>9. CASE at' = "unalloc"
  <2>1. OldSize'
    BY <1>1, <1>6, <1>9 DEF OldSize, Grounded, Ground
  <2> QED BY <1>8, <1>9, <2>1 DEF SizeInv, BuiltSize, FreeSize, MkdirOnly
<1>10. CASE at' = "data"
  <2>1. P'[prev] = new /\ P[prev] \notin Clusters /\ P[new] \notin Clusters
    BY <1>3, <1>4, <1>5, <1>6, <1>10, Primary, LinkValues DEF Grounded
  <2>2. ASSUME NEW x, new \notin Along(P, x)
        PROVE  Along(P, x) = Along(P', x) \ {new} /\ (prev \in Along(P, x) => new \in Along(P', x))
    BY <1>3, <1>5, <1>7, <2>1, <2>2, AlongLink
  <2>3. /\ Along(P, dir[pos].first) = Along(P', dir[pos].first) \ {new}
        /\ Along(P, first) = Along(P', first) \ {new}
    BY <1>3, <2>2
  <2>4. Built' = Built
    BY <1>1, <1>10, <2>3 DEF Built, Whole
  <2>5. BuiltSize'
    BY <1>1, <1>10, <2>4 DEF Grounded, SizeInv, BuiltSize, Fits, Link
  <2>6. OldSize'
    <3> SUFFICES ASSUME op = "append"
                 PROVE  Fits(dir[pos].size, Cardinality(Along(P', dir[pos].first) \ Along(P', P'[last])))
      BY <1>1 DEF OldSize, Fits
    <3> DEFINE C == Along(P, dir[pos].first)
    <3>1. Fits(dir[pos].size, Cardinality(C \ Along(P, P[last])))
      BY <1>2 DEF Grounded, SizeInv, OldSize
    <3>2. Along(P', dir[pos].first) \ Along(P', P'[last]) = C \ Along(P, P[last])
      <4>1. CASE prev = last
        <5>1. P'[last] = new /\ Along(P, P[last]) = {}
          BY <1>4, <2>1, <4>1, AlongNone, LinkValues
        <5>2. Along(P', new) = {new}
          <6>1. Closed(P', {new}) /\ {new} \in SUBSET Clusters
            BY <1>3, <1>5, <1>7, <2>1 DEF Closed, Differ
          <6>2. Along(P', new) \subseteq {new}
            BY <1>3, <6>1, AlongLeast
          <6> QED BY <1>3, <6>2, AlongHas
        <5> QED BY <2>3, <5>1, <5>2
      <4>2. CASE prev # last
        <5>1. first # 0 /\ prev \in Along(P, first) /\ P[last] = first /\ last \in Clusters
          BY <1>2, <1>4, <4>2, Behind DEF Grounded, Ground
        <5>2. P'[last] = first
          BY <1>7, <4>2, <5>1 DEF Differ
        <5>3. new \in Along(P', first)
          BY <1>3, <2>2, <5>1
        <5> QED BY <2>3, <5>1, <5>2, <5>3
      <4> QED BY <4>1, <4>2
    <3> QED BY <3>1, <3>2
  <2> QED BY <1>8, <1>10, <2>5, <2>6 DEF SizeInv, FreeSize, MkdirOnly
<1> QED BY <1>6, <1>9, <1>10

LEMMA SizeLink == ASSUME Grounded, Link PROVE SizeInv'
<1>1. CASE prev # 0 /\ fat_set_entry(prev, new, "data")
  BY <1>1, SizeLinked
<1>2. CASE prev = 0 /\ pc' = "data" /\ UNCHANGED fat
  <2>1. /\ UNCHANGED <<dir, op, pos, arg, last, new, prev, first, done, cur>> /\ at = "link"
        /\ P' = P /\ at' = "data" /\ Running'
    BY <1>2 DEF Link, call, chain, at, P, Running
  <2>2. Building /\ Running
    BY <2>1, BuildingRuns DEF Building
  <2>3. EntrySizes'
    BY <2>1, <2>2, EntryKept DEF Exempt, Grounded, SizeInv
  <2>4. new \notin Along(P, first) /\ new \notin Along(P, dir[pos].first)
    <3>1. CASE dir[pos].first = 0
      BY <2>1, <3>1, AlongNone, Primary DEF Grounded, Ground, Own
    <3>2. CASE dir[pos].first # 0
      <4>1. pos \in Heads
        BY <2>2, <3>2, ItsEntry DEF Heads, Live
      <4> QED BY <2>1, <4>1 DEF Grounded, Ground, Own
    <3> QED BY <3>1, <3>2
  <2>5. Built' = Built
    BY <2>1, <2>4 DEF Built, Whole
  <2>6. BuiltSize'
    BY <2>1, <2>5 DEF Grounded, SizeInv, BuiltSize, Fits
  <2>7. OldSize'
    BY <2>1, <2>2 DEF Grounded, SizeInv, OldSize, Fits
  <2> QED BY <2>1, <2>3, <2>6, <2>7 DEF SizeInv, FreeSize, MkdirOnly
<1> QED BY <1>1, <1>2 DEF Link

\* One more cluster, for the next bytes of the buffer.
LEMMA FitsNext ==
    ASSUME NEW z \in Nat, NEW n \in Nat, NEW d \in Nat, NEW len \in Nat, d < len,
           z + d = n * ClusterBytes,
           NEW e, e = IF d + ClusterBytes > len THEN len ELSE d + ClusterBytes
    PROVE  Fits(z + e, n + 1) /\ (e < len => z + e = (n + 1) * ClusterBytes)
<1> DEFINE k == n * ClusterBytes
<1>1. ClusterBytes \in Nat /\ ClusterBytes > 0 /\ k \in Nat
  BY GeometryAssumption
<1>2. (n + 1) * ClusterBytes = k + ClusterBytes
  BY <1>1
<1>3. z + d = k
  OBVIOUS
<1> HIDE DEF k
<1>4. z + e <= k + ClusterBytes /\ k < z + e /\ (e < len => z + e = k + ClusterBytes)
  BY <1>1, <1>3
<1>5. e \in Nat
  BY <1>1
<1> QED BY <1>1, <1>2, <1>4, <1>5 DEF Fits

LEMMA SizeWriteData == ASSUME Grounded, WriteData PROVE SizeInv'
<1>1. /\ UNCHANGED <<dir, op, pos, arg, last, cur>> /\ P' = P /\ at = "data" /\ pc = "data"
      /\ first' = IF first = 0 THEN new ELSE first
      /\ \/ /\ at' = "alloc"
            /\ done' = IF done + ClusterBytes > Len(arg) THEN Len(arg) ELSE done + ClusterBytes
         \/ at' = "fail"
      /\ Running'
  BY DEF WriteData, call, P, at, Running
<1>2. Building /\ Running
  BY <1>1, BuildingRuns DEF Building
<1>3. EntrySizes'
  BY <1>1, <1>2, EntryKept DEF Exempt, Grounded, SizeInv
<1>4. OldSize'
  BY <1>1, <1>2 DEF Grounded, SizeInv, OldSize, Fits
<1>5. CASE at' = "fail"
  BY <1>3, <1>4, <1>5 DEF SizeInv, BuiltSize, FreeSize, MkdirOnly
<1>6. CASE /\ at' = "alloc"
           /\ done' = IF done + ClusterBytes > Len(arg) THEN Len(arg) ELSE done + ClusterBytes
  <2>1. /\ new \in Clusters /\ P[new] = EOC
        /\ first = 0 => prev = last
        /\ first # 0 => prev \in Along(P, first)
        /\ prev # 0 => P[prev] = new
    BY <1>1 DEF Grounded, Ground, Own
  <2>2. Along(P, new) = {new}
    <3>1. Closed(P, {new}) /\ {new} \in SUBSET Clusters
      BY <2>1, LinkValues DEF Closed
    <3> QED BY <2>1, <3>1, AlongHas, AlongLeast
  <2>3. first # 0 => new \in Along(P, first)
    <3> SUFFICES ASSUME first # 0 PROVE new \in Along(P, first)
      OBVIOUS
    <3>1. prev \in Clusters /\ prev # 0
      BY <2>1, AlongClosed, Primary DEF Grounded
    <3> QED BY <2>1, <3>1, AlongClosed DEF Closed
  <2>4. Along(P, first') = Along(P, first) \cup {new} \/ (first = 0 /\ op = "append")
    BY <1>1, <2>2, <2>3, AlongNone, Primary DEF Grounded
  <2>5. Built' = Built \cup {new} /\ new \notin Built /\ Built \subseteq Clusters
    <3>1. Built' = Along(P, dir[pos].first) \cup Along(P, first')
      BY <1>1, <1>6 DEF Built, Whole
    <3>2. Built = (Along(P, dir[pos].first) \cup Along(P, first)) \ {new}
      BY <1>1 DEF Built, Whole
    <3>3. Built \subseteq Clusters
      BY <3>2, AlongClosed
    <3>4. CASE op = "append" /\ first = 0
      <4>1. prev = last /\ last # 0 /\ last \in Along(P, dir[pos].first)
            /\ Closed(P, Along(P, dir[pos].first))
        BY <1>2, <2>1, <3>4, Behind, Primary DEF Grounded
      <4>2. new \in Along(P, dir[pos].first)
        BY <2>1, <4>1 DEF Closed
      <4>3. Along(P, first') = {new} /\ Along(P, first) = {}
        BY <1>1, <2>2, <3>4, AlongNone, Primary DEF Grounded
      <4> QED BY <3>1, <3>2, <3>3, <4>2, <4>3
    <3> QED BY <2>4, <3>1, <3>2, <3>3, <3>4
  <2>6. Cardinality(Built') = Cardinality(Built) + 1 /\ Cardinality(Built) \in Nat
    BY <2>5, Finite, FS_AddElement
  <2>7. dir[pos].size + done = Cardinality(Built) * ClusterBytes /\ done < Len(arg)
    BY <1>1 DEF Grounded, SizeInv, BuiltSize
  <2>8. dir[pos].size \in Nat /\ done \in Nat /\ Len(arg) \in Nat
    BY <1>2, ItsEntry
  <2>9. /\ Fits(dir[pos].size + done', Cardinality(Built) + 1)
        /\ done' < Len(arg) => dir[pos].size + done' = (Cardinality(Built) + 1) * ClusterBytes
    BY <1>6, <2>6, <2>7, <2>8, FitsNext
  <2>10. BuiltSize'
    BY <1>1, <1>6, <2>6, <2>9 DEF BuiltSize, Fits
  <2> QED BY <1>3, <1>4, <1>6, <2>10 DEF SizeInv, FreeSize, MkdirOnly
<1> QED BY <1>1, <1>5, <1>6

LEMMA SizeCleanup == ASSUME Grounded, Cleanup PROVE SizeInv'
<1>1. /\ UNCHANGED <<dir, op, pos, arg, last, new, prev, first, done>> /\ at = "fail"
  BY DEF Cleanup, call, chain, at
<1>2. Building /\ Running /\ r # FS_OK
  BY <1>1, BuildingRuns DEF Building, Grounded, Ground
<1>3. CASE last = 0 /\ pc' = "free" /\ UNCHANGED <<fat, r>>
  <2>1. P' = P /\ at' = "free" /\ Running' /\ op # "append"
    BY <1>2, <1>3, Behind, Primary DEF P, at, Running, Grounded
  <2>2. EntrySizes'
    BY <1>1, <1>2, <2>1, EntryKept DEF Exempt, Grounded, SizeInv
  <2> QED BY <1>1, <1>2, <1>3, <2>1, <2>2 DEF SizeInv, BuiltSize, OldSize, FreeSize, MkdirOnly, Building
<1>4. CASE last # 0 /\ fat_set_entry(last, EOC, "free")
  <2>1. op = "append" /\ WriteFaults = FALSE /\ pos \in Heads /\ last \in Clusters
        /\ last \in Along(P, dir[pos].first)
    BY <1>2, <1>4, ItsEntry, Behind
  <2>2. P' = [P EXCEPT ![last] = EOC] /\ at' = "free" /\ r' = r
    <3>1. /\ last \in {0} \cup Clusters /\ EOC \in {FREE, EOC} \cup Clusters /\ "free" \in Returns
          /\ ~Checked("free")
      BY <2>1 DEF Returns, Checked
    <3> QED BY <1>4, <2>1, <3>1, SetAny DEF Grounded
  <2>3. Differ(P, P', last) /\ P'[last] = EOC /\ Running'
    BY <2>1, <2>2, Primary DEF Differ, Grounded, Running, at
  <2>4. EntrySizes'
    <3>1. ASSUME NEW s \in Slots, dir[s].kind = "file", ~Exempt(s)
          PROVE  last \notin Along(P, dir[s].first)
      <4>1. s # pos
        BY <1>2, <2>1, <3>1 DEF Exempt
      <4>2. CASE s \in Heads
        BY <2>1, <4>1, <4>2 DEF Grounded, Ground, HeadsSafe
      <4>3. CASE s \notin Heads
        <5>1. dir[s].first = 0
          BY <3>1, <4>3 DEF Heads, Live
        <5> QED BY <5>1, AlongNone, Primary DEF Grounded
      <4> QED BY <4>2, <4>3
    <3> QED BY <1>1, <1>2, <2>3, <3>1, EntrySame DEF Exempt, Grounded, SizeInv
  <2>5. Along(P', dir[pos].first) = Along(P, dir[pos].first) \ Along(P, P[last])
    <3>1. /\ \A c, d \in Clusters : P[c] = P[d] /\ P[c] \in Clusters => c = d
          /\ \A x \in Clusters : P[x] # dir[pos].first
      BY <2>1 DEF Grounded, Ground, NoCrossLink, P
    <3>2. P'[last] \notin Clusters
      BY <2>3, LinkValues
    <3> QED BY <2>1, <2>3, <3>1, <3>2, AlongHalves
  <2>6. Fits(dir[pos].size, Cardinality(Along(P', dir[pos].first)))
    BY <1>2, <2>1, <2>5 DEF Grounded, SizeInv, OldSize
  <2>7. FreeSize'
    BY <1>1, <2>1, <2>6 DEF FreeSize, Fits
  <2> QED BY <2>2, <2>4, <2>7 DEF SizeInv, BuiltSize, OldSize, MkdirOnly, Building
<1> QED BY <1>3, <1>4 DEF Cleanup

LEMMA SizeCommit == ASSUME Grounded, Commit PROVE SizeInv'
<1> DEFINE e == IF op = "append"
                THEN [dir[pos] EXCEPT !.size = @ + Len(arg)]
                ELSE [dir[pos] EXCEPT !.first = first, !.size = Len(arg)]
<1>1. /\ P' = P /\ at = "alloc" /\ at' = "return" /\ done = Len(arg) /\ pc' = "return"
  BY DEF Commit, PutSlot, P, at
<1>2. Building
  BY <1>1 DEF Building
<1>3. /\ pos \in Slots /\ op \in {"write", "append"}
      /\ op = "write" => dir[pos].size = 0 /\ Along(P, dir[pos].first) = {}
      /\ Len(arg) \in Nat
  BY <1>2, ItsEntry
<1>4. dir' \in {dir, [dir EXCEPT ![pos] = e]} /\ (WriteFaults = FALSE => dir' = [dir EXCEPT ![pos] = e])
  BY DEF Commit, PutSlot, Put, Outcomes
<1>5. /\ e.size = dir[pos].size + done
      /\ e.first = IF op = "append" THEN dir[pos].first ELSE first
  BY <1>1, <1>3 DEF Grounded, TypeOK, TypeVolume, Directory
<1> HIDE DEF e
<1>6. Along(P, e.first) = Built
  <2>1. CASE op = "append"
    BY <1>1, <1>2, <1>5, <2>1, Behind DEF Built, Whole
  <2>2. CASE op = "write"
    BY <1>1, <1>3, <1>5, <2>2 DEF Built, Whole
  <2> QED BY <1>3, <2>1, <2>2
<1>7. Fits(e.size, Cardinality(Along(P, e.first)))
  BY <1>1, <1>5, <1>6 DEF Grounded, SizeInv, BuiltSize
<1>8. \A t \in Slots : ~Exempt(t) \/ (t = pos /\ dir' = [dir EXCEPT ![pos] = e])
  BY <1>2, <1>4, Behind DEF Exempt
<1>9. EntrySizes'
  BY <1>1, <1>3, <1>4, <1>7, <1>8, EntryPut DEF Grounded, SizeInv
<1> QED BY <1>1, <1>9, SizeRest DEF Resting

LEMMA SizeEnding ==
    ASSUME Grounded, "append" \notin Crashes,
           NotMounted \/ MkFull \/ Return \/ Abort \/ PowerLoss \/ fs_init
    PROVE  SizeInv'
<1>1. P' = P /\ UNCHANGED dir /\ at' \in {"idle", "off", "return"}
  BY DEF NotMounted, MkFull, Return, Abort, PowerLoss, fs_init, disk, P, at
<1>2. \A s \in Slots : ~Exempt(s)
  <2>1. CASE MkFull
    BY <2>1 DEF MkFull, at, Grounded, SizeInv, MkdirOnly, Exempt
  <2>2. CASE NotMounted \/ Return \/ fs_init
    BY <2>2 DEF NotMounted, Return, fs_init, Exempt, Running
  <2>3. CASE Abort \/ PowerLoss
    BY <2>3 DEF Abort, PowerLoss, Exempt
  <2> QED BY <2>1, <2>2, <2>3
<1>3. EntrySizes'
  BY <1>1, <1>2, EntryKept DEF Grounded, SizeInv
<1> QED BY <1>1, <1>3, SizeRest DEF Resting

LEMMA SizeNext ==
    ASSUME Grounded, "append" \notin Crashes, [Next]_vars
    PROVE  SizeInv'
<1>1. CASE UNCHANGED vars
  <2>1. P' = P /\ at' = at /\ pc' = pc /\ UNCHANGED <<dir, op, pos, arg, last, new, prev, first, done, r>>
    BY <1>1 DEF vars, P, at
  <2>2. EntrySizes'
    BY <2>1, EntryKept DEF Exempt, Running, Grounded, SizeInv
  <2>3. Built' = Built
    BY <2>1 DEF Built, Whole
  <2> QED BY <2>1, <2>2, <2>3 DEF Grounded, SizeInv, BuiltSize, OldSize, FreeSize, MkdirOnly,
             Building, Fits
<1>2. CASE Step
  <2>1. CASE NextCopy \/ MkDots \/ MkEntry \/ MkFull
    BY <2>1, SizeMirror, SizeMkDots, SizeMkEntry, SizeEnding
  <2>2. CASE FreeOne \/ FreeDone \/ Alloc \/ Link \/ Unalloc
    BY <2>2, SizeFreeOne, SizeFreeDone, SizeAlloc, SizeLink, SizeUnalloc
  <2>3. CASE WriteData \/ Cleanup \/ Commit \/ Return
    BY <2>3, SizeWriteData, SizeCleanup, SizeCommit, SizeEnding
  <2> QED BY <1>2, <2>1, <2>2, <2>3 DEF Step
<1>3. CASE Request
  <2>1. CASE NotMounted
    BY <2>1, SizeEnding
  <2>2. ASSUME NEW n \in Names, make_dir(n) \/ remove_dir(n) \/ fs_create_file(n)
        PROVE  SizeInv'
    BY <2>2, SizeMkdir, SizeRmdir, SizeCreate
  <2>3. ASSUME NEW n \in Names, NEW b \in Buffers, fs_write_file(n, b) \/ fs_append_file(n, b)
        PROVE  SizeInv'
    <3>1. b \in Seq(Bytes)
      BY CallerAssumption
    <3> QED BY <2>3, <3>1, SizeStartWrite, SizeAppend DEF fs_write_file
  <2> QED BY <1>3, <2>1, <2>2, <2>3 DEF Request
<1>4. CASE Abort \/ PowerLoss \/ fs_init
  BY <1>4, SizeEnding
<1> QED BY <1>1, <1>2, <1>3, <1>4 DEF Next

LEMMA SizeInit == Init => SizeInv
<1> SUFFICES ASSUME Init PROVE SizeInv
  OBVIOUS
<1>1. \A s \in Slots : dir[s].kind # "file"
  BY DEF Init, Blank, DirEntry
<1>2. at = "off"
  BY DEF Init, at
<1> QED BY <1>1, <1>2 DEF SizeInv, EntrySizes, BuiltSize, OldSize, FreeSize, MkdirOnly, Building

\* The size in a file's entry fits the clusters of its chain after every sector
\* write of every sequence of calls, cut short anywhere, if no append is cut
\* short; also when writes fail, if no call is a remove_dir or an append.
THEOREM SizesMatch ==
    ASSUME WriteFaults => Ops \cap {"append", "rmdir"} = {},
           "append" \notin Crashes
    PROVE  Spec => []SizeMatchesChain
<1>0. SizeInv => SizeMatchesChain
  BY SizeMatchesIs DEF SizeInv
<1>1. CASE WriteFaults
  <2>1. Init => TypeOK /\ DirInv /\ FaultInv /\ SizeInv
    BY TypeInit, DirInit, FaultInit, SizeInit
  <2>2. TypeOK /\ DirInv /\ FaultInv /\ SizeInv /\ [Next]_vars => TypeOK' /\ DirInv' /\ FaultInv' /\ SizeInv'
    BY <1>1, TypeNext, DirNext, FaultNext, SizeNext, GroundFaults DEF Grounded
  <2> QED BY <1>0, <2>1, <2>2, PTL DEF Spec
<1>2. CASE ~WriteFaults
  <2>0. WriteFaults = FALSE
    BY <1>2, CallerAssumption
  <2>1. Init => TypeOK /\ ChainsInv /\ DirInv /\ LeakInv /\ SizeInv
    BY TypeInit, InitChains, DirInit, LeakInit, SizeInit
  <2>2. TypeOK /\ ChainsInv /\ DirInv /\ LeakInv /\ SizeInv /\ [Next]_vars
        => TypeOK' /\ ChainsInv' /\ DirInv' /\ LeakInv' /\ SizeInv'
    BY <2>0, TypeNext, ChainsNext, DirNext, LeakNext, SizeNext, GroundChains DEF Grounded
  <2> QED BY <1>0, <2>1, <2>2, PTL DEF Spec
<1> QED BY <1>1, <1>2

-----------------------------------------------------------------------------
(* The walk of a reader.                                                   *)

\* A set of numbers that is not empty has a least member.
LEMMA Least ==
    ASSUME NEW S, S \subseteq Nat, S # {}
    PROVE  \E m \in S : \A k \in S : m <= k
<1> DEFINE R == OpToRel(<, Nat)
<1>1. IsWellFoundedOn(R, Nat)  BY NatLessThanWellFounded
<1> HIDE DEF R
<1>2. PICK m \in S : \A k \in S : ~ (<<k, m>> \in R)  BY <1>1, WFMin
<1>3. \A k \in S : ~ (k < m)  BY <1>2 DEF R, OpToRel
<1> QED BY <1>3

\* The cluster read after v.
After(v) == IF IsLink(v) THEN get_next_cluster(v) ELSE v

Walks(w, c, m) == w = [k \in 1 .. m |-> IF k = 1 THEN c ELSE After(w[k - 1])]

LEMMA WalkExists ==
    ASSUME NEW c, NEW m \in Nat
    PROVE  \E w : Walks(w, c, m)
<1> DEFINE S == {k \in Nat : ~ \E w : Walks(w, c, k)}
<1> SUFFICES ASSUME S # {} PROVE FALSE
  OBVIOUS
<1>1. PICK k \in S : \A j \in S : k <= j
  <2>1. S \subseteq Nat
    OBVIOUS
  <2> HIDE DEF S
  <2> QED BY <2>1, Least
<1>2. k \in Nat /\ ~ \E w : Walks(w, c, k)
  BY <1>1
<1>3. CASE k = 0
  <2>1. Walks([j \in 1 .. 0 |-> 0], c, 0)
    BY DEF Walks
  <2> QED BY <1>2, <1>3, <2>1
<1>4. CASE k # 0
  <2>1. k - 1 \in Nat /\ k - 1 \notin S
    BY <1>1, <1>2, <1>4
  <2>2. PICK w : Walks(w, c, k - 1)
    BY <2>1
  <2> DEFINE v == [j \in 1 .. k |-> IF j = 1 THEN c ELSE After(w[j - 1])]
  <2>3. \A j \in 1 .. k - 1 : v[j] = w[j]
    <3>1. \A j \in 1 .. k - 1 : w[j] = IF j = 1 THEN c ELSE After(w[j - 1])
      BY <2>2 DEF Walks
    <3> QED BY <1>2, <3>1
  <2>4. \A j \in 1 .. k : j # 1 => j - 1 \in 1 .. k - 1
    BY <1>2
  <2>5. Walks(v, c, k)
    <3>1. \A j \in 1 .. k : (IF j = 1 THEN c ELSE After(w[j - 1])) = IF j = 1 THEN c ELSE After(v[j - 1])
      BY <2>3, <2>4
    <3> QED BY <3>1 DEF Walks
  <2> HIDE DEF v
  <2> QED BY <1>2, <2>5
<1> QED BY <1>3, <1>4

LEMMA WalkIs ==
    ASSUME NEW c
    PROVE  Walks(Walk(c), c, NumClusters)
<1>1. NumClusters \in Nat
  BY GeometryAssumption
<1>2. \E w : Walks(w, c, NumClusters)
  BY <1>1, WalkExists
<1>3. \E w : w = [k \in 1 .. NumClusters |->
                   IF k = 1 THEN c
                   ELSE IF IsLink(w[k - 1]) THEN get_next_cluster(w[k - 1]) ELSE w[k - 1]]
  BY <1>2 DEF Walks, After
<1> QED BY <1>3 DEF Walks, After, Walk

\* The clusters w[1..n] are the first of those that table Q leads to from c.
Lists(Q, c, n, w) == /\ n # 0 => w[1] = c
                     /\ \A k \in 1 .. n - 1 : Q[w[k]] = w[k + 1]

\* A reader that begins there visits them, one after the other.
LEMMA WalkFollows ==
    ASSUME NEW c, NEW n \in 0 .. NumClusters, NEW w \in [1 .. n -> Clusters], Lists(P, c, n, w)
    PROVE  \A k \in 1 .. n : Walk(c)[k] = w[k]
<1> DEFINE W == Walk(c)
           S == {k \in 1 .. n : W[k] # w[k]}
<1>0. NumClusters \in Nat /\ n \in Nat
  BY GeometryAssumption
<1>1. \A k \in 1 .. NumClusters : W[k] = IF k = 1 THEN c ELSE After(W[k - 1])
  <2>1. Walks(W, c, NumClusters)
    BY WalkIs
  <2> HIDE DEF W
  <2> QED BY <2>1 DEF Walks
<1> HIDE DEF W
<1> SUFFICES ASSUME S # {} PROVE FALSE
  BY DEF W
<1>2. PICK k \in S : \A j \in S : k <= j
  <2>1. S \subseteq Nat
    OBVIOUS
  <2> HIDE DEF S
  <2> QED BY <2>1, Least
<1>3. k \in 1 .. n /\ k \in 1 .. NumClusters /\ W[k] # w[k]
  BY <1>0, <1>2
<1>4. k # 1
  BY <1>1, <1>3 DEF Lists
<1>5. k - 1 \in 1 .. n - 1 /\ k - 1 \in 1 .. n /\ k - 1 \notin S
  BY <1>0, <1>2, <1>3, <1>4
<1>6. W[k - 1] = w[k - 1] /\ w[k - 1] \in Clusters
  BY <1>5
<1>7. P[w[k - 1]] = w[k]
  BY <1>3, <1>5 DEF Lists
<1>8. IsLink(w[k - 1])
  BY <1>6, LinkValues
<1> QED BY <1>1, <1>3, <1>4, <1>6, <1>7, <1>8 DEF After, get_next_cluster, P

LEMMA CountedTo == \A n \in Nat : IsFiniteSet(1 .. n) /\ Cardinality(1 .. n) = n
<1>1. \A n \in Nat : n \in Int /\ 1 \in Int
  OBVIOUS
<1> QED BY <1>1, FS_Interval

LEMMA DivMod ==
    ASSUME NEW a \in Nat, NEW b \in Nat \ {0}
    PROVE  /\ a \div b \in Nat /\ a % b \in 0 .. b - 1
           /\ a = b * (a \div b) + (a % b)
OBVIOUS

LEMMA DivBelow ==
    ASSUME NEW a \in Nat, NEW b \in Nat \ {0}, NEW n \in Nat, a < n * b
    PROVE  a \div b < n
<1> DEFINE q == a \div b
<1>1. q \in Nat /\ a >= b * q
  BY DivMod
<1> HIDE DEF q
<1>2. ASSUME q >= n PROVE FALSE
  <2>1. PICK d \in Nat : q = n + d
    <3>1. q - n \in Nat /\ q = n + (q - n)
      BY <1>1, <1>2
    <3> QED BY <3>1
  <2>2. b * q = n * b + d * b
    BY <2>1
  <2>3. d * b \in Nat /\ n * b \in Nat
    OBVIOUS
  <2> QED BY <1>1, <2>2, <2>3
<1> QED BY <1>1, <1>2 DEF q

\* Where a byte is: in which of the clusters, and at which place in it.
LEMMA Place ==
    ASSUME NEW n \in Nat, NEW p \in Nat \ {0}, p <= n * ClusterBytes
    PROVE  LET q == ((p - 1) \div ClusterBytes) + 1
               m == ((p - 1) % ClusterBytes) + 1
           IN q \in 1 .. n /\ m \in 1 .. ClusterBytes /\ (q - 1) * ClusterBytes + m = p
<1> DEFINE q == (p - 1) \div ClusterBytes
           m == (p - 1) % ClusterBytes
<1>0. ClusterBytes \in Nat \ {0} /\ n * ClusterBytes \in Nat
  BY GeometryAssumption
<1>1. p - 1 \in Nat /\ p - 1 < n * ClusterBytes
  BY <1>0
<1>2. q \in Nat /\ m \in 0 .. ClusterBytes - 1 /\ p - 1 = ClusterBytes * q + m /\ q < n
  BY <1>0, <1>1, DivMod, DivBelow
<1> HIDE DEF q, m
<1>3. q + 1 \in 1 .. n /\ m + 1 \in 1 .. ClusterBytes
  BY <1>0, <1>2
<1>4. (q + 1) - 1 = q
  BY <1>2
<1>5. ((q + 1) - 1) * ClusterBytes + (m + 1) = p
  BY <1>0, <1>2, <1>4
<1> QED BY <1>3, <1>5 DEF q, m

\* z bytes of the clusters w, taken from D.
Spelt(D, w, z) == [i \in 1 .. z |-> D[w[((i - 1) \div ClusterBytes) + 1]][((i - 1) % ClusterBytes) + 1]]

\* They are b when each place holds what b has there.
Holds(D, n, w, z, b) ==
    /\ n \in Nat /\ z \in Nat /\ z <= n * ClusterBytes
    /\ \A k \in 1 .. n, i \in 1 .. ClusterBytes :
          (k - 1) * ClusterBytes + i <= z => D[w[k]][i] = b[(k - 1) * ClusterBytes + i]

LEMMA SpeltIs ==
    ASSUME NEW D, NEW n, NEW w, NEW b, NEW z, Holds(D, n, w, z, b)
    PROVE  Spelt(D, w, z) = [i \in 1 .. z |-> b[i]]
<1>1. ASSUME NEW p \in 1 .. z
      PROVE  D[w[((p - 1) \div ClusterBytes) + 1]][((p - 1) % ClusterBytes) + 1] = b[p]
  <2> DEFINE q == ((p - 1) \div ClusterBytes) + 1
             m == ((p - 1) % ClusterBytes) + 1
  <2>1. p \in Nat \ {0} /\ p <= z /\ p <= n * ClusterBytes /\ n \in Nat
    <3>1. n * ClusterBytes \in Nat
      BY GeometryAssumption DEF Holds
    <3> QED BY <3>1 DEF Holds
  <2>2. q \in 1 .. n /\ m \in 1 .. ClusterBytes /\ (q - 1) * ClusterBytes + m = p
    BY <2>1, Place
  <2> HIDE DEF q, m
  <2>3. D[w[q]][m] = b[p]
    BY <2>1, <2>2 DEF Holds
  <2> QED BY <2>3 DEF q, m
<1> QED BY <1>1 DEF Spelt

\* What a reader of table Q and data D gets from c on.
Spells(Q, D, c, z, b) ==
    \E n \in 0 .. NumClusters : \E w \in [1 .. n -> Clusters] :
        Lists(Q, c, n, w) /\ z <= n * ClusterBytes /\ b = Spelt(D, w, z)

LEMMA SpellsRead ==
    ASSUME NEW c, NEW z \in Nat, NEW b, Spells(P, data, c, z, b)
    PROVE  fs_read_file(c, z) = b
<1>1. PICK n \in 0 .. NumClusters : \E w \in [1 .. n -> Clusters] :
         Lists(P, c, n, w) /\ z <= n * ClusterBytes /\ b = Spelt(data, w, z)
  BY DEF Spells
<1>2. PICK w \in [1 .. n -> Clusters] :
         Lists(P, c, n, w) /\ z <= n * ClusterBytes /\ b = Spelt(data, w, z)
  BY <1>1
<1> DEFINE W == Walk(c)
           L == {k \in 1 .. NumClusters : IsLink(W[k])}
           held == ClusterBytes * Cardinality(L)
<1>0. NumClusters \in Nat /\ n \in Nat /\ ClusterBytes \in Nat \ {0} /\ n * ClusterBytes \in Nat
  BY GeometryAssumption
<1>3. \A k \in 1 .. n : W[k] = w[k]
  BY <1>2, WalkFollows
<1>4. fs_read_file(c, z) =
         [i \in 1 .. (IF z < held THEN z ELSE held) |->
             data[W[((i - 1) \div ClusterBytes) + 1]][((i - 1) % ClusterBytes) + 1]]
  BY DEF fs_read_file
<1>5. Cardinality(L) \in Nat /\ n <= Cardinality(L)
  <2>1. 1 .. n \subseteq L
    <3>1. \A k \in 1 .. n : IsLink(w[k])
      BY LinkValues
    <3> HIDE DEF W
    <3> QED BY <1>0, <1>3, <3>1
  <2>2. IsFiniteSet(1 .. NumClusters) /\ L \subseteq 1 .. NumClusters
    BY <1>0, CountedTo
  <2> HIDE DEF L
  <2>3. IsFiniteSet(L)
    BY <2>2, FS_Subset
  <2> QED BY <1>0, <2>1, <2>3, CountedTo, FS_Subset, FS_CardinalityType
<1> HIDE DEF L
<1>6. (IF z < held THEN z ELSE held) = z
  <2> DEFINE l == Cardinality(L)
  <2>1. PICK d \in Nat : l = n + d
    <3>1. l - n \in Nat /\ l = n + (l - n)
      BY <1>0, <1>5
    <3> QED BY <3>1
  <2>2. ClusterBytes * l = n * ClusterBytes + d * ClusterBytes /\ d * ClusterBytes \in Nat
    BY <1>0, <2>1
  <2> HIDE DEF l
  <2>3. ClusterBytes * l \in Nat /\ z <= ClusterBytes * l
    BY <1>0, <1>2, <2>2
  <2>4. held = ClusterBytes * l
    BY DEF l
  <2> HIDE DEF held
  <2> QED BY <2>3, <2>4
<1> HIDE DEF W, held
<1>7. ASSUME NEW i \in 1 .. z
      PROVE  W[((i - 1) \div ClusterBytes) + 1] = w[((i - 1) \div ClusterBytes) + 1]
  <2>1. i \in Nat \ {0} /\ i <= n * ClusterBytes
    BY <1>0, <1>2
  <2> QED BY <1>3, <2>1, Place
<1> QED BY <1>2, <1>4, <1>6, <1>7 DEF Spelt

-----------------------------------------------------------------------------
(* What a write has written.                                               *)

\* The call has filled the clusters w[1..n], which begin at cluster h, are linked
\* one after the other, and hold z other bytes before what is done of arg.
Written(h, z, n, w) ==
    /\ Lists(P, h, n, w) /\ (n # 0 => w[n] = prev)
    /\ \A j, k \in 1 .. n : w[j] = w[k] => j = k
    /\ at \in {"link", "data"} => \A k \in 1 .. n : w[k] # new
    /\ at # "alloc" => done < Len(arg)
    /\ \A k \in 1 .. n, i \in 1 .. ClusterBytes :
          z < (k - 1) * ClusterBytes + i /\ (k - 1) * ClusterBytes + i <= z + Len(arg) =>
              data[w[k]][i] = arg[(k - 1) * ClusterBytes + i - z]
    /\ done = IF n * ClusterBytes < z + Len(arg) THEN n * ClusterBytes - z ELSE Len(arg)

WriteInv == op = "write" /\ at \in {"alloc", "link", "data"} =>
                \E n \in Nat : /\ first = 0 <=> n = 0
                               /\ \E w \in [1 .. n -> Clusters] : Written(first, 0, n, w)

NoneDone == at = "free" /\ op = "write" /\ r = FS_OK => done = 0

\* The entry leads to what was written.
Wrote == pc = "return" /\ op = "write" /\ r = FS_OK =>
            /\ pos \in Slots /\ dir[pos].kind = "file" /\ dir[pos].name = name
            /\ dir[pos].size = Len(arg)
            /\ Spells(P, data, dir[pos].first, Len(arg), arg)

ReadInv == WriteInv /\ NoneDone /\ MkdirOnly /\ Wrote

Readable == TypeOK /\ DirInv /\ Ground /\ ReadInv

\* Steps to where no chain is built, that report no success of a write.
LEMMA ReadQuiet ==
    ASSUME at' \notin {"alloc", "link", "data"},
           ~(pc' = "return" /\ op' = "write" /\ r' = FS_OK),
           ~(at' = "free" /\ op' = "write" /\ r' = FS_OK),
           at' \in {"mkDots", "mkEntry", "full"} => op' = "mkdir"
    PROVE  ReadInv'
BY DEF ReadInv, WriteInv, NoneDone, MkdirOnly, Wrote

\* Nothing is written yet.
LEMMA ReadNone ==
    ASSUME at' = "alloc", op' = "write", first' = 0, done' = 0, arg' \in Seq(Bytes)
    PROVE  ReadInv'
<1>1. pc' # "return"
  BY DEF at
<1> DEFINE w == [k \in 1 .. 0 |-> 0]
<1>2. w \in [1 .. 0 -> Clusters]
  OBVIOUS
<1>3. Written(0, 0, 0, w)'
  <2>1. 0 * ClusterBytes = 0 /\ Len(arg') \in Nat
    BY GeometryAssumption
  <2> QED BY <2>1 DEF Written, Lists
<1>4. Written(first, 0, 0, w)'
  BY <1>3 DEF Written, Lists
<1> QED BY <1>1, <1>2, <1>4 DEF ReadInv, WriteInv, NoneDone, Wrote, MkdirOnly

LEMMA ReadRefuse ==
    ASSUME NEW code, Refuse(code), code # FS_OK \/ op' # "write"
    PROVE  ReadInv'
BY ReadQuiet DEF Refuse, at

\* Calls other than a write.
LEMMA ReadOther ==
    ASSUME op' # "write", at' \in {"mkDots", "mkEntry", "full"} => op' = "mkdir"
    PROVE  ReadInv'
BY DEF ReadInv, WriteInv, NoneDone, MkdirOnly, Wrote

-----------------------------------------------------------------------------
(* ReadInv, action by action.                                              *)

LEMMA ReadMirror == ASSUME Readable, NextCopy PROVE ReadInv'
<1>1. /\ P' = P /\ at \in Returns
      /\ \/ at' = at /\ r' = r
         \/ WriteFaults /\ at' = OnFail(at) /\ r' = IF Checked(at) THEN FS_ERR_IO ELSE r
  BY MirrorAny DEF Readable
<1>2. UNCHANGED <<data, op, arg, new, prev, first, done>> /\ pc = "mirror" /\ at = job.ret
  BY DEF NextCopy, call, chain, at
<1>3. CASE at' = at /\ r' = r
  <2>1. pc' # "return"
    BY <1>1, <1>3 DEF at, Returns
  <2>2. \A n \in Nat : \A w \in [1 .. n -> Clusters] :
           Written(first, 0, n, w) => Written(first, 0, n, w)'
    BY <1>1, <1>2, <1>3 DEF Written
  <2>3. WriteInv'
    BY <1>2, <1>3, <2>2 DEF Readable, ReadInv, WriteInv
  <2> QED BY <1>2, <1>3, <2>1, <2>3 DEF Readable, ReadInv, NoneDone, MkdirOnly, Wrote
<1>4. CASE at' = OnFail(at) /\ r' = IF Checked(at) THEN FS_ERR_IO ELSE r
  <2>1. \/ at' = at /\ r' = r
        \/ at' \in {"fail", "unalloc"}
        \/ at' = "return" /\ at = "mkDots"
    BY <1>1, <1>4 DEF OnFail, Returns, Checked
  <2>2. CASE at' \in {"fail", "unalloc"}
    <3>1. pc' # "return"
      BY <2>2 DEF at
    <3> QED BY <2>2, <3>1, ReadQuiet
  <2>3. CASE at' = "return" /\ at = "mkDots"
    BY <1>2, <2>3, ReadOther DEF Readable, ReadInv, MkdirOnly
  <2> QED BY <1>3, <2>1, <2>2, <2>3
<1> QED BY <1>1, <1>3, <1>4

LEMMA ReadMkdir ==
    ASSUME Readable, (\E n : make_dir(n)) \/ MkDots \/ MkEntry \/ MkFull
    PROVE  ReadInv'
<1>1. op' = "mkdir"
  BY DEF make_dir, MkDots, MkEntry, MkFull, Call, call, at, Readable, ReadInv, MkdirOnly
<1> QED BY <1>1, ReadOther

LEMMA ReadRmdir == ASSUME NEW n, remove_dir(n) PROVE ReadInv'
<1>1. op' = "rmdir"
  BY DEF remove_dir, Call
<1>2. at' \in {"free", "return"}
  BY DEF remove_dir, Refuse, PutSlot, at
<1> QED BY <1>1, <1>2, ReadOther

LEMMA ReadCreate == ASSUME NEW n, fs_create_file(n) PROVE ReadInv'
<1>1. op' = "create"
  BY DEF fs_create_file, Call
<1>2. at' = "return"
  BY DEF fs_create_file, Refuse, PutSlot, at
<1> QED BY <1>1, <1>2, ReadOther

LEMMA ReadStartWrite ==
    ASSUME Readable, NEW n, NEW b \in Seq(Bytes), StartWrite(n, b)
    PROVE  ReadInv'
<1>0. op' = "write" /\ arg' = b /\ first = 0 /\ done = 0
  BY DEF StartWrite, Call, Readable, TypeOK, TypeWork
<1>1. CASE Refuse(FS_ERR_ISDIR) \/ Refuse(FS_ERR_DIRFULL)
  BY <1>1, ReadRefuse DEF FS_ERR_ISDIR, FS_ERR_DIRFULL, FS_OK
<1>2. ASSUME NEW s, NEW e, NEW ok \in {"free", "alloc"}, PutSlot(s, e, ok, "return"), UNCHANGED chain
      PROVE  ReadInv'
  <2>1. first' = 0 /\ done' = 0 /\ (at' = ok \/ (at' = "return" /\ r' # FS_OK))
    BY <1>0, <1>2 DEF PutSlot, chain, at, FS_OK, FS_ERR_IO
  <2>2. CASE at' = "alloc"
    BY <1>0, <2>1, <2>2, ReadNone
  <2>3. CASE at' = "return" /\ r' # FS_OK
    BY <2>3, ReadQuiet
  <2>4. CASE at' = "free"
    BY <2>1, <2>4 DEF ReadInv, WriteInv, NoneDone, MkdirOnly, Wrote, at
  <2> QED BY <2>1, <2>2, <2>3, <2>4
<1> QED BY <1>1, <1>2 DEF StartWrite

LEMMA ReadAppend ==
    ASSUME Readable, NEW n, NEW b \in Seq(Bytes), fs_append_file(n, b)
    PROVE  ReadInv'
<1>1. CASE StartWrite(n, b)
  BY <1>1, ReadStartWrite
<1>2. CASE op' = "append" /\ \E code : Refuse(code)
  BY <1>2, ReadRefuse
<1>3. ASSUME op' = "append", NEW s, NEW l, StartAppend(s, l, b) PROVE ReadInv'
  <2>1. at' \in {"alloc", "return"}
    BY <1>3 DEF StartAppend, at
  <2> QED BY <1>3, <2>1, ReadOther
<1> QED BY <1>1, <1>2, <1>3 DEF fs_append_file, Call

LEMMA ReadFree == ASSUME Readable, FreeOne \/ FreeDone PROVE ReadInv'
<1>1. UNCHANGED <<op, arg, first, done>> /\ at = "free" /\ arg \in Seq(Bytes)
  BY DEF FreeOne, FreeDone, call, chain, at, Readable, TypeOK, TypeCall
<1>2. CASE FreeOne
  <2>1. at' = "free" /\ r' = r
    <3>1. /\ cur \in {0, EOC} \cup Clusters /\ IsLink(cur)
      BY <1>2 DEF FreeOne, Readable, TypeOK, TypeWork
    <3>2. cur \in {0} \cup Clusters
      BY <3>1, LinkValues
    <3>3. /\ FREE \in {FREE, EOC} \cup Clusters /\ "free" \in Returns
          /\ ~Checked("free") /\ OnFail("free") = "free"
      BY DEF Returns, Checked, OnFail
    <3> QED BY <1>2, <3>2, <3>3, SetAny DEF FreeOne, Readable
  <2>2. pc' # "return"
    BY <2>1 DEF at
  <2> QED BY <1>1, <2>1, <2>2 DEF Readable, ReadInv, WriteInv, NoneDone, MkdirOnly, Wrote
<1>3. CASE FreeDone
  <2>1. r' = r /\ at' = IF op = "write" /\ r = FS_OK THEN "alloc" ELSE "return"
    BY <1>3 DEF FreeDone, at
  <2>2. CASE at' = "alloc"
    <3>1. op = "write" /\ first = 0 /\ done = 0
      BY <1>1, <2>1, <2>2 DEF Readable, Ground, ReadInv, NoneDone
    <3> QED BY <1>1, <2>2, <3>1, ReadNone
  <2>3. CASE at' = "return"
    BY <1>1, <2>1, <2>3, ReadQuiet
  <2> QED BY <2>1, <2>2, <2>3
<1> QED BY <1>2, <1>3

\* What a write has built ends at prev, also when that is nothing.
LEMMA WriteTail ==
    ASSUME Readable, at \in {"alloc", "link", "data"}, op = "write",
           NEW n \in Nat, first = 0 <=> n = 0
    PROVE  /\ prev # 0 <=> n # 0
           /\ n # 0 => P[prev] = IF at = "data" THEN new ELSE EOC
<1>1. last = 0
  BY DEF Readable, Ground, Building
<1>2. n # 0 => prev \in Clusters /\ prev # 0
  BY AlongClosed, Primary DEF Readable, Ground, Own
<1> QED BY <1>1, <1>2 DEF Readable, Ground, Own

\* The steps of alloc_and_write, at the end of clusters that hold z bytes or more.
LEMMA WrittenAlloc ==
    ASSUME TypeOK, NEW h, NEW z, NEW n \in Nat, NEW w \in [1 .. n -> Clusters],
           Written(h, z, n, w), n # 0 => P[prev] = EOC,
           NEW c \in Clusters, P[c] = FREE, P' \in {P, [P EXCEPT ![c] = EOC]},
           UNCHANGED <<data, arg, prev, done>>, at = "alloc", at' = "link", new' = c,
           done < Len(arg)
    PROVE  Written(h, z, n, w)'
<1>1. ASSUME NEW k \in 1 .. n PROVE w[k] # c
  <2>1. CASE k = n
    BY <2>1, Primary DEF Written
  <2>2. CASE k # n
    <3>1. k \in 1 .. n - 1 /\ k + 1 \in 1 .. n
      BY <2>2
    <3> QED BY <3>1, Primary DEF Written, Lists
  <2> QED BY <2>1, <2>2
<1>2. \A k \in 1 .. n : P'[w[k]] = P[w[k]]
  BY <1>1, Primary
<1>3. \A k \in 1 .. n - 1 : P'[w[k]] = P[w[k]]
  BY <1>2
<1> QED BY <1>1, <1>3 DEF Written, Lists

LEMMA WrittenLink ==
    ASSUME TypeOK, NEW h, NEW z, NEW n \in Nat, NEW w \in [1 .. n -> Clusters],
           Written(h, z, n, w),
           P' \in {P, [P EXCEPT ![prev] = new]},
           UNCHANGED <<data, arg, new, prev, done>>, at = "link", at' = "data"
    PROVE  Written(h, z, n, w)'
<1>1. ASSUME NEW k \in 1 .. n - 1 PROVE P'[w[k]] = P[w[k]]
  <2>1. k \in 1 .. n /\ n \in 1 .. n /\ k # n
    OBVIOUS
  <2>2. w[k] # prev /\ w[k] \in Clusters
    BY <2>1 DEF Written
  <2> QED BY <2>2, Primary
<1> QED BY <1>1 DEF Written, Lists

LEMMA WrittenData ==
    ASSUME TypeOK, NEW h, NEW z \in Nat, NEW n \in Nat, NEW w \in [1 .. n -> Clusters],
           Written(h, z, n, w), n # 0 => P[prev] = new, z <= n * ClusterBytes,
           new \in Clusters, P' = P, arg' = arg, at = "data", at' = "alloc", prev' = new,
           data' = [data EXCEPT ![new] = NextBlock],
           done' = IF done + ClusterBytes > Len(arg) THEN Len(arg) ELSE done + ClusterBytes,
           NEW g, g = IF n = 0 THEN new ELSE h
    PROVE  \E v \in [1 .. n + 1 -> Clusters] : Written(g, z, n + 1, v)'
<1> DEFINE m == n + 1
<1>0. PICK v : v = [k \in 1 .. m |-> IF k = m THEN new ELSE w[k]]
  OBVIOUS
<1>1. v \in [1 .. m -> Clusters] /\ v[m] = new /\ m \in Nat /\ m # 0
      /\ \A k \in 1 .. n : v[k] = w[k] /\ k # m
  BY <1>0
<1>2. v[1] = g
  <2>1. n = 0 => m = 1
    OBVIOUS
  <2>2. n # 0 => 1 \in 1 .. n /\ w[1] = h
    BY DEF Written, Lists
  <2> QED BY <1>1, <2>1, <2>2
<1>3. ASSUME NEW k \in 1 .. m - 1 PROVE P'[v[k]] = v[k + 1]
  <2>1. k \in 1 .. n
    OBVIOUS
  <2>2. CASE k = n
    <3>1. w[n] = prev
      BY <2>1, <2>2 DEF Written
    <3> QED BY <1>1, <2>1, <2>2, <3>1
  <2>3. CASE k # n
    <3>1. k \in 1 .. n - 1 /\ k + 1 \in 1 .. n
      BY <2>1, <2>3
    <3>2. P[w[k]] = w[k + 1]
      BY <3>1 DEF Written, Lists
    <3> QED BY <1>1, <2>1, <3>1, <3>2
  <2> QED BY <2>2, <2>3
<1>4. \A k \in 1 .. m : k = m \/ k \in 1 .. n
  OBVIOUS
<1>5. \A k \in 1 .. n : w[k] # new
  BY DEF Written
<1>6. ASSUME NEW j \in 1 .. m, NEW k \in 1 .. m, v[j] = v[k] PROVE j = k
  <2>1. \A a, b \in 1 .. n : w[a] = w[b] => a = b
    BY DEF Written
  <2> HIDE DEF m
  <2> QED BY <1>1, <1>4, <1>5, <1>6, <2>1
<1>7. done = n * ClusterBytes - z /\ done < Len(arg) /\ ClusterBytes \in Nat \ {0} /\ Len(arg) \in Nat
      /\ n * ClusterBytes \in Nat
  <2>1. done = IF n * ClusterBytes < z + Len(arg) THEN n * ClusterBytes - z ELSE Len(arg)
    BY DEF Written
  <2>2. done < Len(arg)
    BY DEF Written
  <2>3. Len(arg) \in Nat /\ ClusterBytes \in Nat \ {0} /\ n * ClusterBytes \in Nat
    BY GeometryAssumption DEF TypeOK, TypeCall
  <2> QED BY <2>1, <2>2, <2>3
<1>8. done' = IF m * ClusterBytes < z + Len(arg) THEN m * ClusterBytes - z ELSE Len(arg)
  <2>1. m * ClusterBytes = n * ClusterBytes + ClusterBytes
    BY <1>7
  <2> DEFINE x == n * ClusterBytes
             y == m * ClusterBytes
  <2>2. y = x + ClusterBytes /\ done = x - z /\ x \in Nat /\ z <= x
    BY <1>7, <2>1
  <2> HIDE DEF x, y
  <2>3. done' = IF y < z + Len(arg) THEN y - z ELSE Len(arg)
    BY <1>7, <2>2
  <2> QED BY <2>3 DEF y
<1>9. ASSUME NEW k \in 1 .. m, NEW i \in 1 .. ClusterBytes,
             z < (k - 1) * ClusterBytes + i, (k - 1) * ClusterBytes + i <= z + Len(arg)
      PROVE  data'[v[k]][i] = arg[(k - 1) * ClusterBytes + i - z]
  <2>0. data \in [Clusters -> Block]
    BY DEF TypeOK, TypeVolume
  <2>1. CASE k = m
    <3>1. (k - 1) * ClusterBytes = done + z
      <4>1. k - 1 = n
        BY <2>1
      <4> QED BY <1>7, <4>1
    <3>2. data'[new] = NextBlock
      BY <2>0
    <3>3. done + i <= Len(arg) /\ (k - 1) * ClusterBytes + i - z = done + i
      BY <1>7, <1>9, <3>1
    <3>4. NextBlock[i] = arg[done + i]
      BY <3>3 DEF NextBlock
    <3> QED BY <1>1, <2>1, <3>2, <3>3, <3>4
  <2>2. CASE k # m
    <3>1. k \in 1 .. n
      BY <2>2
    <3>2. data[w[k]][i] = arg[(k - 1) * ClusterBytes + i - z]
      BY <1>9, <3>1 DEF Written
    <3>3. data'[w[k]] = data[w[k]]
      BY <1>5, <2>0, <3>1
    <3> QED BY <1>1, <3>1, <3>2, <3>3
  <2> QED BY <2>1, <2>2
<1>10. v[m] = prev' /\ at' = "alloc" /\ arg' = arg
  BY <1>1
<1>11. \A k \in 1 .. m - 1 : P'[v[k]] = v[k + 1]
  BY <1>3
<1>12. \A j, k \in 1 .. m : v[j] = v[k] => j = k
  BY <1>6
<1>13. \A k \in 1 .. m, i \in 1 .. ClusterBytes :
          z < (k - 1) * ClusterBytes + i /\ (k - 1) * ClusterBytes + i <= z + Len(arg) =>
             data'[v[k]][i] = arg[(k - 1) * ClusterBytes + i - z]
  BY <1>9
<1> HIDE DEF m
<1>14. Written(g, z, m, v)'
  BY <1>2, <1>8, <1>10, <1>11, <1>12, <1>13 DEF Written, Lists
<1> QED BY <1>1, <1>14 DEF m

LEMMA ReadAlloc == ASSUME Readable, Alloc PROVE ReadInv'
<1>1. UNCHANGED <<data, op, arg, prev, first, done>> /\ at = "alloc" /\ done < Len(arg)
  BY DEF Alloc, call, at
<1>2. CASE pc' = "fail"
  BY <1>2, ReadQuiet DEF at
<1>3. ASSUME NEW c \in Clusters, IsFirstFree(c), fat_set_entry(c, EOC, "link"), new' = c
      PROVE  ReadInv'
  <2>1. P[c] = FREE
    BY <1>3 DEF IsFirstFree, P
  <2>2. P' \in {P, [P EXCEPT ![c] = EOC]} /\ at' \in {"link", "fail"}
    <3>1. /\ c \in {0} \cup Clusters /\ EOC \in {FREE, EOC} \cup Clusters /\ "link" \in Returns
          /\ OnFail("link") = "fail"
      BY DEF Returns, OnFail
    <3> QED BY <1>3, <3>1, SetAny DEF Readable
  <2>3. pc' # "return"
    BY <2>2 DEF at
  <2>4. CASE at' = "fail"
    BY <2>3, <2>4, ReadQuiet
  <2>5. CASE at' = "link"
    <3>1. ASSUME NEW n \in Nat, NEW w \in [1 .. n -> Clusters],
                 Written(first, 0, n, w), op = "write", first = 0 <=> n = 0
          PROVE  Written(first, 0, n, w)'
      <4>1. n # 0 => P[prev] = EOC
        BY <1>1, <3>1, WriteTail
      <4>2. \A h : h = first => (Written(h, 0, n, w) => Written(h, 0, n, w)')
        BY <1>1, <1>3, <2>1, <2>2, <2>5, <4>1, WrittenAlloc DEF Readable
      <4> QED BY <1>1, <3>1, <4>2 DEF Written
    <3>2. WriteInv'
      BY <1>1, <2>5, <3>1 DEF Readable, ReadInv, WriteInv
    <3> QED BY <2>3, <2>5, <3>2 DEF ReadInv, NoneDone, MkdirOnly, Wrote
  <2> QED BY <2>2, <2>4, <2>5
<1> QED BY <1>2, <1>3 DEF Alloc

LEMMA ReadLink == ASSUME Readable, Link PROVE ReadInv'
<1>1. UNCHANGED <<data, op, arg, new, prev, first, done>> /\ at = "link"
  BY DEF Link, call, chain, at
<1>2. new \in Clusters
  BY <1>1 DEF Readable, Ground, Own
<1>3. /\ at' \in {"data", "unalloc"}
      /\ at' = "data" => P' = IF prev = 0 THEN P ELSE [P EXCEPT ![prev] = new]
  <2>1. CASE prev = 0 /\ pc' = "data" /\ UNCHANGED fat
    BY <2>1 DEF P, at
  <2>2. CASE prev # 0 /\ fat_set_entry(prev, new, "data")
    <3>1. /\ prev \in {0} \cup Clusters /\ new \in {FREE, EOC} \cup Clusters /\ "data" \in Returns
          /\ OnFail("data") = "unalloc"
      BY <1>2 DEF Returns, OnFail, Readable, TypeOK, TypeWork
    <3> QED BY <2>2, <3>1, SetAny DEF Readable
  <2> QED BY <2>1, <2>2 DEF Link
<1>4. pc' # "return"
  BY <1>3 DEF at
<1>5. CASE at' = "unalloc"
  BY <1>4, <1>5, ReadQuiet
<1>6. CASE at' = "data"
  <2>1. ASSUME NEW n \in Nat, NEW w \in [1 .. n -> Clusters], Written(first, 0, n, w)
        PROVE  Written(first, 0, n, w)'
    <3>1. \A h : h = first => (Written(h, 0, n, w) => Written(h, 0, n, w)')
      BY <1>1, <1>3, <1>6, WrittenLink DEF Readable
    <3> QED BY <1>1, <2>1, <3>1 DEF Written
  <2>2. WriteInv'
    BY <1>1, <1>6, <2>1 DEF Readable, ReadInv, WriteInv
  <2> QED BY <1>4, <1>6, <2>2 DEF ReadInv, NoneDone, MkdirOnly, Wrote
<1> QED BY <1>3, <1>5, <1>6

LEMMA ReadUndone ==
    ASSUME Readable, Unalloc \/ Cleanup
    PROVE  ReadInv'
<1>1. CASE Unalloc
  <2>1. at' = "fail"
    <3>1. /\ new \in {0} \cup Clusters /\ FREE \in {FREE, EOC} \cup Clusters /\ "fail" \in Returns
          /\ OnFail("fail") = "fail"
      BY DEF TypeOK, TypeWork, Returns, OnFail, Readable
    <3> QED BY <1>1, <3>1, SetAny DEF Unalloc, Readable
  <2> QED BY <2>1, ReadQuiet DEF at
<1>2. CASE Cleanup
  <2>1. op' = op /\ r # FS_OK /\ (op = "write" => last = 0)
    BY <1>2 DEF Cleanup, call, at, Building, Readable, Ground
  <2>2. CASE last = 0 /\ pc' = "free" /\ r' = r
    BY <2>1, <2>2, ReadQuiet DEF at
  <2>3. CASE last # 0 /\ fat_set_entry(last, EOC, "free")
    <3>1. /\ last \in {0} \cup Clusters /\ EOC \in {FREE, EOC} \cup Clusters /\ "free" \in Returns
          /\ OnFail("free") = "free"
      BY DEF TypeOK, TypeWork, Returns, OnFail, Readable
    <3>2. at' = "free"
      BY <2>3, <3>1, SetAny DEF Readable
    <3> QED BY <2>1, <2>3, <3>2, ReadOther
  <2> QED BY <1>2, <2>2, <2>3 DEF Cleanup
<1> QED BY <1>1, <1>2

LEMMA ReadWriteData == ASSUME Readable, WriteData PROVE ReadInv'
<1>1. /\ UNCHANGED <<op, arg>> /\ P' = P /\ at = "data"
      /\ first' = IF first = 0 THEN new ELSE first
      /\ \/ /\ at' = "alloc" /\ prev' = new
            /\ data' = [data EXCEPT ![new] = NextBlock]
            /\ done' = IF done + ClusterBytes > Len(arg) THEN Len(arg) ELSE done + ClusterBytes
         \/ at' = "fail"
      /\ pc' # "return"
  BY DEF WriteData, call, P, at, Put
<1>2. CASE at' = "fail"
  BY <1>1, <1>2, ReadQuiet
<1>3. CASE /\ at' = "alloc" /\ prev' = new
           /\ data' = [data EXCEPT ![new] = NextBlock]
           /\ done' = IF done + ClusterBytes > Len(arg) THEN Len(arg) ELSE done + ClusterBytes
  <2>0. new \in Clusters /\ new # 0
    BY <1>1, Primary DEF Readable, Ground, Own
  <2>1. ASSUME op = "write",
               NEW n \in Nat, NEW w \in [1 .. n -> Clusters], Written(first, 0, n, w),
               first = 0 <=> n = 0
        PROVE  \E v \in [1 .. n + 1 -> Clusters] : Written(first, 0, n + 1, v)'
    <3>1. PICK h : h = first
      OBVIOUS
    <3>2. PICK g : g = first'
      OBVIOUS
    <3>3. n # 0 => P[prev] = new
      BY <1>1, <2>1, WriteTail
    <3>4. Written(h, 0, n, w) /\ g = IF n = 0 THEN new ELSE h
      BY <1>1, <2>1, <3>1, <3>2 DEF Written
    <3>5. 0 <= n * ClusterBytes /\ 0 \in Nat
      BY GeometryAssumption
    <3>6. \E v \in [1 .. n + 1 -> Clusters] : Written(g, 0, n + 1, v)'
      BY <1>1, <1>3, <2>0, <3>3, <3>4, <3>5, WrittenData DEF Readable
    <3> QED BY <3>2, <3>6 DEF Written
  <2>2. WriteInv'
    <3>1. ASSUME op' = "write" PROVE \E m \in Nat : /\ first' = 0 <=> m = 0
                               /\ \E v \in [1 .. m -> Clusters] : Written(first, 0, m, v)'
      <4>1. PICK n \in Nat : /\ first = 0 <=> n = 0
                             /\ \E w \in [1 .. n -> Clusters] : Written(first, 0, n, w)
        BY <1>1, <3>1 DEF Readable, ReadInv, WriteInv
      <4>2. \E v \in [1 .. n + 1 -> Clusters] : Written(first, 0, n + 1, v)'
        BY <1>1, <2>1, <3>1, <4>1
      <4>3. n + 1 \in Nat /\ n + 1 # 0 /\ first' # 0
        BY <1>1, <2>0
      <4> QED BY <4>2, <4>3
    <3> QED BY <3>1 DEF WriteInv
  <2> QED BY <1>1, <1>3, <2>2 DEF ReadInv, NoneDone, MkdirOnly, Wrote
<1> QED BY <1>1, <1>2, <1>3

-----------------------------------------------------------------------------
(* The entry of the file that was written.                                 *)

\* There are no more clusters in a chain than on the volume.
LEMMA WrittenFits ==
    ASSUME NEW n \in Nat, NEW w \in [1 .. n -> Clusters], \A j, k \in 1 .. n : w[j] = w[k] => j = k
    PROVE  n \in 0 .. NumClusters
<1>1. IsFiniteSet(Clusters) /\ Cardinality(Clusters) = NumClusters
  BY FS_Interval, GeometryAssumption DEF Clusters
<1>2. IsFiniteSet(1 .. n) /\ Cardinality(1 .. n) = n
  BY CountedTo
<1>3. Cardinality(1 .. n) <= Cardinality(Clusters)
  <2>1. w \in Injection(1 .. n, Clusters)
    BY DEF Injection, IsInjective
  <2> QED BY <1>1, <2>1, FS_Injection
<1> QED BY <1>1, <1>2, <1>3, GeometryAssumption

\* A scan finds that file, and no other.
LEMMA OnlyFile ==
    ASSUME DirInv, NEW s \in Slots, dir[s].kind = "file", NumSlots \in Nat
    PROVE  Files(dir[s].name) = {s}
<1>1. \A t \in Slots : t <= s => dir[t].kind # "end"
  <2>1. \A t \in Slots : t \in Nat /\ s \in Nat /\ (t <= s => t = s \/ t < s)
    BY DEF Slots
  <2> QED BY <2>1 DEF DirInv, EndMarker
<1>2. s \in Files(dir[s].name)
  BY <1>1 DEF Files, Hits, Live, Scanned
<1>3. \A t \in Files(dir[s].name) : t = s
  BY DEF Files, Hits, DirInv, UniqueFileNames
<1> QED BY <1>2, <1>3

\* Such an entry is what WriteIsRead asks for.
LEMMA ReadWhole ==
    ASSUME TypeOK, DirInv, Wrote
    PROVE  WriteIsRead
<1> SUFFICES ASSUME pc = "return", op = "write", r = FS_OK
             PROVE  /\ Files(name) # {}
                    /\ \A s \in Files(name) : fs_read_file(dir[s].first, dir[s].size) = arg
  BY DEF WriteIsRead
<1>1. Files(name) = {pos}
  BY OnlyFile, GeometryAssumption DEF Wrote
<1>2. Len(arg) \in Nat
  BY DEF TypeOK, TypeCall
<1>3. fs_read_file(dir[pos].first, Len(arg)) = arg
  <2> DEFINE c == dir[pos].first
             b == arg
             z == Len(b)
  <2>1. Spells(P, data, c, z, b) /\ z \in Nat
    BY <1>2 DEF Wrote
  <2> HIDE DEF c, b, z
  <2>2. fs_read_file(c, z) = b
    BY <2>1, SpellsRead
  <2> QED BY <2>2 DEF c, b, z
<1> QED BY <1>1, <1>3 DEF Wrote

\* When all is written the clusters hold it.
LEMMA WrittenAll ==
    ASSUME TypeOK, NEW h, NEW z \in Nat, NEW n \in Nat, NEW w \in [1 .. n -> Clusters],
           Written(h, z, n, w), done = Len(arg), z <= n * ClusterBytes
    PROVE  n \in 0 .. NumClusters /\ z + Len(arg) <= n * ClusterBytes
<1>1. n \in 0 .. NumClusters
  BY WrittenFits DEF Written
<1>2. Len(arg) \in Nat /\ n * ClusterBytes \in Nat
  BY GeometryAssumption DEF TypeOK, TypeCall
<1>3. Len(arg) = IF n * ClusterBytes < z + Len(arg) THEN n * ClusterBytes - z ELSE Len(arg)
  BY DEF Written
<1> QED BY <1>1, <1>2, <1>3

LEMMA ReadCommit == ASSUME Readable, Commit PROVE ReadInv'
<1>1. /\ P' = P /\ UNCHANGED <<data, op, name, arg>> /\ at = "alloc" /\ at' = "return"
      /\ done = Len(arg) /\ pc = "alloc"
  BY DEF Commit, PutSlot, P, at, call
<1>2. CASE op # "write"
  BY <1>1, <1>2, ReadOther
<1>3. CASE op = "write" /\ r' # FS_OK
  BY <1>1, <1>3, ReadQuiet
<1>4. CASE op = "write" /\ r' = FS_OK
  <2>1. pos \in Slots /\ dir[pos].kind = "file" /\ dir[pos].name = name /\ dir \in Directory
    BY <1>1, <1>4 DEF Readable, DirInv, PosHeld, Running, TypeOK, TypeVolume
  <2>2. dir' = [dir EXCEPT ![pos] = [dir[pos] EXCEPT !.first = first, !.size = Len(arg)]]
    BY <1>1, <1>4 DEF Commit, PutSlot, Put, FS_OK, FS_ERR_IO, Outcomes
  <2>3. /\ dir'[pos].kind = "file" /\ dir'[pos].name = name'
        /\ dir'[pos].first = first /\ dir'[pos].size = Len(arg)
    BY <1>1, <2>1, <2>2 DEF Directory
  <2>5. PICK n \in Nat : \E w \in [1 .. n -> Clusters] : Written(first, 0, n, w)
    BY <1>1, <1>4 DEF Readable, ReadInv, WriteInv
  <2>6. PICK w \in [1 .. n -> Clusters] : Written(first, 0, n, w)
    BY <2>5
  <2>7. Spells(P, data, first, Len(arg), arg)
    <3>1. Len(arg) \in Nat /\ arg \in Seq(Bytes) /\ 0 + Len(arg) = Len(arg) /\ 0 \in Nat
          /\ 0 <= n * ClusterBytes
      BY GeometryAssumption DEF Readable, TypeOK, TypeCall
    <3>2. PICK h : h = first
      OBVIOUS
    <3>3. Written(h, 0, n, w)
      BY <2>6, <3>2
    <3>4. n \in 0 .. NumClusters /\ Len(arg) <= n * ClusterBytes
      BY <1>1, <3>1, <3>3, WrittenAll DEF Readable
    <3>5. ASSUME NEW k \in 1 .. n, NEW i \in 1 .. ClusterBytes, (k - 1) * ClusterBytes + i <= Len(arg)
          PROVE  data[w[k]][i] = arg[(k - 1) * ClusterBytes + i]
      <4>1. \A a \in 1 .. n, b \in 1 .. ClusterBytes :
               0 < (a - 1) * ClusterBytes + b /\ (a - 1) * ClusterBytes + b <= 0 + Len(arg) =>
                  data[w[a]][b] = arg[(a - 1) * ClusterBytes + b - 0]
        BY <3>3 DEF Written
      <4>2. data[w[k]][i] = arg[(k - 1) * ClusterBytes + i - 0]
        <5>1. 0 < (k - 1) * ClusterBytes + i /\ (k - 1) * ClusterBytes + i <= 0 + Len(arg)
          BY <3>1, <3>5, GeometryAssumption
        <5> QED BY <4>1, <5>1
      <4>3. (k - 1) * ClusterBytes + i - 0 = (k - 1) * ClusterBytes + i
        BY GeometryAssumption
      <4> QED BY <4>2, <4>3
    <3>6. Spelt(data, w, Len(arg)) = [i \in 1 .. Len(arg) |-> arg[i]]
      <4>1. \A k \in 1 .. n, i \in 1 .. ClusterBytes :
               (k - 1) * ClusterBytes + i <= Len(arg) =>
                  data[w[k]][i] = arg[(k - 1) * ClusterBytes + i]
        BY <3>5
      <4>2. Holds(data, n, w, Len(arg), arg)
        BY <3>1, <3>4, <4>1 DEF Holds
      <4> QED BY <4>2, SpeltIs
    <3>7. arg = [i \in 1 .. Len(arg) |-> arg[i]]
      BY <3>1
    <3> QED BY <2>6, <3>4, <3>6, <3>7 DEF Spells, Written
  <2>11. Wrote'
    <3>1. pos' = pos
      BY DEF Commit
    <3> QED BY <1>1, <2>1, <2>3, <2>7, <3>1 DEF Wrote
  <2> QED BY <1>1, <2>11 DEF ReadInv, WriteInv, NoneDone, MkdirOnly
<1> QED BY <1>2, <1>3, <1>4

LEMMA ReadEnding ==
    ASSUME NotMounted \/ Return \/ Abort \/ PowerLoss \/ fs_init
    PROVE  ReadInv'
<1>1. at' \in {"idle", "off"} \/ (at' = "return" /\ r' = FS_ERR_NOFS)
  BY DEF NotMounted, Return, Abort, PowerLoss, fs_init, at
<1>2. pc' \in {"idle", "off"} \/ r' # FS_OK
  BY DEF NotMounted, Return, Abort, PowerLoss, fs_init, FS_OK, FS_ERR_NOFS
<1> QED BY <1>1, <1>2, ReadQuiet

\* Nothing but the whole state matters to a stuttering step.
LEMMA ReadStutter == ASSUME Readable, UNCHANGED vars PROVE ReadInv'
<1>1. /\ UNCHANGED <<fat, dir, data, pc, op, name, arg, pos, new, prev, first, done, r>>
      /\ P' = P /\ at' = at
  BY DEF vars, P, at
<1>2. WriteInv'
  <2>1. \A n \in Nat : \A w \in [1 .. n -> Clusters] : Written(first, 0, n, w) => Written(first, 0, n, w)'
    BY <1>1 DEF Written
  <2> QED BY <1>1, <2>1 DEF Readable, ReadInv, WriteInv
<1>3. Wrote'
  BY <1>1 DEF Readable, ReadInv, Wrote
<1> QED BY <1>1, <1>2, <1>3 DEF Readable, ReadInv, NoneDone, MkdirOnly

LEMMA ReadNext ==
    ASSUME Readable, [Next]_vars
    PROVE  ReadInv'
<1>1. CASE UNCHANGED vars
  BY <1>1, ReadStutter
<1>2. CASE Step
  <2>1. CASE NextCopy \/ MkDots \/ MkEntry \/ MkFull
    BY <2>1, ReadMirror, ReadMkdir
  <2>2. CASE FreeOne \/ FreeDone \/ Alloc \/ Link \/ Unalloc
    BY <2>2, ReadFree, ReadAlloc, ReadLink, ReadUndone
  <2>3. CASE WriteData \/ Cleanup \/ Commit \/ Return
    BY <2>3, ReadWriteData, ReadUndone, ReadCommit, ReadEnding
  <2> QED BY <1>2, <2>1, <2>2, <2>3 DEF Step
<1>3. CASE Request
  <2>1. CASE NotMounted
    BY <2>1, ReadEnding
  <2>2. ASSUME NEW n \in Names, make_dir(n) \/ remove_dir(n) \/ fs_create_file(n)
        PROVE  ReadInv'
    BY <2>2, ReadMkdir, ReadRmdir, ReadCreate
  <2>3. ASSUME NEW n \in Names, NEW b \in Buffers, fs_write_file(n, b) \/ fs_append_file(n, b)
        PROVE  ReadInv'
    <3>1. b \in Seq(Bytes)
      BY CallerAssumption
    <3> QED BY <2>3, <3>1, ReadStartWrite, ReadAppend DEF fs_write_file
  <2> QED BY <1>3, <2>1, <2>2, <2>3 DEF Request
<1>4. CASE Abort \/ PowerLoss \/ fs_init
  BY <1>4, ReadEnding
<1> QED BY <1>1, <1>2, <1>3, <1>4 DEF Next

LEMMA ReadInit == Init => ReadInv
<1> SUFFICES ASSUME Init PROVE ReadInv
  OBVIOUS
<1>1. at = "off" /\ pc = "off"
  BY DEF Init, at
<1> QED BY <1>1 DEF ReadInv, WriteInv, NoneDone, MkdirOnly, Wrote

\* What fs_write_file reports as written is what fs_read_file returns, whatever
\* was written, aborted or lost before: the clusters a write fills are those the
\* entry's chain visits, in the order it visits them.
THEOREM WrittenIsRead ==
    ASSUME WriteFaults => Ops \cap {"append", "rmdir"} = {}
    PROVE  Spec => []WriteIsRead
<1>0. TypeOK /\ DirInv /\ ReadInv => WriteIsRead
  BY ReadWhole DEF ReadInv
<1>1. CASE WriteFaults
  <2>1. Init => TypeOK /\ DirInv /\ FaultInv /\ ReadInv
    BY TypeInit, DirInit, FaultInit, ReadInit
  <2>2. TypeOK /\ DirInv /\ FaultInv /\ ReadInv /\ [Next]_vars => TypeOK' /\ DirInv' /\ FaultInv' /\ ReadInv'
    BY <1>1, TypeNext, DirNext, FaultNext, ReadNext, GroundFaults DEF Readable
  <2> QED BY <1>0, <2>1, <2>2, PTL DEF Spec
<1>2. CASE ~WriteFaults
  <2>0. WriteFaults = FALSE
    BY <1>2, CallerAssumption
  <2>1. Init => TypeOK /\ ChainsInv /\ DirInv /\ LeakInv /\ ReadInv
    BY TypeInit, InitChains, DirInit, LeakInit, ReadInit
  <2>2. TypeOK /\ ChainsInv /\ DirInv /\ LeakInv /\ ReadInv /\ [Next]_vars
        => TypeOK' /\ ChainsInv' /\ DirInv' /\ LeakInv' /\ ReadInv'
    BY <2>0, TypeNext, ChainsNext, DirNext, LeakNext, ReadNext, GroundChains DEF Readable
  <2> QED BY <1>0, <2>1, <2>2, PTL DEF Spec
<1> QED BY <1>1, <1>2

-----------------------------------------------------------------------------
(* The clusters of a chain, in order.                                      *)

\* Where no two clusters lead to the same one, and none to the first, none comes twice.
LEMMA ListInjective ==
    ASSUME NEW Q, \A c, d \in Clusters : Q[c] = Q[d] /\ Q[c] \in Clusters => c = d,
           NEW h, \A x \in Clusters : Q[x] # h,
           NEW n \in Nat, NEW w \in [1 .. n -> Clusters], Lists(Q, h, n, w)
    PROVE  \A j, k \in 1 .. n : w[j] = w[k] => j = k
<1> DEFINE S == {j \in 1 .. n : \E k \in 1 .. n : j < k /\ w[j] = w[k]}
<1>1. ASSUME S # {} PROVE FALSE
  <2>1. PICK j \in S : \A i \in S : j <= i
    <3>1. S \subseteq Nat
      OBVIOUS
    <3> HIDE DEF S
    <3> QED BY <1>1, <3>1, Least
  <2>2. PICK k \in 1 .. n : j < k /\ w[j] = w[k]
    OBVIOUS
  <2>3. k - 1 \in 1 .. n - 1 /\ k - 1 \in 1 .. n /\ Q[w[k - 1]] = w[k] /\ j \in 1 .. n
    <3>1. k - 1 \in 1 .. n - 1 /\ k - 1 \in 1 .. n /\ (k - 1) + 1 = k
      BY <2>2
    <3> QED BY <3>1 DEF Lists
  <2>4. CASE j = 1
    BY <2>2, <2>3, <2>4 DEF Lists
  <2>5. CASE j # 1
    <3>1. j - 1 \in 1 .. n - 1 /\ j - 1 \in 1 .. n /\ (j - 1) + 1 = j /\ j - 1 < k - 1
      BY <2>2, <2>3, <2>5
    <3>2. Q[w[j - 1]] = w[j] /\ w[j] \in Clusters /\ w[j - 1] \in Clusters /\ w[k - 1] \in Clusters
      BY <2>3, <3>1 DEF Lists
    <3>3. w[j - 1] = w[k - 1]
      BY <2>2, <2>3, <3>2
    <3>4. j - 1 \in S
      BY <2>3, <3>1, <3>3
    <3> QED BY <2>1, <2>3, <3>4
  <2> QED BY <2>4, <2>5
<1>2. ASSUME NEW j \in 1 .. n, NEW k \in 1 .. n, w[j] = w[k] PROVE j = k
  <2>1. ~(j < k) /\ ~(k < j)
    BY <1>1, <1>2
  <2> QED BY <2>1
<1> QED BY <1>2

\* Then there is a list of all the clusters of the chain.
LEMMA ListExists ==
    ASSUME NEW Q, \A c, d \in Clusters : Q[c] = Q[d] /\ Q[c] \in Clusters => c = d,
           NEW h \in Clusters, \A x \in Clusters : Q[x] # h
    PROVE  \E n \in 1 .. NumClusters : \E w \in [1 .. n -> Clusters] :
              /\ Lists(Q, h, n, w) /\ Q[w[n]] \notin Clusters
              /\ \A k \in 1 .. n : w[k] \in Along(Q, h)
              /\ \A d \in Along(Q, h) : \E k \in 1 .. n : w[k] = d
              /\ n = Cardinality(Along(Q, h))
<1> DEFINE T == {n \in Nat \ {0} : ~ \E w \in [1 .. n -> Clusters] : Lists(Q, h, n, w)}
<1>0. NumClusters \in Nat
  BY GeometryAssumption
<1>1. NumClusters + 1 \in T
  <2>1. ASSUME NEW w \in [1 .. NumClusters + 1 -> Clusters], Lists(Q, h, NumClusters + 1, w) PROVE FALSE
    <3>1. NumClusters + 1 \in Nat
      BY <1>0
    <3>2. \A j, k \in 1 .. NumClusters + 1 : w[j] = w[k] => j = k
      BY <2>1, <3>1, ListInjective
    <3>3. NumClusters + 1 \in 0 .. NumClusters
      BY <3>1, <3>2, WrittenFits
    <3> QED BY <1>0, <3>3
  <2> QED BY <1>0, <2>1
<1>2. PICK m \in T : \A k \in T : m <= k
  <2>1. T \subseteq Nat /\ T # {}
    BY <1>1
  <2> HIDE DEF T
  <2> QED BY <2>1, Least
<1>3. m \in Nat /\ m # 0 /\ m <= NumClusters + 1
  BY <1>1, <1>2
<1>4. m # 1
  <2>1. PICK w : w = [k \in 1 .. 1 |-> h]
    OBVIOUS
  <2>2. w \in [1 .. 1 -> Clusters] /\ Lists(Q, h, 1, w)
    BY <2>1 DEF Lists
  <2> QED BY <1>2, <2>2
<1>5. PICK n : n = m - 1
  OBVIOUS
<1>6. n \in Nat /\ n # 0 /\ n + 1 = m /\ n \in 1 .. NumClusters /\ n \notin T
  BY <1>0, <1>2, <1>3, <1>4, <1>5
<1>7. PICK w \in [1 .. n -> Clusters] : Lists(Q, h, n, w)
  BY <1>6
<1>8. Q[w[n]] \notin Clusters
  <2> SUFFICES ASSUME Q[w[n]] \in Clusters PROVE FALSE
    OBVIOUS
  <2>1. PICK v : v = [k \in 1 .. m |-> IF k = m THEN Q[w[n]] ELSE w[k]]
    OBVIOUS
  <2>2. \A k \in 1 .. m : k = m \/ k \in 1 .. n
    BY <1>6
  <2>3. v \in [1 .. m -> Clusters] /\ \A k \in 1 .. n : v[k] = w[k] /\ k \in 1 .. m
    BY <1>6, <2>1, <2>2
  <2>4. v[1] = h
    BY <1>6, <1>7, <2>3 DEF Lists
  <2>5. ASSUME NEW k \in 1 .. m - 1 PROVE Q[v[k]] = v[k + 1]
    <3>1. k \in 1 .. n
      BY <1>6
    <3>2. CASE k = n
      BY <1>6, <2>1, <2>3, <3>1, <3>2
    <3>3. CASE k # n
      <4>1. k \in 1 .. n - 1 /\ k + 1 \in 1 .. n
        BY <1>6, <3>1, <3>3
      <4> QED BY <1>7, <2>3, <3>1, <4>1 DEF Lists
    <3> QED BY <3>2, <3>3
  <2>6. Lists(Q, h, m, v)
    BY <2>4, <2>5 DEF Lists
  <2> QED BY <1>2, <2>3, <2>6
<1> HIDE DEF T
<1>9. ASSUME NEW k \in 1 .. n PROVE w[k] \in Along(Q, h)
  <2> DEFINE S == {j \in 1 .. n : w[j] \notin Along(Q, h)}
  <2> SUFFICES ASSUME S # {} PROVE FALSE
    OBVIOUS
  <2>1. PICK j \in S : \A i \in S : j <= i
    <3>1. S \subseteq Nat
      OBVIOUS
    <3> HIDE DEF S
    <3> QED BY <3>1, Least
  <2>2. j # 1
    BY <1>7, <2>1, AlongHas DEF Lists
  <2>3. j - 1 \in 1 .. n - 1 /\ j - 1 \in 1 .. n /\ (j - 1) + 1 = j /\ j - 1 \notin S
    BY <1>6, <2>1, <2>2
  <2>4. w[j - 1] \in Along(Q, h) /\ Q[w[j - 1]] = w[j] /\ w[j] \in Clusters
    BY <1>7, <2>1, <2>3 DEF Lists
  <2> QED BY <2>1, <2>4, AlongClosed DEF Closed
<1>10. Along(Q, h) \subseteq {w[k] : k \in 1 .. n}
  <2> DEFINE S == {w[k] : k \in 1 .. n}
  <2>1. S \in SUBSET Clusters
    OBVIOUS
  <2>2. ASSUME NEW x \in S, Q[x] \in Clusters PROVE Q[x] \in S
    <3>1. PICK k \in 1 .. n : x = w[k]
      OBVIOUS
    <3>2. k # n
      BY <1>8, <2>2, <3>1
    <3>3. k \in 1 .. n - 1 /\ k + 1 \in 1 .. n
      BY <1>6, <3>1, <3>2
    <3> QED BY <1>7, <3>1, <3>3 DEF Lists
  <2>3. h \in S
    BY <1>6, <1>7 DEF Lists
  <2> HIDE DEF S
  <2>4. Closed(Q, S)
    BY <2>2 DEF Closed
  <2>5. Along(Q, h) \subseteq S
    BY <2>1, <2>3, <2>4, AlongLeast
  <2> QED BY <2>5 DEF S
<1>11. n = Cardinality(Along(Q, h))
  <2>1. \A j, k \in 1 .. n : w[j] = w[k] => j = k
    <3>1. n \in Nat /\ w \in [1 .. n -> Clusters] /\ Lists(Q, h, n, w)
      BY <1>6, <1>7
    <3>2. \A c, d \in Clusters : Q[c] = Q[d] /\ Q[c] \in Clusters => c = d
      OBVIOUS
    <3>3. \A x \in Clusters : Q[x] # h
      OBVIOUS
    <3> QED BY <3>1, <3>2, <3>3, ListInjective
  <2>2. w \in Bijection(1 .. n, Along(Q, h))
    <3> DEFINE S == Along(Q, h)
    <3>1. \A k \in 1 .. n : w[k] \in S
      BY <1>9
    <3>2. S \subseteq {w[k] : k \in 1 .. n}
      BY <1>10
    <3> HIDE DEF S
    <3>3. w \in [1 .. n -> S]
      BY <3>1
    <3>4. w \in Injection(1 .. n, S) /\ w \in Surjection(1 .. n, S)
      BY <2>1, <3>2, <3>3 DEF Injection, Surjection, IsInjective
    <3> QED BY <3>4 DEF Bijection, S
  <2>3. ExistsBijection(1 .. n, Along(Q, h))
    BY <2>2 DEF ExistsBijection
  <2>4. IsFiniteSet(1 .. n) /\ Cardinality(1 .. n) = n
    BY <1>6, CountedTo
  <2> QED BY <2>2, <2>3, <2>4, FS_Bijection
<1>12. \A d \in Along(Q, h) : \E k \in 1 .. n : w[k] = d
  BY <1>10
<1> QED BY <1>6, <1>7, <1>8, <1>9, <1>11, <1>12

-----------------------------------------------------------------------------
(* The volume as a program sees it, when writes do not fail.               *)

Sure == Grounded /\ WriteFaults = FALSE

FileSlot(s) == s \in Slots /\ dir[s].kind = "file"

\* The clusters w[1..n] are a file's, and as many as its size needs.
ListsFile(s, n, w) == /\ Lists(P, dir[s].first, n, w) /\ dir[s].size <= n * ClusterBytes
                      /\ \A k \in 1 .. n : w[k] \in Along(P, dir[s].first)

Listed == \A s : FileSlot(s) => \E n \in 0 .. NumClusters : \E w \in [1 .. n -> Clusters] : ListsFile(s, n, w)

\* The clusters of a chain are as many as the size needs, also while a call builds.
LEMMA BigEnough ==
    ASSUME Sure, NEW s, FileSlot(s)
    PROVE  dir[s].size <= Cardinality(Along(P, dir[s].first)) * ClusterBytes
<1>1. CASE ~Exempt(s)
  BY <1>1 DEF Sure, Grounded, SizeInv, EntrySizes, Fits, FileSlot
<1>2. CASE Exempt(s)
  <2>1. op = "append" /\ s = pos /\ Running
    BY <1>2 DEF Exempt
  <2>2. Building \/ at = "free"
    <3>1. at \in Returns \cup {"mkEntry", "alloc", "unalloc"}
      BY <2>1 DEF at, Running, Sure, Grounded, TypeOK, TypeFlow, Job
    <3>2. at \notin {"mkDots", "mkEntry", "full"}
      BY <2>1 DEF Sure, Grounded, SizeInv, MkdirOnly
    <3> QED BY <3>1, <3>2 DEF Returns, Building
  <2>3. CASE at = "free"
    BY <2>1, <2>3 DEF Sure, Grounded, SizeInv, FreeSize, Fits
  <2>4. CASE Building
    <3> DEFINE A == Along(P, dir[s].first)
               B == A \ Along(P, P[last])
    <3>1. Fits(dir[s].size, Cardinality(B))
      BY <2>1, <2>4 DEF Sure, Grounded, SizeInv, OldSize
    <3>2. A \subseteq Clusters /\ B \subseteq A /\ IsFiniteSet(A)
      BY AlongClosed, Finite
    <3> HIDE DEF A, B
    <3>3. Cardinality(B) \in Nat /\ Cardinality(A) \in Nat /\ Cardinality(B) <= Cardinality(A)
      BY <3>2, FS_Subset, FS_CardinalityType
    <3>4. dir[s].size \in Nat /\ ClusterBytes \in Nat
      BY GeometryAssumption DEF Sure, Grounded, TypeOK, TypeVolume, Directory, FileSlot
    <3>5. Cardinality(B) * ClusterBytes <= Cardinality(A) * ClusterBytes
      BY <3>3, <3>4
    <3>6. dir[s].size <= Cardinality(B) * ClusterBytes
      BY <3>1 DEF Fits
    <3>7. Cardinality(B) * ClusterBytes \in Nat /\ Cardinality(A) * ClusterBytes \in Nat
      BY <3>3, <3>4
    <3> QED BY <3>4, <3>5, <3>6, <3>7 DEF A
  <2> QED BY <2>2, <2>3, <2>4
<1> QED BY <1>1, <1>2

\* Every file has its list of clusters, as many as its size needs.
LEMMA AllListed == Sure => Listed
<1> SUFFICES ASSUME Sure, NEW s, FileSlot(s)
             PROVE  \E n \in 0 .. NumClusters : \E w \in [1 .. n -> Clusters] : ListsFile(s, n, w)
  BY DEF Listed
<1> DEFINE h == dir[s].first
<1>1. dir[s].size <= Cardinality(Along(P, h)) * ClusterBytes
  BY BigEnough
<1>2. h \in {0} \cup Clusters /\ dir[s].size \in Nat
  BY DEF Sure, Grounded, TypeOK, TypeVolume, Directory, FileSlot
<1>3. CASE h = 0
  <2>1. Along(P, h) = {}
    BY <1>3, AlongNone, Primary DEF Sure, Grounded
  <2>2. dir[s].size <= 0 * ClusterBytes
    BY <1>1, <2>1, FS_EmptySet
  <2>3. ListsFile(s, 0, [k \in 1 .. 0 |-> 0])
    BY <2>2 DEF ListsFile, Lists
  <2>4. [k \in 1 .. 0 |-> 0] \in [1 .. 0 -> Clusters] /\ 0 \in 0 .. NumClusters
    BY GeometryAssumption
  <2> QED BY <2>3, <2>4
<1>4. CASE h # 0
  <2>1. s \in Heads
    BY <1>4 DEF Heads, Live, FileSlot
  <2>2. NoCrossLink
    BY DEF Sure, Grounded, Ground
  <2>3. \A c, d \in Clusters : P[c] = P[d] /\ P[c] \in Clusters => c = d
    BY <2>2 DEF NoCrossLink, P
  <2>4. \A x \in Clusters : P[x] # h
    BY <2>1, <2>2 DEF NoCrossLink, P
  <2>5. h \in Clusters
    BY <1>2, <1>4
  <2>6. PICK n \in 1 .. NumClusters : \E w \in [1 .. n -> Clusters] :
           Lists(P, h, n, w) /\ (\A k \in 1 .. n : w[k] \in Along(P, h)) /\ n = Cardinality(Along(P, h))
    <3> HIDE DEF h
    <3> QED BY <2>3, <2>4, <2>5, ListExists
  <2> QED BY <1>1, <2>6, GeometryAssumption DEF ListsFile
<1> QED BY <1>3, <1>4

\* What a file's slot shows to a reader.
Shows(s, b) == Spells(P, data, dir[s].first, dir[s].size, b)

View ==
    /\ \A n : n \in FileNames <=> n \in Names /\ \E s : FileSlot(s) /\ dir[s].name = n
    /\ \A s, b : FileSlot(s) /\ dir[s].name \in Names /\ Shows(s, b) => FileContents[dir[s].name] = b
    /\ FileContents = [n \in Names |-> FileContents[n]]
    /\ \A n \in Names : n \notin FileNames => FileContents[n] = <<>>
    /\ \A s, t : FileSlot(s) /\ FileSlot(t) /\ dir[s].name = dir[t].name => s = t
    /\ DirCounts = [n \in Names |-> Cardinality({s \in Slots : dir[s].kind = "dir" /\ dir[s].name = n})]

LEMMA LiveScanned ==
    ASSUME DirInv, NEW s \in Slots, Live(dir[s])
    PROVE  Scanned(s)
<1>1. NumSlots \in Nat
  BY GeometryAssumption
<1>2. \A t \in Slots : t \in Nat /\ s \in Nat /\ (t <= s => t = s \/ t < s)
  BY <1>1 DEF Slots
<1> QED BY <1>2 DEF DirInv, EndMarker, Scanned, Live

\* What a program reads of a file is what its list of clusters spells.
LEMMA ViewIs == Sure => View
<1> SUFFICES ASSUME Sure PROVE View
  OBVIOUS
<1>0. DirInv /\ TypeOK /\ NumSlots \in Nat
  BY GeometryAssumption DEF Sure, Grounded
<1>1. ASSUME NEW s, FileSlot(s) PROVE Files(dir[s].name) = {s}
  BY <1>0, <1>1, OnlyFile DEF FileSlot
<1>2. ASSUME NEW n, n \in Names
      PROVE  n \in FileNames <=> \E s : FileSlot(s) /\ dir[s].name = n
  <2>1. ASSUME NEW s \in Files(n) PROVE FileSlot(s) /\ dir[s].name = n
    BY DEF Files, Hits, FileSlot
  <2>2. ASSUME NEW s, FileSlot(s), dir[s].name = n PROVE Files(n) # {}
    BY <1>1, <2>2
  <2> QED BY <1>2, <2>1, <2>2 DEF FileNames
<1>3. ASSUME NEW s, NEW b, FileSlot(s), dir[s].name \in Names, Shows(s, b)
      PROVE  FileContents[dir[s].name] = b
  <2>1. Files(dir[s].name) = {s}
    BY <1>1, <1>3
  <2>2. fs_read_file(dir[s].first, dir[s].size) = b
    <3>1. PICK c, z : c = dir[s].first /\ z = dir[s].size
      OBVIOUS
    <3>2. z \in Nat /\ Spells(P, data, c, z, b)
      BY <1>0, <1>3, <3>1 DEF Shows, TypeOK, TypeVolume, Directory, FileSlot
    <3>3. fs_read_file(c, z) = b
      BY <3>2, SpellsRead
    <3> QED BY <3>1, <3>3
  <2>3. Contents(dir[s].name) = b
    <3>1. (CHOOSE t \in {s} : TRUE) = s
      OBVIOUS
    <3> QED BY <2>1, <2>2, <3>1 DEF Contents
  <2> QED BY <1>3, <2>3 DEF FileContents
<1>4. ASSUME NEW n \in Names, n \notin FileNames PROVE FileContents[n] = <<>>
  BY <1>4 DEF FileNames, FileContents, Contents
<1>5. ASSUME NEW n \in Names
      PROVE  {s \in Slots : dir[s].kind = "dir" /\ dir[s].name = n /\ Scanned(s)}
               = {s \in Slots : dir[s].kind = "dir" /\ dir[s].name = n}
  BY <1>0, LiveScanned DEF Live
<1>6. \A s, t : FileSlot(s) /\ FileSlot(t) /\ dir[s].name = dir[t].name => s = t
  BY <1>0 DEF DirInv, UniqueFileNames, FileSlot
<1>7. DirCounts = [n \in Names |-> Cardinality({s \in Slots : dir[s].kind = "dir" /\ dir[s].name = n})]
  BY <1>5 DEF DirCounts
<1>8. FileContents = [n \in Names |-> FileContents[n]]
  BY DEF FileContents
<1>9. \A n : n \in FileNames <=> n \in Names /\ \E s : FileSlot(s) /\ dir[s].name = n
  BY <1>2 DEF FileNames
<1>10. \A s, b : FileSlot(s) /\ dir[s].name \in Names /\ Shows(s, b) => FileContents[dir[s].name] = b
  BY <1>3
<1> QED BY <1>4, <1>6, <1>7, <1>8, <1>9, <1>10 DEF View

LEMMA ViewNow == /\ Sure => Listed /\ View
                 /\ Sure' => Listed' /\ View'
BY AllListed, ViewIs, PTL

\* Every file shows something.
LEMMA Showing ==
    ASSUME Listed, NEW s, FileSlot(s)
    PROVE  \E b : Shows(s, b)
BY DEF Listed, ListsFile, Shows, Spells

-----------------------------------------------------------------------------
(* Steps that a program sees nothing of.                                   *)

\* Every file shows after the step what it showed before.
Steady == UNCHANGED dir /\ \A s : FileSlot(s) => \E b : Shows(s, b) /\ Shows(s, b)'

Sees == [Store!Next]_(Store!fsvars)

\* A step that every file shows the same before and after is not seen.
LEMMA SteadyView ==
    ASSUME Sure, Sure', Steady
    PROVE  UNCHANGED <<FileNames, FileContents, DirCounts>>
<1>1. View /\ View' /\ dir' = dir
  BY ViewNow DEF Steady
<1>2. FileNames' = FileNames
  <2>1. \A n : n \in FileNames <=> n \in FileNames'
    BY <1>1 DEF View, FileSlot
  <2>2. FileNames \subseteq Names /\ FileNames' \subseteq Names
    BY DEF FileNames
  <2> QED BY <2>1, <2>2
<1>3. \A n \in Names : FileContents'[n] = FileContents[n]
  <2> TAKE n \in Names
  <2>1. CASE n \in FileNames
    <3>1. PICK s : FileSlot(s) /\ dir[s].name = n
      BY <1>1, <2>1 DEF View
    <3>2. PICK b : Shows(s, b) /\ Shows(s, b)'
      BY <3>1 DEF Steady
    <3>3. FileSlot(s)'
      BY <1>1, <3>1 DEF FileSlot
    <3> QED BY <1>1, <3>1, <3>2, <3>3 DEF View
  <2>2. CASE n \notin FileNames
    BY <1>1, <1>2, <2>2 DEF View
  <2> QED BY <2>1, <2>2
<1>4. FileContents' = FileContents
  <2>1. /\ FileContents = [n \in Names |-> FileContents[n]]
        /\ FileContents' = [n \in Names |-> FileContents'[n]]
    BY <1>1 DEF View
  <2> HIDE DEF FileContents
  <2> QED BY <1>3, <2>1
<1>5. DirCounts' = DirCounts
  BY <1>1 DEF View
<1> QED BY <1>2, <1>4, <1>5

\* If it also leaves the write under way alone, or ends it, it is a step of FileStore.
LEMMA SteadySees ==
    ASSUME Sure, Sure', Steady, Writing' \in {Writing, Store!Nobody}
    PROVE  Sees
<1>1. UNCHANGED <<FileNames, FileContents, DirCounts>>
  BY SteadyView
<1>2. CASE Writing' = Writing
  BY <1>1, <1>2 DEF Sees, Store!fsvars
<1>3. CASE Writing' = Store!Nobody /\ Writing # Store!Nobody
  <2>1. Store!GiveUp
    BY <1>1, <1>3 DEF Store!GiveUp, Store!Idle
  <2> QED BY <2>1 DEF Sees, Store!Next
<1> QED BY <1>2, <1>3

\* An entry of the table is written that did not lead anywhere, or does not any more.
LEMMA SteadyTable ==
    ASSUME Sure, Sure', UNCHANGED <<dir, data>>, NEW c, Differ(P, P', c),
           c \in Clusters => P[c] \notin Clusters \/ P'[c] \notin Clusters
    PROVE  Steady
<1>1. Listed /\ Listed'
  BY ViewNow
<1> SUFFICES ASSUME NEW s, FileSlot(s) PROVE \E b : Shows(s, b) /\ Shows(s, b)'
  BY DEF Steady
<1>2. ASSUME NEW Q, NEW R, NEW h, NEW z, Differ(Q, R, c), c \in Clusters => R[c] \notin Clusters,
             NEW n \in 0 .. NumClusters, NEW w \in [1 .. n -> Clusters], Lists(R, h, n, w)
      PROVE  Lists(Q, h, n, w)
  <2>1. NumClusters \in Nat
    BY GeometryAssumption
  <2>2. ASSUME NEW k \in 1 .. n - 1 PROVE Q[w[k]] = w[k + 1]
    <3>1. k \in 1 .. n /\ k + 1 \in 1 .. n
      BY <2>1
    <3> QED BY <1>2, <2>2, <3>1 DEF Lists, Differ
  <2> QED BY <1>2, <2>2 DEF Lists
<1>3. Differ(P', P, c)
  BY DEF Differ
<1> DEFINE h == dir[s].first
           z == dir[s].size
<1>4. \E n \in 0 .. NumClusters : \E w \in [1 .. n -> Clusters] :
         Lists(P, h, n, w) /\ Lists(P', h, n, w) /\ z <= n * ClusterBytes
  <2>1. CASE c \in Clusters => P[c] \notin Clusters
    <3>1. PICK n \in 0 .. NumClusters : \E w \in [1 .. n -> Clusters] : ListsFile(s, n, w)
      BY <1>1 DEF Listed
    <3>2. PICK w \in [1 .. n -> Clusters] : ListsFile(s, n, w)
      BY <3>1
    <3>3. Lists(P, h, n, w) /\ z <= n * ClusterBytes
      BY <3>2 DEF ListsFile
    <3> HIDE DEF h, z
    <3>4. Lists(P', h, n, w)
      BY <1>2, <1>3, <2>1, <3>3
    <3> QED BY <3>3, <3>4
  <2>2. CASE c \in Clusters => P'[c] \notin Clusters
    <3>0. FileSlot(s)'
      BY DEF FileSlot
    <3>1. PICK n \in 0 .. NumClusters : \E w \in [1 .. n -> Clusters] : ListsFile(s, n, w)'
      BY <1>1, <3>0 DEF Listed
    <3>2. PICK w \in [1 .. n -> Clusters] : ListsFile(s, n, w)'
      BY <3>1
    <3>3. Lists(P', h, n, w) /\ z <= n * ClusterBytes
      BY <3>2 DEF ListsFile
    <3> HIDE DEF h, z
    <3>4. Lists(P, h, n, w)
      BY <1>2, <2>2, <3>3
    <3> QED BY <3>3, <3>4
  <2> QED BY <2>1, <2>2
<1>5. PICK n \in 0 .. NumClusters : \E w \in [1 .. n -> Clusters] :
         Lists(P, h, n, w) /\ Lists(P', h, n, w) /\ z <= n * ClusterBytes
  BY <1>4
<1>6. PICK w \in [1 .. n -> Clusters] : Lists(P, h, n, w) /\ Lists(P', h, n, w) /\ z <= n * ClusterBytes
  BY <1>5
<1>7. Spells(P, data, h, z, Spelt(data, w, z)) /\ Spells(P', data, h, z, Spelt(data, w, z))
  BY <1>6 DEF Spells
<1> QED BY <1>7 DEF Shows

\* Nothing is written.
LEMMA SteadyNone ==
    ASSUME Sure, UNCHANGED <<dir, data>>, P' = P
    PROVE  Steady
<1>1. Listed
  BY ViewNow
<1> QED BY <1>1, Showing DEF Steady, Shows

\* What is written to a cluster is behind the bytes of every file: on no list of
\* theirs, or in the last cluster of one.
Alike(D, E, n, w, z) ==
    /\ n \in Nat /\ z \in Nat /\ z <= n * ClusterBytes
    /\ \A k \in 1 .. n, i \in 1 .. ClusterBytes :
          (k - 1) * ClusterBytes + i <= z => E[w[k]][i] = D[w[k]][i]

LEMMA SpeltSame ==
    ASSUME NEW D, NEW E, NEW n, NEW w, NEW z, Alike(D, E, n, w, z)
    PROVE  Spelt(E, w, z) = Spelt(D, w, z)
<1>2. ASSUME NEW p \in 1 .. z
      PROVE  E[w[((p - 1) \div ClusterBytes) + 1]][((p - 1) % ClusterBytes) + 1]
               = D[w[((p - 1) \div ClusterBytes) + 1]][((p - 1) % ClusterBytes) + 1]
  <2> DEFINE q == ((p - 1) \div ClusterBytes) + 1
             m == ((p - 1) % ClusterBytes) + 1
  <2>1. p \in Nat \ {0} /\ p <= z /\ p <= n * ClusterBytes
    <3>1. n * ClusterBytes \in Nat
      BY GeometryAssumption DEF Alike
    <3> QED BY <3>1 DEF Alike
  <2>2. q \in 1 .. n /\ m \in 1 .. ClusterBytes /\ (q - 1) * ClusterBytes + m = p
    BY <2>1, Place DEF Alike
  <2> HIDE DEF q, m
  <2>3. E[w[q]][m] = D[w[q]][m]
    BY <2>1, <2>2 DEF Alike
  <2> QED BY <2>3 DEF q, m
<1> QED BY <1>2 DEF Spelt

\* The step leaves the bytes of the file in slot s, at the clusters w[1..n], alone.
Keeps(s, n, w) ==
    /\ Lists(P, dir[s].first, n, w) /\ dir[s].size <= n * ClusterBytes
    /\ \A k \in 1 .. n, i \in 1 .. ClusterBytes :
          (k - 1) * ClusterBytes + i <= dir[s].size => data'[w[k]][i] = data[w[k]][i]

LEMMA SteadyFile ==
    ASSUME UNCHANGED dir, P' = P, NEW s, FileSlot(s), TypeOK,
           NEW n \in 0 .. NumClusters, NEW w \in [1 .. n -> Clusters], Keeps(s, n, w)
    PROVE  \E b : Shows(s, b) /\ Shows(s, b)'
<1>1. PICK z : z = dir[s].size
  OBVIOUS
<1>2. z \in Nat /\ n \in Nat
  BY <1>1, GeometryAssumption DEF TypeOK, TypeVolume, Directory, FileSlot
<1>3. Alike(data, data', n, w, z)
  BY <1>1, <1>2 DEF Alike, Keeps
<1>4. Spelt(data', w, z) = Spelt(data, w, z)
  BY <1>3, SpeltSame
<1> QED BY <1>1, <1>4 DEF Shows, Spells, Keeps

\* A cluster on no file's chain is written.
LEMMA SteadyData ==
    ASSUME Sure, UNCHANGED dir, P' = P, NEW c, NEW v, data' = [data EXCEPT ![c] = v],
           NEW S, \A s : FileSlot(s) /\ s \notin S => c \notin Along(P, dir[s].first),
           \A s \in S : FileSlot(s) => \E b : Shows(s, b) /\ Shows(s, b)'
    PROVE  Steady
<1>1. Listed /\ TypeOK
  BY ViewNow DEF Sure, Grounded
<1>2. ASSUME NEW s, FileSlot(s), s \notin S PROVE \E b : Shows(s, b) /\ Shows(s, b)'
  <2>1. PICK n \in 0 .. NumClusters : \E w \in [1 .. n -> Clusters] : ListsFile(s, n, w)
    BY <1>1, <1>2 DEF Listed
  <2>2. PICK w \in [1 .. n -> Clusters] : ListsFile(s, n, w)
    BY <2>1
  <2>3. \A k \in 1 .. n : data'[w[k]] = data[w[k]]
    BY <1>1, <1>2, <2>2 DEF ListsFile, TypeOK, TypeVolume
  <2> QED BY <1>1, <1>2, <2>2, <2>3, SteadyFile DEF ListsFile, Keeps
<1> QED BY <1>2 DEF Steady

-----------------------------------------------------------------------------
(* What an append has appended.                                            *)

Appended(h, z) == \E n \in Nat \ {0} : \E w \in [1 .. n -> Clusters] :
                     z <= n * ClusterBytes /\ Written(h, z, n, w)

AppendInv == op = "append" /\ at \in {"alloc", "link", "data"} =>
                \E h, z : h = dir[pos].first /\ z = dir[pos].size /\ Appended(h, z)

CallHeld == Running => name \in Names /\ (op \in {"write", "append"} => arg \in Buffers)

LEMMA AppendQuiet ==
    ASSUME op' # "append" \/ at' \notin {"alloc", "link", "data"}
    PROVE  AppendInv'
BY DEF AppendInv

LEMMA AppendTail ==
    ASSUME Sure, at \in {"alloc", "link", "data"}, NEW h, NEW z, NEW n \in Nat \ {0},
           NEW w \in [1 .. n -> Clusters], Written(h, z, n, w)
    PROVE  prev \in Clusters /\ P[prev] = IF at = "data" THEN new ELSE EOC
<1>1. prev = w[n] /\ n \in 1 .. n
  BY DEF Written
<1>2. prev \in Clusters /\ prev # 0
  BY <1>1, Primary DEF Sure, Grounded
<1> QED BY <1>2 DEF Sure, Grounded, Ground, Own

\* A step of an append that goes on from where one stands.
LEMMA AppendStep ==
    ASSUME AppendInv, UNCHANGED <<dir, op, pos>>,
           op = "append" /\ at' \in {"alloc", "link", "data"} => at \in {"alloc", "link", "data"},
           \A h, z : op = "append" /\ z = dir[pos].size /\ Appended(h, z) => Appended(h, z)'
    PROVE  AppendInv'
BY DEF AppendInv

LEMMA AppendMirror == ASSUME Sure, AppendInv, NextCopy PROVE AppendInv'
<1>1. /\ P' = P /\ at' = at
      /\ UNCHANGED <<dir, data, op, arg, pos, new, prev, first, done>>
  BY MirrorAny DEF NextCopy, call, chain, Sure, Grounded
<1>2. \A h, z : Appended(h, z) => Appended(h, z)'
  BY <1>1 DEF Appended, Written
<1> QED BY <1>1, <1>2, AppendStep

LEMMA AppendAlloc == ASSUME Sure, AppendInv, Alloc PROVE AppendInv'
<1>1. UNCHANGED <<dir, data, op, pos, arg, prev, first, done>> /\ at = "alloc" /\ done < Len(arg)
  BY DEF Alloc, call, at
<1>2. CASE pc' = "fail"
  BY <1>2, AppendQuiet DEF at
<1>3. ASSUME NEW c \in Clusters, IsFirstFree(c), fat_set_entry(c, EOC, "link"), new' = c
      PROVE  AppendInv'
  <2>1. P[c] = FREE /\ TypeOK
    BY <1>3 DEF IsFirstFree, P, Sure, Grounded
  <2>2. P' = [P EXCEPT ![c] = EOC] /\ at' = "link"
    <3>1. /\ c \in {0} \cup Clusters /\ EOC \in {FREE, EOC} \cup Clusters /\ "link" \in Returns
      BY DEF Returns
    <3> QED BY <1>3, <3>1, SetAny DEF Sure, Grounded
  <2>3. ASSUME NEW h, NEW z, Appended(h, z) PROVE Appended(h, z)'
    <3>1. PICK n \in Nat \ {0} : \E w \in [1 .. n -> Clusters] : z <= n * ClusterBytes /\ Written(h, z, n, w)
      BY <2>3 DEF Appended
    <3>2. PICK w \in [1 .. n -> Clusters] : z <= n * ClusterBytes /\ Written(h, z, n, w)
      BY <3>1
    <3>3. P[prev] = EOC
      BY <1>1, <3>2, AppendTail
    <3>4. Written(h, z, n, w)'
      BY <1>1, <1>3, <2>1, <2>2, <3>2, <3>3, WrittenAlloc
    <3> QED BY <3>2, <3>4 DEF Appended
  <2> QED BY <1>1, <2>3, AppendStep
<1> QED BY <1>2, <1>3 DEF Alloc

LEMMA AppendLink == ASSUME Sure, AppendInv, Link PROVE AppendInv'
<1>1. UNCHANGED <<dir, data, op, pos, arg, new, prev, first, done>> /\ at = "link"
  BY DEF Link, call, chain, at
<1>2. new \in Clusters /\ TypeOK
  BY <1>1 DEF Sure, Grounded, Ground, Own
<1>3. at' = "data" /\ P' \in {P, [P EXCEPT ![prev] = new]}
  <2>1. CASE prev = 0 /\ pc' = "data" /\ UNCHANGED fat
    BY <2>1 DEF P, at
  <2>2. CASE prev # 0 /\ fat_set_entry(prev, new, "data")
    <3>1. /\ prev \in {0} \cup Clusters /\ new \in {FREE, EOC} \cup Clusters /\ "data" \in Returns
      BY <1>2 DEF Returns, TypeOK, TypeWork
    <3> QED BY <1>2, <2>2, <3>1, SetAny DEF Sure
  <2> QED BY <2>1, <2>2 DEF Link
<1>4. ASSUME NEW h, NEW z, Appended(h, z) PROVE Appended(h, z)'
  <2>1. PICK n \in Nat \ {0} : \E w \in [1 .. n -> Clusters] : z <= n * ClusterBytes /\ Written(h, z, n, w)
    BY <1>4 DEF Appended
  <2>2. PICK w \in [1 .. n -> Clusters] : z <= n * ClusterBytes /\ Written(h, z, n, w)
    BY <2>1
  <2>3. Written(h, z, n, w)'
    BY <1>1, <1>2, <1>3, <2>2, WrittenLink
  <2> QED BY <2>2, <2>3 DEF Appended
<1> QED BY <1>1, <1>4, AppendStep

LEMMA AppendData == ASSUME Sure, AppendInv, WriteData PROVE AppendInv'
<1>1. /\ UNCHANGED <<dir, op, pos, arg>> /\ P' = P /\ at = "data"
      /\ at' = "alloc" /\ prev' = new
      /\ data' = [data EXCEPT ![new] = NextBlock]
      /\ done' = IF done + ClusterBytes > Len(arg) THEN Len(arg) ELSE done + ClusterBytes
  BY DEF WriteData, call, P, at, Put, Outcomes, Sure
<1>2. new \in Clusters /\ TypeOK
  BY <1>1 DEF Sure, Grounded, Ground, Own
<1>3. ASSUME NEW h, NEW z, op = "append", z = dir[pos].size, Appended(h, z) PROVE Appended(h, z)'
  <2>0. z \in Nat
    BY <1>1, <1>3, ItsEntry DEF Building, Sure
  <2>1. PICK n \in Nat \ {0} : \E w \in [1 .. n -> Clusters] : z <= n * ClusterBytes /\ Written(h, z, n, w)
    BY <1>3 DEF Appended
  <2>2. PICK w \in [1 .. n -> Clusters] : z <= n * ClusterBytes /\ Written(h, z, n, w)
    BY <2>1
  <2>3. P[prev] = new
    BY <1>1, <2>2, AppendTail
  <2>4. \E v \in [1 .. n + 1 -> Clusters] : Written(h, z, n + 1, v)'
    <3>1. h = IF n = 0 THEN new ELSE h
      OBVIOUS
    <3> QED BY <1>1, <1>2, <2>0, <2>2, <2>3, <3>1, WrittenData
  <2>5. n + 1 \in Nat \ {0} /\ z <= (n + 1) * ClusterBytes
    <3>1. n * ClusterBytes \in Nat /\ ClusterBytes \in Nat
      BY GeometryAssumption
    <3>2. (n + 1) * ClusterBytes = n * ClusterBytes + ClusterBytes
      BY <3>1
    <3> QED BY <2>0, <2>2, <3>1, <3>2
  <2> QED BY <2>4, <2>5 DEF Appended
<1> QED BY <1>1, <1>3, AppendStep

\* How the bytes of an append divide: n clusters hold z bytes, used of them in the last.
LEMMA FillHow ==
    ASSUME NEW z \in Nat, NEW n \in Nat \ {0}, Fits(z, n), NEW len \in Nat,
           NEW over, over = z - (n - 1) * ClusterBytes,
           NEW used, used = IF over <= 0 THEN 0 ELSE IF over > ClusterBytes THEN ClusterBytes ELSE over,
           NEW fill, fill = IF ClusterBytes - used > len THEN len ELSE ClusterBytes - used
    PROVE  /\ used \in 1 .. ClusterBytes /\ z = (n - 1) * ClusterBytes + used
           /\ fill = IF n * ClusterBytes < z + len THEN n * ClusterBytes - z ELSE len
           /\ fill \in Nat /\ (fill = 0 => len = 0 \/ used = ClusterBytes)
<1> DEFINE k == n * ClusterBytes
<1>1. ClusterBytes \in Nat /\ ClusterBytes > 0 /\ k \in Nat
  BY GeometryAssumption
<1>2. (n - 1) * ClusterBytes = k - ClusterBytes
  BY <1>1
<1>3. z <= k /\ k < z + ClusterBytes
  BY DEF Fits
<1> HIDE DEF k
<1>4. over = z - k + ClusterBytes
  BY <1>1, <1>2
<1>5. used = over /\ used \in 1 .. ClusterBytes
  BY <1>1, <1>3, <1>4
<1>6. z = (n - 1) * ClusterBytes + used
  BY <1>1, <1>2, <1>4, <1>5
<1>7. fill = IF k < z + len THEN k - z ELSE len
  BY <1>1, <1>3, <1>4, <1>5
<1>8. fill \in Nat /\ (fill = 0 => len = 0 \/ used = ClusterBytes)
  BY <1>1, <1>3, <1>4, <1>5
<1> QED BY <1>5, <1>6, <1>7, <1>8 DEF k

\* A place in one cluster of a list is before the places of the next.
LEMMA PlaceBefore ==
    ASSUME NEW k \in Nat, NEW m \in Nat, k < m, NEW i \in 1 .. ClusterBytes, k # 0
    PROVE  (k - 1) * ClusterBytes + i <= (m - 1) * ClusterBytes
<1>1. PICK d \in Nat : m - 1 = k + d
  <2>1. m - 1 - k \in Nat /\ m - 1 = k + (m - 1 - k)
    OBVIOUS
  <2> QED BY <2>1
<1>2. ClusterBytes \in Nat /\ k * ClusterBytes \in Nat /\ d * ClusterBytes \in Nat
  BY GeometryAssumption
<1>3. (m - 1) * ClusterBytes = k * ClusterBytes + d * ClusterBytes
  BY <1>1, <1>2
<1>4. (k - 1) * ClusterBytes = k * ClusterBytes - ClusterBytes
  BY <1>2
<1> QED BY <1>2, <1>3, <1>4

\* The first step of an append knows the chain that it appends to.
LEMMA AppendStarts ==
    ASSUME Sure, NEW n, NEW b \in Seq(Bytes), b # <<>>, Call("append", n, b),
           NEW s, FileSlot(s), dir[s].first # 0, NEW l \in Clusters, StartAppend(s, l, b)
    PROVE  AppendInv' /\ Steady
<1>1. PICK h, z, U, F : h = dir[s].first /\ z = dir[s].size /\ U = Used(s) /\ F = Fill(s, b)
  OBVIOUS
<1>2. TypeOK /\ s \in Slots /\ h \in Clusters /\ z \in Nat /\ Len(b) \in Nat \ {0}
  <2>1. Len(b) # 0
    OBVIOUS
  <2> QED BY <1>1, <2>1 DEF Sure, Grounded, TypeOK, TypeVolume, Directory, FileSlot
<1>3. NoCrossLink /\ s \in Heads
  BY <1>1, <1>2 DEF Sure, Grounded, Ground, Heads, Live, FileSlot
<1>4. (\A c, d \in Clusters : P[c] = P[d] /\ P[c] \in Clusters => c = d) /\ \A x \in Clusters : P[x] # h
  BY <1>1, <1>3 DEF NoCrossLink, P
<1>5. PICK m \in 1 .. NumClusters : \E w \in [1 .. m -> Clusters] :
              /\ Lists(P, h, m, w) /\ P[w[m]] \notin Clusters
              /\ \A k \in 1 .. m : w[k] \in Along(P, h)
              /\ \A d \in Along(P, h) : \E k \in 1 .. m : w[k] = d
              /\ m = Cardinality(Along(P, h))
  BY <1>2, <1>4, ListExists
<1>6. PICK w \in [1 .. m -> Clusters] :
              /\ Lists(P, h, m, w) /\ P[w[m]] \notin Clusters
              /\ \A k \in 1 .. m : w[k] \in Along(P, h)
              /\ \A d \in Along(P, h) : \E k \in 1 .. m : w[k] = d
              /\ m = Cardinality(Along(P, h))
  BY <1>5
<1>7. m \in Nat \ {0} /\ m \in 1 .. m /\ m \in 0 .. NumClusters
  BY GeometryAssumption
<1>8. \A j, k \in 1 .. m : w[j] = w[k] => j = k
  <2>1. \A c, d \in Clusters : P[c] = P[d] /\ P[c] \in Clusters => c = d
    BY <1>4
  <2>2. (\A x \in Clusters : P[x] # h) /\ m \in Nat /\ Lists(P, h, m, w)
    BY <1>4, <1>6, <1>7
  <2> QED BY <2>1, <2>2, ListInjective
<1>9. l \in Along(P, h) /\ P[l] \notin Clusters
  <2>1. ~IsLink(P[l]) /\ l \in Chain(h)
    BY <1>1 DEF StartAppend, get_next_cluster, P
  <2> QED BY <2>1, AlongTable, LinkValues
<1>10. w[m] = l
  <2>1. PICK k \in 1 .. m : w[k] = l
    BY <1>6, <1>9
  <2>2. CASE k # m
    <3>1. k \in 1 .. m - 1 /\ k + 1 \in 1 .. m
      BY <1>7, <2>2
    <3>2. P[l] = w[k + 1]
      BY <1>6, <2>1, <3>1 DEF Lists
    <3> QED BY <1>9, <3>1, <3>2
  <2> QED BY <2>1, <2>2
<1>11. Fits(z, m)
  <2>1. ~Exempt(s)
    BY DEF Exempt, Running, Call
  <2> QED BY <1>1, <1>6, <2>1 DEF Sure, Grounded, SizeInv, EntrySizes, FileSlot
<1>12. /\ U \in 1 .. ClusterBytes /\ z = (m - 1) * ClusterBytes + U
       /\ F = IF m * ClusterBytes < z + Len(b) THEN m * ClusterBytes - z ELSE Len(b)
       /\ F \in Nat /\ (F = 0 => U = ClusterBytes)
  <2>1. PICK over : over = z - (m - 1) * ClusterBytes
    OBVIOUS
  <2>2. U = IF over <= 0 THEN 0 ELSE IF over > ClusterBytes THEN ClusterBytes ELSE over
    <3>1. Cardinality(Chain(h)) = m
      BY <1>6, AlongTable
    <3> QED BY <1>1, <2>1, <3>1 DEF Used
  <2>3. F = IF ClusterBytes - U > Len(b) THEN Len(b) ELSE ClusterBytes - U
    BY <1>1 DEF Fill
  <2>4. PICK len \in Nat \ {0} : len = Len(b)
    BY <1>2
  <2>5. F = IF ClusterBytes - U > len THEN len ELSE ClusterBytes - U
    BY <2>3, <2>4
  <2>6. /\ U \in 1 .. ClusterBytes /\ z = (m - 1) * ClusterBytes + U
        /\ F = IF m * ClusterBytes < z + len THEN m * ClusterBytes - z ELSE len
        /\ F \in Nat /\ (F = 0 => len = 0 \/ U = ClusterBytes)
    BY <1>2, <1>7, <1>11, <2>1, <2>2, <2>5, FillHow
  <2> QED BY <2>4, <2>6
<1>13. /\ data' = IF F > 0 THEN [data EXCEPT ![l] = Filled(l, U, b)] ELSE data
       /\ UNCHANGED dir /\ P' = P /\ at' = "alloc" /\ prev' = l /\ done' = F /\ pos' = s
       /\ op' = "append" /\ arg' = b
  BY <1>1 DEF StartAppend, Sure, Outcomes, Put, P, at, Call
<1>14. \A i \in 1 .. ClusterBytes :
          data'[l][i] = IF U < i /\ i - U <= Len(b) THEN b[i - U] ELSE data[l][i]
  <2>1. CASE F > 0
    <3>1. data'[l] = Filled(l, U, b)
      BY <1>2, <1>13, <2>1 DEF TypeOK, TypeVolume
    <3> QED BY <3>1 DEF Filled
  <2>2. CASE ~(F > 0)
    <3>1. U = ClusterBytes
      BY <1>12, <2>2
    <3>2. \A i \in 1 .. ClusterBytes : ~(U < i)
      BY <3>1, GeometryAssumption
    <3> QED BY <1>13, <2>2, <3>2
  <2> QED BY <2>1, <2>2
<1>15. ClusterBytes \in Nat \ {0} /\ (m - 1) * ClusterBytes \in Nat /\ m * ClusterBytes \in Nat
  BY <1>7, GeometryAssumption
<1>16. Written(h, z, m, w)'
  <2>1. ASSUME NEW k \in 1 .. m, NEW i \in 1 .. ClusterBytes,
               z < (k - 1) * ClusterBytes + i, (k - 1) * ClusterBytes + i <= z + Len(b)
        PROVE  data'[w[k]][i] = b[(k - 1) * ClusterBytes + i - z]
    <3>1. k = m
      <4>1. CASE k < m
        <5>1. k \in Nat /\ k # 0
          OBVIOUS
        <5>2. (k - 1) * ClusterBytes + i <= (m - 1) * ClusterBytes
          BY <1>7, <4>1, <5>1, PlaceBefore
        <5>3. (k - 1) * ClusterBytes \in Int
          BY <1>15, <5>1
        <5> QED BY <1>2, <1>12, <1>15, <2>1, <5>2, <5>3
      <4> QED BY <1>7, <4>1
    <3>2. (m - 1) * ClusterBytes + i - z = i - U /\ U < i /\ i - U <= Len(b)
      <4>1. z < (m - 1) * ClusterBytes + i /\ (m - 1) * ClusterBytes + i <= z + Len(b)
        BY <2>1, <3>1
      <4> QED BY <1>2, <1>12, <1>15, <4>1
    <3> QED BY <1>10, <1>14, <3>1, <3>2
  <2>2. \A k \in 1 .. m, i \in 1 .. ClusterBytes :
           z < (k - 1) * ClusterBytes + i /\ (k - 1) * ClusterBytes + i <= z + Len(b) =>
              data'[w[k]][i] = b[(k - 1) * ClusterBytes + i - z]
    BY <2>1
  <2>3. Lists(P', h, m, w)
    BY <1>6, <1>13
  <2> QED BY <1>8, <1>10, <1>12, <1>13, <2>2, <2>3 DEF Written
<1>17. AppendInv'
  <2>1. z <= m * ClusterBytes
    BY <1>11 DEF Fits
  <2>2. Appended(h, z)'
    BY <1>7, <1>16, <2>1 DEF Appended
  <2>3. h = dir'[pos'].first /\ z = dir'[pos'].size
    BY <1>1, <1>13
  <2> QED BY <2>2, <2>3 DEF AppendInv
<1>18. Steady
  <2>1. CASE F = 0
    BY <1>12, <1>13, <2>1, SteadyNone
  <2>2. CASE F # 0
    <3>1. data' = [data EXCEPT ![l] = Filled(l, U, b)]
      BY <1>12, <1>13, <2>2
    <3>2. ASSUME NEW t, FileSlot(t), t \notin {s} PROVE l \notin Along(P, dir[t].first)
      <4>1. CASE dir[t].first = 0
        BY <1>2, <4>1, AlongNone, Primary
      <4>2. CASE dir[t].first # 0
        <5>1. t \in Heads
          BY <3>2, <4>2 DEF Heads, Live, FileSlot
        <5> QED BY <1>1, <1>3, <1>9, <3>2, <5>1 DEF Sure, Grounded, Ground, HeadsSafe
      <4> QED BY <4>1, <4>2
    <3>3. \E c : Shows(s, c) /\ Shows(s, c)'
      <4>1. ASSUME NEW k \in 1 .. m, NEW i \in 1 .. ClusterBytes, (k - 1) * ClusterBytes + i <= z
            PROVE  data'[w[k]][i] = data[w[k]][i]
        <5>1. CASE w[k] # l
          BY <1>2, <3>1, <5>1 DEF TypeOK, TypeVolume
        <5>2. CASE w[k] = l
          <6>1. k = m
            BY <1>7, <1>8, <1>10, <5>2
          <6>2. (m - 1) * ClusterBytes + i <= z
            BY <4>1, <6>1
          <6>3. ~(U < i)
            BY <1>2, <1>12, <1>15, <6>2
          <6> QED BY <1>14, <5>2, <6>3
        <5> QED BY <5>1, <5>2
      <4>2. Lists(P, dir[s].first, m, w) /\ dir[s].size <= m * ClusterBytes
        BY <1>1, <1>6, <1>11 DEF Fits
      <4>3. \A k \in 1 .. m, i \in 1 .. ClusterBytes :
              (k - 1) * ClusterBytes + i <= dir[s].size => data'[w[k]][i] = data[w[k]][i]
        BY <1>1, <4>1
      <4>4. Keeps(s, m, w)
        BY <4>2, <4>3 DEF Keeps
      <4> QED BY <1>2, <1>7, <1>13, <4>4, SteadyFile
    <3>4. PICK v, S : v = Filled(l, U, b) /\ S = {s}
      OBVIOUS
    <3>5. data' = [data EXCEPT ![l] = v] /\ UNCHANGED dir /\ P' = P
      BY <1>13, <3>1, <3>4
    <3>6. \A t : FileSlot(t) /\ t \notin S => l \notin Along(P, dir[t].first)
      BY <3>2, <3>4
    <3>7. \A t \in S : FileSlot(t) => \E c : Shows(t, c) /\ Shows(t, c)'
      BY <3>3, <3>4
    <3> QED BY <3>5, <3>6, <3>7, SteadyData
  <2> QED BY <2>1, <2>2
<1> QED BY <1>17, <1>18

LEMMA AppendCall ==
    ASSUME Sure, NEW n, NEW b \in Seq(Bytes), fs_append_file(n, b)
    PROVE  AppendInv'
<1>1. CASE StartWrite(n, b)
  BY <1>1, AppendQuiet DEF StartWrite, Call
<1>2. CASE \E code : Refuse(code)
  BY <1>2, AppendQuiet DEF Refuse, at
<1>3. ASSUME Call("append", n, b), b # <<>>, NEW s, FileSlot(s), dir[s].first # 0,
             NEW l \in Clusters, StartAppend(s, l, b)
      PROVE  AppendInv'
  BY <1>3, AppendStarts
<1> QED BY <1>1, <1>2, <1>3 DEF fs_append_file, FileSlot

LEMMA AppendOff ==
    ASSUME Sure,
           \/ MkDots \/ MkEntry \/ MkFull \/ FreeOne \/ FreeDone \/ Unalloc \/ Cleanup \/ Commit
           \/ Return \/ NotMounted \/ Abort \/ PowerLoss \/ fs_init
    PROVE  AppendInv'
<1>0. TypeOK /\ TypeWork /\ Ground
  BY DEF Sure, Grounded, TypeOK
<1>1. CASE MkDots \/ MkFull \/ Commit \/ Return \/ NotMounted \/ Abort \/ PowerLoss \/ fs_init
  BY <1>1, AppendQuiet DEF MkDots, MkFull, Commit, PutSlot, Return, NotMounted, Abort, PowerLoss, fs_init, at
<1>2. CASE MkEntry
  <2>1. CASE pc' = "return"
    BY <2>1, AppendQuiet DEF at
  <2>2. CASE fat_set_entry(new, FREE, "full")
    <3>1. new \in {0} \cup Clusters /\ FREE \in {FREE, EOC} \cup Clusters /\ "full" \in Returns
      BY <1>0 DEF TypeWork, Returns
    <3>2. at' = "full"
      BY <1>0, <2>2, <3>1, SetEffect DEF Sure
    <3> QED BY <3>2, AppendQuiet
  <2> QED BY <1>2, <2>1, <2>2 DEF MkEntry
<1>3. CASE FreeOne
  <2>1. cur \in {0} \cup Clusters /\ FREE \in {FREE, EOC} \cup Clusters /\ "free" \in Returns
    BY <1>0, <1>3, LinkValues DEF TypeWork, Returns, FreeOne
  <2>2. at' = "free"
    BY <1>0, <1>3, <2>1, SetEffect DEF Sure, FreeOne
  <2> QED BY <2>2, AppendQuiet
<1>4. CASE FreeDone
  BY <1>4, AppendQuiet DEF FreeDone, call, at
<1>5. CASE Unalloc
  <2>1. at = "unalloc"
    BY <1>5 DEF Unalloc, at
  <2> QED BY <1>0, <2>1 DEF Ground, Sure
<1>6. CASE Cleanup
  <2>1. CASE pc' = "free"
    BY <2>1, AppendQuiet DEF at
  <2>2. CASE fat_set_entry(last, EOC, "free")
    <3>1. last \in {0} \cup Clusters /\ EOC \in {FREE, EOC} \cup Clusters /\ "free" \in Returns
      BY <1>0 DEF TypeWork, Returns
    <3>2. at' = "free"
      BY <1>0, <2>2, <3>1, SetEffect DEF Sure
    <3> QED BY <3>2, AppendQuiet
  <2> QED BY <1>6, <2>1, <2>2 DEF Cleanup
<1> QED BY <1>1, <1>2, <1>3, <1>4, <1>5, <1>6

LEMMA AppendNext ==
    ASSUME Sure, AppendInv, [Next]_vars
    PROVE  AppendInv'
<1>1. CASE UNCHANGED vars
  <2>1. /\ UNCHANGED <<dir, data, op, pos, arg, new, prev, first, done>>
        /\ P' = P /\ at' = at
    BY <1>1 DEF vars, P, at
  <2>2. \A h, z : Appended(h, z) => Appended(h, z)'
    BY <2>1 DEF Appended, Written
  <2> QED BY <2>1, <2>2, AppendStep
<1>2. CASE Step
  <2>1. CASE NextCopy \/ Alloc \/ Link \/ WriteData
    BY <2>1, AppendMirror, AppendAlloc, AppendLink, AppendData
  <2>2. CASE MkDots \/ MkEntry \/ MkFull \/ FreeOne \/ FreeDone \/ Unalloc \/ Cleanup \/ Commit \/ Return
    BY <2>2, AppendOff
  <2> QED BY <1>2, <2>1, <2>2 DEF Step
<1>3. CASE Request
  <2>1. CASE NotMounted
    BY <2>1, AppendOff
  <2>2. ASSUME NEW n \in Names, make_dir(n) \/ remove_dir(n) \/ fs_create_file(n)
        PROVE  AppendInv'
    BY <2>2, AppendQuiet DEF make_dir, remove_dir, fs_create_file, Call
  <2>3. ASSUME NEW n \in Names, NEW b \in Buffers, fs_write_file(n, b) \/ fs_append_file(n, b)
        PROVE  AppendInv'
    <3>1. b \in Seq(Bytes)
      BY CallerAssumption
    <3>2. CASE fs_write_file(n, b)
      BY <3>2, AppendQuiet DEF fs_write_file, StartWrite, Call
    <3> QED BY <2>3, <3>1, <3>2, AppendCall
  <2> QED BY <1>3, <2>1, <2>2, <2>3 DEF Request
<1>4. CASE Abort \/ PowerLoss \/ fs_init
  BY <1>4, AppendOff
<1> QED BY <1>1, <1>2, <1>3, <1>4 DEF Next

\* What the running call was given is what a caller may give.
LEMMA CallNext ==
    ASSUME CallHeld, [Next]_vars
    PROVE  CallHeld'
<1>1. ASSUME UNCHANGED <<op, name, arg>>, Running PROVE CallHeld'
  BY <1>1 DEF CallHeld
<1>2. ASSUME ~Running' PROVE CallHeld'
  BY <1>2 DEF CallHeld
<1>3. CASE UNCHANGED vars
  BY <1>3 DEF vars, CallHeld, Running
<1>4. CASE Step
  <2>1. CASE Return
    BY <1>2, <2>1 DEF Return, Running
  <2>2. CASE NextCopy \/ MkDots \/ MkEntry \/ MkFull \/ FreeOne \/ FreeDone
    BY <1>1, <2>2 DEF NextCopy, MkDots, MkEntry, MkFull, FreeOne, FreeDone, call, Running
  <2>3. CASE Alloc \/ Link \/ Unalloc \/ WriteData \/ Cleanup \/ Commit
    BY <1>1, <2>3 DEF Alloc, Link, Unalloc, WriteData, Cleanup, Commit, call, Running
  <2> QED BY <1>4, <2>1, <2>2, <2>3 DEF Step
<1>5. CASE Request
  <2>1. CASE NotMounted
    BY <1>2, <2>1 DEF NotMounted, Running
  <2>2. ASSUME NEW n \in Names, make_dir(n) \/ remove_dir(n) \/ fs_create_file(n)
        PROVE  CallHeld'
    BY <2>2 DEF make_dir, remove_dir, fs_create_file, Call, CallHeld
  <2>3. ASSUME NEW n \in Names, NEW b \in Buffers, fs_write_file(n, b) \/ fs_append_file(n, b)
        PROVE  CallHeld'
    BY <2>3 DEF fs_write_file, fs_append_file, StartWrite, Call, CallHeld
  <2> QED BY <1>5, <2>1, <2>2, <2>3 DEF Request
<1>6. CASE Abort \/ PowerLoss \/ fs_init
  BY <1>2, <1>6 DEF Abort, PowerLoss, fs_init, Running
<1> QED BY <1>3, <1>4, <1>5, <1>6 DEF Next

LEMMA SeenInit == Init => AppendInv /\ CallHeld
BY DEF Init, AppendInv, CallHeld, Running, at

-----------------------------------------------------------------------------
(* Steps that write an entry.                                              *)

\* The directories of name n.
DirsOf(n) == {t \in Slots : dir[t].kind = "dir" /\ dir[t].name = n}

\* The entry of a file of name n, now with bytes b, is written to a slot that had
\* none of another name, nor a directory's.
FilePut(n, s, e, b) ==
    /\ n \in Names /\ s \in Slots
    /\ dir' = [dir EXCEPT ![s] = e] /\ dir[s].kind # "dir" /\ (FileSlot(s) => dir[s].name = n)
    /\ e.kind = "file" /\ e.name = n /\ Spells(P, data, e.first, e.size, b)

\* A step that writes a file's entry gives that name its new bytes and no other
\* name anything else.
LEMMA FileSees ==
    ASSUME Sure, Sure', P' = P, UNCHANGED data, NEW n, NEW s, NEW e, NEW b, FilePut(n, s, e, b)
    PROVE  /\ FileNames' = FileNames \cup {n}
           /\ FileContents' = [FileContents EXCEPT ![n] = b]
           /\ DirCounts' = DirCounts
<1>0. /\ n \in Names /\ s \in Slots
      /\ dir' = [dir EXCEPT ![s] = e] /\ dir[s].kind # "dir" /\ (FileSlot(s) => dir[s].name = n)
      /\ e.kind = "file" /\ e.name = n /\ Spells(P, data, e.first, e.size, b)
  BY DEF FilePut
<1>1. View /\ View' /\ Listed
  BY ViewNow
<1>2. \A t \in Slots : dir'[t] = IF t = s THEN e ELSE dir[t]
  BY <1>0 DEF Sure, Grounded, TypeOK, TypeVolume, Directory
<1>3. FileSlot(s)' /\ Shows(s, b)' /\ dir'[s].name = n
  BY <1>0, <1>2 DEF FileSlot, Shows
<1>4. \A t : t # s => (FileSlot(t) <=> FileSlot(t)') /\ (t \in Slots => dir'[t] = dir[t])
  BY <1>2 DEF FileSlot
<1>5. FileNames' = FileNames \cup {n}
  <2>1. \A m : m \in FileNames' <=> m \in FileNames \/ m = n
    BY <1>0, <1>1, <1>3, <1>4 DEF View, FileSlot
  <2> QED BY <2>1
<1>6. \A m \in Names : FileContents'[m] = IF m = n THEN b ELSE FileContents[m]
  <2> TAKE m \in Names
  <2>1. CASE m = n
    BY <1>0, <1>1, <1>3, <2>1 DEF View
  <2>2. CASE m # n /\ m \in FileNames
    <3>1. PICK t : FileSlot(t) /\ dir[t].name = m
      BY <1>1, <2>2 DEF View
    <3>2. t # s /\ FileSlot(t)' /\ dir'[t] = dir[t]
      BY <1>0, <1>4, <2>2, <3>1 DEF FileSlot
    <3>3. PICK x : Shows(t, x)
      BY <1>1, <3>1, Showing
    <3>4. Shows(t, x)'
      BY <3>2, <3>3 DEF Shows
    <3> QED BY <1>1, <2>2, <3>1, <3>2, <3>3, <3>4 DEF View
  <2>3. CASE m # n /\ m \notin FileNames
    BY <1>1, <1>5, <2>3 DEF View
  <2> QED BY <2>1, <2>2, <2>3
<1>7. FileContents' = [FileContents EXCEPT ![n] = b]
  <2>1. /\ FileContents = [m \in Names |-> FileContents[m]]
        /\ FileContents' = [m \in Names |-> FileContents'[m]]
    BY <1>1 DEF View
  <2> HIDE DEF FileContents
  <2> QED BY <1>6, <2>1
<1>8. DirCounts' = DirCounts
  <2>1. \A m : DirsOf(m)' = DirsOf(m)
    BY <1>0, <1>2 DEF DirsOf
  <2>2. /\ DirCounts = [m \in Names |-> Cardinality(DirsOf(m))]
        /\ DirCounts' = [m \in Names |-> Cardinality(DirsOf(m)')]
    BY <1>1 DEF View, DirsOf
  <2> QED BY <2>1, <2>2
<1> QED BY <1>5, <1>7, <1>8

\* An entry that is no file's is written where there was no file.
LEMMA NoFileSees ==
    ASSUME Sure, Sure', P' = P, UNCHANGED data, NEW s \in Slots, NEW e,
           dir' = [dir EXCEPT ![s] = e], dir[s].kind # "file", e.kind # "file"
    PROVE  UNCHANGED <<FileNames, FileContents>>
<1>1. View /\ View' /\ Listed
  BY ViewNow
<1>2. \A t \in Slots : dir'[t] = IF t = s THEN e ELSE dir[t]
  BY DEF Sure, Grounded, TypeOK, TypeVolume, Directory
<1>4. \A t : (FileSlot(t) <=> FileSlot(t)') /\ (FileSlot(t) => dir'[t] = dir[t])
  BY <1>2 DEF FileSlot
<1>5. FileNames' = FileNames
  <2>1. \A m : m \in FileNames' <=> m \in FileNames
    BY <1>1, <1>4 DEF View
  <2> QED BY <2>1
<1>6. \A m \in Names : FileContents'[m] = FileContents[m]
  <2> TAKE m \in Names
  <2>1. CASE m \in FileNames
    <3>1. PICK t : FileSlot(t) /\ dir[t].name = m
      BY <1>1, <2>1 DEF View
    <3>2. FileSlot(t)' /\ dir'[t] = dir[t]
      BY <1>4, <3>1
    <3>3. PICK x : Shows(t, x)
      BY <1>1, <3>1, Showing
    <3>4. Shows(t, x)'
      BY <3>2, <3>3 DEF Shows
    <3> QED BY <1>1, <2>1, <3>1, <3>2, <3>3, <3>4 DEF View
  <2>2. CASE m \notin FileNames
    BY <1>1, <1>5, <2>2 DEF View
  <2> QED BY <2>1, <2>2
<1>7. FileContents' = FileContents
  <2>1. /\ FileContents = [m \in Names |-> FileContents[m]]
        /\ FileContents' = [m \in Names |-> FileContents'[m]]
    BY <1>1 DEF View
  <2> HIDE DEF FileContents
  <2> QED BY <1>6, <2>1
<1> QED BY <1>5, <1>7

LEMMA DirsFinite == \A n : IsFiniteSet(DirsOf(n)) /\ Cardinality(DirsOf(n)) \in Nat
<1>1. IsFiniteSet(Slots)
  BY FS_Interval, GeometryAssumption DEF Slots
<1>2. \A n : DirsOf(n) \subseteq Slots
  BY DEF DirsOf
<1> QED BY <1>1, <1>2, FS_Subset, FS_CardinalityType

\* The entry of a directory of name n is written to an unused slot, or is deleted.
LEMMA DirSees ==
    ASSUME Sure, Sure', P' = P, UNCHANGED data, NEW n \in Names, NEW s \in Slots, NEW e, NEW k \in {-1, 1},
           dir' = [dir EXCEPT ![s] = e],
           IF k = 1 THEN Vacant(dir[s]) /\ e.kind = "dir" /\ e.name = n
           ELSE dir[s].kind = "dir" /\ dir[s].name = n /\ Vacant(e)
    PROVE  /\ UNCHANGED <<FileNames, FileContents>>
           /\ DirCounts' = [DirCounts EXCEPT ![n] = @ + k]
           /\ DirCounts[n] \in Nat /\ (k = -1 => DirCounts[n] > 0)
<1>1. View /\ View'
  BY ViewNow
<1>2. \A t \in Slots : dir'[t] = IF t = s THEN e ELSE dir[t]
  BY DEF Sure, Grounded, TypeOK, TypeVolume, Directory
<1>3. dir[s].kind # "file" /\ e.kind # "file"
  BY DEF Vacant
<1>4. UNCHANGED <<FileNames, FileContents>>
  BY <1>3, NoFileSees
<1>5. /\ DirCounts = [m \in Names |-> Cardinality(DirsOf(m))]
      /\ DirCounts' = [m \in Names |-> Cardinality(DirsOf(m)')]
  BY <1>1 DEF View, DirsOf
<1>6. ASSUME NEW m \in Names, m # n PROVE DirsOf(m)' = DirsOf(m)
  BY <1>2, <1>6 DEF DirsOf, Vacant
<1>7. Cardinality(DirsOf(n)') = Cardinality(DirsOf(n)) + k /\ (k = -1 => Cardinality(DirsOf(n)) > 0)
  <2>0. PICK S, T : S = DirsOf(n) /\ T = DirsOf(n)'
    OBVIOUS
  <2>1. IsFiniteSet(S) /\ Cardinality(S) \in Nat
    BY <2>0, DirsFinite
  <2>2. CASE k = 1
    <3>1. s \notin S /\ T = S \cup {s}
      BY <1>2, <2>0, <2>2 DEF DirsOf, Vacant
    <3>2. Cardinality(T) = Cardinality(S) + 1
      BY <2>1, <3>1, FS_AddElement
    <3> QED BY <2>0, <2>2, <3>2
  <2>3. CASE k = -1
    <3>1. s \in S /\ T = S \ {s}
      BY <1>2, <2>0, <2>3 DEF DirsOf, Vacant
    <3>2. Cardinality(S) # 0
      BY <2>1, <3>1, FS_EmptySet
    <3>3. Cardinality(T) = Cardinality(S) - 1
      BY <2>1, <3>1, FS_RemoveElement
    <3> QED BY <2>0, <2>1, <2>3, <3>2, <3>3
  <2> QED BY <2>2, <2>3
<1>8. DirCounts' = [DirCounts EXCEPT ![n] = @ + k]
  BY <1>5, <1>6, <1>7
<1>9. DirCounts[n] = Cardinality(DirsOf(n))
  BY <1>5
<1> QED BY <1>4, <1>7, <1>8, <1>9, DirsFinite

\* No entry of that name.
LEMMA NothingOf ==
    ASSUME Sure, NEW n \in Names, Hits(n) = {}
    PROVE  n \notin FileNames /\ DirCounts[n] = 0 /\ FileContents[n] = <<>>
<1>1. View /\ DirInv
  BY ViewNow DEF Sure, Grounded
<1>2. \A s \in Slots : Live(dir[s]) => dir[s].name # n
  BY <1>1, LiveScanned DEF Hits
<1>3. n \notin FileNames
  BY <1>1, <1>2 DEF View, FileSlot, Live
<1>4. DirsOf(n) = {}
  BY <1>2 DEF DirsOf, Live
<1>5. DirCounts[n] = Cardinality(DirsOf(n))
  BY <1>1 DEF View, DirsOf
<1> QED BY <1>1, <1>3, <1>4, <1>5, FS_EmptySet DEF View

\* A file of that name that a scan comes to.
LEMMA FileOf ==
    ASSUME Sure, NEW n \in Names, NEW s \in Slots, dir[s].kind = "file", dir[s].name = n
    PROVE  n \in FileNames
BY ViewNow DEF View, FileSlot

LEMMA SpellsNothing == Spells(P, data, 0, 0, <<>>)
<1>1. 0 \in 0 .. NumClusters /\ [k \in 1 .. 0 |-> 0] \in [1 .. 0 -> Clusters] /\ 0 <= 0 * ClusterBytes
  BY GeometryAssumption
<1>2. Lists(P, 0, 0, [k \in 1 .. 0 |-> 0])
  BY DEF Lists
<1>3. <<>> = Spelt(data, [k \in 1 .. 0 |-> 0], 0)
  BY DEF Spelt
<1> QED BY <1>1, <1>2, <1>3 DEF Spells

-----------------------------------------------------------------------------
(* Every step is one of FileStore, or one that a program does not see.     *)

Seen == Sure /\ ReadInv /\ AppendInv /\ CallHeld

\* The write under way goes on or ends.
LEMMA WritingStep ==
    ASSUME (Running /\ UNCHANGED call) \/ ~Running' \/ op' # "write"
    PROVE  Writing' \in {Writing, Store!Nobody}
<1>1. CASE Running /\ UNCHANGED call
  BY <1>1 DEF Writing, Store!Nobody, call
<1>2. CASE ~Running' \/ op' # "write"
  BY <1>2 DEF Writing, Store!Nobody
<1> QED BY <1>1, <1>2

\* No write is under way.
LEMMA StoreIdle ==
    /\ ~Running \/ op # "write" => Store!Idle
    /\ ~Running' \/ op' # "write" => Writing' = Store!Nobody
    /\ Running /\ op = "write" /\ name \in Names => ~Store!Idle
<1>1. Running /\ op = "write" /\ name \in Names => Writing # Store!Nobody
  <2> SUFFICES ASSUME Running, op = "write", name \in Names PROVE Writing.file # Store!Nobody.file
    OBVIOUS
  <2>1. Writing.file = name /\ Store!Nobody.file = "none"
    BY DEF Writing, Store!Nobody
  <2> QED BY <2>1, CallerAssumption
<1> QED BY <1>1 DEF Writing, Store!Idle, Store!Nobody

LEMMA SetSteady ==
    ASSUME Sure, Sure', UNCHANGED <<dir, data>>, NEW c \in {0} \cup Clusters, NEW v \in {FREE, EOC} \cup Clusters,
           NEW to \in Returns, fat_set_entry(c, v, to), c \in Clusters => P[c] \notin Clusters \/ v \notin Clusters
    PROVE  Steady
<1>1. P' = [P EXCEPT ![c] = v] /\ P \in [Clusters -> {FREE, EOC} \cup Clusters]
  BY SetEffect, Primary DEF Sure, Grounded
<1>2. Differ(P, P', c) /\ (c \in Clusters => P'[c] = v)
  BY <1>1 DEF Differ
<1> QED BY <1>2, SteadyTable

LEMMA NoCluster == FREE \notin Clusters /\ EOC \notin Clusters
BY GeometryAssumption DEF FREE, EOC, Clusters, CHAIN_END

LEMMA RefuseSteady ==
    ASSUME Sure, NEW code, Refuse(code)
    PROVE  Steady /\ ~Running'
<1>1. UNCHANGED <<dir, data>> /\ P' = P
  BY DEF Refuse, disk, P
<1> QED BY <1>1, SteadyNone DEF Refuse, Running

\* A call refused is not seen.
LEMMA RefuseSees ==
    ASSUME Sure, Sure', NEW code, Refuse(code)
    PROVE  Sees
BY RefuseSteady, WritingStep, SteadySees

LEMMA MirrorSees == ASSUME Sure, Sure', NextCopy PROVE Sees
<1>1. P' = P /\ UNCHANGED <<dir, data>> /\ Running /\ UNCHANGED call
  BY MirrorAny DEF NextCopy, Sure, Grounded, Running
<1> QED BY <1>1, SteadyNone, WritingStep, SteadySees

LEMMA MkdirSees == ASSUME Sure, Sure', NEW n, make_dir(n) PROVE Sees
<1>1. op' = "mkdir"
  BY DEF make_dir, Call
<1>2. ASSUME NEW c \in Clusters, IsFirstFree(c), fat_set_entry(c, EOC, "mkDots"), UNCHANGED <<dir, data>>
      PROVE  Sees
  <2>1. P[c] \notin Clusters
    BY <1>2, NoCluster DEF IsFirstFree, P
  <2>2. c \in {0} \cup Clusters /\ EOC \in {FREE, EOC} \cup Clusters /\ "mkDots" \in Returns
    BY DEF Returns
  <2> QED BY <1>1, <1>2, <2>1, <2>2, SetSteady, WritingStep, SteadySees
<1> QED BY <1>2, RefuseSees DEF make_dir

\* The cluster of a new directory is no file's.
LEMMA MkDotsSees == ASSUME Sure, Sure', MkDots PROVE Sees
<1>1. at = "mkDots" /\ Running /\ UNCHANGED call /\ P' = P /\ UNCHANGED dir
      /\ data' = [data EXCEPT ![new] = Dots]
  BY DEF MkDots, at, Running, Sure, Outcomes, Put, P
<1>2. op = "mkdir"
  BY <1>1 DEF Sure, Grounded, SizeInv, MkdirOnly
<1>3. new \in Held
  BY <1>1 DEF Held
<1>4. \A s : FileSlot(s) => new \notin Along(P, dir[s].first)
  BY <1>2, <1>3, HeldOff DEF Sure, Grounded, Exempt, FileSlot
<1>5. Steady
  <2>1. PICK c, v, S : c = new /\ v = Dots /\ S = {}
    OBVIOUS
  <2>2. data' = [data EXCEPT ![c] = v]
    BY <1>1, <2>1
  <2>3. \A s : FileSlot(s) /\ s \notin S => c \notin Along(P, dir[s].first)
    BY <1>4, <2>1
  <2>4. \A s \in S : FileSlot(s) => \E b : Shows(s, b) /\ Shows(s, b)'
    BY <2>1
  <2> QED BY <1>1, <2>2, <2>3, <2>4, SteadyData
<1> QED BY <1>1, <1>5, WritingStep, SteadySees

LEMMA MkEntrySees == ASSUME Seen, Sure', MkEntry PROVE Sees
<1>1. at = "mkEntry" /\ Running /\ UNCHANGED call /\ UNCHANGED data
  BY DEF MkEntry, at, Running
<1>2. op = "mkdir" /\ name \in Names /\ Sure
  BY <1>1 DEF Seen, Sure, Grounded, SizeInv, MkdirOnly, CallHeld
<1>3. ASSUME NEW s \in Slots, IsFirstVacant(s), dir' = [dir EXCEPT ![s] = DirEntry(name, new)], UNCHANGED fat
      PROVE  Sees
  <2>1. PICK n, e, k : n = name /\ e = DirEntry(name, new) /\ k = 1
    OBVIOUS
  <2>2. /\ UNCHANGED <<FileNames, FileContents>>
        /\ DirCounts' = [DirCounts EXCEPT ![n] = @ + 1]
    <3>1. dir' = [dir EXCEPT ![s] = e] /\ n \in Names /\ k \in {-1, 1} /\ P' = P
      BY <1>2, <1>3, <2>1 DEF P
    <3>2. IF k = 1 THEN Vacant(dir[s]) /\ e.kind = "dir" /\ e.name = n
          ELSE dir[s].kind = "dir" /\ dir[s].name = n /\ Vacant(e)
      BY <1>3, <2>1 DEF IsFirstVacant, DirEntry
    <3>3. DirCounts' = [DirCounts EXCEPT ![n] = @ + k] /\ UNCHANGED <<FileNames, FileContents>>
      BY <1>1, <1>2, <3>1, <3>2, DirSees
    <3> QED BY <2>1, <3>3
  <2>3. Store!Idle /\ Writing' = Writing
    BY <1>1, <1>2, StoreIdle DEF Store!Idle, call
  <2>4. Store!MakeDir(n)
    BY <2>2, <2>3 DEF Store!MakeDir
  <2> QED BY <1>2, <2>1, <2>4 DEF Sees, Store!Next
<1>4. CASE fat_set_entry(new, FREE, "full") /\ UNCHANGED dir
  <2>1. new \in {0} \cup Clusters /\ FREE \in {FREE, EOC} \cup Clusters /\ "full" \in Returns /\ FREE \notin Clusters
    BY <1>2, NoCluster DEF Sure, Grounded, TypeOK, TypeWork, Returns
  <2>2. Steady
    BY <1>1, <1>2, <1>4, <2>1, SetSteady
  <2> QED BY <1>1, <1>2, <2>2, WritingStep, SteadySees
<1>5. Outcomes = {"ok"}
  BY <1>2 DEF Outcomes, Sure
<1> QED BY <1>3, <1>4, <1>5 DEF MkEntry, Put

LEMMA RmdirSees == ASSUME Sure, Sure', NEW n \in Names, remove_dir(n) PROVE Sees
<1>1. op' = "rmdir" /\ Outcomes = {"ok"} /\ pc = "idle"
  BY DEF remove_dir, Call, Outcomes, Sure
<1>2. ASSUME NEW s \in Slots, IsHit(s, n), dir[s].kind = "dir", UNCHANGED <<fat, data>>,
             PutSlot(s, Blank("deleted"), "free", "free")
      PROVE  Sees
  <2>1. PICK e, k : e = Blank("deleted") /\ k = -1
    OBVIOUS
  <2>2. dir' = [dir EXCEPT ![s] = e] /\ k \in {-1, 1} /\ P' = P
    BY <1>1, <1>2, <2>1 DEF PutSlot, Put, P
  <2>3. IF k = 1 THEN Vacant(dir[s]) /\ e.kind = "dir" /\ e.name = n
        ELSE dir[s].kind = "dir" /\ dir[s].name = n /\ Vacant(e)
    BY <1>2, <2>1 DEF IsHit, Hits, Blank, Vacant
  <2>4. /\ UNCHANGED <<FileNames, FileContents>>
        /\ DirCounts' = [DirCounts EXCEPT ![n] = @ + k]
        /\ DirCounts[n] \in Nat /\ (k = -1 => DirCounts[n] > 0)
    BY <1>2, <2>2, <2>3, DirSees
  <2>5. DirCounts' = [DirCounts EXCEPT ![n] = @ - 1]
    <3>1. DirCounts[n] + k = DirCounts[n] - 1
      BY <2>1, <2>4
    <3> QED BY <2>4, <3>1
  <2>6. Store!Idle /\ Writing' = Writing
    BY <1>1, StoreIdle DEF Store!Idle, Running
  <2>7. Store!RemoveDir(n)
    BY <2>1, <2>4, <2>5, <2>6 DEF Store!RemoveDir
  <2> QED BY <2>7 DEF Sees, Store!Next
<1> QED BY <1>2, RefuseSees DEF remove_dir

LEMMA CreateSees == ASSUME Sure, Sure', NEW n \in Names, fs_create_file(n) PROVE Sees
<1>1. op' = "create" /\ Outcomes = {"ok"} /\ pc = "idle"
  BY DEF fs_create_file, Call, Outcomes, Sure
<1>2. ASSUME Hits(n) = {}, NEW s \in Slots, IsFirstVacant(s), UNCHANGED <<fat, data>>,
             PutSlot(s, FileEntry(n, 0, 0), "return", "return")
      PROVE  Sees
  <2>1. PICK e, b : e = FileEntry(n, 0, 0) /\ b = <<>>
    OBVIOUS
  <2>2. dir' = [dir EXCEPT ![s] = e] /\ P' = P /\ UNCHANGED data
    BY <1>1, <1>2, <2>1 DEF PutSlot, Put, P
  <2>3. dir[s].kind # "dir" /\ (FileSlot(s) => dir[s].name = n) /\ e.kind = "file" /\ e.name = n
    BY <1>2, <2>1 DEF IsFirstVacant, Vacant, FileEntry, FileSlot
  <2>4. Spells(P, data, e.first, e.size, b)
    BY <2>1, SpellsNothing DEF FileEntry
  <2>5. /\ FileNames' = FileNames \cup {n}
        /\ FileContents' = [FileContents EXCEPT ![n] = b]
        /\ DirCounts' = DirCounts
    <3>1. FilePut(n, s, e, b)
      BY <2>2, <2>3, <2>4 DEF FilePut
    <3> QED BY <2>2, <3>1, FileSees
  <2>6. n \notin FileNames /\ DirCounts[n] = 0 /\ FileContents[n] = <<>>
    BY <1>2, NothingOf
  <2>7. FileContents' = FileContents
    <3>1. FileContents = [m \in Names |-> FileContents[m]]
      BY ViewNow DEF View
    <3> HIDE DEF FileContents
    <3> QED BY <2>1, <2>5, <2>6, <3>1
  <2>8. Store!Idle /\ Writing' = Writing
    BY <1>1, StoreIdle DEF Store!Idle, Running
  <2>9. Store!Create(n)
    BY <2>5, <2>6, <2>7, <2>8 DEF Store!Create
  <2> QED BY <2>9 DEF Sees, Store!Next
<1> QED BY <1>2, RefuseSees DEF fs_create_file

LEMMA StartWriteSees ==
    ASSUME Sure, Sure', NEW n \in Names, NEW b \in Buffers, StartWrite(n, b)
    PROVE  Sees
<1>1. op' = "write" /\ name' = n /\ arg' = b /\ Outcomes = {"ok"} /\ pc = "idle"
  BY DEF StartWrite, Call, Outcomes, Sure
<1>2. ASSUME NEW s \in Slots, NEW to \in {"free", "alloc"}, UNCHANGED <<fat, data>>,
             PutSlot(s, FileEntry(n, 0, 0), to, "return"),
             \/ IsHit(s, n) /\ dir[s].kind = "file"
             \/ Hits(n) = {} /\ IsFirstVacant(s)
      PROVE  Sees
  <2>1. PICK e, x : e = FileEntry(n, 0, 0) /\ x = <<>>
    OBVIOUS
  <2>2. dir' = [dir EXCEPT ![s] = e] /\ P' = P /\ UNCHANGED data /\ pc' = to
    BY <1>1, <1>2, <2>1 DEF PutSlot, Put, P
  <2>3. dir[s].kind # "dir" /\ (FileSlot(s) => dir[s].name = n) /\ e.kind = "file" /\ e.name = n
    BY <1>2, <2>1 DEF IsFirstVacant, Vacant, FileEntry, FileSlot, IsHit, Hits
  <2>4. Spells(P, data, e.first, e.size, x)
    BY <2>1, SpellsNothing DEF FileEntry
  <2>5. /\ FileNames' = FileNames \cup {n}
        /\ FileContents' = [FileContents EXCEPT ![n] = x]
        /\ DirCounts' = DirCounts
    <3>1. FilePut(n, s, e, x)
      BY <2>2, <2>3, <2>4 DEF FilePut
    <3> QED BY <2>2, <3>1, FileSees
  <2>6. n \in FileNames \/ DirCounts[n] = 0
    BY <1>2, NothingOf, FileOf DEF IsHit, Hits
  <2>7. Store!Idle /\ Writing' = [file |-> n, buffer |-> b]
    BY <1>1, <2>2, StoreIdle DEF Running, Writing
  <2>8. Store!BeginWrite(n, b)
    BY <2>1, <2>5, <2>6, <2>7 DEF Store!BeginWrite
  <2> QED BY <2>8 DEF Sees, Store!Next
<1>3. CASE \E code : Refuse(code)
  BY <1>3, RefuseSees
<1> QED BY <1>2, <1>3 DEF StartWrite

LEMMA AppendSees ==
    ASSUME Sure, Sure', NEW n \in Names, NEW b \in Buffers, fs_append_file(n, b)
    PROVE  Sees
<1>0. b \in Seq(Bytes)
  BY CallerAssumption
<1>1. CASE StartWrite(n, b)
  BY <1>1, StartWriteSees
<1>2. CASE \E code : Refuse(code)
  BY <1>2, RefuseSees
<1>3. ASSUME Call("append", n, b), b # <<>>, NEW s, FileSlot(s), dir[s].first # 0,
             NEW l \in Clusters, StartAppend(s, l, b)
      PROVE  Sees
  <2>1. Steady
    BY <1>0, <1>3, AppendStarts
  <2>2. op' = "append"
    BY <1>3 DEF Call
  <2> QED BY <2>1, <2>2, WritingStep, SteadySees
<1> QED BY <1>1, <1>2, <1>3 DEF fs_append_file, FileSlot

\* Steps on the table are not seen: no file's chain has the cluster.
LEMMA TableSees ==
    ASSUME Sure, Sure', FreeOne \/ FreeDone \/ Alloc \/ Link \/ Unalloc \/ Cleanup
    PROVE  Sees
<1>0. /\ TypeOK /\ TypeWork /\ Ground /\ Running /\ UNCHANGED call /\ UNCHANGED <<dir, data>>
      /\ FREE \notin Clusters /\ EOC \notin Clusters
      /\ FREE \in {FREE, EOC} \cup Clusters /\ EOC \in {FREE, EOC} \cup Clusters
  BY NoCluster DEF FreeOne, FreeDone, Alloc, Link, Unalloc, Cleanup, disk, Running, Sure, Grounded, TypeOK
<1>1. Steady
  <2>1. CASE UNCHANGED fat
    BY <1>0, <2>1, SteadyNone DEF P
  <2>2. CASE FreeOne
    <3>1. cur \in {0} \cup Clusters /\ "free" \in Returns /\ fat_set_entry(cur, FREE, "free")
      BY <1>0, <2>2, LinkValues DEF TypeWork, Returns, FreeOne
    <3> QED BY <1>0, <3>1, SetSteady
  <2>3. CASE FreeDone
    BY <2>1, <2>3 DEF FreeDone, disk
  <2>4. CASE Alloc
    <3>1. ASSUME NEW c \in Clusters, fat_set_entry(c, EOC, "link") PROVE Steady
      <4>1. c \in {0} \cup Clusters /\ "link" \in Returns
        BY DEF Returns
      <4> QED BY <1>0, <3>1, <4>1, SetSteady
    <3> QED BY <2>1, <2>4, <3>1 DEF Alloc
  <2>5. CASE Link
    <3>1. CASE prev # 0 /\ fat_set_entry(prev, new, "data")
      <4>1. at = "link"
        BY <2>5 DEF Link, at
      <4>2. new \in Clusters /\ P[prev] = EOC
        BY <1>0, <3>1, <4>1 DEF Ground, Own
      <4>3. prev \in {0} \cup Clusters /\ new \in {FREE, EOC} \cup Clusters /\ "data" \in Returns
        BY <1>0, <4>2 DEF TypeWork, Returns
      <4> QED BY <1>0, <3>1, <4>2, <4>3, SetSteady
    <3> QED BY <2>1, <2>5, <3>1 DEF Link
  <2>6. CASE Unalloc
    <3>1. at = "unalloc"
      BY <2>6 DEF Unalloc, at
    <3> QED BY <1>0, <3>1 DEF Ground, Sure
  <2>7. CASE Cleanup
    <3>1. CASE fat_set_entry(last, EOC, "free")
      <4>1. last \in {0} \cup Clusters /\ "free" \in Returns
        BY <1>0 DEF TypeWork, Returns
      <4> QED BY <1>0, <3>1, <4>1, SetSteady
    <3> QED BY <2>1, <2>7, <3>1 DEF Cleanup
  <2> QED BY <2>2, <2>3, <2>4, <2>5, <2>6, <2>7
<1> QED BY <1>0, <1>1, WritingStep, SteadySees

\* A cluster of data is written behind the bytes of the file.
LEMMA DataSees == ASSUME Seen, Sure', WriteData PROVE Sees
<1>1. /\ at = "data" /\ Running /\ UNCHANGED call /\ P' = P /\ UNCHANGED dir /\ Sure
      /\ data' = [data EXCEPT ![new] = NextBlock]
  BY DEF WriteData, at, Running, Seen, Sure, Outcomes, Put, P
<1>2. new \in Held /\ new \in Clusters /\ TypeOK
  BY <1>1 DEF Held, Sure, Grounded, Ground, Own
<1>3. PICK S : S = IF op = "append" THEN {pos} ELSE {}
  OBVIOUS
<1>4. \A s : FileSlot(s) /\ s \notin S => new \notin Along(P, dir[s].first)
  BY <1>1, <1>2, <1>3, HeldOff DEF Sure, Grounded, Exempt, FileSlot
<1>5. ASSUME NEW s \in S, FileSlot(s) PROVE \E b : Shows(s, b) /\ Shows(s, b)'
  <2>1. s = pos /\ op = "append"
    BY <1>3, <1>5
  <2>2. PICK h, z : h = dir[s].first /\ z = dir[s].size /\ Appended(h, z)
    BY <1>1, <2>1 DEF Seen, AppendInv
  <2>3. PICK n \in Nat \ {0} : \E w \in [1 .. n -> Clusters] : z <= n * ClusterBytes /\ Written(h, z, n, w)
    BY <2>2 DEF Appended
  <2>4. PICK w \in [1 .. n -> Clusters] : z <= n * ClusterBytes /\ Written(h, z, n, w)
    BY <2>3
  <2>5. n \in 0 .. NumClusters /\ Lists(P, h, n, w) /\ \A k \in 1 .. n : w[k] # new
    BY <1>1, <2>4, WrittenFits DEF Written
  <2>6. \A k \in 1 .. n : data'[w[k]] = data[w[k]]
    BY <1>1, <1>2, <2>5 DEF TypeOK, TypeVolume
  <2>7. Keeps(s, n, w)
    BY <2>2, <2>4, <2>5, <2>6 DEF Keeps
  <2> QED BY <1>1, <1>2, <1>5, <2>5, <2>7, SteadyFile
<1>6. Steady
  <2>1. PICK c, v : c = new /\ v = NextBlock
    OBVIOUS
  <2>2. data' = [data EXCEPT ![c] = v]
    BY <1>1, <2>1
  <2>3. \A s : FileSlot(s) /\ s \notin S => c \notin Along(P, dir[s].first)
    BY <1>4, <2>1
  <2>4. \A s \in S : FileSlot(s) => \E b : Shows(s, b) /\ Shows(s, b)'
    BY <1>5
  <2> QED BY <1>1, <2>2, <2>3, <2>4, SteadyData
<1> QED BY <1>1, <1>6, WritingStep, SteadySees

\* A call that ends, is left by Ctrl-C or lost with the power is not seen.
LEMMA EndingSees ==
    ASSUME Sure, Sure', NotMounted \/ MkFull \/ Return \/ Abort \/ PowerLoss \/ fs_init \/ UNCHANGED vars
    PROVE  Sees
<1>1. UNCHANGED <<dir, data>> /\ P' = P
  BY DEF NotMounted, MkFull, Return, Abort, PowerLoss, fs_init, vars, disk, P
<1>2. CASE UNCHANGED vars
  <2>1. Writing' = Writing
    BY <1>2 DEF vars, Writing, Running
  <2> QED BY <1>1, <2>1, SteadyNone, SteadySees
<1>3. CASE NotMounted \/ MkFull \/ Return \/ Abort \/ PowerLoss \/ fs_init
  <2>1. ~Running'
    BY <1>3 DEF NotMounted, MkFull, Return, Abort, PowerLoss, fs_init, Running
  <2> QED BY <1>1, <2>1, SteadyNone, WritingStep, SteadySees
<1> QED BY <1>2, <1>3

\* Byte p of the first z is the i-th of the k-th of n clusters.
Byte(n, z, k, i, p) == /\ n \in Nat /\ z \in Nat /\ z <= n * ClusterBytes
                       /\ k \in 1 .. n /\ i \in 1 .. ClusterBytes
                       /\ p = (k - 1) * ClusterBytes + i /\ p <= z

\* A byte's place is the only one that has its number.
LEMMA PlaceIs ==
    ASSUME NEW D, NEW w, NEW n, NEW z, NEW k, NEW i, NEW p, Byte(n, z, k, i, p)
    PROVE  p \in 1 .. z /\ Spelt(D, w, z)[p] = D[w[k]][i]
<1>0. /\ n \in Nat /\ z \in Nat /\ z <= n * ClusterBytes
      /\ k \in 1 .. n /\ i \in 1 .. ClusterBytes
      /\ p = (k - 1) * ClusterBytes + i /\ p <= z
  BY DEF Byte
<1>1. ClusterBytes \in Nat \ {0} /\ (k - 1) * ClusterBytes \in Nat
  BY <1>0, GeometryAssumption
<1>2. p \in Nat \ {0} /\ p \in 1 .. z
  BY <1>0, <1>1
<1> DEFINE q == ((p - 1) \div ClusterBytes) + 1
           m == ((p - 1) % ClusterBytes) + 1
<1>3. q \in 1 .. n /\ m \in 1 .. ClusterBytes /\ (q - 1) * ClusterBytes + m = p
  <2>1. p <= n * ClusterBytes
    <3>1. n * ClusterBytes \in Nat
      BY <1>0, <1>1
    <3> QED BY <1>0, <1>2, <3>1
  <2> QED BY <1>0, <1>2, <2>1, Place
<1>4. Spelt(D, w, z)[p] = D[w[q]][m]
  BY <1>2 DEF Spelt
<1> HIDE DEF q, m
<1>5. (q - 1) * ClusterBytes \in Nat
  BY <1>1, <1>3
<1>6. k = q
  <2>1. ASSUME q < k PROVE FALSE
    <3>1. q \in Nat /\ k \in Nat /\ q # 0
      BY <1>0, <1>3
    <3>2. (q - 1) * ClusterBytes + m <= (k - 1) * ClusterBytes
      BY <1>3, <2>1, <3>1, PlaceBefore
    <3> QED BY <1>0, <1>1, <1>3, <1>5, <3>2
  <2>2. ASSUME k < q PROVE FALSE
    <3>1. q \in Nat /\ k \in Nat /\ k # 0
      BY <1>0, <1>3
    <3>2. (k - 1) * ClusterBytes + i <= (q - 1) * ClusterBytes
      BY <1>0, <2>2, <3>1, PlaceBefore
    <3> QED BY <1>0, <1>1, <1>3, <1>5, <3>2
  <2> QED BY <1>0, <1>3, <2>1, <2>2
<1>7. i = m
  BY <1>0, <1>1, <1>3, <1>5, <1>6
<1> QED BY <1>2, <1>4, <1>6, <1>7

\* What is written behind the bytes of a file is appended to them.
LEMMA SpeltBehind ==
    ASSUME TypeOK, NEW h, NEW z \in Nat, NEW n \in Nat, NEW w \in [1 .. n -> Clusters],
           Written(h, z, n, w), done = Len(arg), z <= n * ClusterBytes
    PROVE  /\ z + Len(arg) \in Nat /\ z + Len(arg) <= n * ClusterBytes /\ n \in 0 .. NumClusters
           /\ Spelt(data, w, z + Len(arg)) = Spelt(data, w, z) \o arg
<1>1. n \in 0 .. NumClusters /\ z + Len(arg) <= n * ClusterBytes
  BY WrittenAll
<1>2. PICK l \in Nat : l = Len(arg)
  BY DEF TypeOK, TypeCall
<1>3. PICK a : a = Spelt(data, w, z)
  OBVIOUS
<1>4. PICK b : b = [p \in 1 .. z + l |-> IF p <= z THEN a[p] ELSE arg[p - z]]
  OBVIOUS
<1>5. a = [p \in 1 .. z |-> a[p]]
  BY <1>3 DEF Spelt
<1>6. a \o arg = b
  <2>1. PICK V : V = {a[p] : p \in 1 .. z} \cup Bytes
    OBVIOUS
  <2>2. \A p \in 1 .. z : a[p] \in V
    BY <2>1
  <2>3. a \in Seq(V) /\ Len(a) = z
    <3>1. [p \in 1 .. z |-> a[p]] \in [1 .. z -> V]
      BY <2>2
    <3>2. a \in [1 .. z -> V]
      BY <1>5, <3>1
    <3> QED BY <3>2, SeqDef
  <2>4. arg \in Seq(V)
    <3>1. arg \in Seq(Bytes) /\ Bytes \subseteq V
      BY <2>1 DEF TypeOK, TypeCall
    <3> QED BY <3>1
  <2>5. PICK c : c = a \o arg
    OBVIOUS
  <2>6. /\ c \in Seq(V) /\ Len(c) = z + l
        /\ \A p \in 1 .. z + l : c[p] = IF p <= z THEN a[p] ELSE arg[p - z]
    BY <1>2, <2>3, <2>4, <2>5, ConcatProperties
  <2>7. c = [p \in 1 .. z + l |-> c[p]]
    <3>1. c \in [1 .. z + l -> V]
      BY <2>6, LenProperties
    <3> QED BY <3>1
  <2> QED BY <1>4, <2>5, <2>6, <2>7
<1>7. ASSUME NEW k \in 1 .. n, NEW i \in 1 .. ClusterBytes, (k - 1) * ClusterBytes + i <= z + l
      PROVE  data[w[k]][i] = b[(k - 1) * ClusterBytes + i]
  <2>1. PICK p : p = (k - 1) * ClusterBytes + i
    OBVIOUS
  <2>2. p \in Nat \ {0} /\ p \in 1 .. z + l
    <3>1. (k - 1) * ClusterBytes \in Nat
      BY GeometryAssumption
    <3> QED BY <1>7, <2>1, <3>1
  <2>3. CASE p <= z
    <3>1. Spelt(data, w, z)[p] = data[w[k]][i]
      <4>1. PICK D : D = data
        OBVIOUS
      <4>2. Spelt(D, w, z)[p] = D[w[k]][i]
        <5>1. Byte(n, z, k, i, p)
          BY <2>1, <2>3 DEF Byte
        <5> QED BY <5>1, PlaceIs
      <4> QED BY <4>1, <4>2
    <3> QED BY <1>3, <1>4, <2>1, <2>2, <2>3, <3>1
  <2>4. CASE z < p
    <3>1. data[w[k]][i] = arg[(k - 1) * ClusterBytes + i - z]
      <4>1. z < (k - 1) * ClusterBytes + i /\ (k - 1) * ClusterBytes + i <= z + Len(arg)
        BY <1>2, <1>7, <2>1, <2>4
      <4>2. \A x \in 1 .. n, y \in 1 .. ClusterBytes :
               z < (x - 1) * ClusterBytes + y /\ (x - 1) * ClusterBytes + y <= z + Len(arg) =>
                  data[w[x]][y] = arg[(x - 1) * ClusterBytes + y - z]
        BY DEF Written
      <4> QED BY <4>1, <4>2
    <3>2. data[w[k]][i] = arg[p - z]
      <4>1. (k - 1) * ClusterBytes + i - z = p - z
        <5>1. (k - 1) * ClusterBytes \in Int
          BY GeometryAssumption
        <5> QED BY <2>1, <5>1
      <4> QED BY <3>1, <4>1, Zenon
    <3>3. b[p] = arg[p - z]
      BY <1>4, <2>2, <2>4
    <3> QED BY <2>1, <3>2, <3>3
  <2> QED BY <2>2, <2>3, <2>4
<1>8. Holds(data, n, w, z + l, b)
  BY <1>1, <1>2, <1>7 DEF Holds
<1>9. Spelt(data, w, z + l) = [p \in 1 .. z + l |-> b[p]]
  BY <1>8, SpeltIs
<1>10. b = [p \in 1 .. z + l |-> b[p]]
  BY <1>4
<1> QED BY <1>1, <1>2, <1>3, <1>6, <1>9, <1>10

\* The entry that ends a write or an append shows all its bytes at once.
LEMMA CommitSees ==
    ASSUME Seen, Sure', ReadInv', Commit
    PROVE  Sees
<1>1. /\ Sure /\ P' = P /\ UNCHANGED <<data, op, name, arg, pos>> /\ at = "alloc" /\ pc = "alloc"
      /\ done = Len(arg) /\ pc' = "return" /\ r' = FS_OK /\ Building /\ Running
      /\ dir' = [dir EXCEPT ![pos] = IF op = "append" THEN [dir[pos] EXCEPT !.size = @ + Len(arg)]
                                     ELSE [dir[pos] EXCEPT !.first = first, !.size = Len(arg)]]
  BY DEF Commit, PutSlot, Put, Outcomes, P, at, call, Seen, Sure, Building, Running
<1>2. /\ op \in {"write", "append"} /\ pos \in Slots /\ dir[pos].kind = "file" /\ dir[pos].name = name
      /\ name \in Names /\ arg \in Buffers /\ FileSlot(pos) /\ TypeOK
  BY <1>1 DEF Seen, Sure, Grounded, DirInv, PosHeld, CallHeld, FileSlot
<1>3. dir[pos] \in Entry
  BY <1>2 DEF TypeOK, TypeVolume, Directory, Entry
<1>4. name \in FileNames
  BY <1>1, <1>2, FileOf
<1>5. PICK s, n : s = pos /\ n = name
  OBVIOUS
<1>6. FileNames \cup {n} = FileNames
  BY <1>4, <1>5
<1>7. CASE op = "write"
  <2>1. PICK e, b : e = [dir[pos] EXCEPT !.first = first, !.size = Len(arg)] /\ b = arg
    OBVIOUS
  <2>2. /\ e.kind = "file" /\ e.name = n /\ e.first = first /\ e.size = Len(arg)
        /\ dir' = [dir EXCEPT ![s] = e]
    BY <1>1, <1>2, <1>3, <1>5, <1>7, <2>1 DEF Entry
  <2>3. dir'[s] = e
    BY <1>2, <1>5, <2>2 DEF TypeOK, TypeVolume, Directory
  <2>4. Spells(P, data, e.first, e.size, b)
    <3>1. Spells(P', data', dir'[pos'].first, Len(arg'), arg')
      BY <1>1, <1>7 DEF ReadInv, Wrote
    <3> QED BY <1>1, <1>5, <2>1, <2>2, <2>3, <3>1
  <2>5. /\ FileNames' = FileNames \cup {n}
        /\ FileContents' = [FileContents EXCEPT ![n] = b]
        /\ DirCounts' = DirCounts
    <3>1. FilePut(n, s, e, b)
      BY <1>2, <1>5, <2>2, <2>4 DEF FilePut
    <3> QED BY <1>1, <3>1, FileSees
  <2>6. ~Store!Idle /\ Writing' = Store!Nobody
    BY <1>1, <1>2, <1>7, StoreIdle DEF Running
  <2>7. Writing.file = n /\ Writing.buffer = b
    BY <1>1, <1>5, <1>7, <2>1 DEF Writing
  <2>8. Store!EndWrite
    BY <1>6, <2>5, <2>6, <2>7 DEF Store!EndWrite
  <2> QED BY <2>8 DEF Sees, Store!Next
<1>8. CASE op = "append"
  <2>1. PICK h, z : h = dir[pos].first /\ z = dir[pos].size /\ Appended(h, z)
    BY <1>1, <1>8 DEF Seen, AppendInv
  <2>2. PICK m \in Nat \ {0} : \E w \in [1 .. m -> Clusters] : z <= m * ClusterBytes /\ Written(h, z, m, w)
    BY <2>1 DEF Appended
  <2>3. PICK w \in [1 .. m -> Clusters] : z <= m * ClusterBytes /\ Written(h, z, m, w)
    BY <2>2
  <2>4. z \in Nat /\ h \in {0} \cup Clusters
    BY <1>3, <2>1 DEF Entry
  <2>5. PICK e, a, b : /\ e = [dir[pos] EXCEPT !.size = @ + Len(arg)]
                       /\ a = Spelt(data, w, z) /\ b = a \o arg
    OBVIOUS
  <2>6. /\ z + Len(arg) \in Nat /\ z + Len(arg) <= m * ClusterBytes /\ m \in 0 .. NumClusters
        /\ Spelt(data, w, z + Len(arg)) = b
    <3>1. m \in Nat
      OBVIOUS
    <3> QED BY <1>1, <1>2, <2>3, <2>4, <2>5, <3>1, SpeltBehind
  <2>7. /\ e.kind = "file" /\ e.name = n /\ e.first = h /\ e.size = z + Len(arg)
        /\ dir' = [dir EXCEPT ![s] = e]
    BY <1>1, <1>2, <1>3, <1>5, <1>8, <2>1, <2>5 DEF Entry
  <2>8. Spells(P, data, e.first, e.size, b) /\ Spells(P, data, h, z, a)
    <3>1. Lists(P, h, m, w)
      BY <2>3 DEF Written
    <3> QED BY <2>3, <2>5, <2>6, <2>7, <3>1 DEF Spells
  <2>9. FileContents[n] = a
    BY <1>1, <1>2, <1>5, <2>1, <2>8, ViewNow DEF View, Shows
  <2>10. /\ FileNames' = FileNames \cup {n}
         /\ FileContents' = [FileContents EXCEPT ![n] = b]
         /\ DirCounts' = DirCounts
    <3>1. FilePut(n, s, e, b)
      BY <1>2, <1>5, <2>7, <2>8 DEF FilePut
    <3> QED BY <1>1, <3>1, FileSees
  <2>11. Store!Idle /\ Writing' = Writing
    BY <1>1, <1>8, StoreIdle DEF Store!Idle
  <2>12. PICK x : x = arg
    OBVIOUS
  <2>13. Store!Extend(n, x)
    BY <1>4, <1>5, <1>6, <2>5, <2>9, <2>10, <2>11, <2>12 DEF Store!Extend
  <2> QED BY <1>2, <1>5, <2>12, <2>13 DEF Sees, Store!Next
<1> QED BY <1>2, <1>7, <1>8

\* Every step is one of FileStore or is not seen.
LEMMA StoreNext ==
    ASSUME Seen, Sure', ReadInv', [Next]_vars
    PROVE  Sees
<1>0. Sure
  BY DEF Seen
<1>1. CASE Step
  <2>1. CASE NextCopy \/ MkDots \/ MkEntry \/ MkFull
    BY <1>0, <2>1, MirrorSees, MkDotsSees, MkEntrySees, EndingSees
  <2>2. CASE FreeOne \/ FreeDone \/ Alloc \/ Link \/ Unalloc \/ Cleanup
    BY <1>0, <2>2, TableSees
  <2>3. CASE WriteData \/ Commit \/ Return
    BY <1>0, <2>3, DataSees, CommitSees, EndingSees
  <2> QED BY <1>1, <2>1, <2>2, <2>3 DEF Step
<1>2. CASE Request
  <2>1. CASE NotMounted
    BY <1>0, <2>1, EndingSees
  <2>2. ASSUME NEW n \in Names, make_dir(n) \/ remove_dir(n) \/ fs_create_file(n)
        PROVE  Sees
    BY <1>0, <2>2, MkdirSees, RmdirSees, CreateSees
  <2>3. ASSUME NEW n \in Names, NEW b \in Buffers, fs_write_file(n, b) \/ fs_append_file(n, b)
        PROVE  Sees
    BY <1>0, <2>3, StartWriteSees, AppendSees DEF fs_write_file
  <2> QED BY <1>2, <2>1, <2>2, <2>3 DEF Request
<1>3. CASE Abort \/ PowerLoss \/ fs_init \/ UNCHANGED vars
  BY <1>0, <1>3, EndingSees
<1> QED BY <1>1, <1>2, <1>3 DEF Next

\* A volume at its start has no file, and perhaps the one directory.
LEMMA StoreInit ==
    ASSUME Init
    PROVE  Store!Init
<1>1. PICK hosted \in {h \in SUBSET {HostDir} : h \subseteq Clusters}, n \in Names :
         dir = [s \in Slots |-> IF s = 1 THEN Blank("skip")
                                ELSE IF s = 2 /\ hosted # {} THEN DirEntry(n, HostDir)
                                ELSE Blank("end")]
  BY DEF Init
<1>2. \A s \in Slots : /\ dir[s].kind # "file"
                       /\ dir[s].kind = "dir" => s = 2 /\ dir[s].name = n
  BY <1>1 DEF Blank, DirEntry
<1>3. \A m : Files(m) = {}
  BY <1>2 DEF Files, Hits
<1>4. FileNames = {} /\ FileContents = [m \in Names |-> <<>>]
  BY <1>3 DEF FileNames, FileContents, Contents
<1>5. Writing = Store!Nobody
  BY DEF Init, Writing, Running, Store!Nobody
<1> DEFINE Ds(m) == {s \in Slots : dir[s].kind = "dir" /\ dir[s].name = m /\ Scanned(s)}
<1>6. DirCounts = [m \in Names |-> Cardinality(Ds(m))]
  BY DEF DirCounts
<1>7. \A m : Ds(m) \subseteq {2} /\ (Ds(m) # {} => m = n)
  BY <1>2
<1> HIDE DEF Ds
<1>8. \A m : Cardinality(Ds(m)) \in 0 .. 1 /\ (Ds(m) = {} => Cardinality(Ds(m)) = 0)
  <2>1. \A m : Ds(m) = {} \/ Ds(m) = {2}
    BY <1>7
  <2>2. Cardinality({}) = 0
    BY FS_EmptySet
  <2>3. Cardinality({2}) = 1
    BY FS_Singleton
  <2>4. \A m : Ds(m) = {} => Cardinality(Ds(m)) = 0
    BY <2>2, Zenon
  <2>5. \A m : Ds(m) = {2} => Cardinality(Ds(m)) = 1
    BY <2>3, Zenon
  <2>6. \A m : Cardinality(Ds(m)) = 0 \/ Cardinality(Ds(m)) = 1
    BY <2>1, <2>4, <2>5, Zenon
  <2> QED BY <2>4, <2>6
<1>9. DirCounts \in [Names -> 0 .. 1]
  BY <1>6, <1>8
<1>10. \A l, m \in Names : DirCounts[l] = 1 /\ DirCounts[m] = 1 => l = m
  <2>1. \A m \in Names : DirCounts[m] = 1 => m = n
    BY <1>6, <1>7, <1>8
  <2> QED BY <2>1
<1> QED BY <1>4, <1>5, <1>9, <1>10 DEF Store!Init

\* The calls of fs.c, as the sectors they write one after the other, cut short by
\* Ctrl-C or the power anywhere (but for appends), show a program nothing but the
\* steps of FileStore: files that are created, emptied and then given all that was
\* written or nothing, or extended at once, and directories that come and go.
THEOREM StoreRefined ==
    ASSUME WriteFaults = FALSE, "append" \notin Crashes
    PROVE  Spec => RefinesFileStore
<1> DEFINE I == TypeOK /\ ChainsInv /\ DirInv /\ LeakInv /\ SizeInv /\ ReadInv /\ AppendInv /\ CallHeld
<1>1. Init => I /\ Store!Init
  BY TypeInit, InitChains, DirInit, LeakInit, SizeInit, ReadInit, SeenInit, StoreInit
<1>2. I => Seen
  BY GroundChains DEF Seen, Sure, Grounded
<1>3. I /\ [Next]_vars => I'
  <2> SUFFICES ASSUME I, [Next]_vars PROVE I'
    OBVIOUS
  <2>1. Sure /\ Seen
    BY <1>2 DEF Seen
  <2> QED BY <2>1, TypeNext, ChainsNext, DirNext, LeakNext, SizeNext, ReadNext, AppendNext, CallNext
          DEF Sure, Grounded, Readable
<1>4. I /\ I' /\ [Next]_vars => Sees
  <2> SUFFICES ASSUME I, I', [Next]_vars PROVE Sees
    OBVIOUS
  <2>1. Seen /\ Seen'
    BY <1>2, PTL
  <2> QED BY <2>1, StoreNext DEF Seen
<1> HIDE DEF I
<1> QED BY <1>1, <1>3, <1>4, PTL DEF Spec, RefinesFileStore, Store!Spec, Sees
=============================================================================
