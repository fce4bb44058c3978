----------------------------- MODULE Directory ------------------------------
(***************************************************************************)
(* What the root directory promises the file operations: a row of slots    *)
(* that changes one slot at a time, in one piece.  Fat32 takes directory   *)
(* writes to be like this; RootDir shows that they are.                    *)
(*                                                                         *)
(* A call one of whose reads failed promises less: it may spoil the slots  *)
(* of the one cluster it writes.                                           *)
(***************************************************************************)
EXTENDS Integers, Sequences, FiniteSetsExt

CONSTANTS Names,
          PerCluster   \* slots in a cluster

VARIABLES slots,       \* the entries, in the order of the chain
          trouble      \* a read of the running call has failed

Live(e)     == e.kind \in {"file", "dir"}
Vacant(e)   == e.kind \in {"end", "deleted"}
Blank(k)    == [kind |-> k, name |-> "none", val |-> 0]
File(n, v)  == [kind |-> "file", name |-> n, val |-> v]
Folder(n)   == [kind |-> "dir", name |-> n, val |-> 0]

\* The lowest of a set of positions, 0 when there is none.
Lowest(S) == IF S = {} THEN 0 ELSE Min(S)

\* What stands before the end mark.
Listed == {s \in DOMAIN slots : \A t \in 1 .. s : slots[t].kind # "end"}

FirstNamed(n)  == Lowest({s \in Listed : Live(slots[s]) /\ slots[s].name = n})
FirstFile(n)   == Lowest({s \in Listed : slots[s].kind = "file" /\ slots[s].name = n})
FirstVacant    == Lowest({s \in DOMAIN slots : Vacant(slots[s])})

\* The live ones of entries b[1..n], in order, behind those shown before.
Shown(before, b, n) ==
    LET rows[i \in 0 .. n] == IF i = 0 THEN before
                              ELSE IF Live(b[i]) THEN Append(rows[i - 1], b[i]) ELSE rows[i - 1]
    IN rows[n]

Listing == Shown(<<>>, slots, Cardinality(Listed))

-----------------------------------------------------------------------------
Change(s, e) == s # 0 /\ slots' = [slots EXCEPT ![s] = e]

AddFile(n)     == FirstNamed(n) = 0 /\ Change(FirstVacant, File(n, 0))
AddDir(n)      == Change(FirstVacant, Folder(n))
SetFile(n, v)  == slots[FirstNamed(n)].kind = "file" /\ Change(FirstNamed(n), File(n, v))
RemoveDir(n)   == slots[FirstNamed(n)].kind = "dir" /\ Change(FirstNamed(n), Blank("deleted"))

Cluster(s) == (s - 1) \div PerCluster

Spoil == /\ trouble
         /\ DOMAIN slots' = DOMAIN slots
         /\ \A s, t \in DOMAIN slots :
               slots'[s] # slots[s] /\ slots'[t] # slots[t] => Cluster(s) = Cluster(t)

Next == \/ UNCHANGED slots
        \/ Spoil
        \/ \E n \in Names : \/ AddFile(n) \/ AddDir(n)
                            \/ FirstNamed(n) # 0 /\ (RemoveDir(n) \/ \E v \in 0 .. 1 : SetFile(n, v))

\* At first there is nothing but a label.
Init == /\ \A s \in DOMAIN slots : slots[s] = IF s = 1 THEN Blank("skip") ELSE Blank("end")
        /\ ~trouble

Spec == Init /\ [][Next]_<<slots, trouble>>
=============================================================================
