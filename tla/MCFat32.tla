------------------------------ MODULE MCFat32 ------------------------------
(* Small volumes for TLC. *)
EXTENDS Fat32, Layout, FatName, TLC

CONSTANTS n1, n2

TwoNames == {n1, n2}
OneName  == {n1}
NamesMatter == Permutations({n1, n2})

\* Nothing, half a cluster, a cluster, a cluster and a half (ClusterBytes = 2).
SmallBuffers == {<<>>, <<"a">>, <<"b", "a">>, <<"b", "a", "a">>}

\* Nothing, one cluster, two (ClusterBytes = 1).
BlockBuffers == {<<>>, <<"a">>, <<"a", "a">>}

-----------------------------------------------------------------------------
(* The sectors of small volumes; RootDirProofs proves it of all.           *)

SmallVolumes == [reserved_sectors : 1 .. 2, num_fats : 1 .. 2, fat_size_32 : 1 .. 3,
                 sec_per_clus : 1 .. 3, total_sectors : 4 .. 29]

ASSUME LayoutHolds ==
    \A v \in SmallVolumes :
        Formatted(v) => /\ ClustersApart(v) /\ ClustersInside(v)
                        /\ TablesInside(v) /\ EntriesApart(v)
-----------------------------------------------------------------------------
(* Short names, of two letters, the capital of one, dots and spaces;       *)
(* RootDirProofs proves it of all.                                         *)

ShortNames == UNION {[1 .. n -> {65, 97, 98, Dot, Space}] : n \in 0 .. 3}

ASSUME NamesHold == \A a, b \in ShortNames : KeptApart(a, b) /\ CaseIgnored(a, b)
=============================================================================
