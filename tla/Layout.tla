------------------------------- MODULE Layout -------------------------------
(***************************************************************************)
(* Where the FAT32 driver (src/src/fs.c) reads and writes: the sectors of  *)
(* a cluster and of a table entry, in the machine's words.  A volume v is  *)
(* the record of the fields that fs_init takes from the boot sector.       *)
(*                                                                         *)
(* Sums and products are taken modulo Word where the code goes on to       *)
(* divide or compare them, and once at the end of an address.              *)
(***************************************************************************)
EXTENDS Integers

CONSTANTS
    Word,              \* 2^32
    DiskSectors,       \* 2^28: ata.c hands on so many bits of a sector's number
    FS_PARTITION_LBA,
    EntriesPerSector   \* bytes_per_sec / 4

ASSUME LayoutAssumption ==
    /\ Word \in Nat /\ DiskSectors \in Nat \ {0}
    /\ 4 * (DiskSectors + 2) <= Word
    /\ FS_PARTITION_LBA \in Nat
    /\ EntriesPerSector \in Nat \ {0}

bytes_per_sec == 4 * EntriesPerSector

Volumes(Sizes) == [reserved_sectors : Sizes, num_fats : Sizes, fat_size_32 : Sizes,
                   sec_per_clus : Sizes, total_sectors : Sizes]

\* What fs_init asks of the boot sector, apart from the sector's size.
Mounted(v) == v.sec_per_clus # 0

data_sec(v) == (v.reserved_sectors + v.num_fats * v.fat_size_32) % Word

total_clusters(v) == ((v.total_sectors - data_sec(v)) % Word) \div v.sec_per_clus

-----------------------------------------------------------------------------
Addressed(lba) == (lba % Word) % DiskSectors

calculate_LBA(v, cluster) ==
    (FS_PARTITION_LBA + data_sec(v) + (cluster - 2) * v.sec_per_clus) % Word

\* The i-th sector that read_cluster and write_cluster touch.
ClusterSector(v, cluster, i) == Addressed(calculate_LBA(v, cluster) + i)

fat_offset(cluster) == (cluster * 4) % Word

\* The sector of a cluster's entry in the f-th copy of the table, and the
\* place of the entry in it.
fat_sector(v, f, cluster) ==
    Addressed(FS_PARTITION_LBA + v.reserved_sectors + f * v.fat_size_32
                  + fat_offset(cluster) \div bytes_per_sec)

ent_offset(cluster) == fat_offset(cluster) % bytes_per_sec

\* The clusters that find_free_cluster comes by: those with an entry in the
\* table, up to the last of the volume.
Searched(v) == {c \in 2 .. total_clusters(v) + 1 : c < v.fat_size_32 * EntriesPerSector}

-----------------------------------------------------------------------------
\* What mkfs.vfat makes sure of, and fs_init does not look at: the tables end
\* within the volume, and the volume within what ata.c can address.
Formatted(v) ==
    /\ v.reserved_sectors + v.num_fats * v.fat_size_32 <= v.total_sectors
    /\ FS_PARTITION_LBA + v.total_sectors <= DiskSectors

\* Two clusters share no sector.
ClustersApart(v) ==
    \A c, d \in Searched(v) : \A i, j \in 0 .. v.sec_per_clus - 1 :
        ClusterSector(v, c, i) = ClusterSector(v, d, j) => c = d /\ i = j

\* Clusters lie behind the tables and before the end of the volume.
ClustersInside(v) ==
    \A c \in Searched(v) : \A i \in 0 .. v.sec_per_clus - 1 :
        /\ FS_PARTITION_LBA + data_sec(v) <= ClusterSector(v, c, i)
        /\ ClusterSector(v, c, i) < FS_PARTITION_LBA + v.total_sectors

\* The tables lie behind the reserved sectors and before the clusters.
TablesInside(v) ==
    \A c \in Searched(v) : \A f \in 0 .. v.num_fats - 1 :
        /\ FS_PARTITION_LBA + v.reserved_sectors <= fat_sector(v, f, c)
        /\ fat_sector(v, f, c) < FS_PARTITION_LBA + data_sec(v)

\* Two entries are at two places, of one copy or of two.
EntriesApart(v) ==
    \A c, d \in Searched(v) : \A f, g \in 0 .. v.num_fats - 1 :
        fat_sector(v, f, c) = fat_sector(v, g, d) /\ ent_offset(c) = ent_offset(d)
            => f = g /\ c = d
=============================================================================
