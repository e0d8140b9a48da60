---------------------------- MODULE Fat32Layout ----------------------------
(***************************************************************************)
(* How with_format of library/filesystem/src/fs/fat32.rs divides a device  *)
(* of 512-byte blocks into reserved sectors, two FAT copies and clusters,  *)
(* and what mount computes from the result.                                *)
(***************************************************************************)
EXTENDS Integers

CONSTANT MaxBlocks      \* bound: the largest device laid out
VARIABLE block_count

ASSUME LayoutAssumption == MaxBlocks \in Nat

sectors_per_cluster == 8
cluster_per_fat == 512 \div 4
sector_per_group == 2 + cluster_per_fat * sectors_per_cluster

(* calc_cluster_count: whole groups of a FAT sector pair and its clusters, *)
(* then what is left.  The two reserved cluster numbers are counted as if  *)
(* they took space and subtracted at the end.                              *)
virtual_block_count(n) == n - 2 + sectors_per_cluster * 2
group_count(n) == virtual_block_count(n) \div sector_per_group
group_rest(n) == virtual_block_count(n) - sector_per_group * group_count(n)
remain_cluster(n) ==
    IF group_rest(n) > 2 THEN (group_rest(n) - 2) \div sectors_per_cluster ELSE 0
remain_block_count(n) ==
    IF group_rest(n) > 2 THEN group_rest(n) - 2 - remain_cluster(n) * sectors_per_cluster
                         ELSE group_rest(n)
cluster_total(n) ==
    LET c == group_count(n) * cluster_per_fat + remain_cluster(n) IN IF c > 2 THEN c - 2 ELSE 0

(* with_format: a device with fewer than two clusters is refused; the FAT  *)
(* is sized for the clusters, not for the two numbers before them.         *)
Formatted(n) == n >= 2 /\ cluster_total(n) >= 2
reserved_sector_count(n) == 2 + remain_block_count(n)
\* Variant: the division rounds down
fat_size_32_floor(n) == cluster_total(n) \div cluster_per_fat
fat_size_32(n) == (cluster_total(n) + cluster_per_fat - 1) \div cluster_per_fat

(* check_bpb of what format wrote, and max_cluster of mount.               *)
check_bpb(n) == reserved_sector_count(n) <= n /\ fat_size_32(n) # 0
fat_limit(n) == fat_size_32(n) * cluster_per_fat - 2
device_limit(n) ==
    (n - reserved_sector_count(n) - fat_size_32(n) * 2) \div sectors_per_cluster
max_cluster(n) == IF fat_limit(n) < device_limit(n) THEN fat_limit(n) ELSE device_limit(n)

layInit == block_count = 0
layNext == block_count < MaxBlocks /\ block_count' = block_count + 1
laySpec == layInit /\ [][layNext]_block_count

-----------------------------------------------------------------------------
(* The areas format lays out fit on the device, with two sectors to spare  *)
(* at most: the last cluster never reaches past the end.                   *)
LayoutFits ==
    LET n == block_count
        used == reserved_sector_count(n) + 2 * fat_size_32(n)
                + sectors_per_cluster * cluster_total(n)
    IN  Formatted(n) => used <= n /\ n <= used + 2

(* A formatted device can be mounted, with the number of clusters it was   *)
(* formatted with, unless the FAT is too short for the last one or two;    *)
(* that happens exactly when the clusters fill the FAT or miss it by one.  *)
RemountAgrees ==
    LET n == block_count
        short == cluster_total(n) % cluster_per_fat \in {0, cluster_per_fat - 1}
    IN  Formatted(n) =>
            /\ check_bpb(n)
            /\ short <=> fat_limit(n) < cluster_total(n)
            /\ ~short => max_cluster(n) = cluster_total(n)

(* The layout of a device of any size: its areas fit, and mount finds as many *)
(* clusters as format made unless they fill the FAT or miss it by one.        *)
LayoutSafe == LayoutFits /\ RemountAgrees
============================================================================
