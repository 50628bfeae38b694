----------------------------- MODULE Ext2Layout -----------------------------
(***************************************************************************)
(* Where on the disk the file system looks: what ext2_probe computes from  *)
(* the superblock, and where ext2_read_block and ext2_write_block,         *)
(* ext2_read_inode and ext2_write_inode find blocks and inodes             *)
(* (kernel/arch/i386/ext2.c).                                              *)
(***************************************************************************)
EXTENDS Integers

CONSTANTS
    Hints,          \* blocksize_hint of the disks
    GroupInodes,    \* inodes_in_blockgroup
    Groups          \* bound: the number of groups

ASSUME LayoutAssumption ==
    Hints \subseteq Nat /\ GroupInodes \subseteq Nat \ {0} /\ Groups \in Nat \ {0}

InodeSize      == 128
SuperblockSize == 1024
SectorSize     == 512
-----------------------------------------------------------------------------
block_size(hint)        == SuperblockSize * 2^hint
inodes_per_block(bs)    == bs \div InodeSize
sectors_per_block(bs)   == bs \div SectorSize
first_bgd(superblock_id, bs) == superblock_id + (SuperblockSize \div bs)

(* The sectors of a block. *)
Sectors(bs, block) ==
    (block * sectors_per_block(bs)) .. (block * sectors_per_block(bs) + sectors_per_block(bs) - 1)

group(inode, ipg) == (inode - 1) \div ipg
index(inode, ipg) == (inode - 1) % ipg

(* Variant: the place in the block is not reduced. *)
PlaceUnreduced(inode, ipg, bs) ==
    [group  |-> group(inode, ipg),
     block  |-> (index(inode, ipg) * InodeSize) \div bs,
     offset |-> index(inode, ipg) * InodeSize]

(* The group whose descriptor is used, the block in its inode table and    *)
(* the place there.                                                        *)
Place(inode, ipg, bs) ==
    [group  |-> group(inode, ipg),
     block  |-> (index(inode, ipg) * InodeSize) \div bs,
     offset |-> (index(inode, ipg) % inodes_per_block(bs)) * InodeSize]
-----------------------------------------------------------------------------
BlockSizes == { block_size(h) : h \in Hints }

(* Every inode has a place of its own, whole in one block and in the table *)
(* of its group: writing one back changes no other (ext2.c:77, 107).       *)
InodesApart ==
    \A bs \in BlockSizes : \A ipg \in GroupInodes : \A i \in 1..(Groups * ipg) :
        LET p == Place(i, ipg, bs)
        IN  /\ p.offset + InodeSize <= bs
            /\ p.group < Groups /\ p.block * bs + p.offset < ipg * InodeSize
            /\ \A j \in 1..(Groups * ipg) : Place(j, ipg, bs) = p => j = i

(* Blocks do not share sectors; the superblock ext2_probe reads from       *)
(* sectors 2 and 3 is in the block it is said to be in, and the            *)
(* descriptors are in the block behind it on disks with blocks of 1024     *)
(* bytes, the only ones the driver is right for (ext2.c:9, 31, 69).        *)
BlocksApart ==
    \A bs \in BlockSizes : \A b, c \in 0..Groups :
        LET holder == IF bs = SuperblockSize THEN 1 ELSE 0
        IN  /\ b # c => Sectors(bs, b) \cap Sectors(bs, c) = {}
            /\ {2, 3} \subseteq Sectors(bs, holder)
            /\ bs = SuperblockSize => first_bgd(holder, bs) = holder + 1

(* Nothing on the disk is found at the place of something else.            *)
PlacesApart == InodesApart /\ BlocksApart
=============================================================================
