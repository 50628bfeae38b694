------------------------------ MODULE Ext2File ------------------------------
(***************************************************************************)
(* ext2_write_file and ext2_alloc_block of kernel/arch/i386/ext2.c, one    *)
(* disk write at a time, with a power failure possible between any two.    *)
(*                                                                         *)
(* The disk is the counters of free blocks in the superblock and in the    *)
(* block group descriptors, the table of inodes, and blocks of BlockSize   *)
(* bytes that reach the disk sector by sector (ata_write).  What the three *)
(* metadata writes put next to the field they change is what was there, so *)
(* each of them is one step.  Bitmaps are not modelled because the code    *)
(* neither reads nor writes them.                                          *)
(***************************************************************************)
EXTENDS Integers, FiniteSetsExt

CONSTANTS
    Blocks,         \* sb.blocks; the block numbers are 0..Blocks - 1
    Groups,         \* number_of_bgs
    FirstBgd,       \* the block of the group descriptors
    System,         \* boot block (0), superblock, descriptors, bitmaps,
                    \* inode tables, directories
    BlockSize,
    SectorSize,
    Direct,         \* direct block pointers of an inode (12)
    File,           \* regular files
    Dir,            \* directories
    Missing,        \* a name that is in no directory
    Stray,          \* the block where the code looks for inode 0
    InodeAt,        \* the inodes as mke2fs and the host left them, and what
                    \* block Stray holds in place of inode 0
    Records,        \* what it may hold there once block Stray is written
    FreeAt,         \* group -> num_of_unalloc_block as the host left it
    Buffers,        \* what callers write: functions on 0..(n-1), n > 0
    MaxSize,        \* bound: no file grows past this size
    MaxOutages      \* bound: power failures

Old    == 0         \* what a block holds that this kernel has not written
Junk   == -1        \* bytes past the end of a caller's buffer
Damage == -2        \* one kind of metadata written over something else
Value  == (UNION { {b[k] : k \in DOMAIN b} : b \in Buffers }) \cup {Old, Junk, Damage}

Name  == File \cup Dir \cup {Missing}
Group == 0..(Groups - 1)
Cell  == 0..(BlockSize - 1)
Slot  == 0..(Direct - 1)
Node  == [size : 0..MaxSize, dbp : [Slot -> 0..Blocks]]
Untouched == [c \in Cell |-> Old]

ASSUME Ext2Assumption ==
    /\ Blocks \in Nat /\ FirstBgd \in Nat /\ Groups \in Nat \ {0}
    /\ System \subseteq 0..(Blocks - 1) /\ 0 \in System /\ Stray \in 0..(Blocks - 1)
    /\ SectorSize \in Nat \ {0} /\ BlockSize \in Nat \ {0}
    /\ BlockSize % SectorSize = 0 /\ Direct \in Nat \ {0}
    /\ MaxSize \in Nat /\ MaxOutages \in Nat
    /\ \A b \in Buffers : Max(DOMAIN b) \in Nat /\ DOMAIN b = 0..(Max(DOMAIN b))
    /\ Missing \notin File \cup Dir
    /\ InodeAt \in [Name -> Node] /\ FreeAt \in [Group -> 0..Blocks]
    /\ Records \subseteq Node

ASSUME BuffersAssumption == \A b \in Buffers : b \in [DOMAIN b -> Value \ {Old}]

VARIABLES
    bgFree,     \* group -> num_of_unalloc_block on disk
    sbFree,     \* sb.unallocatedblocks on disk
    inode,      \* the inodes on disk: name -> [size, dbp]
    block,      \* the other blocks on disk, and the one past the end
    call,       \* the ext2_write_file under way
    outages     \* power failures so far

disk == <<bgFree, sbFree, inode, block>>
vars == <<bgFree, sbFree, inode, block, call, outages>>

Idle == [pc |-> "idle"]
-----------------------------------------------------------------------------
Len(b) == Max(DOMAIN b) + 1

(* blocks_to_alloc *)
BlocksFor(len) == len \div BlockSize + 1

(* Where the data of an inode ends: last_data_block, last_data_offset.     *)
Last(node)       == node.size \div BlockSize
TailOffset(node) == node.size % BlockSize

(* Variant: the block of the last byte instead of the byte after it. *)
TailsOfLastByte(node) ==
    LET k == (node.size - 1) \div BlockSize
    IN  IF k < Direct THEN {node.dbp[k]} ELSE 0..Blocks

(* What inode->dbp[last_data_block] may be.  There is no bound on the      *)
(* index: behind the direct pointers are the indirect ones, other fields   *)
(* and the memory after the inode.                                         *)
Tails(node) == IF Last(node) < Direct THEN {node.dbp[Last(node)]} ELSE 0..Blocks

(* What ext2_read_inode gives.  No name has inode 0; at its place is what  *)
(* was last written there or what has gone to block Stray since.           *)
Found(n) == IF n = Missing THEN Records \cup {inode[n]} ELSE {inode[n]}

(* memcpy(root_buff + at, buf + from, n) over a block that was read: past  *)
(* the end of buf it copies whatever follows, past the end of root_buff    *)
(* nothing reaches the disk.                                               *)
Overlay(cells, at, buf, from, n) ==
    [c \in Cell |-> IF c \in at..(at + n - 1)
                    THEN IF from + c - at \in DOMAIN buf
                         THEN buf[from + c - at] ELSE Junk
                    ELSE cells[c]]

(* Variant: every block starts with the beginning of buf. *)
FreshCellsUnmoved(node, buf, i) ==
    Overlay(block[node.dbp[i]], 0, buf, 0, BlockSize)

(* The bytes of fresh block i: the last memcpy takes len, not what is left.*)
FreshCells(node, buf, i) ==
    Overlay(block[node.dbp[i]], 0, buf, i * BlockSize,
            IF i + 1 < BlocksFor(Len(buf)) THEN BlockSize ELSE Len(buf))

LastSector == BlockSize \div SectorSize - 1

(* Sector s of block b reaches the disk. *)
SectorWritten(b, s, cells) ==
    [block EXCEPT ![b] = [c \in Cell |-> IF c \div SectorSize = s
                                         THEN cells[c] ELSE @[c]]]

(* Variant: the number computed from the count already decremented. *)
BlockChosenLate(free) == Blocks - (free - 1) + 1

(* The number ext2_alloc_block gives when a group has free blocks left.    *)
BlockChosen(free) == Blocks - free + 1

TotalFree(count) == MapThenSumSet(LAMBDA g : count[g], Group)

(* The pointers of the files n are below limit, lead to no two places the  *)
(* same block, and those of regular files to none of the file system's.    *)
Apart(dbp, limit) ==
    /\ \A n \in File \cup Dir, k \in Slot : dbp[n][k] < limit
    /\ \A n, m \in File \cup Dir, k, l \in Slot :
          dbp[n][k] # 0 /\ dbp[n][k] = dbp[m][l] => n = m /\ k = l
    /\ \A n \in File, k \in Slot : dbp[n][k] # 0 => dbp[n][k] \notin System

(* The host has filled the disk from the bottom: what ext2_alloc_block     *)
(* hands out first is behind all that is in use.                           *)
ASSUME HostAssumption ==
    Groups = 1 =>
        /\ \A b \in System : b < BlockChosen(FreeAt[0])
        /\ \A n \in Name, k \in Slot : InodeAt[n].dbp[k] < Blocks
        /\ Apart([n \in File \cup Dir |-> InodeAt[n].dbp], BlockChosen(FreeAt[0]))
        /\ \A d \in Dir : /\ InodeAt[d].size > 0
                          /\ \A k \in Slot : k >= Last(InodeAt[d]) => InodeAt[d].dbp[k] = 0

(* Something has gone over the superblock, the descriptors, the inodes or  *)
(* a directory.  What the kernel then reads there is anything; behaviours  *)
(* are not followed beyond that.                                           *)
Lost == \E b \in System \ {0} : block[b] # Untouched

At(pc) == call.pc = pc /\ ~Lost
-----------------------------------------------------------------------------
Init ==
    /\ bgFree = FreeAt
    /\ sbFree = TotalFree(FreeAt)
    /\ inode = InodeAt
    /\ block = [b \in 0..Blocks |-> Untouched]
    /\ call = Idle
    /\ outages = 0

(* The call on a name whose inode has size 0.  The inode number is not     *)
(* compared with 0 nor its type with INODE_TYPE_FILE.  Too many blocks are *)
(* refused before anything is written.                                     *)
BeginFresh(n, b) ==
    /\ call = Idle /\ ~Lost
    /\ BlocksFor(Len(b)) <= Direct
    /\ Len(b) <= MaxSize
    /\ \E node \in Found(n) :
        /\ node.size = 0
        /\ call' = [pc |-> "count", name |-> n, buf |-> b, node |-> node,
                    i |-> 0, sector |-> 0]
    /\ UNCHANGED <<disk, outages>>

(* Variant: the descriptors are not written back. *)
CountGroupUnwritten ==
    /\ At("count")
    /\ \E g \in { h \in Group : bgFree[h] > 0 /\ \A e \in 0..(h - 1) : bgFree[e] = 0 } :
        call' = [call EXCEPT !.pc = "total",
                             !.node.dbp[call.i] = BlockChosen(bgFree[g])]
    /\ UNCHANGED <<disk, outages>>

(* ext2_alloc_block: the first group with a free block gives a number and  *)
(* its descriptor is written back, to the block as many further on as the  *)
(* group is.                                                               *)
CountGroup ==
    /\ At("count")
    /\ \E g \in { h \in Group : bgFree[h] > 0 /\ \A e \in 0..(h - 1) : bgFree[e] = 0 } :
        /\ call' = [call EXCEPT !.pc = "total",
                                !.node.dbp[call.i] = BlockChosen(bgFree[g])]
        /\ bgFree' = IF g = 0 THEN [bgFree EXCEPT ![0] = @ - 1] ELSE bgFree
        /\ block' = IF g = 0 THEN block
                    ELSE [block EXCEPT ![FirstBgd + g] = [c \in Cell |-> Damage]]
    /\ UNCHANGED <<sbFree, inode, outages>>

NextToAllocate(c) ==
    IF c.i + 1 < BlocksFor(Len(c.buf))
    THEN [c EXCEPT !.pc = "count", !.i = @ + 1]
    ELSE [c EXCEPT !.pc = "commit", !.i = 0, !.node.size = @ + Len(c.buf)]

(* Variant: the superblock is read and written back as it was. *)
CountTotalForgotten ==
    /\ At("total")
    /\ call' = NextToAllocate(call)
    /\ UNCHANGED <<disk, outages>>

(* The superblock's count, in the write that follows.                      *)
CountTotal ==
    /\ At("total")
    /\ sbFree' = sbFree - 1
    /\ call' = NextToAllocate(call)
    /\ UNCHANGED <<bgFree, inode, block, outages>>

(* No group has a block: bid keeps the 0 it was declared with.             *)
NoneFree ==
    /\ At("count")
    /\ \A g \in Group : bgFree[g] = 0
    /\ call' = NextToAllocate([call EXCEPT !.node.dbp[call.i] = 0])
    /\ UNCHANGED <<disk, outages>>

(* ext2_write_inode; what it takes for inode 0 is part of block Stray.     *)
InodeWritten(n, node) ==
    /\ inode' = [inode EXCEPT ![n] = node]
    /\ block' = IF n = Missing
                THEN SectorWritten(Stray, 0, [c \in Cell |-> Damage]) ELSE block

Commit ==
    /\ At("commit")
    /\ InodeWritten(call.name, call.node)
    /\ call' = [call EXCEPT !.pc = "fill"]
    /\ UNCHANGED <<bgFree, sbFree, outages>>

(* One sector of one fresh block. *)
Fill ==
    /\ At("fill")
    /\ block' = SectorWritten(call.node.dbp[call.i], call.sector,
                              FreshCells(call.node, call.buf, call.i))
    /\ call' = CASE call.sector < LastSector -> [call EXCEPT !.sector = @ + 1]
                 [] call.sector = LastSector /\ call.i + 1 < BlocksFor(Len(call.buf)) ->
                        [call EXCEPT !.sector = 0, !.i = @ + 1]
                 [] OTHER -> Idle
    /\ UNCHANGED <<bgFree, sbFree, inode, outages>>

(* The call on a name whose inode has data.  The pointer is looked up once *)
(* to read the block and again to write it: if it lies in memory behind    *)
(* the inode, it may be another one by then (moved).                       *)
BeginAppend(n, b) ==
    /\ call = Idle /\ ~Lost
    /\ \E node \in Found(n) :
        /\ node.size > 0
        /\ node.size + Len(b) <= MaxSize
        /\ \E last \in Tails(node), moved \in BOOLEAN :
            /\ moved => Last(node) >= Direct
            /\ call' = [pc |-> "append", name |-> n, buf |-> b, node |-> node,
                        last |-> last, moved |-> moved, sector |-> 0]
    /\ UNCHANGED <<disk, outages>>

(* One sector of the block where the data ends: all of buf goes there,     *)
(* over what was read.                                                     *)
AppendData ==
    /\ At("append")
    /\ LET read == IF call.moved THEN [c \in Cell |-> Damage] ELSE block[call.last]
       IN  block' = SectorWritten(call.last, call.sector,
                        Overlay(read, TailOffset(call.node), call.buf, 0, Len(call.buf)))
    /\ call' = IF call.sector < LastSector THEN [call EXCEPT !.sector = @ + 1]
               ELSE [call EXCEPT !.pc = "resize", !.node.size = @ + Len(call.buf)]
    /\ UNCHANGED <<bgFree, sbFree, inode, outages>>

Resize ==
    /\ At("resize")
    /\ InodeWritten(call.name, call.node)
    /\ call' = Idle
    /\ UNCHANGED <<bgFree, sbFree, outages>>

(* The power fails between two disk writes and the kernel boots again.     *)
Outage ==
    /\ call # Idle /\ ~Lost
    /\ outages < MaxOutages
    /\ outages' = outages + 1
    /\ call' = Idle
    /\ UNCHANGED disk
-----------------------------------------------------------------------------
Step == CountGroup \/ CountTotal \/ NoneFree \/ Commit \/ Fill
            \/ AppendData \/ Resize \/ Outage

(* Calls the code serves as its comments say: on a regular file, with data *)
(* that fits where the file ends and with more free blocks than it takes.  *)
Served(n, b) ==
    /\ n \in File
    /\ IF inode[n].size = 0
       THEN bgFree[0] > BlocksFor(Len(b))
       ELSE /\ Last(inode[n]) < Direct /\ inode[n].dbp[Last(inode[n])] # 0
            /\ TailOffset(inode[n]) + Len(b) <= BlockSize

ServedCall(n, b) == Served(n, b) /\ (BeginFresh(n, b) \/ BeginAppend(n, b))

AnyCall(n, b) == BeginFresh(n, b) \/ BeginAppend(n, b)

ServedNext == Step \/ \E n \in Name, b \in Buffers : ServedCall(n, b)

Next == Step \/ \E n \in Name, b \in Buffers : AnyCall(n, b)

ServedSpec == Init /\ [][ServedNext]_vars

Spec == Init /\ [][Next]_vars
-----------------------------------------------------------------------------
TypeOK ==
    /\ bgFree \in [Group -> Nat]
    /\ sbFree \in Int
    /\ inode \in [Name -> Node]
    /\ block \in [0..Blocks -> [Cell -> Value]]
    /\ outages \in 0..MaxOutages
    /\ call # Idle => /\ call.pc \in {"count", "total", "commit", "fill", "append", "resize"}
                      /\ call.name \in Name /\ call.buf \in Buffers
                      /\ call.node \in Node
                      /\ call.sector \in 0..LastSector
                      /\ call.pc = "append" =>
                            /\ call.last \in Tails(call.node)
                            /\ call.moved => Last(call.node) >= Direct

(* The block pointers that are in use on the disk or about to be.          *)
Pointers == { p \in (File \cup Dir) \X Slot : inode[p[1]].dbp[p[2]] # 0 }

(* Until something goes over the metadata, no block belongs to two files,  *)
(* or to two places in one file, and none of the file system's own blocks  *)
(* is in a file: what ext2_alloc_block hands out is not in use, whatever   *)
(* was interrupted before.                                                 *)
NoSharedBlock ==
    ~Lost =>
        \A p, q \in Pointers :
            /\ inode[p[1]].dbp[p[2]] = inode[q[1]].dbp[q[2]] => p = q
            /\ p[1] \in File => inode[p[1]].dbp[p[2]] \notin System

(* The only calls that can write over the metadata of one group are those  *)
(* on a name that is in no directory and those that append past the direct *)
(* pointers; a full disk, a directory, a size that has run ahead of its    *)
(* blocks or a power failure spoil at most the boot block and the data.    *)
KeepsMetadata ==
    \A b \in System \ {0} :
        block'[b] # block[b] => \/ call.name = Missing
                                \/ call.pc = "append" /\ Last(call.node) >= Direct

MetadataKept == [][KeepsMetadata]_vars

(* The superblock never counts fewer free blocks than the descriptors, and *)
(* each power failure makes it count at most one more.                     *)
CountsOrdered ==
    LET ahead == sbFree - TotalFree(bgFree)
    IN  0 <= ahead /\ ahead <= outages + (IF call.pc = "total" THEN 1 ELSE 0)

(* Inodes and calls are well-formed and, until something goes over the     *)
(* metadata, the counts in order.                                          *)
CountsSound == TypeOK /\ (~Lost => CountsOrdered)

(* A file's blocks lie in the file system and nothing writes over its      *)
(* metadata or its boot block.                                             *)
SystemIntact ==
    /\ \A b \in System : block[b] = Untouched
    /\ \A p \in Pointers : inode[p[1]].dbp[p[2]] < Blocks

(* The bytes of a file in its direct blocks, all that this kernel reads.   *)
DirectBytes(node) == Min({node.size, Direct * BlockSize})

Content(f) == [k \in 0..(DirectBytes(inode[f]) - 1) |->
                  block[inode[f].dbp[k \div BlockSize]][k % BlockSize]]

Store == INSTANCE FileStore WITH
            content <- [f \in File |-> Content(f)],
            pending <- IF call.pc = "fill"
                       THEN [file |-> call.name, buf |-> call.buf]
                       ELSE [file |-> "none", buf |-> << >>],
            Initially <- [f \in File |-> [k \in 0..(DirectBytes(InodeAt[f]) - 1) |-> Old]]

(* Served calls implement the abstract store. *)
ImplementsStore == Store!Spec

(* "Write the maximum possible bytes to the block. [...] Write the rest to *)
(* that block and repeat": an append that returns has added all of buf.    *)
WriteAppends ==
    [][ \A f \in File :
            call.pc = "resize" /\ call.name = f /\ outages' = outages
                => Content(f)' = Store!Cat(Content(f), call.buf) ]_vars
=============================================================================
