----------------------------- MODULE KernelHeap -----------------------------
(***************************************************************************)
(* The kernel heap under everything that uses it: the file system          *)
(* (kernel/arch/i386/ext2.c), read (libc/stdio/read.c) and the console's   *)
(* own commands (kernel/kernel/kernel.c), with the sizes of the build.     *)
(*                                                                         *)
(* Module Heap shows what malloc and free do with bytes.  Here the heap is *)
(* the set of its maximal runs of bytes that are not '$', and a command is *)
(* the sequence of its calls of malloc and free and of its stores into     *)
(* blocks, taken one at a time.  Left out are stores into a block the      *)
(* command has just taken that cannot go past its end.  Addresses are      *)
(* offsets from heap_begin; 0 is the null pointer (malloc returns 7 or     *)
(* more).  No block ends in a '$', so that a run of marks begins where a   *)
(* block ends.                                                             *)
(***************************************************************************)
EXTENDS Integers, Sequences, FiniteSets, SequencesExt

CONSTANTS
    HeapSize,   \* HEAP_SIZE
    Word,       \* size_t arithmetic is modulo Word
    Block,      \* priv->blocksize
    Name,       \* bytes of a path with its end
    FileBuff,   \* 1024 * 12, what read takes
    BinBuff,    \* what load bin takes
    Hows,       \* how look-ups end: "found", "none" or, without a '/', "root"
    Blocks,     \* the numbers of blocks files have
    Over,       \* by how many bytes an append may pass the end of the block
    Asked,      \* sizes the console's malloc is given
    Bounds      \* bounds: how many look-ups of read fail, load bin and malloc
                \* commands run and stores stray between two boots

ASSUME SizesAssumption ==
    /\ \A c \in {HeapSize, Word, Block, Name, FileBuff, BinBuff} :
           c \in Nat \ {0}
    /\ HeapSize + 3 < Word
    /\ Block >= 1024 /\ Block + 4 < FileBuff
    /\ Hows \subseteq {"found", "none", "root"}
    /\ Blocks \subseteq 0..12 /\ Over \subseteq Nat /\ Asked \subseteq 0..(Word - 1)

VARIABLES
    used,       \* the maximal intervals <<first, end>> of bytes that are not '$'
    at,         \* the pointer variables of the code
    command,    \* the command under way
    pc,         \* its next step
    live,       \* history: pointer -> [n, of], the blocks that are in use
    mallocs,    \* history: how often the console's malloc was used
    hurt,       \* history: blocks in use another block's store or '$' went into
    stray,      \* history: where stores have gone outside of their block
    careless,   \* history: the user freed what is not held, emptied the heap
                \* or asked for a size that wraps round
    wild        \* a malloc or free has run over memory outside of the heap

vars == <<used, at, command, pc, live, mallocs, hurt, stray, careless, wild>>

(* sizeof: how many fields of which width the packed structures have. *)
Superblock == 13 * 4 + 6 * 2 + 4 * 4 + 2 * 2 + 940
Inode      == 2 * 2 + 5 * 4 + 2 * 2 + 3 * 4 + 12 * 4 + 3 * 4 + 4 * 4 + 12
Priv       == Superblock + 5 * 4

(* ext2_probe's buffer, whatever the size of a block. *)
SbBuff == 1024

Globals == {"priv", "root_buff", "ptr"}
Locals  == {"sb", "r_buff", "d_inode", "f_inode", "f_buff", "f_name", "root_inode",
            "e_inode", "e_block", "whole", "w_inode", "wi_buff",
            "l_inode", "l_buff", "l_name", "data"}
-----------------------------------------------------------------------------
(* The heap as intervals. *)
Lo(i) == i[1]
Hi(i) == i[2]
Meet(i, j) == Lo(i) < Hi(j) /\ Lo(j) < Hi(i)

(* Bytes of i stored, none of them '$'. *)
Filled(s, i) ==
    LET touching == { j \in s : Lo(j) <= Hi(i) /\ Lo(i) <= Hi(j) }
        all == touching \cup {i}
        lo == CHOOSE a \in { Lo(j) : j \in all } : \A j \in all : a <= Lo(j)
        hi == CHOOSE b \in { Hi(j) : j \in all } : \A j \in all : Hi(j) <= b
    IN  (s \ touching) \cup {<<lo, hi>>}

(* memset of the bytes of i to '$'. *)
Marked(s, i) ==
    { j \in s : ~Meet(i, j) }
    \cup { <<Lo(j), Lo(i)>> : j \in { k \in s : Meet(i, k) /\ Lo(k) < Lo(i) } }
    \cup { <<Hi(i), Hi(j)>> : j \in { k \in s : Meet(i, k) /\ Hi(i) < Hi(k) } }

(* The run malloc looks for, and where it finds it. *)
Need(n) == (n + 6 + 4) % Word

Fits(n) ==
    { a \in {0} \cup { Hi(i) : i \in used } :
        a + Need(n) <= HeapSize /\ \A i \in used : ~Meet(<<a, a + Need(n)>>, i) }

FirstFit(n) == LET fits == Fits(n) IN CHOOSE a \in fits : \A b \in fits : a <= b

(* Header and data of a block, data only. *)
Whole(p, n) == <<p - 4, p + n>>
Data(p, n)  == <<p, p + n>>

(* What of a block in use must stay: all of it, but priv is never freed    *)
(* and nobody reads its header.                                            *)
Kept(q) == IF live[q].of = "priv" THEN Data(q, live[q].n) ELSE Whole(q, live[q].n)

(* Blocks in use, other than p, that the bytes of i belong to. *)
Others(p, i) == { q \in DOMAIN live \ {p} : Meet(i, Kept(q)) }
-----------------------------------------------------------------------------
(* What a command does with the heap. *)
New(v, n) == [op |-> "malloc", var |-> v, n |-> n]
Put(v, n) == [op |-> "store",  var |-> v, n |-> n]
Drop(v)   == [op |-> "free",   var |-> v, n |-> 0]

ReadInode(into) ==
    << New("r_buff", Block), Put(into, Inode), Drop("r_buff") >>

WriteInode == << New("wi_buff", Block), Drop("wi_buff") >>

(* Variant: a name that is found keeps the inode it was read into. *)
ReadDirectoryKeeping(hit) ==
    IF hit THEN << New("d_inode", Inode) >> \o ReadInode("d_inode")
           ELSE << New("d_inode", Inode), Drop("d_inode") >>

ReadDirectory(hit) ==
    << New("d_inode", Inode) >>
    \o (IF hit THEN ReadInode("d_inode") ELSE << >>)
    \o << Drop("d_inode") >>

(* A path without a '/' is looked for in the root through root_buff, which *)
(* keeps pointing to the block after its free; the answer is 0.            *)
ReadRootDirectory ==
    << New("root_inode", Inode), New("root_buff", Block) >>
    \o ReadInode("root_inode") \o << Put("root_buff", Block) >> \o ReadDirectory(TRUE)
    \o << Drop("root_inode"), Drop("root_buff") >>

FindFileInode(into, how) ==
    << New("f_inode", Inode), New("f_buff", Block), New("f_name", Name) >>
    \o (CASE how = "root"  -> ReadRootDirectory \o << Put(into, Inode) >>
         [] how = "found" -> ReadInode("f_inode") \o << Put("f_buff", Block) >>
                             \o ReadDirectory(TRUE) \o ReadInode("f_inode")
                             \o << Put(into, Inode) >>
         [] how = "none"  -> ReadInode("f_inode") \o << Put("f_buff", Block) >>
                             \o ReadDirectory(FALSE))
    \o << Drop("f_name"), Drop("f_inode"), Drop("f_buff") >>

(* Variant: the block read is not freed. *)
OneBlockKept(i) ==
    << New("e_block", Block), Put("whole", (i + 1) * Block) >>

OneBlock(i) ==
    << New("e_block", Block), Put("whole", (i + 1) * Block),
       Drop("e_block") >>

(* The blocks of a file one after the other into the buffer of read. *)
ReadFile(how, k) ==
    << New("e_inode", Inode) >> \o FindFileInode("e_inode", how)
    \o (IF how = "found"
        THEN FlattenSeq([i \in 1..k |-> OneBlock(i - 1)]) \o << Drop("e_inode") >>
        ELSE << >>)

Read(how, k) == << New("whole", FileBuff) >> \o ReadFile(how, k) \o << Drop("whole") >>

(* The end of the string goes one byte past what load bin asks for. *)
LoadBin(how, k) ==
    << New("data", BinBuff) >> \o Read(how, k)
    \o (IF how = "found" THEN << Put("data", BinBuff + 1) >> ELSE << >>)

(* Variant: the inode is freed once more than it was taken. *)
ListInDirectoryTwice ==
    << New("d_inode", Inode) >> \o ReadInode("d_inode") \o << Drop("d_inode"), Drop("d_inode") >>

ListInDirectory == << New("d_inode", Inode) >> \o ReadInode("d_inode") \o << Drop("d_inode") >>

List(how) ==
    << New("l_inode", Inode), New("l_buff", Block), New("l_name", Name) >>
    \o ReadInode("l_inode") \o << Put("l_buff", Block) >>
    \o (CASE how = "root"  -> ListInDirectory
         [] how = "found" -> ReadDirectory(TRUE) \o ReadInode("l_inode")
                             \o << Put("l_buff", Block) >> \o ListInDirectory
         [] how = "none"  -> ReadDirectory(FALSE))
    \o << Drop("l_name"), Drop("l_inode"), Drop("l_buff") >>

(* The group descriptors and the superblock through root_buff, whatever    *)
(* that points to.                                                         *)
AllocBlock == << Put("root_buff", Block), Put("root_buff", Block) >>

WriteFresh(how) ==
    << New("w_inode", Inode) >> \o FindFileInode("w_inode", how) \o ReadInode("w_inode")
    \o AllocBlock \o WriteInode \o << Put("root_buff", Block), Drop("w_inode") >>

WriteAppend(how, over) ==
    << New("w_inode", Inode) >> \o FindFileInode("w_inode", how) \o ReadInode("w_inode")
    \o << New("root_buff", Block), Put("root_buff", Block), Put("root_buff", Block + over) >>
    \o WriteInode \o << Drop("w_inode"), Drop("root_buff") >>

(* Variant: the superblock's buffer freed before priv is allocated. *)
ProbeFreeing(known) ==
    << New("sb", SbBuff), Drop("sb") >>
    \o (IF known THEN << >> ELSE << New("priv", Priv) >>) \o << Put("priv", Priv) >>

(* priv is a variable of .bss: a second probe stores where the first did.  *)
Probe(known) ==
    << New("sb", SbBuff) >>
    \o (IF known THEN << >> ELSE << New("priv", Priv) >>)
    \o << Put("priv", Priv), Drop("sb") >>

(* What there is to run: a command, how its look-up ends, and a number of  *)
(* blocks or of bytes.                                                     *)
Plain(name) == <<name, "none", 0>>
None == Plain("none")

Commands ==
    {None} \cup { Plain(name) : name \in {"boot", "reboot", "read", "free"} }
    \cup ({"read"} \X {"found"} \X Blocks) \cup ({"load bin", "ls", "write"} \X Hows \X {0})
    \cup ({"append"} \X Hows \X Over) \cup ({"malloc"} \X {"none"} \X Asked)

Steps(c) ==
    CASE c[1] = "none"     -> << >>
      [] c[1] = "boot"     -> Probe(FALSE)
      [] c[1] = "reboot"   -> Probe(TRUE)
      [] c[1] = "read"     -> Read(c[2], c[3])
      [] c[1] = "load bin" -> LoadBin(c[2], 2)
      [] c[1] = "ls"       -> List(c[2])
      [] c[1] = "write"    -> WriteFresh(c[2])
      [] c[1] = "append"   -> WriteAppend(c[2], c[3])
      [] c[1] = "malloc"   -> << New("ptr", c[3]) >>
      [] c[1] = "free"     -> << Drop("ptr") >>

Program == [c \in Commands |-> Steps(c)]
-----------------------------------------------------------------------------
Init ==
    /\ used = {} /\ at = [v \in Globals \cup Locals |-> 0]
    /\ command = Plain("boot") /\ pc = 1
    /\ live = << >> /\ mallocs = 0 /\ hurt = {}
    /\ stray = {} /\ careless = FALSE /\ wild = FALSE

Step == Program[command][pc]
Doing(o) == ~wild /\ command # None /\ Step.op = o

(* The next step; at the end of a command its local variables are gone. *)
Done(pointers) ==
    IF pc < Len(Program[command])
    THEN /\ pc' = pc + 1 /\ at' = pointers
         /\ UNCHANGED command
    ELSE /\ pc' = 1 /\ command' = None
         /\ at' = [v \in DOMAIN at |-> IF v \in Locals THEN 0 ELSE pointers[v]]

Malloc ==
    /\ Doing("malloc")
    /\ LET v == Step.var
           n == Step.n
           p == FirstFit(n) + 3 + 4
       IN  /\ Fits(n) # {} /\ p + n <= HeapSize
           /\ used' = Filled(used, Whole(p, n))
           /\ live' = [q \in DOMAIN live \cup {p} |->
                          IF q = p THEN [n |-> n, of |-> v] ELSE live[q]]
           /\ hurt' = (hurt \ {p}) \cup Others(p, Whole(p, n))
           /\ Done([at EXCEPT ![v] = p])
    /\ UNCHANGED <<stray, careless, wild, mallocs>>

(* No run is long enough and the scan leaves the heap; or the size wrapped *)
(* round and the block that is cleared is longer than the run.             *)
MallocAstray ==
    /\ Doing("malloc")
    /\ LET n == Step.n
       IN  /\ ~(Fits(n) # {} /\ FirstFit(n) + 7 + n <= HeapSize)
           /\ careless' = (careless \/ n + 10 >= Word)
    /\ wild' = TRUE
    /\ UNCHANGED <<used, at, command, pc, live, hurt, stray, mallocs>>

Holds(v) == at[v] \in DOMAIN live /\ live[at[v]].of = v

(* A store through the null pointer goes to the bottom of memory. *)
Store ==
    /\ Doing("store")
    /\ LET v == Step.var
           p == at[v]
           n == IF p + Step.n < HeapSize THEN Step.n ELSE HeapSize - p
           own == IF Holds(v) THEN p ELSE 0
       IN  IF p = 0 THEN UNCHANGED <<used, hurt, stray>>
           ELSE /\ used' = Filled(used, Data(p, n))
                /\ hurt' = hurt \cup Others(own, Data(p, n))
                /\ stray' = IF own # 0 /\ n <= live[p].n THEN stray ELSE stray \cup {p}
    /\ Done(at)
    /\ UNCHANGED <<live, careless, wild, mallocs>>

Free ==
    /\ Doing("free")
    /\ LET p == at[Step.var]
       IN  /\ Holds(Step.var) /\ p \notin hurt
           /\ used' = Marked(used, Whole(p, live[p].n))
           /\ live' = [q \in DOMAIN live \ {p} |-> live[q]]
    /\ Done(at)
    /\ UNCHANGED <<hurt, stray, careless, wild, mallocs>>

(* The user's own free of what is not held. *)
NotHeld == command = Plain("free") /\ ~Holds("ptr")

HeaderGone(p) == p # 0 /\ \A i \in used : ~Meet(<<p - 4, p>>, i)

(* A header of marks says 0x24242424: all that follows becomes marks. *)
FreeAgain ==
    /\ Doing("free")
    /\ LET v == Step.var
           p == at[v]
           rest == <<p - 4, HeapSize>>
       IN  /\ ~Holds(v) \/ p \in hurt
           /\ HeaderGone(p)
           /\ used' = Marked(used, rest)
           /\ live' = [q \in DOMAIN live \ {p} |-> live[q]]
           /\ hurt' = (hurt \cup Others(p, rest)) \ {p}
    /\ careless' = (careless \/ NotHeld)
    /\ Done(at)
    /\ UNCHANGED <<stray, wild, mallocs>>

(* Any other length. *)
FreeAstray ==
    /\ Doing("free")
    /\ LET v == Step.var
       IN  (~Holds(v) \/ at[v] \in hurt) /\ ~HeaderGone(at[v])
    /\ wild' = TRUE /\ careless' = (careless \/ NotHeld)
    /\ UNCHANGED <<used, at, command, pc, live, hurt, stray, mallocs>>
-----------------------------------------------------------------------------
(* The commands. *)
Prompt == ~wild /\ command = None

Held(v) == { p \in DOMAIN live : live[p].of = v }

One(condition) == IF condition THEN 1 ELSE 0

Admitted(c) == \E b \in Bounds :
    /\ Cardinality(Held("e_inode"))
           + One(c[1] \in {"read", "load bin"} /\ c[2] # "found") <= b.fails
    /\ Cardinality(Held("data")) + One(c[1] = "load bin") <= b.loads
    /\ mallocs + One(c[1] = "malloc") <= b.mallocs
    /\ Cardinality(stray) + One(c[1] = "write" \/ (c[1] = "append" /\ c[3] > 0)) <= b.strays

Begin(names) ==
    /\ Prompt
    /\ command' \in { c \in Commands : c[1] \in names /\ Admitted(c) }
    /\ mallocs' = mallocs + One(command'[1] = "malloc")
    /\ UNCHANGED <<used, at, pc, live, hurt, stray, careless, wild>>

(* The private data is there and nothing else has gone into it. *)
PrivWhole == Holds("priv") /\ at["priv"] \notin hurt

FileSystem ==
    /\ PrivWhole
    /\ Begin({"read", "load bin", "ls", "write", "append"})

(* Without its private data no command of the file system ends: the size   *)
(* of a block is 0x24242424, or the division by the inodes of a group      *)
(* faults.                                                                 *)
FileSystemAstray ==
    /\ Prompt /\ ~PrivWhole
    /\ wild' = TRUE
    /\ UNCHANGED <<used, at, command, pc, live, hurt, stray, careless, mallocs>>

Console == Begin({"malloc", "free"})

(* mm_init under the blocks in use. *)
Cheap ==
    /\ Prompt
    /\ used' = {}
    /\ live' = [p \in DOMAIN live \cap {at["priv"], at["ptr"]} |-> live[p]]
    /\ hurt' = DOMAIN live'
    /\ careless' = TRUE
    /\ UNCHANGED <<at, command, pc, stray, wild, mallocs>>

(* kernel_main again, without clearing .bss. *)
Reboot ==
    /\ Prompt
    /\ used' = {}
    /\ live' = [p \in {at["priv"]} \ {0} |-> [n |-> Priv, of |-> "priv"]] /\ mallocs' = 0
    /\ command' = Plain(IF at["priv"] = 0 THEN "boot" ELSE "reboot")
    /\ hurt' = {} /\ stray' = {} /\ careless' = FALSE
    /\ UNCHANGED <<at, pc, wild>>

Next ==
    \/ Malloc \/ MallocAstray \/ Store \/ Free \/ FreeAgain \/ FreeAstray
    \/ FileSystem \/ FileSystemAstray
    \/ Console \/ Cheap \/ Reboot

Spec == Init /\ [][Next]_vars
-----------------------------------------------------------------------------
(* Runs lie in the heap and apart from each other, blocks and pointers in  *)
(* the heap.                                                               *)
TypeOK ==
    /\ \A i \in used : 0 <= Lo(i) /\ Lo(i) < Hi(i) /\ Hi(i) <= HeapSize
    /\ \A i, j \in used : i # j => Hi(i) < Lo(j) \/ Hi(j) < Lo(i)
    /\ \A p \in DOMAIN live : live[p].n \in 0..(HeapSize - p)
    /\ DOMAIN live \subseteq 1..HeapSize /\ hurt \subseteq 1..HeapSize
    /\ \A v \in DOMAIN at : at[v] \in 0..HeapSize

(* The heap is well-formed and its blocks keep to themselves: as long as   *)
(* stores go into the block they are for, no malloc and no free of any     *)
(* command reaches a byte of a block in use, and none frees what it does   *)
(* not hold.                                                               *)
HeapSound ==
    /\ TypeOK
    /\ ~careless /\ stray = {} => hurt = {}

(* Whatever goes past the end of a block or through the root_buff of an   *)
(* earlier command: whenever a command begins, the file system's private   *)
(* data is whole.                                                          *)
PrivKept == ~careless /\ Prompt => PrivWhole

(* At the prompt only the private data, the user's own blocks, what load   *)
(* bin read and an inode per failed look-up of read are held, and what is  *)
(* not free for malloc is theirs, as long as no store has gone astray: a   *)
(* run begins in one of these blocks, and where one ends that is not the   *)
(* end of the run the next begins.                                         *)
NothingLost ==
    Prompt /\ ~careless /\ stray = {} =>
        /\ DOMAIN live = UNION { Held(v) : v \in {"priv", "ptr", "e_inode", "data"} }
        /\ \A i \in used : \A a \in {Lo(i)} \cup { q + live[q].n : q \in DOMAIN live } :
               Lo(i) <= a /\ a < Hi(i) =>
                   \E q \in DOMAIN live : Meet(<<a, a + 1>>, Whole(q, live[q].n))

(* The heap is large enough for every command, whatever came before, for   *)
(* users who keep to Bounds and leave the console's malloc alone; and such *)
(* stores hit no block in use unless the user has taken some of his own    *)
(* meanwhile.                                                              *)
Enough ==
    /\ wild => careless \/ mallocs > 0
    /\ ~careless /\ mallocs = 0 /\ Held("data") = {} => hurt = {}
=============================================================================
