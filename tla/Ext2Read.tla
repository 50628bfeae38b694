------------------------------ MODULE Ext2Read ------------------------------
(***************************************************************************)
(* Finding and reading files: ext2_find_file_inode, list and ext2_read_file*)
(* of kernel/arch/i386/ext2.c, and read of libc/stdio/read.c on top.       *)
(*                                                                         *)
(* A path is the sequence of its segments between '/', what strsplit makes *)
(* of it; a segment is a sequence of characters.  The tree is the inodes   *)
(* on the disk.  A block of a directory is its entries, in order; what the *)
(* walk finds behind the last one, in memory that is not the block's, is   *)
(* taken to match no name and to end.  So is a file's block read as one.   *)
(***************************************************************************)
EXTENDS Integers, SequencesExt

CONSTANTS
    Trees,      \* inode number -> [kind, size, blocks]
    Paths,      \* what callers ask for
    BlockSize,
    Direct,     \* the blocks an inode names itself (12)
    Amounts     \* what readers ask for

Root == 2

(* The entries in the blocks of a directory. *)
Entries(blocks) == UNION { ToSet(b) : b \in ToSet(blocks) }

(* The disks: the entries of a directory are to inodes and have different  *)
(* names, a file is no longer than its blocks, and the root is not empty.  *)
IsDirectory(t, d) ==
    /\ t[d].blocks \in Seq(Seq([name : Seq(STRING), inode : DOMAIN t]))
    /\ \A e, f \in Entries(t[d].blocks) : e.name = f.name => e = f

IsFile(t, d) ==
    t[d].blocks \in Seq(Seq(Int)) /\ t[d].size <= BlockSize * Len(t[d].blocks)

IsTree(t) ==
    /\ Root \in DOMAIN t /\ t[Root].kind = "dir" /\ t[Root].blocks # << >>
    /\ 0 \notin DOMAIN t
    /\ \A d \in DOMAIN t : /\ t[d].size \in Nat
                           /\ \/ t[d].kind = "dir" /\ IsDirectory(t, d)
                              \/ t[d].kind = "file" /\ IsFile(t, d)

ASSUME DiskAssumption ==
    BlockSize \in Nat \ {0} /\ Direct \in Nat \ {0} /\ \A t \in Trees : IsTree(t)

ASSUME AskedAssumption ==
    Paths \subseteq Seq(Seq(STRING)) \ {<< >>} /\ Amounts \subseteq Nat

Slash == <<<< >>, << >>>>       \* the path "/"
Zero  == 0                      \* a byte malloc has cleared
Junk  == -1                     \* a byte of the reader's buffer as it was
Raw   == -2                     \* a byte of a directory
Wild  == -3                     \* a byte behind f_buff, whatever is there

VARIABLES
    tree,
    path,       \* what was asked for
    want,       \* read: n;  otherwise 0
    call,       \* "find", "list", "read" or "idle", before and after a call
    rest,       \* filename_h: the segments from there on
    n,          \* the segments still to come
    inode,      \* the inode in memory
    answer      \* what the call gave

vars == <<tree, path, want, call, rest, n, inode, answer>>

NoAnswer == [of |-> "none"]
-----------------------------------------------------------------------------
(* ext2_read_directory: the first entry of that name, or 0. *)
InBlock(name, block) ==
    LET hits == { k \in DOMAIN block : block[k].name = name }
    IN  IF hits = {} THEN 0 ELSE block[Min(hits)].inode

FirstBlock(node) ==
    IF tree[node].kind = "dir" THEN tree[node].blocks[1] ELSE << >>

(* dbp[0] is 0. *)
NoBlock(node) == tree[node].blocks = << >>

(* Variant: the first '/' is left in front of the first segment. *)
SkippedNot(p) == p

(* filename_h++ skips the '/', or the first character if there is none.    *)
Skipped(p) == IF p[1] = << >> THEN Tail(p) ELSE <<Tail(p[1])>> \o Tail(p)

Init ==
    /\ tree \in Trees
    /\ path = Slash /\ want = 0 /\ call = "idle"
    /\ rest = << >> /\ n = 0 /\ inode = Root /\ answer = NoAnswer

Begin(what, p, amount) ==
    /\ call = "idle"
    /\ call' = what /\ path' = p /\ want' = amount
    /\ rest' = Skipped(p)
    /\ inode' = Root
    /\ n' = Len(p)
    /\ answer' = NoAnswer
    /\ UNCHANGED tree

Return(result) ==
    /\ call' = "idle" /\ answer' = result
    /\ UNCHANGED <<tree, path, want, rest, n, inode>>
-----------------------------------------------------------------------------
(* "i < 12": the blocks that ext2_read_file reads are the direct ones.     *)
BlocksRead(node) ==
    LET count == Len(tree[node].blocks) IN IF count < Direct THEN count ELSE Direct

(* Variant: every block goes to the beginning of the buffer. *)
FetchedOver(node, k) ==
    IF k < BlockSize /\ tree[node].kind = "file"
    THEN tree[node].blocks[BlocksRead(node)][k + 1] ELSE Zero

(* Byte k of what ext2_read_file copies, block by block, into f_buff, the  *)
(* Direct blocks of memory (12 KB, in blocks of 1 KB) that read has for it.*)
Fetched(node, k) ==
    LET b == k \div BlockSize
    IN  IF b >= Direct THEN Wild
        ELSE IF b >= BlocksRead(node) THEN Zero
        ELSE IF tree[node].kind = "dir" THEN Raw
        ELSE tree[node].blocks[b + 1][(k % BlockSize) + 1]

(* b_read += inode->size, for every block that is read. *)
BytesRead(node) == tree[node].size * BlocksRead(node)

(* read: the caller's buffer of n + 2 bytes and the amount returned; a     *)
(* failure returns 0 and leaves the buffer.  (The comment at read.c:20 has *)
(* n - 1 returned for n bytes or more; the code returns n.)                *)
Copied(node) ==
    LET got == BytesRead(node)
        len == IF want > got THEN got ELSE want
        nul == IF want > got THEN got + 1 ELSE want
    IN  [of |-> "read", len |-> len,
         buff |-> [k \in 0..(want + 1) |->
                     IF got = 0 THEN Junk
                     ELSE IF k = nul THEN Zero
                     ELSE IF k < len THEN Fetched(node, k) ELSE Junk]]

Found(node) ==
    IF call = "find" THEN [of |-> "find", inode |-> node]
    ELSE IF node = 0
         THEN [of |-> "read", len |-> 0, buff |-> [k \in 0..(want + 1) |-> Junk]]
         ELSE Copied(node)

(* No '/' in the path: the root directory is searched and 0 is returned    *)
(* whatever comes of it.                                                   *)
FindInRoot ==
    /\ call \in {"find", "read"} /\ Len(path) = 1
    /\ Return(Found(0))

Finding == call \in {"find", "read"} /\ Len(path) > 1

(* Variant: a segment that is not there is passed over. *)
FindSegmentAnyhow ==
    /\ Finding /\ n > 1 /\ ~NoBlock(inode)
    /\ LET rc == InBlock(Head(rest), FirstBlock(inode))
       IN  /\ inode' = IF rc = 0 THEN inode ELSE rc
           /\ rest' = IF n = 2 THEN rest ELSE Tail(rest)
           /\ n' = n - 1
           /\ UNCHANGED <<tree, path, want, call, answer>>

(* "while(--n)": a segment is looked for in the first block of the inode,  *)
(* and its absence ends the search.                                        *)
FindSegment ==
    /\ Finding /\ n > 1 /\ ~NoBlock(inode)
    /\ LET rc == InBlock(Head(rest), FirstBlock(inode))
       IN  IF rc = 0 THEN Return(Found(0))
           ELSE /\ inode' = rc
                /\ rest' = IF n = 2 THEN rest ELSE Tail(rest)
                /\ n' = n - 1
                /\ UNCHANGED <<tree, path, want, call, answer>>

(* An inode without a block is passed over: retnode stays as it was.       *)
FindInNothing ==
    /\ Finding /\ n > 1 /\ NoBlock(inode)
    /\ n' = n - 1
    /\ UNCHANGED <<tree, path, want, call, rest, inode, answer>>

FindDone ==
    /\ Finding /\ n = 1
    /\ Return(Found(inode))
-----------------------------------------------------------------------------
(* list: the entries of a block but those with a '$' in front, or "INVALID *)
(* PATH".                                                                  *)
Hidden(name) == name # << >> /\ name[1] = "$"

Listed(node) ==
    [of |-> "list", entries |-> { e \in ToSet(FirstBlock(node)) : ~Hidden(e.name) }]

Invalid == [of |-> "list", entries |-> {}]

ListRoot ==
    /\ call = "list" /\ path = Slash
    /\ Return(Listed(Root))

Listing == call = "list" /\ path # Slash

(* "while(n--)" with segments to come. *)
ListSegment ==
    /\ Listing /\ n > 1 /\ ~NoBlock(inode)
    /\ LET rc == InBlock(Head(rest), FirstBlock(inode))
       IN  IF rc = 0 THEN Return(Invalid)
           ELSE /\ inode' = rc
                /\ rest' = Tail(rest)
                /\ n' = n - 1
                /\ UNCHANGED <<tree, path, want, call, answer>>

(* Variant: the directory before the last. *)
ListDoneEarly ==
    /\ Listing /\ n <= 2
    /\ Return(IF NoBlock(inode) THEN Invalid ELSE Listed(inode))

ListDone ==
    /\ Listing /\ n = 1
    /\ Return(IF NoBlock(inode) THEN Invalid ELSE Listed(inode))

ListInNothing ==
    /\ Listing /\ n > 1 /\ NoBlock(inode)
    /\ rest' = Tail(rest) /\ n' = n - 1
    /\ UNCHANGED <<tree, path, want, call, inode, answer>>
-----------------------------------------------------------------------------
Next ==
    \/ \E p \in Paths :
        \/ Begin("find", p, 0)
        \/ Begin("list", p, 0)
        \/ \E amount \in Amounts : Begin("read", p, amount)
    \/ FindInRoot \/ FindSegment \/ FindInNothing \/ FindDone
    \/ ListRoot \/ ListSegment \/ ListInNothing \/ ListDone

Spec == Init /\ [][Next]_vars
-----------------------------------------------------------------------------
(* What a path names, by every block of every directory on the way.        *)
Below(node, name) ==
    IF node = 0 \/ tree[node].kind # "dir" THEN 0
    ELSE LET hits == { e \in Entries(tree[node].blocks) : e.name = name }
         IN  IF hits = {} THEN 0 ELSE (CHOOSE e \in hits : TRUE).inode

(* The inodes on the way. *)
Along(p) ==
    LET at[k \in 1..Len(p)] == IF k = 1 THEN Root ELSE Below(at[k - 1], p[k])
    IN  at

Named(p) == Along(p)[Len(p)]

Absolute == Len(path) > 1 /\ path[1] = << >>

Content(node) ==
    [k \in 0..(tree[node].size - 1) |->
        tree[node].blocks[(k \div BlockSize) + 1][(k % BlockSize) + 1]]

(* Some segment before the last names an inode without a block.            *)
PastNothing ==
    \E k \in 2..(Len(path) - 1) :
        LET d == Along(path)[k] IN d # 0 /\ NoBlock(d)

(* An absolute path is only ever found to be what it names, unless it goes *)
(* through an empty file.                                                  *)
FindsNoOther ==
    answer.of = "find" /\ Absolute /\ ~PastNothing
        => answer.inode \in {0, Named(path)}

OneBlockDirs == \A d \in DOMAIN tree : tree[d].kind = "dir" => Len(tree[d].blocks) = 1

(* Where directories have one block, it is found if it is there.           *)
FindsAll ==
    answer.of = "find" /\ Absolute /\ ~PastNothing /\ OneBlockDirs
        => answer.inode = Named(path)

(* The bytes read are the file's, as far as its direct blocks go.          *)
ReadsContent ==
    answer.of = "read" /\ Absolute /\ answer.len > 0 =>
        LET file == Named(path)
        IN  /\ file # 0
            /\ tree[file].kind = "file" =>
                 \A k \in DOMAIN Content(file) :
                    k < answer.len /\ k < BlockSize * Direct
                        => answer.buff[k] = Content(file)[k]

(* In such directories the amount is never less than what there is, or     *)
(* what was asked for if that is less; it is just that for a file of one   *)
(* block, and may be more for a longer one.                                *)
ReadsAll ==
    answer.of = "read" /\ Absolute /\ OneBlockDirs /\ Named(path) # 0 =>
        LET file == Named(path)
            due  == IF want < tree[file].size THEN want ELSE tree[file].size
        IN  tree[file].kind = "file" =>
                /\ answer.len >= due
                /\ Len(tree[file].blocks) <= 1 => answer.len = due

(* read gives the beginning of the file, up to its direct blocks, and says *)
(* no less than it should; of what it says beyond them nothing is claimed. *)
ReadsFile == ReadsContent /\ ReadsAll

(* What is listed is the directory the path names. *)
ListsNamed ==
    answer.of = "list" /\ Absolute /\ answer.entries # {} =>
        LET dir == IF path = Slash THEN Root ELSE Named(path)
        IN  dir # 0 /\ answer.entries \subseteq Entries(tree[dir].blocks)
=============================================================================
