--------------------------- MODULE Ext2ReadProofs ---------------------------
(***************************************************************************)
(* Look-up, listing and reading in trees of every shape and for paths of   *)
(* every length: what is found is what the path names.                     *)
(***************************************************************************)
EXTENDS Ext2Read, Ext2Layout, FiniteSetTheorems, WellFoundedInduction, TLAPS

Text == Seq(Seq(STRING))

Types ==
    /\ tree \in Trees
    /\ path \in Text /\ path # << >>
    /\ want \in Nat
    /\ call \in {"find", "list", "read", "idle"}
    /\ n \in Nat /\ (call # "idle" => n \in 1..Len(path))
    /\ inode \in DOMAIN tree

(* What is left of the path while there are segments to come. *)
Remains ==
    n > 1 => /\ rest \in Text /\ Len(rest) = n - 1
             /\ \A j \in 1..(n - 1) : rest[j] = path[Len(path) - n + 1 + j]

(* The search is where the path leads, or at an inode without a block it   *)
(* leads through.                                                          *)
OnTheWay ==
    call # "idle" /\ Absolute =>
        \/ inode = Along(path)[Len(path) - n + 1] /\ Remains
        \/ NoBlock(inode) /\ PastNothing

(* What the last call gave. *)
Answers == FindsNoOther /\ FindsAll /\ ReadsFile /\ ListsNamed

IInv == Types /\ OnTheWay /\ Answers
-----------------------------------------------------------------------------
(* Every set of numbers has a least one. *)
LEMMA LeastNat ==
    ASSUME NEW S \in SUBSET Nat, S # {}
    PROVE  \E l \in S : \A m \in S : l <= m
  <1> DEFINE less == OpToRel(<, Nat)
  <1>1. IsWellFoundedOn(less, Nat)
    BY NatLessThanWellFounded
  <1>2. \A m, k \in Nat : m < k => <<m, k>> \in less
    BY DEF OpToRel
  <1> HIDE DEF less
  <1>3. PICK l \in S : \A m \in S : ~(<<m, l>> \in less)
    BY <1>1, WFMin
  <1>4. \A m \in S : l <= m
    <2> TAKE m \in S
    <2>1. m \in Nat /\ l \in Nat /\ ~(m < l)
      BY <1>2, <1>3
    <2> QED BY <2>1
  <1> QED BY <1>4

(* Min is the least. *)
LEMMA LeastIndex ==
    ASSUME NEW S \in SUBSET Nat, S # {}
    PROVE  Min(S) \in S /\ \A i \in S : Min(S) <= i
  <1>1. PICK l \in S : \A m \in S : l <= m
    BY LeastNat
  <1> QED BY <1>1 DEF Min

(* The steps of a path: as far as any length there is a function that      *)
(* follows it.                                                             *)
Follows(p, m) ==
    \E f : f = [k \in 1..m |-> IF k = 1 THEN Root ELSE Below(f[k - 1], p[k])]

LEMMA FollowsFurther ==
    ASSUME NEW p, NEW m \in Nat, Follows(p, m)
    PROVE  Follows(p, m + 1)
  <1>1. PICK f : f = [k \in 1..m |-> IF k = 1 THEN Root ELSE Below(f[k - 1], p[k])]
    BY DEF Follows
  <1> DEFINE g == [k \in 1..(m + 1) |-> IF k = 1 THEN Root ELSE Below(f[k - 1], p[k])]
  <1>2. \A k \in 1..m : g[k] = f[k]
    <2> TAKE k \in 1..m
    <2>1. k \in 1..(m + 1)
      OBVIOUS
    <2>2. f[k] = IF k = 1 THEN Root ELSE Below(f[k - 1], p[k])
      BY <1>1
    <2>3. g[k] = IF k = 1 THEN Root ELSE Below(f[k - 1], p[k])
      BY <2>1
    <2> QED BY <2>2, <2>3
  <1>3. \A k \in 1..(m + 1) : g[k] = IF k = 1 THEN Root ELSE Below(g[k - 1], p[k])
    <2> TAKE k \in 1..(m + 1)
    <2>1. g[k] = IF k = 1 THEN Root ELSE Below(f[k - 1], p[k])
      OBVIOUS
    <2>2. k # 1 => k - 1 \in 1..m
      OBVIOUS
    <2>3. k # 1 => g[k - 1] = f[k - 1]
      BY <1>2, <2>2
    <2> HIDE DEF g
    <2> QED BY <2>1, <2>3
  <1>4. g = [k \in 1..(m + 1) |-> g[k]]
    OBVIOUS
  <1> HIDE DEF g
  <1>5. g = [k \in 1..(m + 1) |-> IF k = 1 THEN Root ELSE Below(g[k - 1], p[k])]
    BY <1>3, <1>4
  <1> QED BY <1>5 DEF Follows

LEMMA FollowsAll ==
    ASSUME NEW p, NEW m \in Nat
    PROVE  Follows(p, m)
  <1> DEFINE short == { j \in Nat : ~Follows(p, j) }
  <1> SUFFICES ASSUME short # {} PROVE FALSE
    OBVIOUS
  <1>1. PICK l \in short : \A j \in short : l <= j
    BY LeastNat
  <1>2. Follows(p, 0)
    <2> DEFINE none == [k \in 1..0 |-> Root]
    <2>1. \A k \in 1..0 : FALSE
      OBVIOUS
    <2>2. none = [k \in 1..0 |-> IF k = 1 THEN Root ELSE Below(none[k - 1], p[k])]
      BY <2>1
    <2> HIDE DEF none
    <2> QED BY <2>2 DEF Follows
  <1>3. l # 0 /\ l \in Nat
    BY <1>2
  <1>4. l - 1 \in Nat /\ ~(l <= l - 1)
    BY <1>3
  <1>5. Follows(p, l - 1)
    BY <1>1, <1>4
  <1>6. Follows(p, (l - 1) + 1)
    BY <1>4, <1>5, FollowsFurther
  <1>7. (l - 1) + 1 = l
    BY <1>3
  <1> QED BY <1>6, <1>7

LEMMA AlongSteps ==
    ASSUME NEW p \in Text
    PROVE  \A k \in 1..Len(p) :
              Along(p)[k] = IF k = 1 THEN Root ELSE Below(Along(p)[k - 1], p[k])
  <1> DEFINE Is(f) == f = [k \in 1..Len(p) |-> IF k = 1 THEN Root ELSE Below(f[k - 1], p[k])]
  <1>1. \E f : Is(f)
    <2>1. Len(p) \in Nat
      BY DEF Text
    <2> QED BY <2>1, FollowsAll DEF Follows
  <1>2. Along(p) = CHOOSE f : Is(f)
    BY DEF Along
  <1> HIDE DEF Is
  <1>3. Is(Along(p))
    BY <1>1, <1>2
  <1> QED BY <1>3 DEF Is
(* The inodes a path leads through stay the same while tree and path do.   *)
LEMMA Unmoved ==
    ASSUME UNCHANGED <<tree, path>>
    PROVE  /\ Along(path)' = Along(path)
           /\ Named(path)' = Named(path)
           /\ Absolute' <=> Absolute
           /\ PastNothing' <=> PastNothing
           /\ OneBlockDirs' <=> OneBlockDirs
  <1>1. \A node, name : Below(node, name)' = Below(node, name)
    BY DEF Below
  <1>2. Along(path)' = Along(path)
    BY DEF Along, Below
  <1>3. Named(path)' = Named(path)
    BY <1>2 DEF Named
  <1>4. Absolute' <=> Absolute
    BY DEF Absolute
  <1>5. PastNothing' <=> PastNothing
    BY <1>2 DEF PastNothing, NoBlock
  <1>6. OneBlockDirs' <=> OneBlockDirs
    BY DEF OneBlockDirs
  <1> QED BY <1>2, <1>3, <1>4, <1>5, <1>6
-----------------------------------------------------------------------------
(* One directory. *)
LEMMA TreeHas ==
    ASSUME tree \in Trees, NEW d \in DOMAIN tree
    PROVE  /\ tree[d].size \in Nat
           /\ \/ tree[d].kind = "dir" /\ IsDirectory(tree, d)
              \/ tree[d].kind = "file" /\ IsFile(tree, d)
  BY DiskAssumption DEF IsTree

LEMMA Elements ==
    ASSUME NEW S, NEW seq \in Seq(S), NEW k \in DOMAIN seq
    PROVE  seq[k] \in S
  OBVIOUS

(* ext2_read_directory finds what the directory holds under the name, if   *)
(* it is in its first block.                                               *)
LEMMA InBlockFinds ==
    ASSUME NEW S, NEW block \in Seq([name : Seq(STRING), inode : S]), NEW name
    PROVE  \/ /\ \A k \in DOMAIN block : block[k].name # name
              /\ InBlock(name, block) = 0
           \/ \E k \in DOMAIN block :
                 block[k].name = name /\ InBlock(name, block) = block[k].inode
  <1> DEFINE hits == { k \in DOMAIN block : block[k].name = name }
  <1>1. CASE hits = {}
    <2>1. \A k \in DOMAIN block : block[k].name # name
      BY <1>1
    <2>2. InBlock(name, block) = 0
      BY <1>1 DEF InBlock
    <2> QED BY <2>1, <2>2
  <1>2. CASE hits # {}
    <2>1. hits \in SUBSET Nat
      OBVIOUS
    <2>2. Min(hits) \in hits
      BY <1>2, <2>1, LeastIndex
    <2>3. InBlock(name, block) = block[Min(hits)].inode
      BY <1>2 DEF InBlock
    <2> QED BY <2>2, <2>3
  <1> QED BY <1>1, <1>2

LEMMA BelowOne ==
    ASSUME NEW node, node # 0, tree[node].kind = "dir",
           NEW e \in Entries(tree[node].blocks),
           \A f \in Entries(tree[node].blocks) : f.name = e.name => f = e
    PROVE  Below(node, e.name) = e.inode
  <1> DEFINE hits == { f \in Entries(tree[node].blocks) : f.name = e.name }
  <1>1. e \in hits /\ \A f \in hits : f = e
    OBVIOUS
  <1>2. (CHOOSE f \in hits : TRUE) = e
    BY <1>1
  <1> QED BY <1>1, <1>2 DEF Below

LEMMA BelowNone ==
    ASSUME NEW node, NEW name, \A f \in Entries(tree[node].blocks) : f.name # name
    PROVE  Below(node, name) = 0
  BY DEF Below

LEMMA SearchRight ==
    ASSUME tree \in Trees, NEW d \in DOMAIN tree, ~NoBlock(d), NEW name,
           NEW rc, rc = InBlock(name, FirstBlock(d))
    PROVE  /\ rc # 0 => rc \in DOMAIN tree /\ rc = Below(d, name)
           /\ rc = 0 /\ OneBlockDirs => Below(d, name) = 0
  <1>1. CASE tree[d].kind = "file"
    <2>1. FirstBlock(d) = << >>
      BY <1>1 DEF FirstBlock
    <2>2. rc = 0
      BY <2>1 DEF InBlock
    <2>3. Below(d, name) = 0
      BY <1>1 DEF Below
    <2> QED BY <2>2, <2>3
  <1>2. CASE tree[d].kind = "dir" /\ IsDirectory(tree, d)
    <2> DEFINE block == tree[d].blocks[1]
    <2>1. FirstBlock(d) = block
      BY <1>2 DEF FirstBlock
    <2>2. tree[d].blocks \in Seq(Seq([name : Seq(STRING), inode : DOMAIN tree]))
      BY <1>2 DEF IsDirectory
    <2>3. 1 \in DOMAIN tree[d].blocks
      BY <2>2 DEF NoBlock
    <2>4. block \in Seq([name : Seq(STRING), inode : DOMAIN tree])
      BY <2>2, <2>3
    <2>5. \A k \in DOMAIN block : block[k] \in Entries(tree[d].blocks)
      BY <2>3 DEF Entries, ToSet
    <2>6. d # 0 /\ 0 \notin DOMAIN tree
      BY DiskAssumption DEF IsTree
    <2>7. \/ (\A k \in DOMAIN block : block[k].name # name) /\ rc = 0
          \/ \E k \in DOMAIN block : block[k].name = name /\ rc = block[k].inode
      <3>1. rc = InBlock(name, block)
        BY <2>1
      <3> HIDE DEF block
      <3>2. \/ /\ \A k \in DOMAIN block : block[k].name # name
               /\ InBlock(name, block) = 0
            \/ \E k \in DOMAIN block :
                  block[k].name = name /\ InBlock(name, block) = block[k].inode
        BY <2>4, InBlockFinds
      <3> QED BY <3>1, <3>2
    <2>8. CASE \E k \in DOMAIN block : block[k].name = name /\ rc = block[k].inode
      <3>1. PICK k \in DOMAIN block : block[k].name = name /\ rc = block[k].inode
        BY <2>8
      <3> DEFINE e == block[k]
      <3>2. e \in Entries(tree[d].blocks) /\ e.name = name /\ e.inode = rc
        BY <2>5, <3>1
      <3>3. \A f \in Entries(tree[d].blocks) : f.name = e.name => f = e
        BY <1>2, <3>2 DEF IsDirectory
      <3>4. rc \in DOMAIN tree
        <4> HIDE DEF block, e
        <4>1. block[k] \in [name : Seq(STRING), inode : DOMAIN tree]
          BY <2>4, Elements
        <4> QED BY <3>1, <4>1
      <3> HIDE DEF e
      <3>5. Below(d, e.name) = e.inode
        BY <1>2, <2>6, <3>2, <3>3, BelowOne
      <3> QED BY <2>6, <3>2, <3>4, <3>5
    <2>9. CASE (\A k \in DOMAIN block : block[k].name # name) /\ rc = 0
      <3>1. ASSUME OneBlockDirs PROVE Below(d, name) = 0
        <4>1. Len(tree[d].blocks) = 1
          BY <1>2, <3>1 DEF OneBlockDirs
        <4>2. DOMAIN tree[d].blocks = {1}
          BY <2>2, <4>1
        <4>3. Entries(tree[d].blocks) = { block[k] : k \in DOMAIN block }
          BY <4>2 DEF Entries, ToSet
        <4>4. \A f \in Entries(tree[d].blocks) : f.name # name
          BY <2>9, <4>3
        <4> QED BY <4>4, BelowNone
      <3> QED BY <2>9, <3>1
    <2> QED BY <2>7, <2>8, <2>9
  <1> QED BY <1>1, <1>2, TreeHas

(* An inode without a block has nothing below it.                          *)
LEMMA NothingBelow ==
    ASSUME NEW d, NoBlock(d), NEW name
    PROVE  Below(d, name) = 0
  <1>1. Entries(tree[d].blocks) = {}
    <2>1. tree[d].blocks = << >>
      BY DEF NoBlock
    <2>2. ToSet(<< >>) = {}
      BY DEF ToSet
    <2> QED BY <2>1, <2>2 DEF Entries
  <1> QED BY <1>1, BelowNone
-----------------------------------------------------------------------------
(* A path that leads nowhere does so to its end.                           *)
LEMMA ZeroStays ==
    ASSUME NEW p \in Text, NEW k \in 1..Len(p), Along(p)[k] = 0
    PROVE  Named(p) = 0
  <1>0. Len(p) \in Nat
    BY DEF Text
  <1> DEFINE later == { j \in Nat : k <= j /\ j <= Len(p) /\ Along(p)[j] # 0 }
  <1>1. later = {}
    <2> SUFFICES ASSUME later # {} PROVE FALSE
      OBVIOUS
    <2>1. PICK l \in later : \A j \in later : l <= j
      BY LeastNat
    <2>2. l \in Nat /\ l > k /\ l - 1 \in Nat /\ k <= l - 1 /\ l - 1 <= Len(p) /\ l \in 1..Len(p)
      BY <1>0
    <2>3. Along(p)[l - 1] = 0
      BY <2>1, <2>2
    <2>4. Along(p)[l] = Below(Along(p)[l - 1], p[l])
      BY <2>2, AlongSteps
    <2>5. Below(0, p[l]) = 0
      BY DEF Below
    <2> QED BY <2>3, <2>4, <2>5
  <1>2. Len(p) \in Nat /\ k <= Len(p)
    BY <1>0
  <1> QED BY <1>1, <1>2 DEF Named

LEMMA PastNothingNamesNothing ==
    ASSUME path \in Text, PastNothing
    PROVE  Named(path) = 0
  <1>0. Len(path) \in Nat
    BY DEF Text
  <1>1. PICK k \in 2..(Len(path) - 1) : NoBlock(Along(path)[k])
    BY DEF PastNothing
  <1>2. k \in Nat /\ k + 1 \in 1..Len(path) /\ k + 1 # 1 /\ (k + 1) - 1 = k
    BY <1>0
  <1>3. Along(path)[k + 1] = Below(Along(path)[k], path[k + 1])
    BY <1>2, AlongSteps
  <1>4. Along(path)[k + 1] = 0
    BY <1>1, <1>3, NothingBelow
  <1> QED BY <1>2, <1>4, ZeroStays
-----------------------------------------------------------------------------
(* Reading.                                                                *)
LEMMA Product ==
    ASSUME NEW a \in Nat, NEW b \in Nat
    PROVE  /\ a * b \in Nat /\ (b = 0 => a * b = 0) /\ (b = 1 => a * b = a)
           /\ b >= 1 => a * b >= a
  OBVIOUS

(* A byte before the end of a file is in one of its blocks.                *)
LEMMA InSomeBlock ==
    ASSUME NEW bs \in Nat \ {0}, NEW blocks \in Nat, NEW size \in Nat, size <= bs * blocks,
           NEW k \in Nat, k < size
    PROVE  k \div bs < blocks
  <1>1. k \div bs \in Nat /\ bs * (k \div bs) <= k
    OBVIOUS
  <1>2. bs * (k \div bs) < bs * blocks
    BY <1>1
  <1>3. \A x, y \in Nat : x >= y => bs * x >= bs * y
    OBVIOUS
  <1> QED BY <1>1, <1>2, <1>3

(* What is due of a file, and that read copies the bytes of it.            *)
Due(node) == IF want < tree[node].size THEN want ELSE tree[node].size

LEMMA CopiedRight ==
    ASSUME tree \in Trees, NEW node \in DOMAIN tree, want \in Nat,
           NEW c, c = Copied(node)
    PROVE  /\ c.of = "read"
           /\ NoBlock(node) => c.len = 0
           /\ tree[node].kind = "file" =>
                 /\ \A k \in DOMAIN Content(node) :
                       k < c.len /\ k < BlockSize * Direct => c.buff[k] = Content(node)[k]
                 /\ c.len >= Due(node)
                 /\ Len(tree[node].blocks) <= 1 => c.len = Due(node)
  <1> DEFINE got == BytesRead(node)
             read == BlocksRead(node)
             len == IF want > got THEN got ELSE want
             nul == IF want > got THEN got + 1 ELSE want
             size == tree[node].size
             count == Len(tree[node].blocks)
  <1>1. c.of = "read" /\ c.len = len
    BY DEF Copied
  <1>2. \A k \in 0..(want + 1) :
           c.buff[k] = IF got = 0 THEN Junk
                       ELSE IF k = nul THEN Zero
                       ELSE IF k < len THEN Fetched(node, k) ELSE Junk
    BY DEF Copied
  <1>3. /\ size \in Nat /\ count \in Nat /\ BlockSize \in Nat \ {0}
        /\ Direct \in Nat \ {0}
    BY TreeHas, DiskAssumption DEF IsDirectory, IsFile
  <1>4. got = size * read
    BY DEF BytesRead
  <1>41. read = IF count < Direct THEN count ELSE Direct
    BY DEF BlocksRead
  <1> HIDE DEF got, size, count, read
  <1>42. /\ read \in Nat /\ (count = 0 => read = 0) /\ (count = 1 => read = 1)
         /\ count # 0 => read >= 1
    BY <1>3, <1>41
  <1>5. /\ got \in Nat /\ (count = 0 => got = 0) /\ (count = 1 => got = size)
        /\ count # 0 => got >= size
    BY <1>3, <1>4, <1>42, Product
  <1>6. NoBlock(node) => c.len = 0
    <2> HAVE NoBlock(node)
    <2>1. count = 0
      BY DEF NoBlock, count
    <2> QED BY <1>1, <1>5, <2>1
  <1>7. ASSUME tree[node].kind = "file", NEW k \in DOMAIN Content(node), k < c.len,
               k < BlockSize * Direct
        PROVE  c.buff[k] = Content(node)[k]
    <2>1. k \in 0..(size - 1) /\ Content(node)[k] =
             tree[node].blocks[(k \div BlockSize) + 1][(k % BlockSize) + 1]
      BY <1>7 DEF Content, size
    <2>2. k \in 0..(want + 1) /\ k < len /\ k # nul /\ got # 0
      BY <1>1, <1>3, <1>5, <1>7, <2>1
    <2>3. c.buff[k] = Fetched(node, k)
      BY <1>2, <2>2
    <2>4. size <= BlockSize * count
      BY <1>7, TreeHas DEF IsFile, size, count
    <2>5. k \div BlockSize < count
      BY <1>3, <2>1, <2>4, InSomeBlock
    <2>6. k \div BlockSize \in Int
      BY <1>3, <2>1
    <2>7. k \div BlockSize < Direct
      <3>1. BlockSize * Direct \in Nat /\ k \in Nat
        BY <1>3, <2>1, Product
      <3> QED BY <1>3, <1>7, <3>1, InSomeBlock
    <2>8. ~(k \div BlockSize >= Direct) /\ ~(k \div BlockSize >= BlocksRead(node))
      BY <1>3, <1>41, <1>42, <2>5, <2>6, <2>7 DEF read
    <2>9. Fetched(node, k) = tree[node].blocks[(k \div BlockSize) + 1][(k % BlockSize) + 1]
      BY <1>7, <2>8 DEF Fetched
    <2> QED BY <2>1, <2>3, <2>9
  <1>8. ASSUME tree[node].kind = "file"
        PROVE  /\ c.len >= IF want < size THEN want ELSE size
               /\ count <= 1 => c.len = IF want < size THEN want ELSE size
    <2>1. size <= BlockSize * count
      BY <1>8, TreeHas DEF IsFile, size, count
    <2>2. CASE count = 0
      <3>1. size = 0
        BY <1>3, <2>1, <2>2, Product
      <3> QED BY <1>1, <1>3, <1>5, <2>2, <3>1
    <2>3. CASE count = 1
      BY <1>1, <1>3, <1>5, <2>3
    <2>4. CASE count > 1
      BY <1>1, <1>3, <1>5, <2>4
    <2> QED BY <1>3, <2>2, <2>3, <2>4
  <1> QED BY <1>1, <1>6, <1>7, <1>8 DEF size, count, Due
-----------------------------------------------------------------------------
(* The state is well-formed. *)
LEMMA SlashTyped == Slash \in Text /\ Slash # << >> /\ Len(Slash) = 2 /\ Slash[1] = << >>
  <1>1. << >> \in Seq(STRING)
    OBVIOUS
  <1> DEFINE empty == << >>
  <1>2. empty \in Seq(STRING)
    BY <1>1
  <1>3. Slash = <<empty, empty>>
    BY DEF Slash
  <1> HIDE DEF empty
  <1>4. <<empty, empty>> \in Text /\ Len(<<empty, empty>>) = 2 /\ <<empty, empty>>[1] = empty
    BY <1>2 DEF Text
  <1> QED BY <1>3, <1>4 DEF empty

LEMMA InitTyped == Init => Types
  <1> SUFFICES ASSUME Init PROVE Types
    OBVIOUS
  <1>1. Root \in DOMAIN tree
    BY DiskAssumption DEF Init, IsTree
  <1> QED BY <1>1, SlashTyped DEF Init, Types

(* A segment that is found is an inode of the tree.                        *)
LEMMA AdvanceTyped ==
    ASSUME Types, n > 1, ~NoBlock(inode), NEW name,
           LET rc == InBlock(name, FirstBlock(inode))
           IN  rc # 0 /\ inode' = rc,
           n' = n - 1, UNCHANGED <<tree, path, want, call>>
    PROVE  Types'
  <1>1. inode' \in DOMAIN tree
    BY SearchRight DEF Types
  <1>2. path \in Text /\ Len(path) \in Nat
    BY DEF Types, Text
  <1>3. n' \in Nat /\ (call # "idle" => n' \in 1..Len(path))
    BY <1>2 DEF Types
  <1> QED BY <1>1, <1>3 DEF Types

LEMMA ReturnTyped == ASSUME Types, NEW result, Return(result) PROVE Types'
  BY DEF Types, Return

LEMMA BeginTyped ==
    ASSUME Types, NEW p \in Paths, NEW what \in {"find", "list", "read"}, NEW amount \in Nat,
           Begin(what, p, amount)
    PROVE  Types'
  <1>1. p \in Text /\ p # << >>
    BY AskedAssumption DEF Text
  <1>2. Len(p) \in Nat /\ Len(p) \in 1..Len(p)
    BY <1>1 DEF Text
  <1>3. Root \in DOMAIN tree
    BY DiskAssumption DEF Types, IsTree
  <1> QED BY <1>1, <1>2, <1>3 DEF Begin, Types

LEMMA NextTyped == Types /\ [Next]_vars => Types'
  <1> SUFFICES ASSUME Types, [Next]_vars PROVE Types'
    OBVIOUS
  <1>0. path \in Text /\ Len(path) \in Nat
    BY DEF Types, Text
  <1>1. ASSUME NEW p \in Paths,
               \/ Begin("find", p, 0) \/ Begin("list", p, 0)
               \/ \E amount \in Amounts : Begin("read", p, amount)
        PROVE  Types'
    <2>1. \A amount \in Amounts : amount \in Nat
      BY AskedAssumption
    <2> QED BY <1>1, <2>1, BeginTyped
  <1>2. CASE FindInRoot
    BY <1>2, ReturnTyped DEF FindInRoot
  <1>3. CASE FindSegment
    <2>1. CASE InBlock(Head(rest), FirstBlock(inode)) = 0
      BY <1>3, <2>1, ReturnTyped DEF FindSegment
    <2>2. CASE InBlock(Head(rest), FirstBlock(inode)) # 0
      BY <1>3, <2>2, AdvanceTyped DEF FindSegment
    <2> QED BY <2>1, <2>2
  <1>4. CASE FindInNothing
    BY <1>0, <1>4 DEF FindInNothing, Types
  <1>5. CASE FindDone
    BY <1>5, ReturnTyped DEF FindDone
  <1>6. CASE ListRoot
    BY <1>6, ReturnTyped DEF ListRoot
  <1>7. CASE ListSegment
    <2>1. CASE InBlock(Head(rest), FirstBlock(inode)) = 0
      BY <1>7, <2>1, ReturnTyped DEF ListSegment
    <2>2. CASE InBlock(Head(rest), FirstBlock(inode)) # 0
      BY <1>7, <2>2, AdvanceTyped DEF ListSegment
    <2> QED BY <2>1, <2>2
  <1>8. CASE ListInNothing
    BY <1>0, <1>8 DEF ListInNothing, Types
  <1>9. CASE ListDone
    BY <1>9, ReturnTyped DEF ListDone
  <1>10. CASE UNCHANGED vars
    BY <1>10 DEF vars, Types
  <1> QED BY <1>1, <1>2, <1>3, <1>4, <1>5, <1>6, <1>7, <1>8, <1>9, <1>10 DEF Next
-----------------------------------------------------------------------------
(* The search keeps to the path. *)
LEMMA RootHasBlock == Types => Root \in DOMAIN tree /\ ~NoBlock(Root)
  BY DiskAssumption DEF Types, IsTree, NoBlock

LEMMA BeginOnTheWay ==
    ASSUME Types, NEW p \in Paths, NEW what, NEW amount, Begin(what, p, amount)
    PROVE  OnTheWay'
  <1>1. p \in Text /\ p # << >> /\ path' = p /\ tree' = tree
    BY AskedAssumption DEF Text, Begin
  <1>2. Len(p) \in Nat /\ 1 \in 1..Len(p)
    BY <1>1 DEF Text
  <1>3. Along(path)' = Along(p)
    BY <1>1 DEF Along, Below
  <1>4. Along(p)[1] = Root
    BY <1>1, <1>2, AlongSteps
  <1>5. n' = Len(p) /\ inode' = Root /\ rest' = Skipped(p)
    BY DEF Begin
  <1>6. ASSUME Absolute' PROVE inode' = Along(path)'[Len(path') - n' + 1] /\ Remains'
    <2>1. Len(p) > 1 /\ p[1] = << >>
      BY <1>1, <1>6 DEF Absolute
    <2>2. rest' = Tail(p)
      BY <1>5, <2>1 DEF Skipped
    <2>3. Len(path') - n' + 1 = 1
      BY <1>1, <1>2, <1>5
    <2>4. /\ rest' \in Text /\ Len(rest') = Len(p) - 1
          /\ \A j \in 1..(Len(p) - 1) : rest'[j] = p[Len(p) - Len(p) + 1 + j]
      <3>1. Tail(p) \in Text /\ Len(Tail(p)) = Len(p) - 1
        BY <1>1 DEF Text
      <3>2. ASSUME NEW j \in 1..(Len(p) - 1) PROVE Tail(p)[j] = p[Len(p) - Len(p) + 1 + j]
        <4>1. Len(p) - Len(p) + 1 + j = j + 1
          BY <1>2
        <4>2. Tail(p)[j] = p[j + 1]
          BY <1>1 DEF Text
        <4> QED BY <4>1, <4>2
      <3> QED BY <2>2, <3>1, <3>2
    <2> QED BY <1>1, <1>3, <1>4, <1>5, <2>3, <2>4 DEF Remains
  <1> QED BY <1>6 DEF OnTheWay

(* A segment is found. *)
LEMMA AdvanceOnTheWay ==
    ASSUME Types, OnTheWay, call # "idle", n > 1, ~NoBlock(inode),
           LET rc == InBlock(Head(rest), FirstBlock(inode))
           IN  rc # 0 /\ inode' = rc,
           n = 2 \/ rest' = Tail(rest),
           n' = n - 1, UNCHANGED <<tree, path, call>>
    PROVE  OnTheWay'
  <1>0. path \in Text /\ Len(path) \in Nat /\ n \in 1..Len(path) /\ n - 1 \in Nat
    BY DEF Types, Text
  <1> DEFINE at == Len(path) - n + 1
  <1>1. at \in 1..Len(path) /\ at + 1 \in 1..Len(path) /\ at + 1 # 1 /\ (at + 1) - 1 = at
    BY <1>0
  <1>2. ASSUME Absolute' PROVE inode' = Along(path)'[Len(path') - n' + 1] /\ Remains'
    <2>1. inode = Along(path)[at] /\ Remains
      BY <1>2, Unmoved DEF OnTheWay
    <2>2. /\ rest \in Text /\ Len(rest) = n - 1
          /\ \A j \in 1..(n - 1) : rest[j] = path[Len(path) - n + 1 + j]
      BY <2>1 DEF Remains
    <2>3. Head(rest) = path[at + 1]
      <3>1. rest # << >> /\ Head(rest) = rest[1]
        BY <1>0, <2>2 DEF Text
      <3>2. 1 \in 1..(n - 1)
        BY <1>0
      <3> QED BY <2>2, <3>1, <3>2
    <2>4. inode' = Below(inode, Head(rest))
      BY SearchRight DEF Types
    <2>5. Along(path)[at + 1] = Below(Along(path)[at], path[at + 1])
      BY <1>0, <1>1, AlongSteps
    <2>6. Len(path') - n' + 1 = at + 1
      BY <1>0
    <2>7. inode' = Along(path)'[Len(path') - n' + 1]
      <3> HIDE DEF at
      <3> QED BY <2>1, <2>3, <2>4, <2>5, <2>6, Unmoved
    <2>8. ASSUME n > 2
          PROVE  /\ rest' \in Text /\ Len(rest') = n' - 1
                 /\ \A j \in 1..(n' - 1) : rest'[j] = path'[Len(path') - n' + 1 + j]
      <3>1. rest' = Tail(rest) /\ rest # << >>
        BY <1>0, <2>2, <2>8 DEF Text
      <3>2. rest' \in Text /\ Len(rest') = Len(rest) - 1
            /\ \A j \in 1..(Len(rest) - 1) : rest'[j] = rest[j + 1]
        BY <2>2, <3>1 DEF Text
      <3>3. ASSUME NEW j \in 1..(n' - 1) PROVE rest'[j] = path'[Len(path') - n' + 1 + j]
        <4>1. /\ j \in 1..(Len(rest) - 1) /\ j + 1 \in 1..(n - 1)
              /\ Len(path) - n + 1 + (j + 1) = Len(path) - (n - 1) + 1 + j
          BY <1>0, <2>2
        <4>2. rest'[j] = path[Len(path) - n + 1 + (j + 1)]
          BY <2>2, <3>2, <4>1
        <4> QED BY <4>1, <4>2
      <3>4. Len(rest') = n' - 1
        BY <1>0, <2>2, <3>2
      <3> QED BY <3>2, <3>3, <3>4
    <2>9. n' > 1 => n > 2
      BY <1>0
    <2> QED BY <2>7, <2>8, <2>9 DEF Remains
  <1> QED BY <1>2 DEF OnTheWay

(* An inode without a block is passed over. *)
LEMMA PassOnTheWay ==
    ASSUME Types, OnTheWay, call # "idle", n > 1, NoBlock(inode),
           n' = n - 1, UNCHANGED <<tree, path, call, inode>>
    PROVE  OnTheWay'
  <1>0. path \in Text /\ Len(path) \in Nat /\ n \in 1..Len(path)
    BY DEF Types, Text
  <1>1. ASSUME Absolute PROVE PastNothing
    <2>1. CASE inode = Along(path)[Len(path) - n + 1]
      <3> DEFINE at == Len(path) - n + 1
      <3>1. at \in 1..Len(path) /\ at <= Len(path) - 1
        BY <1>0
      <3>2. Along(path)[1] = Root
        <4>1. 1 \in 1..Len(path)
          BY <1>0
        <4> QED BY <1>0, <4>1, AlongSteps
      <3>3. at # 1
        <4> SUFFICES ASSUME at = 1 PROVE FALSE
          OBVIOUS
        <4> HIDE DEF at
        <4>1. inode = Root
          BY <2>1, <3>2 DEF at
        <4> QED BY <4>1, RootHasBlock
      <3>4. at \in 2..(Len(path) - 1)
        BY <1>0, <3>1, <3>3
      <3>5. inode # 0
        BY DiskAssumption DEF Types, IsTree
      <3> QED BY <2>1, <3>4, <3>5 DEF PastNothing
    <2>2. CASE PastNothing
      BY <2>2
    <2> QED BY <1>1, <2>1, <2>2 DEF OnTheWay
  <1>2. NoBlock(inode)'
    BY DEF NoBlock
  <1> QED BY <1>1, <1>2, Unmoved DEF OnTheWay

LEMMA ReturnOnTheWay == ASSUME NEW result, Return(result) PROVE OnTheWay'
  BY DEF Return, OnTheWay

LEMMA NextOnTheWay == Types /\ OnTheWay /\ [Next]_vars => OnTheWay'
  <1> SUFFICES ASSUME Types, OnTheWay, [Next]_vars PROVE OnTheWay'
    OBVIOUS
  <1>1. ASSUME NEW p \in Paths,
               \/ Begin("find", p, 0) \/ Begin("list", p, 0)
               \/ \E amount \in Amounts : Begin("read", p, amount)
        PROVE  OnTheWay'
    BY <1>1, BeginOnTheWay
  <1>2. CASE FindInRoot
    BY <1>2, ReturnOnTheWay DEF FindInRoot
  <1>3. CASE FindSegment
    <2>1. CASE InBlock(Head(rest), FirstBlock(inode)) = 0
      BY <1>3, <2>1, ReturnOnTheWay DEF FindSegment
    <2>2. CASE InBlock(Head(rest), FirstBlock(inode)) # 0
      BY <1>3, <2>2, AdvanceOnTheWay DEF FindSegment, Finding
    <2> QED BY <2>1, <2>2
  <1>4. CASE FindInNothing
    BY <1>4, PassOnTheWay DEF FindInNothing, Finding
  <1>5. CASE FindDone
    BY <1>5, ReturnOnTheWay DEF FindDone
  <1>6. CASE ListRoot
    BY <1>6, ReturnOnTheWay DEF ListRoot
  <1>7. CASE ListSegment
    <2>1. CASE InBlock(Head(rest), FirstBlock(inode)) = 0
      BY <1>7, <2>1, ReturnOnTheWay DEF ListSegment
    <2>2. CASE InBlock(Head(rest), FirstBlock(inode)) # 0
      BY <1>7, <2>2, AdvanceOnTheWay DEF ListSegment, Listing
    <2> QED BY <2>1, <2>2
  <1>8. CASE ListInNothing
    BY <1>8, PassOnTheWay DEF ListInNothing, Listing
  <1>9. CASE ListDone
    BY <1>9, ReturnOnTheWay DEF ListDone
  <1>10. CASE UNCHANGED vars
    <2>1. UNCHANGED <<tree, path, call, rest, n, inode>>
      BY <1>10 DEF vars
    <2>2. NoBlock(inode)' <=> NoBlock(inode)
      BY <2>1 DEF NoBlock
    <2>3. Remains' <=> Remains
      BY <2>1 DEF Remains
    <2> QED BY <2>1, <2>2, <2>3, Unmoved DEF OnTheWay
  <1> QED BY <1>1, <1>2, <1>3, <1>4, <1>5, <1>6, <1>7, <1>8, <1>9, <1>10 DEF Next
-----------------------------------------------------------------------------
(* What a call gives. *)
LEMMA SameAnswers ==
    ASSUME Answers, UNCHANGED <<tree, path, want, answer>>
    PROVE  Answers'
  <1>1. \A file : Content(file)' = Content(file)
    BY DEF Content
  <1>2. FindsNoOther' /\ FindsAll'
    BY Unmoved DEF Answers, FindsNoOther, FindsAll
  <1>3. ReadsContent'
    BY <1>1, Unmoved DEF Answers, ReadsFile, ReadsContent
  <1>4. ReadsAll'
    BY Unmoved DEF Answers, ReadsFile, ReadsAll
  <1>5. ListsNamed'
    BY Unmoved DEF Answers, ListsNamed
  <1> QED BY <1>2, <1>3, <1>4, <1>5 DEF Answers, ReadsFile

LEMMA BeginAnswers ==
    ASSUME NEW p, NEW what, NEW amount, Begin(what, p, amount)
    PROVE  Answers'
  <1>1. answer'.of = "none"
    BY DEF Begin, NoAnswer
  <1> QED BY <1>1 DEF Answers, FindsNoOther, FindsAll, ReadsFile, ReadsContent, ReadsAll, ListsNamed

(* What look-up ends with is what an absolute path names, or nothing, or   *)
(* an inode without a block on the way of a path that names nothing.       *)
LEMMA FoundAnswers ==
    ASSUME Types, call \in {"find", "read"}, NEW node, Return(Found(node)),
           Absolute =>
              \/ node = 0 /\ (OneBlockDirs => Named(path) = 0)
              \/ node \in DOMAIN tree /\ node = Named(path)
              \/ node \in DOMAIN tree /\ NoBlock(node) /\ PastNothing /\ Named(path) = 0
    PROVE  Answers'
  <1>1. UNCHANGED <<tree, path, want>> /\ answer' = Found(node)
    BY DEF Return
  <1>2. want \in Nat /\ 0 \notin DOMAIN tree
    BY DiskAssumption DEF Types, IsTree
  <1>3. CASE call = "find"
    <2>1. answer' = [of |-> "find", inode |-> node]
      BY <1>1, <1>3 DEF Found
    <2>2. answer'.of = "find" /\ answer'.inode = node
      BY <2>1
    <2>3. FindsNoOther' /\ FindsAll'
      BY <1>1, <2>2, Unmoved DEF FindsNoOther, FindsAll
    <2>4. ReadsFile' /\ ListsNamed'
      BY <2>2 DEF ReadsFile, ReadsContent, ReadsAll, ListsNamed
    <2> QED BY <2>3, <2>4 DEF Answers
  <1>4. CASE call = "read" /\ node = 0
    <2>1. answer' = [of |-> "read", len |-> 0, buff |-> [k \in 0..(want + 1) |-> Junk]]
      BY <1>1, <1>4 DEF Found
    <2>2. answer'.of = "read" /\ answer'.len = 0
      BY <2>1
    <2>3. FindsNoOther' /\ FindsAll' /\ ListsNamed'
      BY <2>2 DEF FindsNoOther, FindsAll, ListsNamed
    <2>4. ReadsContent'
      BY <2>2 DEF ReadsContent
    <2>5. ReadsAll'
      <3>1. ASSUME Absolute, OneBlockDirs PROVE Named(path) = 0
        BY <1>2, <1>4, <3>1
      <3> QED BY <1>1, <3>1, Unmoved DEF ReadsAll
    <2> QED BY <2>3, <2>4, <2>5 DEF Answers, ReadsFile
  <1>5. CASE call = "read" /\ node # 0
    <2>1. answer' = Copied(node)
      BY <1>1, <1>5 DEF Found
    <2>2. CASE ~Absolute
      <3>1. answer'.of = "read"
        BY <2>1 DEF Copied
      <3> QED BY <1>1, <2>2, <3>1, Unmoved
              DEF Answers, FindsNoOther, FindsAll, ListsNamed, ReadsFile, ReadsContent, ReadsAll
    <2>3. CASE Absolute
      <3>1. /\ node \in DOMAIN tree
            /\ node = Named(path) \/ (NoBlock(node) /\ Named(path) = 0)
        BY <1>5, <2>3
      <3>2. /\ answer'.of = "read"
            /\ NoBlock(node) => answer'.len = 0
            /\ tree[node].kind = "file" =>
                  /\ \A k \in DOMAIN Content(node) :
                        k < answer'.len /\ k < BlockSize * Direct
                            => answer'.buff[k] = Content(node)[k]
                  /\ answer'.len >= Due(node)
                  /\ Len(tree[node].blocks) <= 1 => answer'.len = Due(node)
        BY <1>2, <2>1, <3>1, CopiedRight DEF Types
      <3>3. FindsNoOther' /\ FindsAll' /\ ListsNamed'
        BY <3>2 DEF FindsNoOther, FindsAll, ListsNamed
      <3>4. ReadsContent'
        <4>1. \A file : Content(file)' = Content(file)
          BY <1>1 DEF Content
        <4>2. CASE NoBlock(node)
          <5>1. answer'.len = 0
            BY <3>2, <4>2
          <5> QED BY <5>1 DEF ReadsContent
        <4>3. CASE node = Named(path)
          BY <1>1, <1>2, <3>1, <3>2, <4>1, <4>3, Unmoved DEF ReadsContent
        <4> QED BY <3>1, <4>2, <4>3
      <3>5. ReadsAll'
        <4>1. CASE Named(path) = 0
          BY <1>1, <4>1, Unmoved DEF ReadsAll
        <4>2. CASE node = Named(path)
          BY <1>1, <3>2, <4>2, Unmoved DEF ReadsAll, Due
        <4> QED BY <3>1, <4>1, <4>2
      <3> QED BY <3>3, <3>4, <3>5 DEF Answers, ReadsFile
    <2> QED BY <2>2, <2>3
  <1> QED BY <1>3, <1>4, <1>5

(* What is listed are entries of the directory the path names.             *)
LEMMA ListedAnswers ==
    ASSUME Types, NEW entries, Return([of |-> "list", entries |-> entries]),
           Absolute =>
              \/ entries = {}
              \/ LET dir == IF path = Slash THEN Root ELSE Named(path)
                 IN  dir # 0 /\ entries \subseteq Entries(tree[dir].blocks)
    PROVE  Answers'
  <1>1. /\ UNCHANGED <<tree, path, want>>
        /\ answer' = [of |-> "list", entries |-> entries]
    BY DEF Return
  <1>2. answer'.of = "list" /\ answer'.entries = entries
    BY <1>1
  <1>3. FindsNoOther' /\ FindsAll' /\ ReadsFile'
    BY <1>2 DEF FindsNoOther, FindsAll, ReadsFile, ReadsContent, ReadsAll
  <1>4. ListsNamed'
    BY <1>1, <1>2, Unmoved DEF ListsNamed
  <1> QED BY <1>3, <1>4 DEF Answers

Shown(node) == { e \in ToSet(FirstBlock(node)) : ~Hidden(e.name) }

LEMMA FirstBlockListed ==
    ASSUME Types, NEW node \in DOMAIN tree, ~NoBlock(node)
    PROVE  Shown(node) \subseteq Entries(tree[node].blocks)
  <1> SUFFICES ToSet(FirstBlock(node)) \subseteq Entries(tree[node].blocks)
    BY DEF Shown
  <1>1. CASE tree[node].kind = "dir"
    <2>1. Len(tree[node].blocks) \in Nat /\ 1 \in DOMAIN tree[node].blocks
      BY TreeHas DEF Types, IsDirectory, IsFile, NoBlock
    <2> QED BY <1>1, <2>1 DEF FirstBlock, Entries, ToSet
  <1>2. CASE tree[node].kind # "dir"
    <2>1. FirstBlock(node) = << >>
      BY <1>2 DEF FirstBlock
    <2>2. ToSet(<< >>) = {}
      BY DEF ToSet
    <2> QED BY <2>1, <2>2
  <1> QED BY <1>1, <1>2

(* Where a segment is not found and every directory is one block, the path *)
(* names nothing.                                                          *)
LEMMA MissedNamesNothing ==
    ASSUME Types, OnTheWay, call # "idle", n > 1, ~NoBlock(inode), Absolute,
           InBlock(Head(rest), FirstBlock(inode)) = 0, OneBlockDirs
    PROVE  Named(path) = 0
  <1>0. path \in Text /\ Len(path) \in Nat /\ n \in 1..Len(path)
    BY DEF Types, Text
  <1> DEFINE at == Len(path) - n + 1
  <1>1. at \in 1..Len(path) /\ at + 1 \in 1..Len(path) /\ at + 1 # 1 /\ (at + 1) - 1 = at
    BY <1>0
  <1>2. inode = Along(path)[at] /\ Remains
    BY DEF OnTheWay
  <1>3. /\ rest \in Text /\ Len(rest) = n - 1
        /\ \A j \in 1..(n - 1) : rest[j] = path[Len(path) - n + 1 + j]
    BY <1>2 DEF Remains
  <1>4. Head(rest) = path[at + 1]
    <2>1. rest # << >> /\ Head(rest) = rest[1]
      BY <1>0, <1>3 DEF Text
    <2>2. 1 \in 1..(n - 1)
      BY <1>0
    <2> QED BY <1>3, <2>1, <2>2
  <1>5. Below(inode, Head(rest)) = 0
    BY SearchRight DEF Types
  <1>6. Along(path)[at + 1] = Below(Along(path)[at], path[at + 1])
    BY <1>0, <1>1, AlongSteps
  <1> HIDE DEF at
  <1>7. Along(path)[at + 1] = 0
    BY <1>2, <1>4, <1>5, <1>6
  <1> QED BY <1>0, <1>1, <1>7, ZeroStays

(* At the end of the path the search is at what it names. *)
LEMMA EndsAtNamed ==
    ASSUME Types, OnTheWay, call # "idle", n = 1, Absolute
    PROVE  \/ inode = Named(path)
           \/ NoBlock(inode) /\ PastNothing /\ Named(path) = 0
  <1>0. path \in Text /\ Len(path) \in Nat /\ Len(path) - n + 1 = Len(path)
    BY DEF Types, Text
  <1>1. CASE inode = Along(path)[Len(path) - n + 1]
    BY <1>0, <1>1 DEF Named
  <1>2. CASE NoBlock(inode) /\ PastNothing
    BY <1>0, <1>2, PastNothingNamesNothing
  <1> QED BY <1>1, <1>2 DEF OnTheWay

LEMMA NextAnswers == Types /\ OnTheWay /\ Answers /\ [Next]_vars => Answers'
  <1> SUFFICES ASSUME Types, OnTheWay, Answers, [Next]_vars PROVE Answers'
    OBVIOUS
  <1>0. inode \in DOMAIN tree /\ inode # 0 /\ Root \in DOMAIN tree /\ ~NoBlock(Root)
    BY RootHasBlock, DiskAssumption DEF Types, IsTree
  <1>1. ASSUME NEW p \in Paths,
               \/ Begin("find", p, 0) \/ Begin("list", p, 0)
               \/ \E amount \in Amounts : Begin("read", p, amount)
        PROVE  Answers'
    BY <1>1, BeginAnswers
  <1>2. CASE FindInRoot
    <2>1. ~Absolute
      BY <1>2 DEF FindInRoot, Absolute
    <2> QED BY <1>2, <2>1, FoundAnswers DEF FindInRoot
  <1>3. CASE FindSegment
    <2>1. CASE InBlock(Head(rest), FirstBlock(inode)) = 0
      <3>1. call \in {"find", "read"} /\ n > 1 /\ ~NoBlock(inode) /\ Return(Found(0))
        BY <1>3, <2>1 DEF FindSegment, Finding
      <3>2. Absolute /\ OneBlockDirs => Named(path) = 0
        BY <2>1, <3>1, MissedNamesNothing
      <3> QED BY <3>1, <3>2, FoundAnswers
    <2>2. CASE InBlock(Head(rest), FirstBlock(inode)) # 0
      BY <1>3, <2>2, SameAnswers DEF FindSegment
    <2> QED BY <2>1, <2>2
  <1>4. CASE FindInNothing
    BY <1>4, SameAnswers DEF FindInNothing
  <1>5. CASE FindDone
    <2>1. call \in {"find", "read"} /\ n = 1 /\ Return(Found(inode))
      BY <1>5 DEF FindDone, Finding
    <2>2. Absolute => \/ inode = Named(path)
                      \/ NoBlock(inode) /\ PastNothing /\ Named(path) = 0
      BY <2>1, EndsAtNamed
    <2> QED BY <1>0, <2>1, <2>2, FoundAnswers
  <1>6. CASE ListRoot
    <2>1. path = Slash /\ Return([of |-> "list", entries |-> Shown(Root)])
      BY <1>6 DEF ListRoot, Listed, Shown
    <2>2. Shown(Root) \subseteq Entries(tree[Root].blocks) /\ Root # 0
      BY <1>0, FirstBlockListed DEF Root
    <2> QED BY <2>1, <2>2, ListedAnswers
  <1>7. CASE ListSegment
    <2>1. CASE InBlock(Head(rest), FirstBlock(inode)) = 0
      <3>1. Return([of |-> "list", entries |-> {}])
        BY <1>7, <2>1 DEF ListSegment, Invalid
      <3> QED BY <3>1, ListedAnswers
    <2>2. CASE InBlock(Head(rest), FirstBlock(inode)) # 0
      BY <1>7, <2>2, SameAnswers DEF ListSegment
    <2> QED BY <2>1, <2>2
  <1>8. CASE ListInNothing
    BY <1>8, SameAnswers DEF ListInNothing
  <1>9. CASE ListDone
    <2>1. CASE NoBlock(inode)
      <3>1. Return([of |-> "list", entries |-> {}])
        BY <1>9, <2>1 DEF ListDone, Invalid
      <3> QED BY <3>1, ListedAnswers
    <2>2. CASE ~NoBlock(inode)
      <3>1. /\ call = "list" /\ path # Slash /\ n = 1
            /\ Return([of |-> "list", entries |-> Shown(inode)])
        BY <1>9, <2>2 DEF ListDone, Listing, Listed, Shown
      <3>2. Absolute => inode = Named(path)
        BY <2>2, <3>1, EndsAtNamed
      <3>3. Shown(inode) \subseteq Entries(tree[inode].blocks)
        BY <1>0, <2>2, FirstBlockListed
      <3> QED BY <1>0, <3>1, <3>2, <3>3, ListedAnswers
    <2> QED BY <2>1, <2>2
  <1>10. CASE UNCHANGED vars
    BY <1>10, SameAnswers DEF vars
  <1> QED BY <1>1, <1>2, <1>3, <1>4, <1>5, <1>6, <1>7, <1>8, <1>9, <1>10 DEF Next
-----------------------------------------------------------------------------
(* The state is well-formed, the search keeps to the path, and what the    *)
(* last call gave is right.                                                *)
THEOREM Inductive == Spec => []IInv
  <1>1. Init => IInv
    <2> SUFFICES ASSUME Init PROVE IInv
      OBVIOUS
    <2>1. OnTheWay
      BY DEF Init, OnTheWay
    <2>2. answer.of = "none"
      BY DEF Init, NoAnswer
    <2>3. Answers
      BY <2>2 DEF Answers, FindsNoOther, FindsAll, ReadsFile, ReadsContent, ReadsAll, ListsNamed
    <2> QED BY <2>1, <2>3, InitTyped DEF IInv
  <1>2. IInv /\ [Next]_vars => IInv'
    BY NextTyped, NextOnTheWay, NextAnswers DEF IInv
  <1> QED BY <1>1, <1>2, PTL DEF Spec

(* In any tree, an absolute path that does not go through an empty file is *)
(* found to be what it names or not found.                                 *)
THEOREM FindsOnlyNamed == Spec => []FindsNoOther
  <1>1. IInv => FindsNoOther
    BY DEF IInv, Answers
  <1> QED BY <1>1, Inductive, PTL

(* Where every directory is one block, what such a path names is found.    *)
THEOREM FindsWhatIsThere == Spec => []FindsAll
  <1>1. IInv => FindsAll
    BY DEF IInv, Answers
  <1> QED BY <1>1, Inductive, PTL

(* read gives the bytes of the file an absolute path names as far as its   *)
(* direct blocks go (ext2.c:349), whatever the file's size; and, in        *)
(* directories of one block, it claims no fewer than it should, and        *)
(* exactly as many for a file of one block.                                *)
THEOREM ReadsTheFile == Spec => []ReadsFile
  <1>1. IInv => ReadsFile
    BY DEF IInv, Answers
  <1> QED BY <1>1, Inductive, PTL

(* ls lists only entries of the directory an absolute path names.          *)
THEOREM ListsTheDirectory == Spec => []ListsNamed
  <1>1. IInv => ListsNamed
    BY DEF IInv, Answers
  <1> QED BY <1>1, Inductive, PTL
-----------------------------------------------------------------------------
(* Places on the disk.                                                     *)
(*                                                                         *)
(* A power of two counts the subsets of a set.                             *)
LEMMA TwoPower ==
    ASSUME NEW h \in Nat
    PROVE  2^h \in Nat \ {0}
  <1>1. IsFiniteSet(1..h) /\ Cardinality(1..h) = h
    BY FS_Interval
  <1>2. IsFiniteSet(SUBSET (1..h)) /\ Cardinality(SUBSET (1..h)) = 2^h
    BY <1>1, FS_SUBSET
  <1>3. Cardinality(SUBSET (1..h)) \in Nat
    BY <1>2, FS_CardinalityType
  <1>4. SUBSET (1..h) # {}
    OBVIOUS
  <1>5. Cardinality(SUBSET (1..h)) # 0
    BY <1>2, <1>4, FS_EmptySet
  <1> QED BY <1>2, <1>3, <1>5

(* Division is what its quotient and remainder say.                        *)
LEMMA Divided ==
    ASSUME NEW d \in Nat \ {0}, NEW q \in Nat, NEW r \in 0..(d - 1), NEW a \in Nat, a = d * q + r
    PROVE  a \div d = q /\ a % d = r
  <1>1. a = d * (a \div d) + (a % d) /\ a \div d \in Nat /\ a % d \in 0..(d - 1)
    OBVIOUS
  <1> DEFINE x == a \div d
             y == a % d
  <1> HIDE DEF x, y
  <1>2. d * x + y = d * q + r /\ x \in Nat /\ y \in 0..(d - 1)
    BY <1>1 DEF x, y
  <1>3. ~(x < q)
    <2> SUFFICES ASSUME x < q PROVE FALSE
      OBVIOUS
    <2>1. x + 1 <= q
      BY <1>2
    <2>2. d * (x + 1) <= d * q
      BY <1>2, <2>1
    <2>3. d * (x + 1) = d * x + d
      BY <1>2
    <2>4. d * x \in Int /\ d * q \in Int
      BY <1>2
    <2> QED BY <1>2, <2>2, <2>3, <2>4
  <1>4. ~(q < x)
    <2> SUFFICES ASSUME q < x PROVE FALSE
      OBVIOUS
    <2>1. q + 1 <= x
      BY <1>2
    <2>2. d * (q + 1) <= d * x
      BY <1>2, <2>1
    <2>3. d * (q + 1) = d * q + d
      BY <1>2
    <2>4. d * x \in Int /\ d * q \in Int
      BY <1>2
    <2> QED BY <1>2, <2>2, <2>3, <2>4
  <1>5. x = q
    BY <1>2, <1>3, <1>4
  <1>6. y = r
    <2>1. d * x = d * q /\ d * q \in Int
      BY <1>5
    <2> QED BY <1>2, <2>1
  <1> QED BY <1>5, <1>6 DEF x, y

(* A block holds a whole number of inodes and of sectors.                  *)
LEMMA BlockSizesAre ==
    ASSUME NEW bs \in BlockSizes
    PROVE  \E p \in Nat \ {0} : bs = 1024 * p
  <1>1. PICK h \in Hints : bs = block_size(h)
    BY DEF BlockSizes
  <1>2. h \in Nat
    BY <1>1, LayoutAssumption
  <1>3. 2^h \in Nat \ {0}
    BY <1>2, TwoPower
  <1>4. bs = 1024 * 2^h
    BY <1>1 DEF block_size, SuperblockSize
  <1> QED BY <1>3, <1>4

(* The place of inode i: entry r of block q of its group's table.          *)
LEMMA PlaceIs ==
    ASSUME NEW p \in Nat \ {0}, NEW ipg \in Nat \ {0}, NEW i \in Nat \ {0}
    PROVE  LET per == 8 * p
               k   == (i - 1) % ipg
           IN  /\ k \in 0..(ipg - 1) /\ (i - 1) \div ipg \in Nat
               /\ i - 1 = ipg * ((i - 1) \div ipg) + k
               /\ k % per \in 0..(per - 1) /\ k \div per \in Nat
               /\ k = per * (k \div per) + (k % per)
               /\ Place(i, ipg, 1024 * p) =
                     [group |-> (i - 1) \div ipg, block |-> k \div per,
                      offset |-> (k % per) * 128]
  <1> DEFINE per == 8 * p
             k   == (i - 1) % ipg
             q   == k \div per
             r   == k % per
  <1>1. /\ k \in 0..(ipg - 1) /\ (i - 1) \div ipg \in Nat
        /\ i - 1 = ipg * ((i - 1) \div ipg) + k
    <2>1. i - 1 \in Nat
      OBVIOUS
    <2> QED BY <2>1
  <1>2. per \in Nat \ {0}
    OBVIOUS
  <1>3. r \in 0..(per - 1) /\ q \in Nat /\ k = per * q + r
    <2> HIDE DEF k, per
    <2> QED BY <1>1, <1>2
  <1>4. (1024 * p) \div 128 = per
    <2>1. 1024 * p = 128 * per + 0 /\ 0 \in 0..(128 - 1) /\ 1024 * p \in Nat
      OBVIOUS
    <2> HIDE DEF per
    <2> QED BY <1>2, <2>1, Divided
  <1>5. (k * 128) \div (1024 * p) = q
    <2>1. 1024 * p = 128 * per
      OBVIOUS
    <2> HIDE DEF k, per, q, r
    <2>2. k * 128 = (128 * per) * q + 128 * r
      BY <1>2, <1>3
    <2>3. 128 * r \in 0..(128 * per - 1) /\ 128 * per \in Nat \ {0} /\ k * 128 \in Nat
      BY <1>1, <1>2, <1>3
    <2>4. (k * 128) \div (128 * per) = q
      BY <1>3, <2>2, <2>3, Divided
    <2> QED BY <2>1, <2>4
  <1>6. Place(i, ipg, 1024 * p) =
           [group |-> (i - 1) \div ipg, block |-> q, offset |-> r * 128]
    <2>1. index(i, ipg) = k /\ inodes_per_block(1024 * p) = per
      BY <1>4 DEF index, inodes_per_block, InodeSize
    <2> HIDE DEF k, per
    <2> QED BY <1>5, <2>1 DEF Place, group, InodeSize
  <1> QED BY <1>1, <1>3, <1>6

(* Inode i is entry r of block q of the table of group g, its k-th.        *)
IsAt(p, ipg, i, g, k, q, r) ==
    /\ g \in Nat /\ k \in 0..(ipg - 1) /\ q \in Nat /\ r \in 0..(8 * p - 1)
    /\ i - 1 = ipg * g + k /\ k = (8 * p) * q + r
    /\ Place(i, ipg, 1024 * p) = [group |-> g, block |-> q, offset |-> r * 128]

LEMMA Whereabouts ==
    ASSUME NEW p \in Nat \ {0}, NEW ipg \in Nat \ {0}, NEW i \in Nat \ {0}
    PROVE  \E g, k, q, r : IsAt(p, ipg, i, g, k, q, r)
  <1> DEFINE per == 8 * p
             k == (i - 1) % ipg
             g == (i - 1) \div ipg
             q == k \div per
             r == k % per
  <1>1. /\ k \in 0..(ipg - 1) /\ g \in Nat /\ i - 1 = ipg * g + k
        /\ r \in 0..(per - 1) /\ q \in Nat /\ k = per * q + r
        /\ Place(i, ipg, 1024 * p) = [group |-> g, block |-> q, offset |-> r * 128]
    BY PlaceIs
  <1> HIDE DEF k, g, q, r
  <1>2. IsAt(p, ipg, i, g, k, q, r)
    BY <1>1 DEF IsAt
  <1> QED BY <1>2

LEMMA Within ==
    ASSUME NEW p \in Nat \ {0}, NEW ipg \in Nat \ {0}, NEW groups \in Nat, NEW i \in Nat,
           i - 1 < groups * ipg,
           NEW g \in Nat, NEW k \in 0..(ipg - 1), NEW q \in Nat, NEW r \in 0..(8 * p - 1),
           i - 1 = ipg * g + k, k = (8 * p) * q + r
    PROVE  /\ r * 128 + 128 <= 1024 * p
           /\ g < groups
           /\ q * (1024 * p) + r * 128 < ipg * 128
  <1>1. r * 128 + 128 <= 1024 * p
    OBVIOUS
  <1>2. g < groups
    <2> SUFFICES ASSUME g >= groups PROVE FALSE
      OBVIOUS
    <2>1. ipg * g >= ipg * groups
      OBVIOUS
    <2>2. ipg * groups = groups * ipg /\ ipg * g \in Int /\ groups * ipg \in Int
      OBVIOUS
    <2> QED BY <2>1, <2>2
  <1>3. q * (1024 * p) + r * 128 < ipg * 128
    <2>1. q * (1024 * p) = 128 * ((8 * p) * q)
      OBVIOUS
    <2>2. (8 * p) * q \in Int
      OBVIOUS
    <2>3. q * (1024 * p) + r * 128 = 128 * k
      BY <2>1, <2>2
    <2> QED BY <2>3
  <1> QED BY <1>1, <1>2, <1>3

LEMMA InodesStayApart == InodesApart
  <1> SUFFICES ASSUME NEW bs \in BlockSizes, NEW ipg \in GroupInodes, NEW i \in 1..(Groups * ipg)
               PROVE  LET p == Place(i, ipg, bs)
                      IN  /\ p.offset + InodeSize <= bs
                          /\ p.group < Groups /\ p.block * bs + p.offset < ipg * InodeSize
                          /\ \A j \in 1..(Groups * ipg) : Place(j, ipg, bs) = p => j = i
    BY DEF InodesApart
  <1>1. PICK p \in Nat \ {0} : bs = 1024 * p
    BY BlockSizesAre
  <1>2. ipg \in Nat \ {0} /\ Groups \in Nat \ {0} /\ Groups * ipg \in Nat
    BY LayoutAssumption
  <1>3. i \in Nat \ {0} /\ i \in Nat /\ i - 1 < Groups * ipg
    BY <1>2
  <1>4. PICK g, k, q, r : IsAt(p, ipg, i, g, k, q, r)
    BY <1>2, <1>3, Whereabouts
  <1>5. /\ g \in Nat /\ k \in 0..(ipg - 1) /\ q \in Nat /\ r \in 0..(8 * p - 1)
        /\ i - 1 = ipg * g + k /\ k = (8 * p) * q + r
        /\ Place(i, ipg, 1024 * p) = [group |-> g, block |-> q, offset |-> r * 128]
    BY <1>4 DEF IsAt
  <1>6. /\ r * 128 + 128 <= 1024 * p
        /\ g < Groups
        /\ q * (1024 * p) + r * 128 < ipg * 128
    BY <1>2, <1>3, <1>5, Within
  <1>7. ASSUME NEW j \in 1..(Groups * ipg), Place(j, ipg, bs) = Place(i, ipg, bs)
        PROVE  j = i
    <2>1. j \in Nat \ {0}
      BY <1>2
    <2>2. PICK gj, kj, qj, rj : IsAt(p, ipg, j, gj, kj, qj, rj)
      BY <1>2, <2>1, Whereabouts
    <2>3. /\ gj \in Nat /\ kj \in 0..(ipg - 1) /\ qj \in Nat /\ rj \in 0..(8 * p - 1)
          /\ j - 1 = ipg * gj + kj /\ kj = (8 * p) * qj + rj
          /\ Place(j, ipg, 1024 * p) = [group |-> gj, block |-> qj, offset |-> rj * 128]
      BY <2>2 DEF IsAt
    <2>4. gj = g /\ qj = q /\ rj * 128 = r * 128
      BY <1>1, <1>5, <1>7, <2>3
    <2>5. rj = r
      <3>1. rj \in Nat /\ r \in Nat
        BY <1>5, <2>3
      <3> QED BY <2>4, <3>1
    <2>6. kj = k
      BY <1>5, <2>3, <2>4, <2>5
    <2>7. j - 1 = i - 1
      BY <1>5, <2>3, <2>4, <2>6
    <2> QED BY <1>3, <2>1, <2>7
  <1>8. /\ Place(i, ipg, bs).group = g /\ Place(i, ipg, bs).block = q
        /\ Place(i, ipg, bs).offset = r * 128
    BY <1>1, <1>5
  <1>9. /\ Place(i, ipg, bs).offset + InodeSize <= bs
        /\ Place(i, ipg, bs).group < Groups
        /\ Place(i, ipg, bs).block * bs + Place(i, ipg, bs).offset < ipg * InodeSize
    BY <1>1, <1>6, <1>8 DEF InodeSize
  <1> QED BY <1>7, <1>9

(* Sectors of different blocks are different. *)
LEMMA IntervalsApart ==
    ASSUME NEW s \in Nat, NEW b \in Nat, NEW c \in Nat, b < c
    PROVE  ((b * s) .. (b * s + s - 1)) \cap ((c * s) .. (c * s + s - 1)) = {}
  <1>1. (b + 1) * s <= c * s
    OBVIOUS
  <1>2. (b + 1) * s = b * s + s /\ b * s \in Int /\ c * s \in Int
    OBVIOUS
  <1> QED BY <1>1, <1>2

LEMMA BlocksStayApart == BlocksApart
  <1> SUFFICES ASSUME NEW bs \in BlockSizes, NEW b \in 0..Groups, NEW c \in 0..Groups
               PROVE  LET holder == IF bs = SuperblockSize THEN 1 ELSE 0
                      IN  /\ b # c => Sectors(bs, b) \cap Sectors(bs, c) = {}
                          /\ {2, 3} \subseteq Sectors(bs, holder)
                          /\ bs = SuperblockSize => first_bgd(holder, bs) = holder + 1
    BY DEF BlocksApart
  <1>1. PICK p \in Nat \ {0} : bs = 1024 * p
    BY BlockSizesAre
  <1> DEFINE s == 2 * p
  <1>2. s \in Nat /\ s >= 2 /\ (bs = 1024 => s = 2) /\ (bs # 1024 => s >= 4)
    BY <1>1
  <1>3. bs \div 512 = s
    <2>1. bs = 512 * s + 0 /\ 0 \in 0..(512 - 1) /\ bs \in Nat
      BY <1>1
    <2> HIDE DEF s
    <2> QED BY <1>2, <2>1, Divided
  <1> HIDE DEF s
  <1>4. \A d \in Nat : Sectors(bs, d) = (d * s) .. (d * s + s - 1)
    BY <1>3 DEF Sectors, sectors_per_block, SectorSize
  <1>5. b \in Nat /\ c \in Nat
    BY LayoutAssumption
  <1>6. ASSUME b # c PROVE Sectors(bs, b) \cap Sectors(bs, c) = {}
    <2>1. Sectors(bs, b) = (b * s) .. (b * s + s - 1) /\ Sectors(bs, c) = (c * s) .. (c * s + s - 1)
      BY <1>4, <1>5
    <2>2. CASE b < c
      <3>1. ((b * s) .. (b * s + s - 1)) \cap ((c * s) .. (c * s + s - 1)) = {}
        BY <1>2, <1>5, <2>2, IntervalsApart
      <3> QED BY <2>1, <3>1
    <2>3. CASE c < b
      <3>1. ((c * s) .. (c * s + s - 1)) \cap ((b * s) .. (b * s + s - 1)) = {}
        BY <1>2, <1>5, <2>3, IntervalsApart
      <3> QED BY <2>1, <3>1
    <2> QED BY <1>5, <1>6, <2>2, <2>3
  <1>7. CASE bs = 1024
    <2>1. Sectors(bs, 1) = 2 .. 3
      <3>1. Sectors(bs, 1) = (1 * s) .. (1 * s + s - 1)
        BY <1>4
      <3>2. s = 2
        BY <1>2, <1>7
      <3> QED BY <3>1, <3>2
    <2>2. first_bgd(1, bs) = 2
      BY <1>7 DEF first_bgd, SuperblockSize
    <2> QED BY <1>6, <1>7, <2>1, <2>2 DEF SuperblockSize
  <1>8. CASE bs # 1024
    <2>1. Sectors(bs, 0) = 0 .. (s - 1)
      BY <1>2, <1>4
    <2>2. {2, 3} \subseteq Sectors(bs, 0)
      BY <1>2, <1>8, <2>1
    <2> QED BY <1>6, <1>8, <2>2 DEF SuperblockSize
  <1> QED BY <1>7, <1>8

(* In groups of every number of inodes, on disks of every size of block,   *)
(* ext2_read_inode and ext2_write_inode find every inode at a place of its *)
(* own in the table of its group, blocks share no sectors, and what        *)
(* ext2_probe reads is where it says.                                      *)
THEOREM NothingElseThere == PlacesApart
  BY InodesStayApart, BlocksStayApart DEF PlacesApart
=============================================================================
