--------------------------- MODULE Ext2FileProofs ---------------------------
(***************************************************************************)
(* On a disk of one group, of any size and with any files, that the host   *)
(* has filled from the bottom: inodes and calls stay well-formed and, for  *)
(* as long as nothing goes over the metadata, the free counts in order and *)
(* no block comes to be in two files, wherever the power fails; only two   *)
(* kinds of calls go over the metadata; and served calls implement         *)
(* FileStore, write by write.                                              *)
(***************************************************************************)
EXTENDS Ext2File, TLAPS

(* The calls of the two branches, and what they have looked at on their    *)
(* way there.                                                              *)
FreshCall ==
    [pc : {"count", "total", "commit", "fill"}, name : Name, buf : Buffers,
     node : Node, i : Slot, sector : 0..LastSector]

AppendCall ==
    [pc : {"append", "resize"}, name : Name, buf : Buffers, node : Node,
     last : 0..Blocks, moved : BOOLEAN, sector : 0..LastSector]

FreshFits(c) ==
    /\ BlocksFor(Len(c.buf)) <= Direct /\ c.i < BlocksFor(Len(c.buf))
    /\ Len(c.buf) <= MaxSize
    /\ c.pc \in {"count", "total"} => c.node.size = 0

CallOK ==
    /\ call \in FreshCall \cup AppendCall \cup {Idle}
    /\ call \in FreshCall => FreshFits(call)
    /\ call # Idle /\ call.pc = "append" => call.node.size + Len(call.buf) <= MaxSize

(* A group's count only goes down, and the superblock's follows it.        *)
Limit == BlockChosen(bgFree[0])
Ahead == sbFree - bgFree[0]

CountsOK ==
    /\ bgFree[0] \in 0..FreeAt[0]
    /\ 0 <= Ahead /\ Ahead <= outages + (IF call.pc = "total" THEN 1 ELSE 0)
    /\ call.pc = "total" => 1 <= Ahead

(* The pointers of every file when the call c has written its inode.       *)
Users  == File \cup Dir
Tables == [Users -> [Slot -> 0..Blocks]]
Meant(c, nodes) ==
    [n \in Users |-> IF c # Idle /\ c.name = n THEN c.node.dbp ELSE nodes[n].dbp]

IInv ==
    /\ TypeOK /\ CallOK /\ CountsOK
    /\ Apart(Meant(Idle, inode), Limit)
    /\ Apart(Meant(call, inode), Limit)
-----------------------------------------------------------------------------
(* Sizes. *)
LEMMA Lengths ==
    ASSUME NEW b \in Buffers
    PROVE  Len(b) \in Nat \ {0} /\ DOMAIN b = 0..(Len(b) - 1)
<1>1. Max(DOMAIN b) \in Nat /\ DOMAIN b = 0..(Max(DOMAIN b))
  BY Ext2Assumption
<1>2. \A m \in Nat : m + 1 \in Nat \ {0} /\ (m + 1) - 1 = m
  OBVIOUS
<1> HIDE DEF Max
<1> QED
  BY <1>1, <1>2 DEF Len

LEMMA Divided ==
    ASSUME NEW m \in Nat, NEW d \in Nat \ {0}
    PROVE  m \div d \in Nat /\ m % d \in 0..(d - 1) /\ m = d * (m \div d) + (m % d)
  OBVIOUS

LEMMA SectorsAre == LastSector \in Nat
<1> DEFINE q == BlockSize \div SectorSize
<1>1. q \in Nat /\ BlockSize = SectorSize * q + 0 /\ BlockSize # 0 /\ SectorSize \in Nat
  BY Ext2Assumption, Divided
<1> HIDE DEF q
<1>2. q # 0
  BY <1>1
<1>3. q - 1 \in Nat
  BY <1>1, <1>2
<1> QED
  BY <1>3 DEF LastSector, q

LEMMA BlocksForIs == ASSUME NEW l \in Nat PROVE BlocksFor(l) \in Nat \ {0}
<1>1. l \div BlockSize \in Nat
  BY Ext2Assumption, Divided
<1> QED
  BY <1>1 DEF BlocksFor

LEMMA TotalIs ==
    ASSUME Groups = 1, NEW count, count[0] \in Int
    PROVE  TotalFree(count) = count[0]
<1> DEFINE Turn(f, s) == IF s = {} THEN 0
                         ELSE LET x == CHOOSE x \in s : TRUE IN count[x] + f[s \ {x}]
<1> DEFINE iter == CHOOSE f : f = [s \in SUBSET {0} |-> Turn(f, s)]
<1> DEFINE sum == [s \in SUBSET {0} |-> IF s = {} THEN 0 ELSE count[0]]
<1>1. Group = {0}
  BY DEF Group
<1>2. sum = [s \in SUBSET {0} |-> Turn(sum, s)]
  <2>1. ASSUME NEW s \in SUBSET {0} PROVE sum[s] = Turn(sum, s)
    <3>1. CASE s = {}
      BY <3>1
    <3>2. CASE s = {0}
      <4>1. (CHOOSE x \in s : TRUE) = 0
        BY <3>2
      <4>2. s \ {0} = {} /\ {} \in SUBSET {0} /\ s # {}
        BY <3>2
      <4>3. sum[s] = count[0] /\ sum[{}] = 0
        BY <4>2
      <4> HIDE DEF sum
      <4>4. Turn(sum, s) = count[0] + sum[{}]
        BY <4>1, <4>2
      <4> QED
        BY <4>3, <4>4
    <3> QED
      BY <3>1, <3>2
  <2> QED
    BY <2>1
<1> HIDE DEF sum
<1>3. iter = [s \in SUBSET {0} |-> Turn(iter, s)]
  BY <1>2
<1>4. iter[{0}] = count[0]
  <2>1. {} \in SUBSET {0} /\ {0} \in SUBSET {0} /\ {0} # {} /\ {0} \ {0} = {}
    OBVIOUS
  <2>2. (CHOOSE x \in {0} : TRUE) = 0
    OBVIOUS
  <2>3. iter[{}] = 0
    BY <1>3, <2>1
  <2> HIDE DEF iter
  <2> QED
    BY <1>3, <2>1, <2>2, <2>3
<1>5. TotalFree(count) = iter[{0}]
  BY <1>1 DEF TotalFree, MapThenSumSet, MapThenFoldSet
<1> QED
  BY <1>4, <1>5
-----------------------------------------------------------------------------
(* Tables of pointers. *)
LEMMA ApartWider ==
    ASSUME NEW t \in Tables, NEW limit \in Int, Apart(t, limit),
           NEW wider \in Int, limit <= wider
    PROVE  Apart(t, wider)
<1>1. \A n \in Users, k \in Slot : t[n][k] \in 0..Blocks /\ t[n][k] < limit
  BY DEF Tables, Apart, Users
<1>2. \A n \in Users, k \in Slot : t[n][k] < wider
  BY <1>1
<1> QED
  BY <1>2 DEF Apart, Users

LEMMA ApartNew ==
    ASSUME NEW t \in Tables, NEW limit \in 1..Blocks, Apart(t, limit),
           \A b \in System : b < limit,
           NEW n \in Users, NEW k \in Slot, NEW u \in Tables,
           \A m \in Users, l \in Slot :
               u[m][l] = IF m = n /\ l = k THEN limit ELSE t[m][l]
    PROVE  Apart(u, limit + 1)
<1>1. /\ limit \in Int /\ limit \notin System /\ limit # 0
      /\ \A m \in Users, l \in Slot :
             t[m][l] \in Int /\ t[m][l] < limit /\ t[m][l] # limit
  BY Ext2Assumption DEF Tables, Apart, Users
<1>2. \A m \in Users, l \in Slot : u[m][l] < limit + 1
  BY <1>1
<1>3. ASSUME NEW m \in Users, NEW o \in Users, NEW j \in Slot, NEW l \in Slot,
             u[m][j] # 0, u[m][j] = u[o][l]
      PROVE  m = o /\ j = l
  <2>1. CASE m = n /\ j = k
    BY <1>1, <1>3, <2>1
  <2>2. CASE o = n /\ l = k
    BY <1>1, <1>3, <2>2
  <2>3. CASE ~(m = n /\ j = k) /\ ~(o = n /\ l = k)
    BY <1>3, <2>3 DEF Apart, Users
  <2> QED
    BY <2>1, <2>2, <2>3
<1>4. \A m \in File, l \in Slot : u[m][l] # 0 => u[m][l] \notin System
  BY <1>1 DEF Apart, Users
<1> QED
  BY <1>2, <1>3, <1>4 DEF Apart, Users

LEMMA ApartNull ==
    ASSUME NEW t \in Tables, NEW limit \in Int, 0 < limit, Apart(t, limit),
           NEW n \in Users, NEW k \in Slot, NEW u \in Tables,
           \A m \in Users, l \in Slot :
               u[m][l] = IF m = n /\ l = k THEN 0 ELSE t[m][l]
    PROVE  Apart(u, limit)
<1>1. \A m \in Users, l \in Slot : u[m][l] < limit
  BY DEF Apart, Users
<1>2. ASSUME NEW m \in Users, NEW o \in Users, NEW j \in Slot, NEW l \in Slot,
             u[m][j] # 0, u[m][j] = u[o][l]
      PROVE  m = o /\ j = l
  <2>1. t[m][j] = u[m][j] /\ t[o][l] = u[o][l]
    BY <1>2
  <2> QED
    BY <1>2, <2>1 DEF Apart, Users
<1>3. \A m \in File, l \in Slot : u[m][l] # 0 => u[m][l] \notin System
  BY DEF Apart, Users
<1> QED
  BY <1>1, <1>2, <1>3 DEF Apart, Users
-----------------------------------------------------------------------------
(* Calls. *)
LEMMA FreshIs ==
    ASSUME NEW c \in FreshCall
    PROVE  /\ c # Idle /\ c \notin AppendCall
           /\ c.pc \in {"count", "total", "commit", "fill"} /\ c.name \in Name
           /\ c.buf \in Buffers /\ c.node \in Node /\ c.i \in Slot
           /\ c.sector \in 0..LastSector
  BY DEF FreshCall, AppendCall, Idle

LEMMA AppendIs ==
    ASSUME NEW c \in AppendCall
    PROVE  /\ c # Idle /\ c \notin FreshCall
           /\ c.pc \in {"append", "resize"} /\ c.name \in Name
           /\ c.buf \in Buffers /\ c.node \in Node /\ c.sector \in 0..LastSector
           /\ c.last \in 0..Blocks /\ c.moved \in BOOLEAN
  BY DEF FreshCall, AppendCall, Idle

LEMMA PhaseFresh ==
    ASSUME CallOK, call.pc \in {"count", "total", "commit", "fill"}
    PROVE  call \in FreshCall /\ FreshFits(call)
  BY AppendIs DEF CallOK, Idle

LEMMA PhaseAppend ==
    ASSUME CallOK, call.pc \in {"append", "resize"}
    PROVE  call \in AppendCall
  BY FreshIs DEF CallOK, Idle

LEMMA NodeIs ==
    ASSUME NEW node \in Node
    PROVE  node.size \in 0..MaxSize /\ node.dbp \in [Slot -> 0..Blocks]
  BY DEF Node

Pointing(c, p, x) == [c EXCEPT !.pc = p, !.node.dbp[c.i] = x]

LEMMA PointerSet ==
    ASSUME NEW c \in FreshCall, NEW p \in {"count", "total"}, NEW x \in 0..Blocks,
           NEW d, d = Pointing(c, p, x)
    PROVE  /\ d \in FreshCall /\ d.pc = p /\ d.name = c.name /\ d.buf = c.buf /\ d.i = c.i
           /\ d.node.size = c.node.size
           /\ \A k \in Slot : d.node.dbp[k] = IF k = c.i THEN x ELSE c.node.dbp[k]
<1>1. c.node \in Node /\ c.i \in Slot
  BY FreshIs
<1>2. c.node.size \in 0..MaxSize /\ c.node.dbp \in [Slot -> 0..Blocks]
  BY <1>1, NodeIs
<1>3. d.node = [c.node EXCEPT !.dbp[c.i] = x]
  BY <1>1, <1>2 DEF FreshCall, Node, Pointing
<1>4. d.node.dbp = [c.node.dbp EXCEPT ![c.i] = x] /\ d.node.size = c.node.size
  BY <1>1, <1>2, <1>3 DEF Node
<1>5. d.node \in Node
  BY <1>1, <1>2, <1>3, <1>4 DEF Node
<1>6. d.pc = p /\ d.name = c.name /\ d.buf = c.buf /\ d.i = c.i /\ d.sector = c.sector
  BY DEF FreshCall, Pointing
<1>7. d \in FreshCall
  BY <1>5, <1>6 DEF FreshCall, Pointing
<1> QED
  BY <1>1, <1>2, <1>4, <1>6, <1>7

LEMMA NextAllocates ==
    ASSUME NEW c \in FreshCall, FreshFits(c), c.node.size = 0,
           NEW d, d = NextToAllocate(c)
    PROVE  /\ d \in FreshCall /\ FreshFits(d) /\ d.pc \in {"count", "commit"}
           /\ d.name = c.name /\ d.node.dbp = c.node.dbp /\ d.buf = c.buf
           /\ d.pc = "count" => d.i = c.i + 1
           /\ d.pc = "commit" => BlocksFor(Len(c.buf)) <= c.i + 1
<1>1. /\ c.node \in Node /\ c.i \in Slot /\ c.buf \in Buffers
      /\ Len(c.buf) \in Nat /\ BlocksFor(Len(c.buf)) \in Nat \ {0}
      /\ BlocksFor(Len(c.buf)) <= Direct /\ Len(c.buf) <= MaxSize
  BY FreshIs, Lengths, BlocksForIs DEF FreshFits
<1>2. CASE c.i + 1 < BlocksFor(Len(c.buf))
  <2>1. d = [c EXCEPT !.pc = "count", !.i = @ + 1]
    BY <1>2 DEF NextToAllocate
  <2>2. /\ d.pc = "count" /\ d.name = c.name /\ d.buf = c.buf /\ d.node = c.node
        /\ d.i = c.i + 1 /\ d.sector = c.sector
    BY <2>1 DEF FreshCall
  <2>3. c.i + 1 \in Slot
    BY <1>1, <1>2, Ext2Assumption DEF Slot
  <2>4. d \in FreshCall
    BY <2>1, <2>3 DEF FreshCall
  <2> QED
    BY <1>1, <1>2, <2>2, <2>4 DEF FreshFits, Slot
<1>3. CASE ~(c.i + 1 < BlocksFor(Len(c.buf)))
  <2>1. d = [c EXCEPT !.pc = "commit", !.i = 0, !.node.size = @ + Len(c.buf)]
    BY <1>3 DEF NextToAllocate
  <2>2. /\ d.pc = "commit" /\ d.name = c.name /\ d.buf = c.buf /\ d.i = 0
        /\ d.node = [c.node EXCEPT !.size = @ + Len(c.buf)]
    BY <2>1 DEF FreshCall
  <2>3. 0 \in Slot /\ 0 + Len(c.buf) \in 0..MaxSize
    BY <1>1, Ext2Assumption DEF Slot
  <2>4. d.node \in Node /\ d.node.dbp = c.node.dbp
    BY <1>1, <2>2, <2>3 DEF Node
  <2>5. d \in FreshCall
    BY <2>1, <2>2, <2>3, <2>4 DEF FreshCall
  <2>6. BlocksFor(Len(c.buf)) <= c.i + 1
    BY <1>1, <1>3 DEF Slot
  <2> QED
    BY <1>1, <2>2, <2>4, <2>5, <2>6 DEF FreshFits
<1> QED
  BY <1>2, <1>3

LEMMA MeantIs ==
    ASSUME NEW nodes \in [Name -> Node], NEW c, c = Idle \/ c.node \in Node
    PROVE  /\ Meant(c, nodes) \in Tables
           /\ \A n \in Users, k \in Slot :
                 Meant(c, nodes)[n][k] =
                     IF c # Idle /\ c.name = n THEN c.node.dbp[k] ELSE nodes[n].dbp[k]
<1>1. \A n \in Users : n \in Name
  BY DEF Users, Name
<1> QED
  BY <1>1, NodeIs DEF Meant, Tables
-----------------------------------------------------------------------------
(* What is written to the disk. *)
LEMMA OverlayTyped ==
    ASSUME NEW cells \in [Cell -> Value], NEW at, NEW buf \in Buffers, NEW from, NEW n
    PROVE  Overlay(cells, at, buf, from, n) \in [Cell -> Value]
<1>1. \A k \in DOMAIN buf : buf[k] \in Value
  BY DEF Value
<1>2. Junk \in Value
  BY DEF Value
<1> QED
  BY <1>1, <1>2 DEF Overlay

LEMMA SectorTyped ==
    ASSUME block \in [0..Blocks -> [Cell -> Value]],
           NEW b \in 0..Blocks, NEW s, NEW cells \in [Cell -> Value]
    PROVE  SectorWritten(b, s, cells) \in [0..Blocks -> [Cell -> Value]]
<1>1. [c \in Cell |-> IF c \div SectorSize = s THEN cells[c] ELSE block[b][c]]
      \in [Cell -> Value]
  OBVIOUS
<1> QED
  BY <1>1 DEF SectorWritten

LEMMA DamageTyped == [c \in Cell |-> Damage] \in [Cell -> Value]
  BY DEF Value

LEMMA TailsTyped == ASSUME NEW node \in Node PROVE Tails(node) \subseteq 0..Blocks
<1>1. node.size \in Nat /\ node.dbp \in [Slot -> 0..Blocks]
  BY NodeIs, Ext2Assumption
<1>2. Last(node) \in Nat
  BY <1>1, Divided, Ext2Assumption DEF Last
<1>3. Last(node) < Direct => Last(node) \in Slot
  BY <1>2, Ext2Assumption DEF Slot
<1> QED
  BY <1>1, <1>3 DEF Tails

(* What a call goes by is an inode, and that of any name but Missing is    *)
(* the one on the disk.                                                    *)
LEMMA FoundIs ==
    ASSUME inode \in [Name -> Node], NEW n \in Name, NEW node \in Found(n)
    PROVE  node \in Node /\ (n # Missing => node = inode[n])
  BY Ext2Assumption DEF Found

LEMMA UsersAre == Users \subseteq Name /\ Missing \notin Users
  BY Ext2Assumption DEF Users, Name

LEMMA InodeTyped ==
    ASSUME TypeOK, NEW n \in Name, NEW node \in Node, InodeWritten(n, node)
    PROVE  /\ inode' \in [Name -> Node]
           /\ block' \in [0..Blocks -> [Cell -> Value]]
           /\ \A m \in Name : inode'[m] = IF m = n THEN node ELSE inode[m]
<1>1. inode \in [Name -> Node] /\ block \in [0..Blocks -> [Cell -> Value]]
  BY DEF TypeOK
<1>2. inode' = [inode EXCEPT ![n] = node]
  BY DEF InodeWritten
<1>3. block' \in [0..Blocks -> [Cell -> Value]]
  <2>1. SectorWritten(Stray, 0, [c \in Cell |-> Damage]) \in [0..Blocks -> [Cell -> Value]]
    BY <1>1, Ext2Assumption, DamageTyped, SectorTyped
  <2> QED
    BY <1>1, <2>1 DEF InodeWritten
<1> QED
  BY <1>1, <1>2, <1>3

(* Writing a call's inode makes the table what was meant. *)
LEMMA InodeMeant ==
    ASSUME TypeOK, call # Idle,
           \A m \in Name : inode'[m] = IF m = call.name THEN call.node ELSE inode[m]
    PROVE  /\ Meant(Idle, inode') = Meant(call, inode)
           /\ Meant(call, inode') = Meant(call, inode)
  BY UsersAre DEF Meant
-----------------------------------------------------------------------------
LEMMA StateIs ==
    ASSUME Groups = 1, IInv
    PROVE  /\ Group = {0} /\ bgFree \in [Group -> Nat] /\ bgFree[0] \in 0..Blocks
           /\ Limit = Blocks - bgFree[0] + 1 /\ Limit \in 1..(Blocks + 1)
           /\ FreeAt[0] \in Nat /\ sbFree \in Int /\ outages \in Nat
           /\ inode \in [Name -> Node] /\ block \in [0..Blocks -> [Cell -> Value]]
           /\ \A b \in System : b < Limit
<1>1. Group = {0}
  BY DEF Group
<1>2. FreeAt[0] \in 0..Blocks /\ Blocks \in Nat /\ bgFree[0] \in 0..FreeAt[0]
  BY <1>1, Ext2Assumption DEF IInv, CountsOK
<1>3. bgFree[0] \in 0..Blocks
  BY <1>2
<1>4. Limit = Blocks - bgFree[0] + 1 /\ Limit \in 1..(Blocks + 1)
  BY <1>2, <1>3 DEF Limit, BlockChosen
<1>5. ASSUME NEW b \in System PROVE b < Limit
  <2>1. b < Blocks - FreeAt[0] + 1 /\ b \in Int
    BY HostAssumption, Ext2Assumption DEF BlockChosen
  <2> QED
    BY <2>1, <1>2, <1>4
<1> QED
  BY <1>1, <1>3, <1>4, <1>5, Ext2Assumption DEF IInv, TypeOK

LEMMA InitIInv == ASSUME Groups = 1, Init PROVE IInv
<1>1. Group = {0} /\ FreeAt \in [Group -> 0..Blocks] /\ Blocks \in Nat
  BY Ext2Assumption DEF Group
<1>2. FreeAt[0] \in 0..Blocks /\ sbFree = FreeAt[0]
  BY <1>1, TotalIs DEF Init
<1>3. call = Idle /\ call.pc = "idle"
  BY DEF Init, Idle
<1>4. TypeOK
  <2>1. Old \in Value
    BY DEF Value
  <2>2. block \in [0..Blocks -> [Cell -> Value]]
    BY <2>1 DEF Init, Untouched
  <2>3. bgFree \in [Group -> Nat]
    BY <1>1 DEF Init
  <2>4. sbFree \in Int /\ inode \in [Name -> Node] /\ outages \in 0..MaxOutages
    BY <1>2, Ext2Assumption DEF Init
  <2> QED
    BY <1>3, <2>2, <2>3, <2>4 DEF TypeOK
<1>5. CallOK
  BY <1>3, FreshIs DEF CallOK
<1>6. CountsOK
  BY <1>2, <1>3 DEF Init, CountsOK, Ahead
<1>7. Meant(Idle, inode) = [n \in File \cup Dir |-> InodeAt[n].dbp]
  BY DEF Init, Meant, Users
<1>8. Apart(Meant(Idle, inode), Limit)
  BY <1>7, HostAssumption DEF Init, Limit
<1> QED
  BY <1>3, <1>4, <1>5, <1>6, <1>8 DEF IInv
-----------------------------------------------------------------------------
(* One lemma for every action. *)
LEMMA BeginFreshIInv ==
    ASSUME Groups = 1, IInv, NEW n \in Name, NEW b \in Buffers, BeginFresh(n, b)
    PROVE  IInv'
<1>1. /\ call = Idle /\ BlocksFor(Len(b)) <= Direct /\ Len(b) <= MaxSize
      /\ BlocksFor(Len(b)) \in Nat \ {0}
  BY Lengths, BlocksForIs DEF BeginFresh
<1>2. PICK node \in Found(n) :
          /\ node.size = 0
          /\ call' = [pc |-> "count", name |-> n, buf |-> b, node |-> node,
                      i |-> 0, sector |-> 0]
  BY DEF BeginFresh
<1>12. node \in Node /\ (n # Missing => node = inode[n])
  BY FoundIs, StateIs
<1>3. UNCHANGED <<bgFree, sbFree, inode, block, outages>>
  BY DEF BeginFresh, disk
<1>4. call' \in FreshCall
  <2>1. 0 \in Slot /\ 0 \in 0..LastSector
    BY SectorsAre, Ext2Assumption DEF Slot
  <2> QED
    BY <1>2, <1>12, <2>1 DEF FreshCall
<1>5. call'.pc = "count" /\ call' # Idle /\ call'.name = n /\ call'.node = node
  BY <1>2, <1>4, FreshIs
<1>6. TypeOK'
  BY <1>3, <1>4, <1>5, FreshIs DEF IInv, TypeOK
<1>7. CallOK'
  BY <1>1, <1>2, <1>4, <1>5 DEF CallOK, FreshFits
<1>8. CountsOK'
  BY <1>1, <1>3, <1>5 DEF IInv, CountsOK, Ahead, Idle
<1>9. Limit' = Limit /\ Meant(Idle, inode') = Meant(Idle, inode)
  BY <1>3 DEF Limit
<1>10. Meant(call', inode') = Meant(Idle, inode)
  BY <1>3, <1>5, <1>12, UsersAre DEF Meant
<1> QED
  BY <1>6, <1>7, <1>8, <1>9, <1>10 DEF IInv

(* An append that begins: what it goes by and where it will write.         *)
LEMMA BeginAppendIs ==
    ASSUME Groups = 1, IInv, NEW n \in Name, NEW b \in Buffers, BeginAppend(n, b)
    PROVE  /\ call' \in AppendCall /\ call'.pc = "append" /\ call' # Idle
           /\ call'.name = n /\ call'.buf = b /\ call'.sector = 0
           /\ call'.node.size > 0 /\ call'.node.size + Len(b) <= MaxSize
           /\ n # Missing => call'.node = inode[n]
           /\ call'.last \in Tails(call'.node)
           /\ call'.moved => Last(call'.node) >= Direct
<1>1. PICK node \in Found(n) :
        /\ node.size > 0
        /\ node.size + Len(b) <= MaxSize
        /\ \E last \in Tails(node), moved \in BOOLEAN :
            /\ moved => Last(node) >= Direct
            /\ call' = [pc |-> "append", name |-> n, buf |-> b, node |-> node,
                        last |-> last, moved |-> moved, sector |-> 0]
  BY DEF BeginAppend
<1>2. PICK last \in Tails(node), moved \in BOOLEAN :
            /\ moved => Last(node) >= Direct
            /\ call' = [pc |-> "append", name |-> n, buf |-> b, node |-> node,
                        last |-> last, moved |-> moved, sector |-> 0]
  BY <1>1
<1>3. node \in Node /\ (n # Missing => node = inode[n])
  BY FoundIs, StateIs
<1>4. last \in 0..Blocks /\ 0 \in 0..LastSector
  BY <1>3, TailsTyped, SectorsAre
<1>5. call' \in AppendCall
  BY <1>2, <1>3, <1>4 DEF AppendCall
<1> QED
  BY <1>1, <1>2, <1>3, <1>5, AppendIs

LEMMA BeginAppendIInv ==
    ASSUME Groups = 1, IInv, NEW n \in Name, NEW b \in Buffers, BeginAppend(n, b)
    PROVE  IInv'
<1>1. call = Idle
  BY DEF BeginAppend
<1>3. UNCHANGED <<bgFree, sbFree, inode, block, outages>>
  BY DEF BeginAppend, disk
<1>4. /\ call' \in AppendCall /\ call'.pc = "append" /\ call' # Idle /\ call'.name = n
      /\ call'.buf = b /\ call'.node.size + Len(b) <= MaxSize
      /\ n # Missing => call'.node = inode[n]
      /\ call'.last \in Tails(call'.node)
      /\ call'.moved => Last(call'.node) >= Direct
  BY BeginAppendIs
<1>6. TypeOK'
  BY <1>3, <1>4, AppendIs DEF IInv, TypeOK, Tails, Last
<1>7. CallOK'
  BY <1>4, AppendIs DEF CallOK
<1>8. CountsOK'
  BY <1>1, <1>3, <1>4 DEF IInv, CountsOK, Ahead, Idle
<1>9. Limit' = Limit /\ Meant(Idle, inode') = Meant(Idle, inode)
  BY <1>3 DEF Limit
<1>10. Meant(call', inode') = Meant(Idle, inode)
  BY <1>3, <1>4, UsersAre DEF Meant
<1> QED
  BY <1>6, <1>7, <1>8, <1>9, <1>10 DEF IInv

LEMMA CountGroupIs ==
    ASSUME Groups = 1, IInv, CountGroup
    PROVE  /\ call.pc = "count" /\ bgFree[0] > 0 /\ Limit \in 1..Blocks
           /\ call \in FreshCall /\ FreshFits(call)
           /\ call' \in FreshCall /\ call'.pc = "total" /\ call'.name = call.name
           /\ call'.buf = call.buf /\ call'.i = call.i
           /\ call'.node.size = call.node.size
           /\ \A k \in Slot :
                  call'.node.dbp[k] = IF k = call.i THEN Limit ELSE call.node.dbp[k]
           /\ bgFree'[0] = bgFree[0] - 1 /\ bgFree' \in [Group -> Nat]
           /\ block' = block /\ UNCHANGED <<sbFree, inode, outages>>
<1> DEFINE x == BlockChosen(bgFree[0])
           d == [call EXCEPT !.pc = "total", !.node.dbp[call.i] = x]
<1>1. /\ call.pc = "count" /\ bgFree[0] > 0
      /\ call' = d /\ bgFree' = [bgFree EXCEPT ![0] = @ - 1] /\ block' = block
      /\ UNCHANGED <<sbFree, inode, outages>>
  <2>1. PICK g \in { h \in Group : bgFree[h] > 0 /\ \A e \in 0..(h - 1) : bgFree[e] = 0 } :
          /\ call' = [call EXCEPT !.pc = "total", !.node.dbp[call.i] = BlockChosen(bgFree[g])]
          /\ bgFree' = IF g = 0 THEN [bgFree EXCEPT ![0] = @ - 1] ELSE bgFree
          /\ block' = IF g = 0 THEN block
                      ELSE [block EXCEPT ![FirstBgd + g] = [c \in Cell |-> Damage]]
    BY DEF CountGroup, At
  <2>2. g = 0 /\ bgFree[0] > 0
    BY <2>1, StateIs
  <2> QED
    BY <2>1, <2>2 DEF CountGroup, At
<1>2. x = Limit /\ x \in 1..Blocks
  <2>1. x = Limit
    BY DEF Limit
  <2> HIDE DEF x
  <2> QED
    BY <1>1, <2>1, StateIs, Ext2Assumption
<1>3. call \in FreshCall /\ FreshFits(call)
  BY <1>1, PhaseFresh DEF IInv
<1> HIDE DEF x
<1>4. /\ d \in FreshCall /\ d.pc = "total" /\ d.name = call.name /\ d.buf = call.buf
      /\ d.i = call.i /\ d.node.size = call.node.size
      /\ \A k \in Slot : d.node.dbp[k] = IF k = call.i THEN x ELSE call.node.dbp[k]
  <2>1. x \in 0..Blocks /\ "total" \in {"count", "total"}
    BY <1>2
  <2>2. d = Pointing(call, "total", x)
    BY DEF Pointing
  <2> HIDE DEF d
  <2> QED
    BY <1>3, <2>1, <2>2, PointerSet
<1> HIDE DEF d
<1>5. bgFree'[0] = bgFree[0] - 1 /\ bgFree' \in [Group -> Nat]
  BY <1>1, StateIs
<1> QED
  BY <1>1, <1>2, <1>3, <1>4, <1>5

LEMMA CountGroupIInv == ASSUME Groups = 1, IInv, CountGroup PROVE IInv'
<1>1. /\ call.pc = "count" /\ bgFree[0] > 0 /\ Limit \in 1..Blocks
      /\ call \in FreshCall /\ FreshFits(call)
      /\ call' \in FreshCall /\ call'.pc = "total" /\ call'.name = call.name
      /\ call'.buf = call.buf /\ call'.i = call.i
      /\ call'.node.size = call.node.size
      /\ \A k \in Slot :
             call'.node.dbp[k] = IF k = call.i THEN Limit ELSE call.node.dbp[k]
      /\ bgFree'[0] = bgFree[0] - 1 /\ bgFree' \in [Group -> Nat]
      /\ block' = block /\ UNCHANGED <<sbFree, inode, outages>>
  BY CountGroupIs
<1>2. TypeOK'
  BY <1>1, FreshIs DEF IInv, TypeOK
<1>3. CallOK'
  BY <1>1, FreshIs DEF CallOK, FreshFits
<1>4. CountsOK'
  <2>1. FreeAt[0] \in Nat
    BY StateIs
  <2>2. /\ bgFree[0] \in 0..FreeAt[0] /\ 0 <= sbFree - bgFree[0]
        /\ sbFree - bgFree[0] <= outages
    BY <1>1, StateIs DEF IInv, CountsOK, Ahead
  <2>3. call'.pc = "total" /\ sbFree' = sbFree /\ outages' = outages
    BY <1>1
  <2> QED
    BY <1>1, <2>1, <2>2, <2>3, StateIs DEF CountsOK, Ahead
<1>5. Limit' = Limit + 1
  BY <1>1, StateIs, Ext2Assumption DEF Limit, BlockChosen
<1>6. Apart(Meant(Idle, inode'), Limit')
  <2>1. Meant(Idle, inode') = Meant(Idle, inode) /\ Meant(Idle, inode) \in Tables
    BY <1>1, MeantIs, StateIs
  <2>2. Limit \in Int /\ Limit + 1 \in Int /\ Limit <= Limit + 1
    BY StateIs
  <2> QED
    BY <1>5, <2>1, <2>2, ApartWider DEF IInv
<1>7. Apart(Meant(call', inode'), Limit')
  <2>1. call' \in FreshCall /\ call' # Idle /\ call'.node \in Node /\ call # Idle /\ call.node \in Node
    BY <1>1, FreshIs
  <2>2. /\ Meant(call, inode) \in Tables /\ Meant(call', inode) \in Tables
        /\ \A n \in Users, k \in Slot :
              /\ Meant(call, inode)[n][k] =
                     IF call.name = n THEN call.node.dbp[k] ELSE inode[n].dbp[k]
              /\ Meant(call', inode)[n][k] =
                     IF call'.name = n THEN call'.node.dbp[k] ELSE inode[n].dbp[k]
    BY <2>1, StateIs, MeantIs
  <2>3. CASE call.name \in Users
    <3>1. \A n \in Users, k \in Slot :
            Meant(call', inode)[n][k] =
                IF n = call.name /\ k = call.i THEN Limit ELSE Meant(call, inode)[n][k]
      BY <1>1, <2>2
    <3>2. /\ Limit \in 1..Blocks /\ call.i \in Slot /\ Apart(Meant(call, inode), Limit)
          /\ \A b \in System : b < Limit
      BY <1>1, StateIs, FreshIs DEF IInv
    <3>3. Apart(Meant(call', inode), Limit + 1)
      BY <2>2, <2>3, <3>1, <3>2, ApartNew
    <3> QED
      BY <1>1, <1>5, <3>3
  <2>4. CASE call.name \notin Users
    <3>1. Meant(call', inode') = Meant(Idle, inode')
      BY <1>1, <2>4 DEF Meant
    <3> QED
      BY <1>6, <3>1
  <2> QED
    BY <2>3, <2>4
<1> QED
  BY <1>2, <1>3, <1>4, <1>6, <1>7 DEF IInv

(* Steps that take no block keep what is known of the tables.              *)
LEMMA TablesKept ==
    ASSUME IInv, bgFree' = bgFree, inode' = inode,
           Meant(call', inode') \in {Meant(call, inode), Meant(Idle, inode)}
    PROVE  Apart(Meant(Idle, inode'), Limit') /\ Apart(Meant(call', inode'), Limit')
<1>1. Limit' = Limit /\ Meant(Idle, inode') = Meant(Idle, inode)
  BY DEF Limit
<1> QED
  BY <1>1 DEF IInv

LEMMA SameMeant ==
    ASSUME NEW nodes, NEW c, NEW d, c # Idle, d # Idle, d.name = c.name,
           d.node.dbp = c.node.dbp
    PROVE  Meant(d, nodes) = Meant(c, nodes)
  BY DEF Meant

LEMMA CountTotalIInv == ASSUME Groups = 1, IInv, CountTotal PROVE IInv'
<1>1. /\ call.pc = "total" /\ sbFree' = sbFree - 1 /\ call' = NextToAllocate(call)
      /\ UNCHANGED <<bgFree, inode, block, outages>>
  BY DEF CountTotal, At
<1>2. call \in FreshCall /\ FreshFits(call) /\ call.node.size = 0
  BY <1>1, PhaseFresh DEF IInv, FreshFits
<1>3. /\ call' \in FreshCall /\ FreshFits(call') /\ call'.pc \in {"count", "commit"}
      /\ call'.name = call.name /\ call'.node.dbp = call.node.dbp
  BY <1>1, <1>2, NextAllocates
<1>4. TypeOK'
  <2>1. sbFree' \in Int
    BY <1>1, StateIs
  <2> QED
    BY <1>1, <1>3, <2>1, FreshIs DEF IInv, TypeOK
<1>5. CallOK'
  BY <1>3, FreshIs DEF CallOK
<1>6. CountsOK'
  <2>1. 1 <= sbFree - bgFree[0] /\ sbFree - bgFree[0] <= outages + 1
    BY <1>1, StateIs DEF IInv, CountsOK, Ahead
  <2>2. bgFree'[0] \in 0..FreeAt[0] /\ call'.pc # "total"
    BY <1>1, <1>3 DEF IInv, CountsOK
  <2>3. bgFree[0] \in Int /\ sbFree \in Int /\ outages \in Nat
    BY StateIs
  <2>4. 0 <= sbFree' - bgFree'[0] /\ sbFree' - bgFree'[0] <= outages'
    BY <1>1, <2>1, <2>3
  <2> QED
    BY <1>1, <2>2, <2>3, <2>4 DEF CountsOK, Ahead
<1>7. Meant(call', inode) = Meant(call, inode)
  BY <1>2, <1>3, FreshIs, SameMeant
<1> QED
  BY <1>1, <1>4, <1>5, <1>6, <1>7, TablesKept DEF IInv

LEMMA NoneFreeIInv == ASSUME Groups = 1, IInv, NoneFree PROVE IInv'
<1> DEFINE d == [call EXCEPT !.node.dbp[call.i] = 0]
<1>1. /\ call.pc = "count" /\ call' = NextToAllocate(d)
      /\ UNCHANGED <<bgFree, sbFree, inode, block, outages>>
  BY DEF NoneFree, disk, At
<1>2. call \in FreshCall /\ FreshFits(call) /\ call.node.size = 0
  BY <1>1, PhaseFresh DEF IInv, FreshFits
<1>3. d = Pointing(call, "count", 0)
  <2>1. call = [call EXCEPT !.pc = "count"]
    BY <1>1, <1>2 DEF FreshCall
  <2> QED
    BY <1>1, <1>2, <2>1 DEF Pointing, FreshCall
<1> HIDE DEF d
<1>4. /\ d \in FreshCall /\ d.pc = "count" /\ d.name = call.name /\ d.buf = call.buf
      /\ d.i = call.i /\ d.node.size = call.node.size
      /\ \A k \in Slot : d.node.dbp[k] = IF k = call.i THEN 0 ELSE call.node.dbp[k]
  <2>1. 0 \in 0..Blocks /\ "count" \in {"count", "total"}
    BY Ext2Assumption
  <2> QED
    BY <1>2, <1>3, <2>1, PointerSet
<1>5. FreshFits(d) /\ d.node.size = 0
  BY <1>2, <1>4 DEF FreshFits
<1>6. /\ call' \in FreshCall /\ FreshFits(call') /\ call'.pc \in {"count", "commit"}
      /\ call'.name = call.name /\ call'.node.dbp = d.node.dbp
  BY <1>1, <1>4, <1>5, NextAllocates
<1>7. TypeOK'
  BY <1>1, <1>6, FreshIs DEF IInv, TypeOK
<1>8. CallOK'
  BY <1>6, FreshIs DEF CallOK
<1>9. CountsOK'
  BY <1>1, <1>6 DEF IInv, CountsOK, Ahead
<1>10. Apart(Meant(call', inode), Limit)
  <2>1. call'.node \in Node /\ call' # Idle /\ call # Idle /\ call.node \in Node /\ call.i \in Slot
    BY <1>2, <1>6, FreshIs
  <2>2. /\ Meant(call, inode) \in Tables /\ Meant(call', inode) \in Tables
        /\ \A n \in Users, k \in Slot :
              /\ Meant(call, inode)[n][k] =
                     IF call.name = n THEN call.node.dbp[k] ELSE inode[n].dbp[k]
              /\ Meant(call', inode)[n][k] =
                     IF call'.name = n THEN call'.node.dbp[k] ELSE inode[n].dbp[k]
    BY <2>1, StateIs, MeantIs
  <2>3. CASE call.name \in Users
    <3>1. \A n \in Users, k \in Slot :
            Meant(call', inode)[n][k] =
                IF n = call.name /\ k = call.i THEN 0 ELSE Meant(call, inode)[n][k]
      BY <1>4, <1>6, <2>2
    <3>2. Limit \in Int /\ 0 < Limit /\ Apart(Meant(call, inode), Limit)
      BY StateIs DEF IInv
    <3> QED
      BY <2>1, <2>2, <2>3, <3>1, <3>2, ApartNull
  <2>4. CASE call.name \notin Users
    <3>1. Meant(call', inode) = Meant(Idle, inode)
      BY <1>6, <2>4 DEF Meant
    <3> QED
      BY <3>1 DEF IInv
  <2> QED
    BY <2>3, <2>4
<1>11. Limit' = Limit /\ inode' = inode
  BY <1>1 DEF Limit
<1> QED
  BY <1>7, <1>8, <1>9, <1>10, <1>11 DEF IInv

LEMMA CommitIInv == ASSUME Groups = 1, IInv, Commit PROVE IInv'
<1>1. /\ call.pc = "commit" /\ InodeWritten(call.name, call.node)
      /\ call' = [call EXCEPT !.pc = "fill"]
      /\ UNCHANGED <<bgFree, sbFree, outages>>
  BY DEF Commit, At
<1>2. call \in FreshCall /\ FreshFits(call)
  BY <1>1, PhaseFresh DEF IInv
<1>3. /\ call' \in FreshCall /\ call'.pc = "fill" /\ call'.name = call.name
      /\ call'.node = call.node /\ call'.buf = call.buf /\ call'.i = call.i
  BY <1>1, <1>2 DEF FreshCall
<1>4. /\ inode' \in [Name -> Node] /\ block' \in [0..Blocks -> [Cell -> Value]]
      /\ \A m \in Name : inode'[m] = IF m = call.name THEN call.node ELSE inode[m]
  BY <1>1, <1>2, FreshIs, InodeTyped DEF IInv
<1>5. TypeOK'
  BY <1>1, <1>3, <1>4, FreshIs DEF IInv, TypeOK
<1>6. CallOK'
  BY <1>2, <1>3, FreshIs DEF CallOK, FreshFits
<1>7. CountsOK'
  BY <1>1, <1>3 DEF IInv, CountsOK, Ahead
<1>8. /\ Meant(Idle, inode') = Meant(call, inode)
      /\ Meant(call, inode') = Meant(call, inode)
  BY <1>1, <1>2, <1>4, FreshIs, InodeMeant DEF IInv
<1>9. Meant(call', inode') = Meant(call, inode')
  BY <1>2, <1>3, FreshIs, SameMeant
<1>10. Limit' = Limit
  BY <1>1 DEF Limit
<1> QED
  BY <1>5, <1>6, <1>7, <1>8, <1>9, <1>10 DEF IInv

LEMMA FillIs ==
    ASSUME Groups = 1, IInv, Fill
    PROVE  /\ call \in FreshCall /\ FreshFits(call) /\ call.pc = "fill"
           /\ \/ call' = Idle
              \/ /\ call' \in FreshCall /\ call'.pc = "fill" /\ FreshFits(call')
                 /\ call'.name = call.name /\ call'.node = call.node /\ call'.buf = call.buf
<1>1. call.pc = "fill"
  BY DEF Fill, At
<1>2. call \in FreshCall /\ FreshFits(call)
  BY <1>1, PhaseFresh DEF IInv
<1>3. call.buf \in Buffers /\ call.i \in Slot /\ call.sector \in 0..LastSector
  BY <1>2, FreshIs
<1>4. \/ call' = Idle
      \/ /\ call' \in FreshCall /\ call'.pc = "fill" /\ FreshFits(call')
         /\ call'.name = call.name /\ call'.node = call.node /\ call'.buf = call.buf
  <2>1. CASE call.sector < LastSector
    <3>1. call' = [call EXCEPT !.sector = @ + 1] /\ call.sector + 1 \in 0..LastSector
      BY <1>3, <2>1, SectorsAre DEF Fill, At
    <3>2. /\ call' \in FreshCall /\ call'.pc = "fill" /\ call'.name = call.name
          /\ call'.node = call.node /\ call'.buf = call.buf /\ call'.i = call.i
      BY <1>1, <1>2, <3>1 DEF FreshCall
    <3> QED
      BY <1>2, <3>2 DEF FreshFits
  <2>2. CASE call.sector = LastSector /\ call.i + 1 < BlocksFor(Len(call.buf))
    <3>1. call' = [call EXCEPT !.sector = 0, !.i = @ + 1]
      BY <2>2, SectorsAre DEF Fill, At
    <3>2. call.i + 1 \in Slot /\ 0 \in 0..LastSector
      <4>1. Len(call.buf) \in Nat
        BY <1>3, Lengths
      <4>2. BlocksFor(Len(call.buf)) \in Nat /\ BlocksFor(Len(call.buf)) <= Direct
        BY <1>2, <4>1, BlocksForIs DEF FreshFits
      <4> QED
        BY <1>3, <2>2, <4>2, SectorsAre, Ext2Assumption DEF Slot
    <3>3. /\ call' \in FreshCall /\ call'.pc = "fill" /\ call'.name = call.name
          /\ call'.node = call.node /\ call'.buf = call.buf /\ call'.i = call.i + 1
      BY <1>1, <1>2, <3>1, <3>2 DEF FreshCall
    <3> QED
      BY <1>2, <2>2, <3>3 DEF FreshFits
  <2>3. CASE ~(call.sector < LastSector)
             /\ ~(call.sector = LastSector /\ call.i + 1 < BlocksFor(Len(call.buf)))
    BY <2>3 DEF Fill, At
  <2> QED
    BY <2>1, <2>2, <2>3
<1> QED
  BY <1>1, <1>2, <1>4

LEMMA FillIInv == ASSUME Groups = 1, IInv, Fill PROVE IInv'
<1> DEFINE cells == FreshCells(call.node, call.buf, call.i)
<1>1. /\ call.pc = "fill" /\ UNCHANGED <<bgFree, sbFree, inode, outages>>
      /\ block' = SectorWritten(call.node.dbp[call.i], call.sector, cells)
  BY DEF Fill, At
<1>2. call \in FreshCall /\ FreshFits(call)
  BY <1>1, PhaseFresh DEF IInv
<1>3. /\ call.node \in Node /\ call.buf \in Buffers /\ call.i \in Slot
      /\ call.sector \in 0..LastSector /\ call # Idle
      /\ call.node.dbp \in [Slot -> 0..Blocks]
  BY <1>2, FreshIs, NodeIs
<1>4. block' \in [0..Blocks -> [Cell -> Value]]
  <2>1. call.node.dbp[call.i] \in 0..Blocks
    BY <1>3
  <2>2. block[call.node.dbp[call.i]] \in [Cell -> Value]
    BY <2>1, StateIs
  <2>3. cells \in [Cell -> Value]
    BY <1>3, <2>2, OverlayTyped DEF FreshCells
  <2> HIDE DEF cells
  <2> QED
    BY <1>1, <2>1, <2>3, StateIs, SectorTyped
<1>5. \/ call' = Idle
      \/ /\ call' \in FreshCall /\ call'.pc = "fill" /\ FreshFits(call')
         /\ call'.name = call.name /\ call'.node = call.node
  BY FillIs
<1>6. TypeOK'
  BY <1>1, <1>4, <1>5, FreshIs DEF IInv, TypeOK
<1>7. CallOK'
  BY <1>5, FreshIs DEF CallOK
<1>8. CountsOK'
  BY <1>1, <1>5 DEF IInv, CountsOK, Ahead, Idle
<1>9. Meant(call', inode') \in {Meant(call, inode), Meant(Idle, inode)}
  BY <1>1, <1>3, <1>5, FreshIs, SameMeant
<1> QED
  BY <1>1, <1>6, <1>7, <1>8, <1>9, TablesKept DEF IInv

LEMMA AppendDataIs ==
    ASSUME Groups = 1, IInv, AppendData
    PROVE  /\ call \in AppendCall /\ call # Idle /\ call.pc = "append"
           /\ call' \in AppendCall /\ call'.name = call.name /\ call'.node.dbp = call.node.dbp
           /\ call.node.size <= call'.node.size
           /\ call'.pc = "append" =>
                  /\ call'.node = call.node /\ call'.node.size + Len(call'.buf) <= MaxSize
                  /\ call'.last = call.last /\ call'.moved = call.moved
<1>1. call.pc = "append"
  BY DEF AppendData, At
<1>2. call \in AppendCall /\ call # Idle /\ call.node.size + Len(call.buf) <= MaxSize
  BY <1>1, PhaseAppend, AppendIs DEF IInv, CallOK
<1>3. /\ call.node \in Node /\ call.buf \in Buffers /\ call.sector \in 0..LastSector
      /\ Len(call.buf) \in Nat
  BY <1>2, AppendIs, Lengths
<1>4. /\ call' \in AppendCall /\ call'.name = call.name /\ call'.node.dbp = call.node.dbp
      /\ call.node.size <= call'.node.size
      /\ call'.pc = "append" =>
             /\ call'.node = call.node /\ call'.node.size + Len(call'.buf) <= MaxSize
             /\ call'.last = call.last /\ call'.moved = call.moved
  <2>0. call.node.size \in Nat
    BY <1>3, NodeIs, Ext2Assumption
  <2>1. CASE call.sector < LastSector
    <3>1. call' = [call EXCEPT !.sector = @ + 1] /\ call.sector + 1 \in 0..LastSector
      BY <1>3, <2>1, SectorsAre DEF AppendData, At
    <3>2. /\ call' \in AppendCall /\ call'.name = call.name
          /\ call'.node = call.node /\ call'.buf = call.buf
          /\ call'.last = call.last /\ call'.moved = call.moved
      BY <1>2, <3>1 DEF AppendCall
    <3> QED
      BY <1>2, <2>0, <3>2
  <2>2. CASE ~(call.sector < LastSector)
    <3>1. call' = [call EXCEPT !.pc = "resize", !.node.size = @ + Len(call.buf)]
      BY <2>2 DEF AppendData, At
    <3>2. call.node.size + Len(call.buf) \in 0..MaxSize
      BY <1>2, <1>3, NodeIs, Ext2Assumption
    <3>3. [call.node EXCEPT !.size = @ + Len(call.buf)] \in Node
      BY <1>3, <3>2 DEF Node
    <3>4. /\ call'.pc = "resize" /\ call'.name = call.name
          /\ call'.node = [call.node EXCEPT !.size = @ + Len(call.buf)]
      BY <1>2, <3>1 DEF AppendCall
    <3>5. call' \in AppendCall /\ call'.node.dbp = call.node.dbp
      BY <1>2, <1>3, <3>1, <3>3, <3>4 DEF AppendCall, Node
    <3>6. call'.node.size = call.node.size + Len(call.buf)
      BY <1>3, <3>4 DEF Node
    <3>7. call.node.size <= call'.node.size
      BY <1>3, <2>0, <3>6
    <3> QED
      BY <3>4, <3>5, <3>7
  <2> QED
    BY <2>1, <2>2
<1> QED
  BY <1>1, <1>2, <1>4

LEMMA AppendDataIInv == ASSUME Groups = 1, IInv, AppendData PROVE IInv'
<1> DEFINE last == call.last
           read == IF call.moved THEN [c \in Cell |-> Damage] ELSE block[last]
           cells == Overlay(read, TailOffset(call.node), call.buf, 0, Len(call.buf))
<1>1. /\ call.pc = "append" /\ UNCHANGED <<bgFree, sbFree, inode, outages>>
      /\ block' = SectorWritten(last, call.sector, cells)
  BY DEF AppendData, At
<1>2. call \in AppendCall /\ call # Idle /\ call.node.size + Len(call.buf) <= MaxSize
  BY <1>1, PhaseAppend, AppendIs DEF IInv, CallOK
<1>3. /\ call.node \in Node /\ call.buf \in Buffers /\ call.sector \in 0..LastSector
      /\ Len(call.buf) \in Nat
  BY <1>2, AppendIs, Lengths
<1>4. block' \in [0..Blocks -> [Cell -> Value]]
  <2>1. last \in 0..Blocks
    BY <1>2, AppendIs
  <2> HIDE DEF last
  <2>3. read \in [Cell -> Value]
    BY <2>1, StateIs, DamageTyped
  <2> HIDE DEF read
  <2>2. cells \in [Cell -> Value]
    BY <1>3, <2>3, OverlayTyped
  <2> HIDE DEF cells
  <2> QED
    BY <1>1, <2>1, <2>2, StateIs, SectorTyped
<1>5. /\ call' \in AppendCall /\ call'.name = call.name /\ call'.node.dbp = call.node.dbp
      /\ call'.pc = "append" =>
             /\ call'.node = call.node /\ call'.node.size + Len(call'.buf) <= MaxSize
             /\ call'.last = call.last /\ call'.moved = call.moved
  BY AppendDataIs
<1>6. TypeOK'
  BY <1>1, <1>2, <1>4, <1>5, AppendIs DEF IInv, TypeOK, Tails, Last
<1>7. CallOK'
  BY <1>5, AppendIs DEF CallOK
<1>8. CountsOK'
  BY <1>1, <1>5, AppendIs DEF IInv, CountsOK, Ahead
<1>9. Meant(call', inode') \in {Meant(call, inode), Meant(Idle, inode)}
  BY <1>1, <1>2, <1>5, AppendIs, SameMeant
<1> QED
  BY <1>1, <1>6, <1>7, <1>8, <1>9, TablesKept DEF IInv

LEMMA ResizeIInv == ASSUME Groups = 1, IInv, Resize PROVE IInv'
<1>1. /\ call.pc = "resize" /\ InodeWritten(call.name, call.node) /\ call' = Idle
      /\ UNCHANGED <<bgFree, sbFree, outages>>
  BY DEF Resize, At
<1>2. call \in AppendCall /\ call # Idle /\ call.name \in Name /\ call.node \in Node
  BY <1>1, PhaseAppend, AppendIs DEF IInv
<1>3. /\ inode' \in [Name -> Node] /\ block' \in [0..Blocks -> [Cell -> Value]]
      /\ \A m \in Name : inode'[m] = IF m = call.name THEN call.node ELSE inode[m]
  BY <1>1, <1>2, InodeTyped DEF IInv
<1>4. TypeOK'
  BY <1>1, <1>3 DEF IInv, TypeOK
<1>5. CallOK'
  BY <1>1, FreshIs DEF CallOK
<1>6. CountsOK'
  BY <1>1 DEF IInv, CountsOK, Ahead, Idle
<1>7. Meant(Idle, inode') = Meant(call, inode)
  BY <1>1, <1>2, <1>3, InodeMeant DEF IInv
<1>8. Limit' = Limit
  BY <1>1 DEF Limit
<1> QED
  BY <1>1, <1>4, <1>5, <1>6, <1>7, <1>8 DEF IInv

LEMMA OutageIInv == ASSUME Groups = 1, IInv, Outage PROVE IInv'
<1>1. /\ call' = Idle /\ outages' = outages + 1 /\ outages < MaxOutages
      /\ UNCHANGED <<bgFree, sbFree, inode, block>>
  BY DEF Outage, disk
<1>2. TypeOK'
  <2>1. outages' \in 0..MaxOutages
    BY <1>1, StateIs, Ext2Assumption
  <2> QED
    BY <1>1, <2>1 DEF IInv, TypeOK
<1>3. CallOK'
  BY <1>1, FreshIs DEF CallOK
<1>4. CountsOK'
  <2>1. Ahead' = Ahead /\ Ahead \in Int
    BY <1>1, StateIs DEF Ahead
  <2>2. Ahead <= outages + 1 /\ 0 <= Ahead
    BY StateIs, <2>1 DEF IInv, CountsOK
  <2>3. call'.pc = "idle"
    BY <1>1 DEF Idle
  <2> QED
    BY <1>1, <2>1, <2>2, <2>3, StateIs DEF IInv, CountsOK
<1>5. Meant(call', inode') = Meant(Idle, inode)
  BY <1>1
<1> QED
  BY <1>1, <1>2, <1>3, <1>4, <1>5, TablesKept DEF IInv

LEMMA NextIInv == ASSUME Groups = 1, IInv, [Next]_vars PROVE IInv'
<1>1. CASE \E n \in Name, b \in Buffers : AnyCall(n, b)
  BY <1>1, BeginFreshIInv, BeginAppendIInv DEF AnyCall
<1>2. CASE CountGroup
  BY <1>2, CountGroupIInv
<1>3. CASE CountTotal
  BY <1>3, CountTotalIInv
<1>4. CASE NoneFree
  BY <1>4, NoneFreeIInv
<1>5. CASE Commit
  BY <1>5, CommitIInv
<1>6. CASE Fill
  BY <1>6, FillIInv
<1>7. CASE AppendData
  BY <1>7, AppendDataIInv
<1>8. CASE Resize
  BY <1>8, ResizeIInv
<1>9. CASE Outage
  BY <1>9, OutageIInv
<1>10. CASE UNCHANGED vars
  <2>1. UNCHANGED <<bgFree, sbFree, inode, block, call, outages>>
    BY <1>10 DEF vars
  <2>2. TypeOK' /\ CallOK' /\ CountsOK'
    BY <2>1 DEF IInv, TypeOK, CallOK, CountsOK, Ahead
  <2> QED
    BY <2>1, <2>2, TablesKept DEF IInv
<1> QED
  BY <1>1, <1>2, <1>3, <1>4, <1>5, <1>6, <1>7, <1>8, <1>9, <1>10 DEF Next, Step
-----------------------------------------------------------------------------
LEMMA SoundCounts == ASSUME Groups = 1, IInv PROVE CountsSound
<1>1. TotalFree(bgFree) = bgFree[0]
  BY StateIs, TotalIs
<1>2. CountsOrdered
  BY <1>1 DEF IInv, CountsOK, CountsOrdered, Ahead
<1> QED
  BY <1>2 DEF IInv, CountsSound

LEMMA SharesNone == ASSUME Groups = 1, IInv PROVE NoSharedBlock
<1>1. /\ Apart(Meant(Idle, inode), Limit)
      /\ \A n \in Users, k \in Slot : Meant(Idle, inode)[n][k] = inode[n].dbp[k]
  BY StateIs, MeantIs DEF IInv
<1>2. ASSUME NEW p \in Pointers, NEW q \in Pointers
      PROVE  /\ inode[p[1]].dbp[p[2]] = inode[q[1]].dbp[q[2]] => p = q
             /\ p[1] \in File => inode[p[1]].dbp[p[2]] \notin System
  <2>1. /\ p[1] \in Users /\ p[2] \in Slot /\ p = <<p[1], p[2]>> /\ inode[p[1]].dbp[p[2]] # 0
        /\ q[1] \in Users /\ q[2] \in Slot /\ q = <<q[1], q[2]>>
    BY DEF Pointers, Users
  <2>2. inode[p[1]].dbp[p[2]] = inode[q[1]].dbp[q[2]] => p[1] = q[1] /\ p[2] = q[2]
    BY <1>1, <2>1 DEF Apart, Users
  <2>3. p[1] \in File => inode[p[1]].dbp[p[2]] \notin System
    BY <1>1, <2>1 DEF Apart
  <2> QED
    BY <2>1, <2>2, <2>3
<1> QED
  BY <1>2 DEF NoSharedBlock

(* The inductive invariant of every behaviour on a disk of one group.      *)
THEOREM Inductive == ASSUME Groups = 1 PROVE Spec => []IInv
<1>1. Init => IInv
  BY InitIInv
<1>2. IInv /\ [Next]_vars => IInv'
  BY NextIInv
<1> QED
  BY <1>1, <1>2, PTL DEF Spec

(* Inodes and calls stay well-formed and, until something goes over the    *)
(* metadata, the superblock never counts fewer free blocks than the        *)
(* descriptors nor more than one per power failure above them              *)
(* (ext2.c:419-439), on disks of every size.                               *)
THEOREM CountsStaySound == ASSUME Groups = 1 PROVE Spec => []CountsSound
<1>1. Spec => []IInv
  BY Inductive
<1>2. IInv => CountsSound
  BY SoundCounts
<1> QED
  BY <1>1, <1>2, PTL

(* Until something goes over the metadata, which MetadataStays says only   *)
(* two kinds of calls can do, no block comes to be in two files or at two  *)
(* places of one, and none of the file system's own in a file, however     *)
(* full the disk and wherever the power fails (ext2.c:429, 500-512).       *)
THEOREM NothingShared == ASSUME Groups = 1 PROVE Spec => []NoSharedBlock
<1>1. Spec => []IInv
  BY Inductive
<1>2. IInv => NoSharedBlock
  BY SharesNone
<1> QED
  BY <1>1, <1>2, PTL
-----------------------------------------------------------------------------
(* The pointer of the block with index k, 0 if that is not a direct one.   *)
Pointer(node, k) == IF k < Direct THEN node.dbp[k] ELSE 0
TailBlock(node)  == Pointer(node, Last(node))

(* Served calls: the group has more free blocks than are still to be       *)
(* allocated, and the pointers behind the call are those of new blocks.    *)
Remaining(c) == BlocksFor(Len(c.buf)) - c.i

ServedOK ==
    call # Idle =>
        /\ call.name \in File
        /\ \A k \in Slot : call.node.dbp[k] < Blocks
        /\ call.pc = "count" => bgFree[0] > Remaining(call)
        /\ call.pc = "total" => bgFree[0] >= Remaining(call) /\ call.node.dbp[call.i] # 0
        /\ call.pc \in {"count", "total"} => \A k \in 0..(call.i - 1) : call.node.dbp[k] # 0
        /\ call.pc \in {"commit", "fill"} =>
               \A k \in 0..(BlocksFor(Len(call.buf)) - 1) : call.node.dbp[k] # 0
        /\ call.pc = "append" => TailBlock(call.node) # 0 /\ call.last = TailBlock(call.node)
                                     /\ ~call.moved

LEMMA PointerTyped ==
    ASSUME NEW node \in Node, NEW j \in Nat
    PROVE  /\ Pointer(node, j) \in 0..Blocks
           /\ Pointer(node, j) # 0 => j \in Slot /\ Pointer(node, j) = node.dbp[j]
<1>1. Direct \in Nat /\ Blocks \in Nat
  BY Ext2Assumption
<1>2. CASE j < Direct
  <2>1. j \in Slot
    BY <1>1, <1>2 DEF Slot
  <2> QED
    BY <1>2, <2>1, NodeIs DEF Pointer
<1>3. CASE ~(j < Direct)
  BY <1>1, <1>3 DEF Pointer
<1> QED
  BY <1>2, <1>3

(* The last block of a node that has one behind a direct pointer.          *)
LEMMA TailIs ==
    ASSUME NEW node \in Node
    PROVE  /\ Last(node) \in Nat /\ TailBlock(node) \in 0..Blocks
           /\ TailBlock(node) # 0 =>
                 Last(node) \in Slot /\ Last(node) < Direct
                     /\ TailBlock(node) = node.dbp[Last(node)]
           /\ Last(node) < Direct => Tails(node) = {TailBlock(node)}
<1>1. node.size \in Nat /\ BlockSize \in Nat \ {0} /\ Direct \in Nat
  BY NodeIs, Ext2Assumption
<1>2. Last(node) \in Nat
  BY <1>1, Divided DEF Last
<1>3. Last(node) \in Slot => Last(node) < Direct
  BY <1>1 DEF Slot
<1> QED
  BY <1>2, <1>3, PointerTyped DEF TailBlock, Tails, Pointer

PointersInside == \A n \in Name, k \in Slot : inode[n].dbp[k] < Blocks
Whole == \A b \in System : block[b] = Untouched

SInv == IInv /\ ServedOK /\ PointersInside /\ Whole

(* A block other than the file system's is written. *)
LEMMA WholeKept ==
    ASSUME Groups = 1, IInv, Whole, NEW b \in 0..Blocks, b \notin System,
           NEW s, NEW cells, block' = SectorWritten(b, s, cells)
    PROVE  Whole'
<1>1. \A c \in 0..Blocks : c # b => block'[c] = block[c]
  BY StateIs DEF SectorWritten
<1>2. System \subseteq 0..Blocks
  BY Ext2Assumption
<1> QED
  BY <1>1, <1>2 DEF Whole

(* What a regular file points to is not the file system's. *)
LEMMA NotOurs ==
    ASSUME Groups = 1, IInv, call # Idle, call.node \in Node, call.name \in File,
           NEW k \in Slot, call.node.dbp[k] # 0
    PROVE  call.node.dbp[k] \notin System
<1>1. call.name \in Users
  BY DEF Users
<1>2. Meant(call, inode)[call.name][k] = call.node.dbp[k]
  BY <1>1, StateIs, MeantIs
<1> QED
  BY <1>2 DEF IInv, Apart

LEMMA InitSInv == ASSUME Groups = 1, Init PROVE SInv
<1>1. IInv
  BY InitIInv
<1>2. ServedOK
  BY DEF Init, ServedOK
<1>3. PointersInside
  BY HostAssumption DEF Init, PointersInside
<1>4. Whole
  <2>1. System \subseteq 0..Blocks
    BY Ext2Assumption
  <2> QED
    BY <2>1 DEF Init, Whole, Untouched
<1> QED
  BY <1>1, <1>2, <1>3, <1>4 DEF SInv

LEMMA FileIs == ASSUME NEW n \in File PROVE n \in Name /\ n # Missing
  BY Ext2Assumption DEF Name

LEMMA ServedFreshIs ==
    ASSUME Groups = 1, SInv, NEW n \in Name, NEW b \in Buffers, Served(n, b), BeginFresh(n, b)
    PROVE  /\ call' = [pc |-> "count", name |-> n, buf |-> b, node |-> inode[n],
                       i |-> 0, sector |-> 0]
           /\ n \in File /\ inode[n].size = 0
<1>1. n \in File
  BY DEF Served
<1>2. Found(n) = {inode[n]}
  BY <1>1, FileIs DEF Found
<1> QED
  BY <1>1, <1>2 DEF BeginFresh

LEMMA ServedFresh ==
    ASSUME Groups = 1, SInv, NEW n \in Name, NEW b \in Buffers, Served(n, b), BeginFresh(n, b)
    PROVE  ServedOK' /\ PointersInside' /\ Whole'
<1>1. /\ call' = [pc |-> "count", name |-> n, buf |-> b, node |-> inode[n],
                  i |-> 0, sector |-> 0]
      /\ UNCHANGED <<bgFree, inode, block>>
  BY ServedFreshIs DEF BeginFresh, disk
<1>2. n \in File /\ bgFree[0] > BlocksFor(Len(b))
  BY ServedFreshIs DEF Served
<1>3. BlocksFor(Len(b)) - 0 = BlocksFor(Len(b)) /\ 0..(0 - 1) = {}
  BY Lengths, BlocksForIs
<1>4. \A k \in Slot : inode[n].dbp[k] < Blocks
  BY DEF SInv, PointersInside
<1>5. /\ call'.pc = "count" /\ call'.name = n /\ call'.buf = b /\ call'.node = inode[n]
      /\ call'.i = 0
  BY <1>1
<1>6. bgFree'[0] > Remaining(call')
  BY <1>1, <1>2, <1>3, <1>5 DEF Remaining
<1>7. ServedOK'
  BY <1>2, <1>3, <1>4, <1>5, <1>6 DEF ServedOK
<1> QED
  BY <1>1, <1>7 DEF SInv, PointersInside, Whole

LEMMA ServedAppendIs ==
    ASSUME Groups = 1, SInv, NEW n \in Name, NEW b \in Buffers, Served(n, b), BeginAppend(n, b)
    PROVE  /\ n \in File /\ call'.pc = "append" /\ call'.name = n /\ call'.buf = b
           /\ call'.node = inode[n] /\ call'.sector = 0
           /\ call'.last = TailBlock(inode[n]) /\ ~call'.moved
           /\ inode[n] \in Node /\ TailBlock(inode[n]) # 0
           /\ TailOffset(inode[n]) + Len(b) <= BlockSize
           /\ UNCHANGED <<bgFree, inode, block, outages>>
<1>1. n \in File /\ inode[n] \in Node /\ n # Missing
  BY StateIs, FileIs DEF Served, SInv
<1>2. /\ call' \in AppendCall /\ call'.pc = "append"
      /\ call'.name = n /\ call'.buf = b /\ call'.sector = 0
      /\ call'.node.size > 0 /\ call'.node = inode[n]
      /\ call'.last \in Tails(call'.node)
      /\ call'.moved => Last(call'.node) >= Direct
  BY <1>1, BeginAppendIs DEF SInv
<1>3. inode[n].size # 0
  BY <1>1, <1>2, NodeIs
<1>4. /\ Last(inode[n]) < Direct /\ inode[n].dbp[Last(inode[n])] # 0
      /\ TailOffset(inode[n]) + Len(b) <= BlockSize
  BY <1>3 DEF Served
<1>5. TailBlock(inode[n]) = inode[n].dbp[Last(inode[n])]
  BY <1>4 DEF TailBlock, Pointer
<1>6. Tails(inode[n]) = {TailBlock(inode[n])} /\ Last(inode[n]) \in Nat
  BY <1>1, <1>4, TailIs
<1>7. ~call'.moved
  BY <1>2, <1>4, <1>6, Ext2Assumption
<1>8. UNCHANGED <<bgFree, inode, block, outages>>
  BY DEF BeginAppend, disk
<1> QED
  BY <1>1, <1>2, <1>4, <1>5, <1>6, <1>7, <1>8

LEMMA ServedAppend ==
    ASSUME Groups = 1, SInv, NEW n \in Name, NEW b \in Buffers, Served(n, b), BeginAppend(n, b)
    PROVE  ServedOK' /\ PointersInside' /\ Whole'
<1>1. /\ n \in File /\ call'.pc = "append" /\ call'.name = n /\ call'.node = inode[n]
      /\ call'.last = TailBlock(inode[n]) /\ ~call'.moved /\ TailBlock(inode[n]) # 0
      /\ UNCHANGED <<bgFree, inode, block>>
  BY ServedAppendIs
<1>2. \A k \in Slot : inode[n].dbp[k] < Blocks
  BY DEF SInv, PointersInside
<1>3. ServedOK'
  BY <1>1, <1>2 DEF ServedOK
<1> QED
  BY <1>1, <1>3 DEF SInv, PointersInside, Whole

LEMMA ServedCountGroup ==
    ASSUME Groups = 1, SInv, CountGroup
    PROVE  ServedOK' /\ PointersInside' /\ Whole'
<1>1. /\ call.pc = "count" /\ bgFree[0] > 0 /\ Limit \in 1..Blocks
      /\ call \in FreshCall /\ FreshFits(call)
      /\ call' \in FreshCall /\ call'.pc = "total" /\ call'.name = call.name
      /\ call'.buf = call.buf /\ call'.i = call.i
      /\ \A k \in Slot :
             call'.node.dbp[k] = IF k = call.i THEN Limit ELSE call.node.dbp[k]
      /\ bgFree'[0] = bgFree[0] - 1
      /\ block' = block /\ inode' = inode
  BY CountGroupIs DEF SInv
<1>2. call # Idle /\ call.i \in Slot /\ call.buf \in Buffers
  BY <1>1, FreshIs
<1>3. /\ Remaining(call) \in Nat /\ Remaining(call) > 0
      /\ bgFree[0] > Remaining(call) /\ call'.name \in File
      /\ \A k \in Slot : call.node.dbp[k] < Blocks
      /\ \A k \in 0..(call.i - 1) : call.node.dbp[k] # 0
  <2>1. BlocksFor(Len(call.buf)) \in Nat /\ call.i \in Nat /\ call.i < BlocksFor(Len(call.buf))
    <3>1. Len(call.buf) \in Nat
      BY <1>2, Lengths
    <3>2. BlocksFor(Len(call.buf)) \in Nat
      BY <3>1, BlocksForIs
    <3>3. call.i < BlocksFor(Len(call.buf))
      BY <1>1 DEF FreshFits
    <3>4. call.i \in Nat
      BY <1>2 DEF Slot
    <3> QED
      BY <3>2, <3>3, <3>4
  <2>2. Remaining(call) \in Nat /\ Remaining(call) > 0
    BY <2>1 DEF Remaining
  <2> QED
    BY <1>1, <1>2, <2>2 DEF SInv, ServedOK
<1>4. Limit < Blocks /\ Limit # 0
  <2>1. bgFree[0] \in Int /\ Blocks \in Int /\ bgFree[0] > 1
    BY <1>3, StateIs, Ext2Assumption DEF SInv
  <2> QED
    BY <1>1, <2>1, StateIs DEF SInv
<1>5. bgFree'[0] >= Remaining(call')
  <2>1. Remaining(call') = Remaining(call)
    BY <1>1 DEF Remaining
  <2> QED
    BY <1>1, <1>3, <2>1, StateIs DEF SInv
<1>6. \A k \in Slot : call'.node.dbp[k] < Blocks
  BY <1>1, <1>3, <1>4
<1>7. call'.node.dbp[call'.i] # 0 /\ \A k \in 0..(call'.i - 1) : call'.node.dbp[k] # 0
  <2>1. \A k \in 0..(call.i - 1) : k \in Slot /\ k # call.i
    BY <1>2, Ext2Assumption DEF Slot
  <2> QED
    BY <1>1, <1>2, <1>3, <1>4, <2>1
<1>8. ServedOK'
  BY <1>1, <1>3, <1>5, <1>6, <1>7 DEF ServedOK
<1> QED
  BY <1>1, <1>8 DEF SInv, PointersInside, Whole

LEMMA ServedCountTotal ==
    ASSUME Groups = 1, SInv, CountTotal
    PROVE  ServedOK' /\ PointersInside' /\ Whole'
<1>1. /\ call.pc = "total" /\ call' = NextToAllocate(call)
      /\ UNCHANGED <<bgFree, inode, block>>
  BY DEF CountTotal, At
<1>2. call \in FreshCall /\ FreshFits(call) /\ call.node.size = 0
  BY <1>1, PhaseFresh DEF SInv, IInv, FreshFits
<1>3. /\ call' \in FreshCall /\ call'.pc \in {"count", "commit"}
      /\ call'.name = call.name /\ call'.node.dbp = call.node.dbp /\ call'.buf = call.buf
      /\ call'.pc = "count" => call'.i = call.i + 1
      /\ call'.pc = "commit" => BlocksFor(Len(call.buf)) <= call.i + 1
  BY <1>1, <1>2, NextAllocates
<1>4. /\ call.name \in File /\ bgFree[0] >= Remaining(call)
      /\ \A k \in Slot : call.node.dbp[k] < Blocks
      /\ call.node.dbp[call.i] # 0 /\ \A k \in 0..(call.i - 1) : call.node.dbp[k] # 0
  BY <1>1, <1>2, FreshIs DEF SInv, ServedOK
<1>5. call.i \in Nat /\ BlocksFor(Len(call.buf)) \in Nat
  BY <1>2, FreshIs, Lengths, BlocksForIs DEF Slot
<1>6. \A k \in 0..call.i : call.node.dbp[k] # 0
  BY <1>4, <1>5
<1>7. CASE call'.pc = "count"
  <2>1. call'.i - 1 = call.i
    BY <1>3, <1>5, <1>7
  <2>2. Remaining(call') = Remaining(call) - 1
    BY <1>3, <1>5, <1>7 DEF Remaining
  <2>3. bgFree'[0] > Remaining(call')
    BY <1>1, <1>4, <1>5, <2>2, StateIs DEF Remaining, SInv
  <2>4. \A k \in 0..(call'.i - 1) : call'.node.dbp[k] # 0
    BY <1>3, <1>6, <2>1
  <2>5. ServedOK'
    BY <1>3, <1>4, <1>7, <2>3, <2>4 DEF ServedOK
  <2> QED
    BY <1>1, <2>5 DEF SInv, PointersInside, Whole
<1>8. CASE call'.pc = "commit"
  <2>1. \A k \in 0..(BlocksFor(Len(call'.buf)) - 1) : k \in 0..call.i
    BY <1>3, <1>5, <1>8
  <2>2. \A k \in 0..(BlocksFor(Len(call'.buf)) - 1) : call'.node.dbp[k] # 0
    BY <1>3, <1>6, <2>1
  <2>3. ServedOK'
    BY <1>3, <1>4, <1>8, <2>2 DEF ServedOK
  <2> QED
    BY <1>1, <2>3 DEF SInv, PointersInside, Whole
<1> QED
  BY <1>3, <1>7, <1>8

(* A group with more free blocks than are to be allocated has one.         *)
LEMMA ServedNoneFree == ASSUME Groups = 1, SInv PROVE ~NoneFree
<1> SUFFICES ASSUME NoneFree PROVE FALSE
  OBVIOUS
<1>1. call.pc = "count" /\ bgFree[0] = 0
  BY StateIs DEF NoneFree, SInv, At
<1>2. call \in FreshCall /\ FreshFits(call)
  BY <1>1, PhaseFresh DEF SInv, IInv
<1>3. call.i \in Nat /\ BlocksFor(Len(call.buf)) \in Nat /\ call.i < BlocksFor(Len(call.buf))
  BY <1>2, FreshIs, Lengths, BlocksForIs DEF Slot, FreshFits
<1>4. Remaining(call) > 0 /\ Remaining(call) \in Int
  BY <1>3 DEF Remaining
<1>5. bgFree[0] > Remaining(call)
  BY <1>1, <1>2, FreshIs DEF SInv, ServedOK
<1> QED
  BY <1>1, <1>4, <1>5

(* The inode of a regular file is written to its place. *)
LEMMA ServedInode ==
    ASSUME Groups = 1, SInv, call # Idle, call.node \in Node,
           InodeWritten(call.name, call.node)
    PROVE  PointersInside' /\ Whole'
<1>1. call.name \in Name /\ call.name # Missing
  BY FileIs DEF SInv, ServedOK
<1>2. block' = block /\ inode' = [inode EXCEPT ![call.name] = call.node]
  BY <1>1 DEF InodeWritten
<1>3. \A k \in Slot : call.node.dbp[k] < Blocks
  BY DEF SInv, ServedOK
<1>4. PointersInside'
  BY <1>1, <1>2, <1>3, StateIs DEF SInv, PointersInside
<1>5. Whole'
  BY <1>2 DEF SInv, Whole
<1> QED
  BY <1>4, <1>5

LEMMA ServedCommit ==
    ASSUME Groups = 1, SInv, Commit
    PROVE  ServedOK' /\ PointersInside' /\ Whole'
<1>1. /\ call.pc = "commit" /\ InodeWritten(call.name, call.node)
      /\ call' = [call EXCEPT !.pc = "fill"]
  BY DEF Commit, At
<1>2. call \in FreshCall
  BY <1>1, PhaseFresh DEF SInv, IInv
<1>3. /\ call'.pc = "fill" /\ call'.name = call.name
      /\ call'.node = call.node /\ call'.buf = call.buf
  BY <1>1, <1>2 DEF FreshCall
<1>4. ServedOK'
  BY <1>1, <1>2, <1>3, FreshIs DEF SInv, ServedOK
<1> QED
  BY <1>1, <1>2, <1>4, FreshIs, ServedInode

LEMMA ServedFill ==
    ASSUME Groups = 1, SInv, Fill
    PROVE  ServedOK' /\ PointersInside' /\ Whole'
<1>1. /\ call \in FreshCall /\ FreshFits(call) /\ call.pc = "fill"
      /\ \/ call' = Idle
         \/ /\ call' \in FreshCall /\ call'.pc = "fill"
            /\ call'.name = call.name /\ call'.node = call.node /\ call'.buf = call.buf
  BY FillIs DEF SInv
<1>2. /\ call # Idle /\ call.i \in Slot /\ call.node \in Node
      /\ call.node.dbp[call.i] \in 0..Blocks /\ call.name \in File
  BY <1>1, FreshIs, NodeIs DEF SInv, ServedOK
<1>3. call.node.dbp[call.i] # 0
  <2>1. call.i \in 0..(BlocksFor(Len(call.buf)) - 1)
    BY <1>1, FreshIs, Lengths, BlocksForIs DEF FreshFits, Slot
  <2> QED
    BY <1>1, <1>2, <2>1 DEF SInv, ServedOK
<1>4. call.node.dbp[call.i] \notin System
  BY <1>2, <1>3, NotOurs DEF SInv
<1>5. Whole'
  <2>1. block' = SectorWritten(call.node.dbp[call.i], call.sector,
                               FreshCells(call.node, call.buf, call.i))
    BY DEF Fill, At
  <2> QED
    BY <1>2, <1>4, <2>1, WholeKept DEF SInv
<1>6. PointersInside'
  BY DEF Fill, SInv, PointersInside, At
<1>7. ServedOK'
  BY <1>1, <1>2, FreshIs DEF SInv, ServedOK
<1> QED
  BY <1>5, <1>6, <1>7

LEMMA ServedAppendData ==
    ASSUME Groups = 1, SInv, AppendData
    PROVE  ServedOK' /\ PointersInside' /\ Whole'
<1>1. /\ call \in AppendCall /\ call # Idle /\ call.pc = "append"
      /\ call' \in AppendCall /\ call'.name = call.name /\ call'.node.dbp = call.node.dbp
      /\ call'.pc = "append" => /\ call'.node = call.node /\ call'.last = call.last
                                /\ call'.moved = call.moved
  BY AppendDataIs DEF SInv
<1>2. /\ call.name \in File /\ TailBlock(call.node) # 0 /\ call.node \in Node
      /\ call.last = TailBlock(call.node) /\ ~call.moved
      /\ \A k \in Slot : call.node.dbp[k] < Blocks
  BY <1>1, AppendIs DEF SInv, ServedOK
<1>5. Last(call.node) \in Slot /\ TailBlock(call.node) = call.node.dbp[Last(call.node)]
  BY <1>2, TailIs
<1>6. TailBlock(call.node) \notin System /\ TailBlock(call.node) \in 0..Blocks
  BY <1>1, <1>2, <1>5, NotOurs, TailIs DEF SInv
<1>7. Whole'
  <2>1. block' = SectorWritten(TailBlock(call.node), call.sector,
                     Overlay(block[TailBlock(call.node)], TailOffset(call.node), call.buf,
                             0, Len(call.buf)))
    BY <1>2 DEF AppendData, At
  <2> QED
    BY <1>6, <2>1, WholeKept DEF SInv
<1>8. PointersInside'
  BY DEF AppendData, SInv, PointersInside, At
<1>9. ServedOK'
  BY <1>1, <1>2, AppendIs DEF ServedOK
<1> QED
  BY <1>7, <1>8, <1>9

LEMMA ServedResize ==
    ASSUME Groups = 1, SInv, Resize
    PROVE  ServedOK' /\ PointersInside' /\ Whole'
<1>1. call.pc = "resize" /\ InodeWritten(call.name, call.node) /\ call' = Idle
  BY DEF Resize, At
<1>2. call \in AppendCall
  BY <1>1, PhaseAppend DEF SInv, IInv
<1>3. PointersInside' /\ Whole'
  BY <1>1, <1>2, AppendIs, ServedInode
<1> QED
  BY <1>1, <1>3 DEF ServedOK

LEMMA ServedSInv == ASSUME Groups = 1, SInv, [ServedNext]_vars PROVE SInv'
<1>1. [Next]_vars
  BY DEF ServedNext, ServedCall, Next, AnyCall
<1>2. IInv'
  BY <1>1, NextIInv DEF SInv
<1>3. CASE \E n \in Name, b \in Buffers : ServedCall(n, b)
  BY <1>2, <1>3, ServedFresh, ServedAppend DEF ServedCall, SInv
<1>4. CASE CountGroup
  BY <1>2, <1>4, ServedCountGroup DEF SInv
<1>5. CASE CountTotal
  BY <1>2, <1>5, ServedCountTotal DEF SInv
<1>6. CASE NoneFree
  BY <1>6, ServedNoneFree
<1>7. CASE Commit
  BY <1>2, <1>7, ServedCommit DEF SInv
<1>8. CASE Fill
  BY <1>2, <1>8, ServedFill DEF SInv
<1>9. CASE AppendData
  BY <1>2, <1>9, ServedAppendData DEF SInv
<1>10. CASE Resize
  BY <1>2, <1>10, ServedResize DEF SInv
<1>11. CASE Outage
  <2>1. call' = Idle /\ inode' = inode /\ block' = block
    BY <1>11 DEF Outage, disk
  <2> QED
    BY <1>2, <2>1 DEF SInv, ServedOK, PointersInside, Whole
<1>12. CASE UNCHANGED vars
  <2>1. UNCHANGED <<bgFree, inode, block, call>>
    BY <1>12 DEF vars
  <2>2. ServedOK'
    BY <2>1 DEF SInv, ServedOK, Remaining
  <2> QED
    BY <1>2, <2>1, <2>2 DEF SInv, PointersInside, Whole
<1> QED
  BY <1>3, <1>4, <1>5, <1>6, <1>7, <1>8, <1>9, <1>10, <1>11, <1>12 DEF ServedNext, Step

LEMMA KeepsSystem == ASSUME SInv PROVE SystemIntact
<1>1. \A n \in File \cup Dir : n \in Name
  BY DEF Name
<1> QED
  BY <1>1 DEF SInv, Whole, PointersInside, SystemIntact, Pointers

(* Writes that fit where a file ends, with blocks to spare, leave the file *)
(* system's own blocks alone and point into the file system, on disks of   *)
(* every size and wherever the power fails (ext2.c:429, 531).              *)
THEOREM SystemStaysIntact == ASSUME Groups = 1 PROVE ServedSpec => []SystemIntact
<1>1. Init => SInv
  BY InitSInv
<1>2. SInv /\ [ServedNext]_vars => SInv'
  BY ServedSInv
<1>3. SInv => SystemIntact
  BY KeepsSystem
<1> QED
  BY <1>1, <1>2, <1>3, PTL DEF ServedSpec
-----------------------------------------------------------------------------
(* The refinement of FileStore.  What the mapping reads of a call: which   *)
(* of its bytes have reached the disk, and what its inode will be.         *)
BytesOf(blk, node) ==
    [k \in 0..(DirectBytes(node) - 1) |-> blk[Pointer(node, k \div BlockSize)][k % BlockSize]]

(* Fresh blocks: those before i, and of block i the sectors before s.      *)
Filled(blk, c, i, s) ==
    \A k \in 0..(Len(c.buf) - 1) :
        k \div BlockSize < i \/ (k \div BlockSize = i /\ (k % BlockSize) \div SectorSize < s)
            => blk[c.node.dbp[k \div BlockSize]][k % BlockSize] = c.buf[k]

(* An append: the bytes in the sectors before s of the last block.         *)
Appended(blk, node, buf, s) ==
    \A d \in 0..(Len(buf) - 1) :
        (TailOffset(node) + d) \div SectorSize < s
            => blk[TailBlock(node)][TailOffset(node) + d] = buf[d]

Fresh ==
    /\ call.pc \in {"count", "total", "commit"} => inode[call.name].size = 0 /\ call.sector = 0
    /\ call.pc = "commit" => call.i = 0
    /\ call.pc \in {"commit", "fill"} => call.node.size = Len(call.buf)
    /\ call.pc = "fill" =>
          /\ inode[call.name] = call.node
          /\ Filled(block, call, call.i, call.sector)

Appending ==
    call.pc \in {"append", "resize"} =>
        LET node == inode[call.name]
        IN  /\ TailBlock(node) # 0 /\ TailOffset(node) + Len(call.buf) <= BlockSize
            /\ call.node.dbp = node.dbp
            /\ call.pc = "append" =>
                  call.node.size = node.size /\ Appended(block, node, call.buf, call.sector)
            /\ call.pc = "resize" =>
                  /\ call.node.size = node.size + Len(call.buf)
                  /\ Appended(block, node, call.buf, LastSector + 1)

RInv == SInv /\ Fresh /\ Appending
-----------------------------------------------------------------------------
(* Arithmetic of places. *)
LEMMA QuotientIs ==
    ASSUME NEW d \in Nat \ {0}, NEW q \in Nat, NEW r \in 0..(d - 1), NEW a \in Nat, a = d * q + r
    PROVE  a \div d = q /\ a % d = r
<1> DEFINE x == a \div d
           y == a % d
<1>1. a = d * x + y /\ x \in Nat /\ y \in 0..(d - 1)
  BY Divided
<1> HIDE DEF x, y
<1>2. d * x + y = d * q + r /\ d * x \in Int /\ d * q \in Int
  BY <1>1
<1>3. ~(x < q)
  <2> SUFFICES ASSUME x < q PROVE FALSE
    OBVIOUS
  <2>1. d * (x + 1) <= d * q
    BY <1>1
  <2>2. d * (x + 1) = d * x + d
    BY <1>1
  <2> QED
    BY <1>1, <1>2, <2>1, <2>2
<1>4. ~(q < x)
  <2> SUFFICES ASSUME q < x PROVE FALSE
    OBVIOUS
  <2>1. d * (q + 1) <= d * x
    BY <1>1
  <2>2. d * (q + 1) = d * q + d
    BY <1>1
  <2> QED
    BY <1>1, <1>2, <2>1, <2>2
<1>5. x = q
  BY <1>1, <1>3, <1>4
<1>6. y = r
  BY <1>1, <1>2, <1>5
<1> QED
  BY <1>5, <1>6 DEF x, y

LEMMA QuotientBelow ==
    ASSUME NEW d \in Nat \ {0}, NEW q \in Nat, NEW a \in Nat, a < d * q
    PROVE  a \div d < q
<1> DEFINE x == a \div d
<1>1. a = d * x + (a % d) /\ x \in Nat /\ a % d \in 0..(d - 1)
  BY Divided
<1> HIDE DEF x
<1>2. d * x < d * q /\ d * x \in Int /\ d * q \in Int
  BY <1>1
<1>3. x >= q => d * x >= d * q
  BY <1>1
<1>4. x < q
  BY <1>1, <1>2, <1>3
<1> QED
  BY <1>4 DEF x

LEMMA CellSector == ASSUME NEW c \in Cell PROVE c \div SectorSize \in 0..LastSector
<1> DEFINE q == BlockSize \div SectorSize
<1>1. BlockSize \in Nat /\ SectorSize \in Nat \ {0} /\ c \in Nat /\ c < BlockSize
  BY Ext2Assumption DEF Cell
<1>2. q \in Nat /\ BlockSize = SectorSize * q
  BY <1>1, Ext2Assumption, Divided
<1>3. c \div SectorSize \in Nat
  BY <1>1, Divided
<1> HIDE DEF q
<1>4. c \div SectorSize < q
  BY <1>1, <1>2, QuotientBelow
<1>5. c \div SectorSize <= q - 1
  BY <1>2, <1>3, <1>4
<1> QED
  BY <1>3, <1>5, SectorsAre DEF LastSector, q

(* Byte k of a buffer is in one of the blocks that are allocated for it.   *)
LEMMA PlaceOf ==
    ASSUME NEW k \in Nat, NEW len \in Nat, k < len
    PROVE  /\ k \div BlockSize \in 0..(BlocksFor(len) - 1) /\ k % BlockSize \in Cell
           /\ k = BlockSize * (k \div BlockSize) + (k % BlockSize)
<1>1. BlockSize \in Nat \ {0}
  BY Ext2Assumption
<1>2. k \div BlockSize \in Nat /\ k % BlockSize \in Cell
      /\ k = BlockSize * (k \div BlockSize) + (k % BlockSize)
  BY <1>1, Divided DEF Cell
<1> DEFINE q == len \div BlockSize
<1>3. q \in Nat /\ len % BlockSize \in 0..(BlockSize - 1) /\ len = BlockSize * q + (len % BlockSize)
  BY <1>1, Divided
<1> HIDE DEF q
<1>4. BlockSize * (q + 1) = BlockSize * q + BlockSize /\ BlockSize * q \in Int
  BY <1>1, <1>3
<1>5. k < BlockSize * (q + 1)
  BY <1>1, <1>3, <1>4
<1>6. k \div BlockSize < q + 1
  <2>1. q + 1 \in Nat
    BY <1>3
  <2> QED
    BY <1>1, <1>5, <2>1, QuotientBelow
<1>7. BlocksFor(len) = q + 1
  BY DEF BlocksFor, q
<1> QED
  BY <1>2, <1>3, <1>6, <1>7

(* The bytes behind the direct pointers. *)
LEMMA BelowDirect ==
    ASSUME NEW m \in Nat, NEW l \in Nat, m \div BlockSize < Direct,
           (m % BlockSize) + l <= BlockSize
    PROVE  m + l <= Direct * BlockSize
<1> DEFINE q == m \div BlockSize
           r == m % BlockSize
<1>1. /\ BlockSize \in Nat \ {0} /\ Direct \in Nat /\ q \in Nat /\ r \in 0..(BlockSize - 1)
      /\ m = BlockSize * q + r /\ q < Direct /\ r + l <= BlockSize
  BY Ext2Assumption, Divided
<1> HIDE DEF q, r
<1>2. BlockSize * (q + 1) = BlockSize * q + BlockSize /\ BlockSize * q \in Int
  BY <1>1
<1>3. BlockSize * (q + 1) <= Direct * BlockSize /\ Direct * BlockSize \in Int
  <2>1. q + 1 <= Direct
    BY <1>1
  <2>2. \E e \in Nat : Direct = (q + 1) + e
    <3>1. Direct - (q + 1) \in Nat /\ Direct = (q + 1) + (Direct - (q + 1))
      BY <1>1, <2>1
    <3> QED
      BY <3>1
  <2>3. PICK e \in Nat : Direct = (q + 1) + e
    BY <2>2
  <2>4. Direct * BlockSize = BlockSize * (q + 1) + BlockSize * e /\ BlockSize * e \in Nat
    BY <1>1, <2>3
  <2> QED
    BY <1>1, <2>4
<1>4. m + l = BlockSize * q + (r + l) /\ r + l <= BlockSize
  BY <1>1, <1>2
<1> QED
  BY <1>1, <1>2, <1>3, <1>4

LEMMA DirectBytesIs ==
    ASSUME NEW node \in Node
    PROVE  /\ DirectBytes(node) \in Nat /\ DirectBytes(node) <= node.size
           /\ DirectBytes(node) <= Direct * BlockSize
           /\ node.size <= Direct * BlockSize => DirectBytes(node) = node.size
<1> DEFINE top == Direct * BlockSize
           S == {node.size, top}
<1>1. node.size \in Nat /\ top \in Nat
  BY NodeIs, Ext2Assumption
<1> HIDE DEF top
<1>2. \E x \in S : \A y \in S : x <= y
  BY <1>1
<1>3. Min(S) \in S /\ \A y \in S : Min(S) <= y
  BY <1>2 DEF Min
<1>4. DirectBytes(node) = Min(S)
  BY DEF DirectBytes, top
<1> HIDE DEF DirectBytes
<1>5. /\ Min(S) \in Nat /\ Min(S) <= node.size /\ Min(S) <= top
      /\ node.size <= top => Min(S) = node.size
  BY <1>1, <1>3
<1> QED
  BY <1>4, <1>5 DEF top

LEMMA DirectByte ==
    ASSUME NEW node \in Node, NEW k \in 0..(DirectBytes(node) - 1)
    PROVE  /\ k \in Nat /\ k \in 0..(node.size - 1)
           /\ k \div BlockSize \in Slot /\ Pointer(node, k \div BlockSize) = node.dbp[k \div BlockSize]
<1>1. /\ DirectBytes(node) \in Nat /\ DirectBytes(node) <= node.size
      /\ DirectBytes(node) <= Direct * BlockSize /\ node.size \in Nat
      /\ Direct \in Nat /\ BlockSize \in Nat \ {0} /\ Direct * BlockSize = BlockSize * Direct
  BY DirectBytesIs, NodeIs, Ext2Assumption
<1>2. k \in Nat /\ k \in 0..(node.size - 1) /\ k < DirectBytes(node)
  BY <1>1
<1>3. k < BlockSize * Direct
  <2> DEFINE top == BlockSize * Direct
  <2>1. top \in Nat /\ DirectBytes(node) <= top
    BY <1>1
  <2> HIDE DEF top
  <2>2. k < top
    BY <1>1, <1>2, <2>1
  <2> QED
    BY <2>2 DEF top
<1>4. k \div BlockSize < Direct /\ k \div BlockSize \in Nat
  BY <1>1, <1>2, <1>3, QuotientBelow, Divided
<1> QED
  BY <1>1, <1>2, <1>4 DEF Pointer, Slot

(* A buffer that is not refused for its size fits the direct pointers.     *)
LEMMA FreshDirect ==
    ASSUME NEW node \in Node, NEW len \in Nat, node.size = len, BlocksFor(len) <= Direct
    PROVE  DirectBytes(node) = len
<1>1. len \div BlockSize \in Nat /\ len % BlockSize \in 0..(BlockSize - 1)
      /\ BlockSize \in Nat \ {0} /\ Direct \in Nat
  BY Ext2Assumption, Divided
<1>2. len \div BlockSize < Direct
  BY <1>1 DEF BlocksFor
<1>3. (len % BlockSize) + 0 <= BlockSize
  BY <1>1
<1>4. len + 0 <= Direct * BlockSize
  BY <1>2, <1>3, BelowDirect
<1> QED
  BY <1>4, DirectBytesIs

(* Bytes behind the end of a file that fit its last block are in it.       *)
LEMMA BehindEnd ==
    ASSUME NEW size \in Nat, NEW d \in Nat, (size % BlockSize) + d < BlockSize
    PROVE  /\ (size + d) \div BlockSize = size \div BlockSize
           /\ (size + d) % BlockSize = (size % BlockSize) + d
<1> DEFINE q == size \div BlockSize
           r == size % BlockSize
<1>1. BlockSize \in Nat \ {0} /\ q \in Nat /\ r \in 0..(BlockSize - 1) /\ size = BlockSize * q + r
  BY Ext2Assumption, Divided
<1> HIDE DEF q, r
<1>2. BlockSize * q \in Int
  BY <1>1
<1>3. size + d = BlockSize * q + (r + d) /\ r + d \in 0..(BlockSize - 1) /\ size + d \in Nat
  BY <1>1, <1>2 DEF r
<1>4. (size + d) \div BlockSize = q /\ (size + d) % BlockSize = r + d
  BY <1>1, <1>3, QuotientIs
<1> QED
  BY <1>4 DEF q, r

(* Bytes before the end that are in the last block are before its end.     *)
LEMMA BeforeEnd ==
    ASSUME NEW size \in Nat, NEW k \in Nat, k < size, k \div BlockSize = size \div BlockSize
    PROVE  k % BlockSize < size % BlockSize
<1> DEFINE q == size \div BlockSize
<1>0. BlockSize \in Nat \ {0}
  BY Ext2Assumption
<1>1. /\ BlockSize \in Nat \ {0} /\ q \in Nat /\ size % BlockSize \in 0..(BlockSize - 1)
      /\ size = BlockSize * q + (size % BlockSize)
  BY <1>0, Divided
<1>2. k % BlockSize \in 0..(BlockSize - 1) /\ k = BlockSize * q + (k % BlockSize)
  BY <1>0, Divided
<1> HIDE DEF q
<1>3. BlockSize * q \in Int
  BY <1>1
<1> QED
  BY <1>1, <1>2, <1>3

(* A function on 0..(s - 1) has length s. *)
LEMMA LengthIs ==
    ASSUME NEW s \in Nat, NEW f, DOMAIN f = 0..(s - 1)
    PROVE  Store!Length(f) = s
<1>1. CASE s = 0
  BY <1>1 DEF Store!Length
<1>2. CASE s # 0
  <2>1. s - 1 \in DOMAIN f /\ (s - 1) + 1 \notin DOMAIN f
    BY <1>2
  <2>2. \A m \in DOMAIN f : m + 1 \notin DOMAIN f => m = s - 1
    OBVIOUS
  <2> DEFINE top == CHOOSE m \in DOMAIN f : m + 1 \notin DOMAIN f
  <2>3. top = s - 1
    BY <2>1, <2>2
  <2>4. DOMAIN f # {}
    BY <2>1
  <2>5. Store!Length(f) = 1 + top
    BY <2>4 DEF Store!Length
  <2> HIDE DEF top
  <2> QED
    BY <2>3, <2>5
<1> QED
  BY <1>1, <1>2
-----------------------------------------------------------------------------
(* One sector of a block is written, and nothing else changes.             *)
LEMMA SectorIs ==
    ASSUME Groups = 1, IInv, NEW b \in 0..Blocks, NEW s, NEW cells,
           NEW new, new = SectorWritten(b, s, cells)
    PROVE  \A p \in 0..Blocks, c \in Cell :
              new[p][c] = IF p = b /\ c \div SectorSize = s THEN cells[c] ELSE block[p][c]
<1>1. block \in [0..Blocks -> [Cell -> Value]]
  BY StateIs
<1>2. new = [block EXCEPT ![b] = [c \in Cell |-> IF c \div SectorSize = s
                                                THEN cells[c] ELSE block[b][c]]]
  BY DEF SectorWritten
<1>3. \A p \in 0..Blocks : p # b => new[p] = block[p]
  BY <1>1, <1>2
<1>4. new[b] = [c \in Cell |-> IF c \div SectorSize = s THEN cells[c] ELSE block[b][c]]
  BY <1>1, <1>2
<1>5. \A c \in Cell : new[b][c] = IF c \div SectorSize = s THEN cells[c] ELSE block[b][c]
  BY <1>4
<1> QED
  BY <1>3, <1>5

(* A block of the file that is written is at no other place of a file.     *)
LEMMA OtherPointers ==
    ASSUME Groups = 1, IInv, call # Idle, call.node \in Node, call.name \in File,
           NEW k \in Slot, call.node.dbp[k] # 0
    PROVE  /\ \A f \in File, j \in Nat :
                 f # call.name => Pointer(inode[f], j) # call.node.dbp[k]
           /\ \A j \in Slot : j # k => call.node.dbp[j] # call.node.dbp[k]
<1>1. /\ call.name \in Users
      /\ \A n \in Users, j \in Slot :
            Meant(call, inode)[n][j] =
                IF call.name = n THEN call.node.dbp[j] ELSE inode[n].dbp[j]
  BY StateIs, MeantIs DEF Users
<1>2. \A n \in Users, j \in Slot :
         Meant(call, inode)[call.name][k] = Meant(call, inode)[n][j] => n = call.name /\ j = k
  BY <1>1 DEF IInv, Apart, Users
<1>3. ASSUME NEW f \in File, NEW j \in Nat, f # call.name
      PROVE  Pointer(inode[f], j) # call.node.dbp[k]
  <2>1. f \in Users /\ inode[f] \in Node
    BY StateIs, FileIs DEF Users
  <2>2. CASE Pointer(inode[f], j) = 0
    BY <2>2
  <2>3. CASE Pointer(inode[f], j) # 0
    <3>1. j \in Slot /\ Pointer(inode[f], j) = inode[f].dbp[j]
      BY <2>1, <2>3, PointerTyped
    <3> QED
      BY <1>1, <1>2, <1>3, <2>1, <3>1
  <2> QED
    BY <2>2, <2>3
<1>4. \A j \in Slot : j # k => call.node.dbp[j] # call.node.dbp[k]
  BY <1>1, <1>2
<1> QED
  BY <1>3, <1>4

(* Bytes that are not in the block that is written stay.                   *)
LEMMA BytesKept ==
    ASSUME Groups = 1, IInv, NEW b \in 0..Blocks, NEW s, NEW cells, NEW new,
           new = SectorWritten(b, s, cells), NEW node \in Node,
           \A k \in 0..(node.size - 1) :
               Pointer(node, k \div BlockSize) # b \/ cells[k % BlockSize] = block[b][k % BlockSize]
    PROVE  BytesOf(new, node) = BytesOf(block, node)
<1>1. ASSUME NEW k \in 0..(DirectBytes(node) - 1)
      PROVE  new[Pointer(node, k \div BlockSize)][k % BlockSize]
                 = block[Pointer(node, k \div BlockSize)][k % BlockSize]
  <2>1. BlockSize \in Nat \ {0} /\ k \in Nat /\ k \in 0..(node.size - 1)
    BY Ext2Assumption, DirectByte
  <2>2. k \div BlockSize \in Nat /\ k % BlockSize \in Cell
    BY <2>1, Divided DEF Cell
  <2> DEFINE p == Pointer(node, k \div BlockSize)
             c == k % BlockSize
  <2>3. p \in 0..Blocks /\ c \in Cell
    BY <2>2, PointerTyped
  <2>4. p # b \/ cells[c] = block[b][c]
    BY <2>1
  <2> HIDE DEF p, c
  <2>5. new[p][c] = IF p = b /\ c \div SectorSize = s THEN cells[c] ELSE block[p][c]
    BY <2>3, SectorIs
  <2>6. new[p][c] = block[p][c]
    BY <2>4, <2>5
  <2> QED
    BY <2>6 DEF p, c
<1> QED
  BY <1>1 DEF BytesOf

LEMMA BytesTyped ==
    ASSUME NEW blk \in [0..Blocks -> [Cell -> Value]], NEW node \in Node
    PROVE  BytesOf(blk, node) \in [0..(DirectBytes(node) - 1) -> Value]
<1>1. ASSUME NEW k \in 0..(DirectBytes(node) - 1)
      PROVE  blk[Pointer(node, k \div BlockSize)][k % BlockSize] \in Value
  <2>1. BlockSize \in Nat \ {0} /\ k \in Nat
    BY Ext2Assumption, DirectByte
  <2>2. k \div BlockSize \in Nat /\ k % BlockSize \in Cell
    BY <2>1, Divided DEF Cell
  <2>3. Pointer(node, k \div BlockSize) \in 0..Blocks
    BY <2>2, PointerTyped
  <2> QED
    BY <2>2, <2>3
<1> QED
  BY <1>1 DEF BytesOf
-----------------------------------------------------------------------------
(* Filling fresh blocks. *)
LEMMA FillNext ==
    ASSUME Groups = 1, IInv, Fill
    PROVE  /\ call # Idle /\ call.pc = "fill" /\ call.i \in Slot /\ call.sector \in 0..LastSector
           /\ \/ /\ call' = Idle /\ call.sector = LastSector
                 /\ call.i + 1 >= BlocksFor(Len(call.buf))
              \/ /\ call' # Idle /\ call'.pc = "fill" /\ call'.name = call.name
                 /\ call'.node = call.node /\ call'.buf = call.buf
                 /\ \/ call'.i = call.i /\ call'.sector = call.sector + 1
                    \/ /\ call'.i = call.i + 1 /\ call'.sector = 0
                       /\ call.sector = LastSector
<1>1. call \in FreshCall /\ FreshFits(call) /\ call.pc = "fill"
  BY FillIs
<1>2. call # Idle /\ call.buf \in Buffers /\ call.i \in Slot /\ call.sector \in 0..LastSector
  BY <1>1, FreshIs
<1>3. CASE call.sector < LastSector
  <2>1. call' = [call EXCEPT !.sector = @ + 1]
    BY <1>2, <1>3, SectorsAre DEF Fill, At
  <2>2. /\ call'.pc = "fill" /\ call'.name = call.name /\ call'.node = call.node
        /\ call'.buf = call.buf /\ call'.i = call.i /\ call'.sector = call.sector + 1
    BY <1>1, <2>1 DEF FreshCall
  <2>3. call' # Idle
    BY <2>2 DEF Idle
  <2> QED
    BY <1>1, <1>2, <2>2, <2>3
<1>4. CASE call.sector = LastSector /\ call.i + 1 < BlocksFor(Len(call.buf))
  <2>1. call' = [call EXCEPT !.sector = 0, !.i = @ + 1]
    BY <1>4, SectorsAre DEF Fill, At
  <2>2. /\ call'.pc = "fill" /\ call'.name = call.name /\ call'.node = call.node
        /\ call'.buf = call.buf /\ call'.i = call.i + 1 /\ call'.sector = 0
    BY <1>1, <2>1 DEF FreshCall
  <2>3. call' # Idle
    BY <2>2 DEF Idle
  <2> QED
    BY <1>1, <1>2, <1>4, <2>2, <2>3
<1>5. CASE ~(call.sector < LastSector)
           /\ ~(call.sector = LastSector /\ call.i + 1 < BlocksFor(Len(call.buf)))
  <2>1. call' = Idle
    BY <1>5 DEF Fill, At
  <2>2. call.sector = LastSector
    BY <1>2, <1>5, SectorsAre
  <2>3. call.i + 1 >= BlocksFor(Len(call.buf))
    <3>1. call.i \in Nat
      BY <1>2 DEF Slot
    <3>2. BlocksFor(Len(call.buf)) \in Nat
      BY <1>2, Lengths, BlocksForIs
    <3> QED
      BY <1>5, <2>2, <3>1, <3>2
  <2> QED
    BY <1>1, <1>2, <2>1, <2>2, <2>3
<1> QED
  BY <1>3, <1>4, <1>5

(* The cells of fresh block i that hold bytes of the buffer.               *)
LEMMA FreshCellIs ==
    ASSUME NEW node, NEW buf \in Buffers, NEW i \in Nat, NEW k \in 0..(Len(buf) - 1),
           k \div BlockSize = i
    PROVE  FreshCells(node, buf, i)[k % BlockSize] = buf[k]
<1>1. Len(buf) \in Nat \ {0} /\ DOMAIN buf = 0..(Len(buf) - 1) /\ BlockSize \in Nat \ {0}
  BY Lengths, Ext2Assumption
<1>2. k \in Nat /\ k < Len(buf)
  BY <1>1
<1> DEFINE c == k % BlockSize
           n == IF i + 1 < BlocksFor(Len(buf)) THEN BlockSize ELSE Len(buf)
<1>3. c \in Cell /\ k = BlockSize * i + c
  BY <1>1, <1>2, PlaceOf
<1>4. i * BlockSize \in Int /\ i * BlockSize = BlockSize * i
  BY <1>1
<1> HIDE DEF c
<1>5. c \in Nat /\ c < BlockSize /\ c <= k
  <2>1. c \in Nat /\ c < BlockSize
    BY <1>1, <1>3 DEF Cell
  <2>2. BlockSize * i \in Nat
    BY <1>1
  <2> QED
    BY <1>3, <2>1, <2>2
<1>6. c < n /\ n \in Nat
  BY <1>1, <1>2, <1>5
<1> HIDE DEF n
<1>7. c \in 0..(0 + n - 1) /\ i * BlockSize + c - 0 = k
  BY <1>3, <1>4, <1>5, <1>6
<1>8. FreshCells(node, buf, i)[c] =
         IF c \in 0..(0 + n - 1)
         THEN IF i * BlockSize + c - 0 \in DOMAIN buf THEN buf[i * BlockSize + c - 0] ELSE Junk
         ELSE block[node.dbp[i]][c]
  BY <1>3 DEF FreshCells, Overlay, n
<1> QED
  BY <1>1, <1>7, <1>8 DEF c

(* What has been filled stays, and a sector more is.                       *)
LEMMA FilledFurther ==
    ASSUME Groups = 1, RInv, Fill
    PROVE  Filled(block', call, call.i, call.sector + 1)
<1>1. /\ call # Idle /\ call.pc = "fill" /\ call.i \in Slot /\ call.sector \in 0..LastSector
      /\ call \in FreshCall /\ FreshFits(call)
  BY FillNext, FillIs DEF RInv, SInv
<1>2. /\ call.buf \in Buffers /\ call.node \in Node /\ call.name \in File
      /\ Filled(block, call, call.i, call.sector)
  BY <1>1, FreshIs DEF RInv, SInv, ServedOK, Fresh
<1>3. /\ Len(call.buf) \in Nat /\ BlocksFor(Len(call.buf)) \in Nat /\ call.i \in Nat
      /\ BlocksFor(Len(call.buf)) <= Direct /\ Direct \in Nat
  <2>1. Len(call.buf) \in Nat
    BY <1>2, Lengths
  <2>2. BlocksFor(Len(call.buf)) \in Nat
    BY <2>1, BlocksForIs
  <2> QED
    BY <1>1, <2>1, <2>2, Ext2Assumption DEF FreshFits, Slot
<1>4. \A j \in 0..(BlocksFor(Len(call.buf)) - 1) : j \in Slot /\ call.node.dbp[j] \in 0..Blocks
  <2>1. \A j \in 0..(BlocksFor(Len(call.buf)) - 1) : j \in Slot
    BY <1>3 DEF Slot
  <2> QED
    BY <1>2, <2>1, NodeIs
<1>5. call.node.dbp[call.i] # 0 /\ call.node.dbp[call.i] \in 0..Blocks
  <2>1. call.i \in 0..(BlocksFor(Len(call.buf)) - 1)
    BY <1>1, <1>3 DEF FreshFits
  <2> QED
    BY <1>1, <1>4, <2>1 DEF RInv, SInv, ServedOK
<1> DEFINE b == call.node.dbp[call.i]
           cells == FreshCells(call.node, call.buf, call.i)
<1>6. \A p \in 0..Blocks, c \in Cell :
         block'[p][c] = IF p = b /\ c \div SectorSize = call.sector THEN cells[c] ELSE block[p][c]
  <2>1. block' = SectorWritten(b, call.sector, cells)
    BY DEF Fill, At
  <2> HIDE DEF b, cells
  <2>2. b \in 0..Blocks
    BY <1>5 DEF b
  <2> QED
    BY <2>1, <2>2, SectorIs DEF RInv, SInv
<1>7. \A j \in Slot : j # call.i => call.node.dbp[j] # b
  BY <1>1, <1>2, <1>5, OtherPointers DEF RInv, SInv
<1>8. ASSUME NEW k \in 0..(Len(call.buf) - 1),
             \/ k \div BlockSize < call.i
             \/ k \div BlockSize = call.i /\ (k % BlockSize) \div SectorSize < call.sector + 1
      PROVE  block'[call.node.dbp[k \div BlockSize]][k % BlockSize] = call.buf[k]
  <2> DEFINE j == k \div BlockSize
             c == k % BlockSize
  <2>1. k \in Nat /\ k < Len(call.buf)
    BY <1>3
  <2>2. j \in 0..(BlocksFor(Len(call.buf)) - 1) /\ c \in Cell
    BY <1>3, <2>1, PlaceOf
  <2>3. c \div SectorSize \in 0..LastSector
    BY <2>2, CellSector
  <2>4. j = call.i => cells[c] = call.buf[k]
    BY <1>2, <1>3, FreshCellIs
  <2>5. j < call.i \/ (j = call.i /\ c \div SectorSize < call.sector)
           => block[call.node.dbp[j]][c] = call.buf[k]
    BY <1>2 DEF Filled
  <2>6. j < call.i \/ (j = call.i /\ c \div SectorSize < call.sector + 1)
    BY <1>8
  <2>7. j \in Slot /\ call.node.dbp[j] \in 0..Blocks
    BY <1>4, <2>2
  <2> HIDE DEF j, c, cells
  <2>8. block'[call.node.dbp[j]][c] = IF call.node.dbp[j] = b /\ c \div SectorSize = call.sector
                                      THEN cells[c] ELSE block[call.node.dbp[j]][c]
    BY <1>6, <2>2, <2>7
  <2>9. CASE j < call.i
    <3>1. j # call.i
      BY <1>3, <2>7, <2>9 DEF Slot
    <3> QED
      BY <1>7, <2>5, <2>7, <2>8, <2>9, <3>1 DEF j, c
  <2>10. CASE j = call.i /\ c \div SectorSize < call.sector
    <3>1. c \div SectorSize # call.sector
      BY <1>1, <2>3, <2>10
    <3> QED
      BY <2>5, <2>8, <2>10, <3>1 DEF j, c
  <2>11. CASE j = call.i /\ c \div SectorSize = call.sector
    BY <2>4, <2>8, <2>11 DEF j, c
  <2>12. \/ c \div SectorSize < call.sector \/ c \div SectorSize = call.sector
         \/ ~(c \div SectorSize < call.sector + 1)
    BY <1>1, <2>3
  <2> QED
    BY <2>6, <2>9, <2>10, <2>11, <2>12
<1> QED
  BY <1>8 DEF Filled

(* Filled to the end, the file holds what was given. *)
LEMMA FilledIs ==
    ASSUME Groups = 1, NEW buf \in Buffers, NEW node \in Node, node.size = Len(buf),
           BlocksFor(Len(buf)) <= Direct,
           NEW blk, NEW c, c.buf = buf, c.node = node,
           NEW i \in Nat, i + 1 >= BlocksFor(Len(buf)), Filled(blk, c, i, LastSector + 1)
    PROVE  BytesOf(blk, node) = buf
<1>1. Len(buf) \in Nat /\ DOMAIN buf = 0..(Len(buf) - 1) /\ Direct \in Nat
  BY Lengths, Ext2Assumption
<1>2. BlocksFor(Len(buf)) \in Nat
  BY <1>1, BlocksForIs
<1>3. ASSUME NEW k \in 0..(Len(buf) - 1)
      PROVE  blk[Pointer(node, k \div BlockSize)][k % BlockSize] = buf[k]
  <2> DEFINE j == k \div BlockSize
  <2>1. k \in Nat /\ k < Len(buf)
    BY <1>1
  <2>2. j \in 0..(BlocksFor(Len(buf)) - 1) /\ k % BlockSize \in Cell
    BY <1>1, <2>1, PlaceOf
  <2>3. (k % BlockSize) \div SectorSize \in 0..LastSector
    BY <2>2, CellSector
  <2>4. (k % BlockSize) \div SectorSize < LastSector + 1
    BY <2>3, SectorsAre
  <2>5. Filled(blk, c, i, LastSector + 1) =>
           (j < i \/ (j = i /\ (k % BlockSize) \div SectorSize < LastSector + 1)
               => blk[node.dbp[j]][k % BlockSize] = buf[k])
    BY DEF Filled
  <2> HIDE DEF j
  <2>6. (j < i \/ j = i) /\ j < Direct
    BY <1>1, <1>2, <2>2
  <2>7. Pointer(node, j) = node.dbp[j]
    BY <2>6 DEF Pointer
  <2> QED
    BY <2>4, <2>5, <2>6, <2>7 DEF j
<1>4. buf = [k \in 0..(Len(buf) - 1) |-> buf[k]]
  BY <1>1, BuffersAssumption
<1>5. BytesOf(blk, node) = [k \in 0..(Len(buf) - 1) |-> buf[k]]
  <2>1. DirectBytes(node) = Len(buf)
    BY <1>1, FreshDirect
  <2> QED
    BY <1>3, <2>1 DEF BytesOf
<1> QED
  BY <1>4, <1>5

(* A block behind another is begun. *)
LEMMA FilledOn ==
    ASSUME NEW c, c.buf \in Buffers, NEW blk, NEW i \in Nat, Filled(blk, c, i, LastSector + 1)
    PROVE  Filled(blk, c, i + 1, 0)
<1>1. ASSUME NEW k \in 0..(Len(c.buf) - 1),
             \/ k \div BlockSize < i + 1
             \/ k \div BlockSize = i + 1 /\ (k % BlockSize) \div SectorSize < 0
      PROVE  \/ k \div BlockSize < i
             \/ k \div BlockSize = i /\ (k % BlockSize) \div SectorSize < LastSector + 1
  <2>1. k \in Nat /\ Len(c.buf) \in Nat /\ k < Len(c.buf)
    BY Lengths
  <2>2. k \div BlockSize \in 0..(BlocksFor(Len(c.buf)) - 1) /\ k % BlockSize \in Cell
    BY <2>1, PlaceOf
  <2>3. (k % BlockSize) \div SectorSize \in 0..LastSector
    BY <2>2, CellSector
  <2> QED
    BY <1>1, <2>2, <2>3, SectorsAre
<1> QED
  BY <1>1 DEF Filled
-----------------------------------------------------------------------------
(* Every step of a served call leaves its disk as the mapping reads it.    *)
LEMMA NextSizes ==
    ASSUME NEW c \in FreshCall, FreshFits(c), c.node.size = 0,
           NEW d, d = NextToAllocate(c)
    PROVE  /\ d.sector = c.sector /\ d.buf = c.buf
           /\ d.pc = "commit" => d.i = 0 /\ d.node.size = Len(d.buf)
<1>1. c.node \in Node /\ c.buf \in Buffers
  BY FreshIs
<1>2. Len(c.buf) \in Nat
  BY <1>1, Lengths
<1>3. CASE c.i + 1 < BlocksFor(Len(c.buf))
  BY <1>3 DEF NextToAllocate, FreshCall
<1>4. CASE ~(c.i + 1 < BlocksFor(Len(c.buf)))
  <2>1. d = [c EXCEPT !.pc = "commit", !.i = 0, !.node.size = @ + Len(c.buf)]
    BY <1>4 DEF NextToAllocate
  <2>2. d.buf = c.buf /\ d.i = 0 /\ d.sector = c.sector
        /\ d.node = [c.node EXCEPT !.size = @ + Len(c.buf)]
    BY <2>1 DEF FreshCall
  <2>3. d.node.size = 0 + Len(c.buf)
    BY <1>1, <2>2 DEF Node
  <2> QED
    BY <1>2, <2>2, <2>3
<1> QED
  BY <1>3, <1>4

LEMMA IdleFresh == ASSUME call = Idle PROVE Fresh /\ Appending
<1>1. call.pc = "idle"
  BY DEF Idle
<1> QED
  BY <1>1 DEF Fresh, Appending

LEMMA BeginFreshRInv ==
    ASSUME Groups = 1, RInv, NEW n \in Name, NEW b \in Buffers, Served(n, b), BeginFresh(n, b)
    PROVE  Fresh' /\ Appending'
<1>1. /\ call' = [pc |-> "count", name |-> n, buf |-> b, node |-> inode[n],
                  i |-> 0, sector |-> 0]
      /\ inode' = inode /\ inode[n].size = 0
  BY ServedFreshIs DEF BeginFresh, disk, RInv
<1>2. call'.pc = "count" /\ call'.name = n /\ call'.sector = 0
  BY <1>1
<1> QED
  BY <1>1, <1>2 DEF Fresh, Appending

LEMMA OffsetIs ==
    ASSUME NEW node \in Node
    PROVE  /\ TailOffset(node) \in Cell /\ TailOffset(node) \in Nat
           /\ node.size \div BlockSize \in Nat /\ node.size \in Nat
<1>1. node.size \in Nat /\ BlockSize \in Nat \ {0}
  BY NodeIs, Ext2Assumption
<1>2. node.size % BlockSize \in 0..(BlockSize - 1) /\ node.size \div BlockSize \in Nat
  BY <1>1, Divided
<1> QED
  BY <1>1, <1>2 DEF TailOffset, Cell

LEMMA BeginAppendRInv ==
    ASSUME Groups = 1, RInv, NEW n \in Name, NEW b \in Buffers, Served(n, b), BeginAppend(n, b)
    PROVE  Fresh' /\ Appending'
<1>1. /\ call'.pc = "append" /\ call'.name = n /\ call'.sector = 0 /\ call'.buf = b
      /\ call'.node = inode[n] /\ inode' = inode
  BY ServedAppendIs DEF RInv
<1>2. inode[n] \in Node
  BY StateIs DEF RInv, SInv
<1>3. TailBlock(inode[n]) # 0 /\ TailOffset(inode[n]) + Len(b) <= BlockSize
  BY ServedAppendIs DEF RInv
<1>5. Appended(block', inode[n], b, 0)
  <2>1. ASSUME NEW d \in 0..(Len(b) - 1) PROVE ~((TailOffset(inode[n]) + d) \div SectorSize < 0)
    <3>1. TailOffset(inode[n]) + d \in Nat
      <4>1. TailOffset(inode[n]) \in Nat
        BY <1>2, OffsetIs
      <4>2. d \in Nat
        BY Lengths
      <4> QED
        BY <4>1, <4>2
    <3> DEFINE x == TailOffset(inode[n]) + d
    <3>2. x \in Nat
      BY <3>1
    <3> HIDE DEF x
    <3>3. x \div SectorSize \in Nat
      BY <3>2, Divided, Ext2Assumption
    <3>4. ~(x \div SectorSize < 0)
      BY <3>3
    <3> QED
      BY <3>4 DEF x
  <2> QED
    BY <2>1 DEF Appended
<1> QED
  BY <1>1, <1>3, <1>5 DEF Fresh, Appending

LEMMA CountGroupRInv == ASSUME Groups = 1, RInv, CountGroup PROVE Fresh' /\ Appending'
<1>1. /\ call.pc = "count" /\ call'.pc = "total" /\ call'.name = call.name /\ inode' = inode
      /\ call \in FreshCall
  BY CountGroupIs DEF RInv, SInv
<1>2. call'.sector = call.sector
  BY <1>1 DEF CountGroup, FreshCall, At
<1> QED
  BY <1>1, <1>2 DEF RInv, Fresh, Appending

LEMMA CountTotalRInv == ASSUME Groups = 1, RInv, CountTotal PROVE Fresh' /\ Appending'
<1>1. call.pc = "total" /\ call' = NextToAllocate(call) /\ inode' = inode
  BY DEF CountTotal, At
<1>2. call \in FreshCall /\ FreshFits(call) /\ call.node.size = 0
  BY <1>1, PhaseFresh DEF RInv, SInv, IInv, FreshFits
<1>3. call'.pc \in {"count", "commit"} /\ call'.name = call.name
  BY <1>1, <1>2, NextAllocates
<1>4. /\ call'.sector = call.sector
      /\ call'.pc = "commit" => call'.i = 0 /\ call'.node.size = Len(call'.buf)
  BY <1>1, <1>2, NextSizes
<1> QED
  BY <1>1, <1>3, <1>4 DEF RInv, Fresh, Appending

LEMMA CommitIs ==
    ASSUME Groups = 1, RInv, Commit
    PROVE  /\ call \in FreshCall /\ FreshFits(call) /\ call.pc = "commit" /\ call.name \in File
           /\ call'.pc = "fill" /\ call'.name = call.name /\ call'.node = call.node
           /\ call'.buf = call.buf /\ call'.i = call.i /\ call'.sector = call.sector
           /\ inode' = [inode EXCEPT ![call.name] = call.node] /\ block' = block
           /\ outages' = outages
<1>1. /\ call.pc = "commit" /\ InodeWritten(call.name, call.node)
      /\ call' = [call EXCEPT !.pc = "fill"] /\ outages' = outages
  BY DEF Commit, At
<1>2. call \in FreshCall /\ FreshFits(call) /\ call # Idle
  BY <1>1, PhaseFresh, FreshIs DEF RInv, SInv, IInv
<1>3. call.name \in File
  BY <1>2 DEF RInv, SInv, ServedOK
<1>4. inode' = [inode EXCEPT ![call.name] = call.node] /\ block' = block
  BY <1>1, <1>3, FileIs DEF InodeWritten
<1> QED
  BY <1>1, <1>2, <1>3, <1>4 DEF FreshCall

LEMMA CommitRInv == ASSUME Groups = 1, RInv, Commit PROVE Fresh' /\ Appending'
<1>1. /\ call \in FreshCall /\ call.pc = "commit" /\ call.name \in Name
      /\ call'.pc = "fill" /\ call'.name = call.name /\ call'.node = call.node
      /\ call'.buf = call.buf /\ call'.i = call.i /\ call'.sector = call.sector
      /\ inode' = [inode EXCEPT ![call.name] = call.node]
  BY CommitIs, FileIs
<1>2. inode'[call.name] = call.node
  BY <1>1, StateIs DEF RInv, SInv
<1>3. call'.i = 0 /\ call'.sector = 0 /\ call'.node.size = Len(call'.buf)
  BY <1>1 DEF RInv, Fresh
<1>4. Filled(block', call', 0, 0)
  <2>1. ASSUME NEW k \in 0..(Len(call'.buf) - 1)
        PROVE ~(k \div BlockSize < 0)
              /\ ~(k \div BlockSize = 0 /\ (k % BlockSize) \div SectorSize < 0)
    <3>1. Len(call'.buf) \in Nat
      BY <1>1, FreshIs, Lengths
    <3>2. k \in Nat /\ k < Len(call'.buf)
      BY <3>1
    <3>3. k \div BlockSize \in 0..(BlocksFor(Len(call'.buf)) - 1) /\ k % BlockSize \in Cell
      BY <3>1, <3>2, PlaceOf
    <3>4. (k % BlockSize) \div SectorSize \in 0..LastSector
      BY <3>3, CellSector
    <3> QED
      BY <3>3, <3>4
  <2> QED
    BY <2>1 DEF Filled
<1> QED
  BY <1>1, <1>2, <1>3, <1>4 DEF Fresh, Appending

LEMMA FillRInv == ASSUME Groups = 1, RInv, Fill PROVE Fresh' /\ Appending'
<1>1. /\ call # Idle /\ call.pc = "fill" /\ call.i \in Nat /\ call.sector \in 0..LastSector
      /\ call.buf \in Buffers /\ call.name \in Name
      /\ \/ /\ call' = Idle /\ call.sector = LastSector
            /\ call.i + 1 >= BlocksFor(Len(call.buf))
         \/ /\ call' # Idle /\ call'.pc = "fill" /\ call'.name = call.name
            /\ call'.node = call.node /\ call'.buf = call.buf
            /\ \/ call'.i = call.i /\ call'.sector = call.sector + 1
               \/ /\ call'.i = call.i + 1 /\ call'.sector = 0
                  /\ call.sector = LastSector
  BY FillNext, FillIs, FreshIs DEF RInv, SInv, Slot
<1>2. Filled(block', call, call.i, call.sector + 1)
  BY FilledFurther
<1>3. inode' = inode
  BY DEF Fill, At
<1>4. CASE call' = Idle
  <2>1. call'.pc = "idle"
    BY <1>4 DEF Idle
  <2> QED
    BY <2>1 DEF Fresh, Appending
<1>5. CASE call' # Idle
  <2>1. /\ call'.pc = "fill" /\ call'.name = call.name
        /\ call'.node = call.node /\ call'.buf = call.buf
        /\ \/ call'.i = call.i /\ call'.sector = call.sector + 1
           \/ /\ call'.i = call.i + 1 /\ call'.sector = 0
              /\ call.sector = LastSector
    BY <1>1, <1>5
  <2>2. Filled(block', call, call'.i, call'.sector)
    BY <1>1, <1>2, <2>1, FilledOn
  <2>3. Filled(block', call', call'.i, call'.sector)
    BY <2>1, <2>2 DEF Filled
  <2>4. inode[call.name] = call.node /\ call.node.size = Len(call.buf)
    BY <1>1 DEF RInv, Fresh
  <2> QED
    BY <1>3, <2>1, <2>3, <2>4 DEF Fresh, Appending
<1> QED
  BY <1>4, <1>5

(* An append: the node is the file's, its tail a block of the file.        *)
LEMMA AppendingIs ==
    ASSUME Groups = 1, RInv, call.pc \in {"append", "resize"}
    PROVE  /\ call \in AppendCall /\ call # Idle /\ call.name \in File /\ call.name \in Name
           /\ call.node \in Node /\ call.buf \in Buffers /\ call.sector \in 0..LastSector
           /\ inode[call.name] \in Node /\ call.node.dbp = inode[call.name].dbp
           /\ TailBlock(inode[call.name]) # 0
           /\ TailOffset(inode[call.name]) + Len(call.buf) <= BlockSize
           /\ inode[call.name].size \div BlockSize \in Slot
           /\ TailBlock(inode[call.name]) = call.node.dbp[inode[call.name].size \div BlockSize]
           /\ TailBlock(inode[call.name]) \in 0..Blocks
           /\ call.pc = "append" =>
                 /\ call.node = inode[call.name]
                 /\ call.last = TailBlock(call.node) /\ ~call.moved
<1>1. call \in AppendCall
  BY PhaseAppend DEF RInv, SInv, IInv
<1>2. /\ call # Idle /\ call.name \in Name /\ call.node \in Node /\ call.buf \in Buffers
      /\ call.sector \in 0..LastSector
  BY <1>1, AppendIs
<1>3. call.name \in File /\ inode[call.name] \in Node
  BY <1>2, StateIs DEF RInv, SInv, ServedOK
<1>4. /\ TailBlock(inode[call.name]) # 0
      /\ TailOffset(inode[call.name]) + Len(call.buf) <= BlockSize
      /\ call.node.dbp = inode[call.name].dbp
      /\ call.pc = "append" => call.node.size = inode[call.name].size
  BY DEF RInv, Appending
<1>5. call.pc = "append" => call.node = inode[call.name]
  BY <1>2, <1>3, <1>4 DEF Node
<1>6. inode[call.name].size \div BlockSize \in Nat
  BY <1>3, OffsetIs
<1>10. call.pc = "append" => call.last = TailBlock(call.node) /\ ~call.moved
  BY <1>2 DEF RInv, SInv, ServedOK
<1> DEFINE node == inode[call.name]
           j == node.size \div BlockSize
<1>7. TailBlock(node) = Pointer(node, j) /\ j \in Nat /\ node \in Node
  BY <1>3, <1>6 DEF TailBlock, Last
<1>8. TailBlock(node) # 0
  BY <1>4
<1> HIDE DEF j, node
<1>9. j \in Slot /\ TailBlock(node) = node.dbp[j] /\ TailBlock(node) \in 0..Blocks
  BY <1>7, <1>8, PointerTyped
<1> QED
  BY <1>1, <1>2, <1>3, <1>4, <1>5, <1>9, <1>10 DEF j, node

LEMMA AppendDataNext ==
    ASSUME Groups = 1, RInv, AppendData
    PROVE  /\ call.pc = "append" /\ inode' = inode /\ outages' = outages
           /\ call'.name = call.name /\ call'.buf = call.buf
           /\ call'.node.dbp = call.node.dbp
           /\ \/ /\ call'.pc = "append" /\ call'.node = call.node
                 /\ call'.sector = call.sector + 1
              \/ /\ call'.pc = "resize" /\ call.sector = LastSector
                 /\ call'.node.size = call.node.size + Len(call.buf)
<1>1. call.pc = "append" /\ inode' = inode /\ outages' = outages
  BY DEF AppendData, At
<1>2. call \in AppendCall /\ call.node \in Node /\ call.sector \in 0..LastSector
  BY <1>1, AppendingIs
<1>3. call'.node.dbp = call.node.dbp
  BY AppendDataIs DEF RInv, SInv
<1>4. CASE call.sector < LastSector
  <2>1. call' = [call EXCEPT !.sector = @ + 1]
    BY <1>4 DEF AppendData, At
  <2> QED
    BY <1>1, <1>2, <1>3, <2>1 DEF AppendCall
<1>5. CASE ~(call.sector < LastSector)
  <2>1. call' = [call EXCEPT !.pc = "resize", !.node.size = @ + Len(call.buf)]
    BY <1>5 DEF AppendData, At
  <2>2. call.sector = LastSector
    BY <1>2, <1>5, SectorsAre
  <2>3. /\ call'.pc = "resize" /\ call'.name = call.name /\ call'.buf = call.buf
        /\ call'.node = [call.node EXCEPT !.size = @ + Len(call.buf)]
    BY <1>2, <2>1 DEF AppendCall
  <2>4. call'.node.size = call.node.size + Len(call.buf)
    BY <1>2, <2>3 DEF Node
  <2> QED
    BY <1>1, <1>3, <2>2, <2>3, <2>4
<1> QED
  BY <1>4, <1>5

(* What an append puts over the cells of the tail. *)
LEMMA TailCells ==
    ASSUME NEW node \in Node, NEW buf \in Buffers, TailOffset(node) + Len(buf) <= BlockSize,
           NEW cells, NEW new, new = Overlay(cells, TailOffset(node), buf, 0, Len(buf))
    PROVE  /\ \A c \in Cell : c < TailOffset(node) => new[c] = cells[c]
           /\ \A d \in 0..(Len(buf) - 1) :
                 TailOffset(node) + d \in Cell /\ new[TailOffset(node) + d] = buf[d]
<1> DEFINE at == TailOffset(node)
           len == Len(buf)
<1>1. at \in Nat /\ len \in Nat /\ DOMAIN buf = 0..(len - 1) /\ BlockSize \in Nat
  BY OffsetIs, Lengths, Ext2Assumption
<1>2. \A c \in Cell : new[c] = IF c \in at..(at + len - 1)
                               THEN IF 0 + c - at \in DOMAIN buf THEN buf[0 + c - at] ELSE Junk
                               ELSE cells[c]
  BY DEF Overlay
<1>3. at + len <= BlockSize
  OBVIOUS
<1> HIDE DEF at, len
<1>4. \A c \in Cell : c < at => new[c] = cells[c]
  BY <1>1, <1>2 DEF Cell
<1>5. ASSUME NEW d \in 0..(len - 1) PROVE at + d \in Cell /\ new[at + d] = buf[d]
  <2>1. at + d \in Cell /\ at + d \in at..(at + len - 1) /\ 0 + (at + d) - at = d
    BY <1>1, <1>3 DEF Cell
  <2> QED
    BY <1>1, <1>2, <2>1
<1> QED
  BY <1>4, <1>5 DEF at, len

LEMMA AppendDataRInv == ASSUME Groups = 1, RInv, AppendData PROVE Fresh' /\ Appending'
<1>1. /\ call.pc = "append" /\ inode' = inode
      /\ call'.name = call.name /\ call'.buf = call.buf /\ call'.node.dbp = call.node.dbp
      /\ \/ /\ call'.pc = "append" /\ call'.node = call.node
            /\ call'.sector = call.sector + 1
         \/ /\ call'.pc = "resize" /\ call.sector = LastSector
            /\ call'.node.size = call.node.size + Len(call.buf)
  BY AppendDataNext
<1>2. /\ call.name \in Name /\ call.node \in Node /\ call.buf \in Buffers
      /\ call.sector \in 0..LastSector /\ call.node = inode[call.name]
      /\ TailBlock(call.node) # 0 /\ TailOffset(call.node) + Len(call.buf) <= BlockSize
      /\ TailBlock(call.node) \in 0..Blocks
      /\ call.last = TailBlock(call.node) /\ ~call.moved
  BY <1>1, AppendingIs
<1> DEFINE b == TailBlock(call.node)
           cells == Overlay(block[b], TailOffset(call.node), call.buf, 0, Len(call.buf))
<1>3. \A p \in 0..Blocks, c \in Cell :
         block'[p][c] = IF p = b /\ c \div SectorSize = call.sector THEN cells[c] ELSE block[p][c]
  <2>1. block' = SectorWritten(b, call.sector, cells)
    BY <1>2 DEF AppendData, At
  <2> HIDE DEF b, cells
  <2>2. b \in 0..Blocks
    BY <1>2 DEF b
  <2> QED
    BY <2>1, <2>2, SectorIs DEF RInv, SInv
<1>4. \A d \in 0..(Len(call.buf) - 1) :
         /\ TailOffset(call.node) + d \in Cell
         /\ cells[TailOffset(call.node) + d] = call.buf[d]
  BY <1>2, TailCells
<1>5. Appended(block, call.node, call.buf, call.sector)
  BY <1>1, <1>2 DEF RInv, Appending
<1>6. Appended(block', call.node, call.buf, call.sector + 1)
  <2> SUFFICES ASSUME NEW d \in 0..(Len(call.buf) - 1),
                      (TailOffset(call.node) + d) \div SectorSize < call.sector + 1
               PROVE  block'[b][TailOffset(call.node) + d] = call.buf[d]
    BY DEF Appended
  <2> DEFINE c == TailOffset(call.node) + d
  <2>1. c \in Cell /\ cells[c] = call.buf[d] /\ b \in 0..Blocks
    BY <1>2, <1>4
  <2>2. c \div SectorSize < call.sector => block[b][c] = call.buf[d]
    BY <1>5 DEF Appended
  <2>3. c \div SectorSize < call.sector + 1
    OBVIOUS
  <2> HIDE DEF c, b, cells
  <2>4. c \div SectorSize \in 0..LastSector
    BY <2>1, CellSector
  <2>5. c \div SectorSize < call.sector \/ c \div SectorSize = call.sector
    BY <1>2, <2>3, <2>4
  <2>6. block'[b][c] = call.buf[d]
    BY <1>3, <2>1, <2>2, <2>5
  <2> QED
    BY <2>6 DEF c
<1>7. CASE call'.pc = "append"
  <2>1. call'.node = call.node /\ call'.sector = call.sector + 1
    BY <1>1, <1>7
  <2> QED
    BY <1>1, <1>2, <1>6, <1>7, <2>1 DEF Fresh, Appending
<1>8. CASE call'.pc = "resize"
  <2>1. /\ call.sector = LastSector
        /\ call'.node.size = call.node.size + Len(call.buf)
    BY <1>1, <1>8
  <2> QED
    BY <1>1, <1>2, <1>6, <1>8, <2>1 DEF Fresh, Appending
<1> QED
  BY <1>1, <1>7, <1>8

LEMMA ServedRInv == ASSUME Groups = 1, RInv, [ServedNext]_vars PROVE RInv'
<1>1. SInv'
  BY ServedSInv DEF RInv
<1>2. CASE \E n \in Name, b \in Buffers : ServedCall(n, b)
  BY <1>1, <1>2, BeginFreshRInv, BeginAppendRInv DEF ServedCall, RInv
<1>3. CASE CountGroup
  BY <1>1, <1>3, CountGroupRInv DEF RInv
<1>4. CASE CountTotal
  BY <1>1, <1>4, CountTotalRInv DEF RInv
<1>5. CASE NoneFree
  BY <1>5, ServedNoneFree DEF RInv
<1>6. CASE Commit
  BY <1>1, <1>6, CommitRInv DEF RInv
<1>7. CASE Fill
  BY <1>1, <1>7, FillRInv DEF RInv
<1>8. CASE AppendData
  BY <1>1, <1>8, AppendDataRInv DEF RInv
<1>9. CASE Resize \/ Outage
  <2>1. call' = Idle
    BY <1>9 DEF Resize, Outage, At
  <2>2. call'.pc = "idle"
    BY <2>1 DEF Idle
  <2> QED
    BY <1>1, <2>2 DEF RInv, Fresh, Appending
<1>10. CASE UNCHANGED vars
  <2>1. inode' = inode /\ block' = block /\ call' = call
    BY <1>10 DEF vars
  <2> QED
    BY <1>1, <2>1 DEF RInv, Fresh, Appending, Filled, Appended
<1> QED
  BY <1>2, <1>3, <1>4, <1>5, <1>6, <1>7, <1>8, <1>9, <1>10 DEF ServedNext, Step
-----------------------------------------------------------------------------
(* The state the mapping reads.                                            *)
Held  == [f \in File |-> Content(f)]
Under == IF call.pc = "fill" THEN [file |-> call.name, buf |-> call.buf]
         ELSE [file |-> "none", buf |-> << >>]

LEMMA ContentIs ==
    ASSUME NEW blk, NEW node \in Node
    PROVE  [k \in 0..(DirectBytes(node) - 1) |-> blk[node.dbp[k \div BlockSize]][k % BlockSize]]
               = BytesOf(blk, node)
<1>1. \A k \in 0..(DirectBytes(node) - 1) :
         Pointer(node, k \div BlockSize) = node.dbp[k \div BlockSize]
  BY DirectByte
<1> QED
  BY <1>1 DEF BytesOf

LEMMA HeldIs ==
    ASSUME inode \in [Name -> Node]
    PROVE  /\ \A f \in File : Held[f] = BytesOf(block, inode[f])
           /\ Held = [f \in File |-> BytesOf(block, inode[f])]
<1>1. \A f \in File : Content(f) = BytesOf(block, inode[f])
  BY ContentIs, FileIs DEF Content
<1> QED
  BY <1>1 DEF Held

LEMMA HeldNext ==
    ASSUME inode' \in [Name -> Node]
    PROVE  Held' = [f \in File |-> BytesOf(block', inode'[f])]
<1>1. \A f \in File : Content(f)' = BytesOf(block', inode'[f])
  BY ContentIs, FileIs DEF Content
<1> QED
  BY <1>1 DEF Held

LEMMA SameHeld ==
    ASSUME inode \in [Name -> Node], inode' \in [Name -> Node],
           \A f \in File : BytesOf(block', inode'[f]) = BytesOf(block, inode[f])
    PROVE  Held' = Held
  BY HeldIs, HeldNext

(* The bytes of one file change. *)
LEMMA OneHeld ==
    ASSUME inode \in [Name -> Node], inode' \in [Name -> Node],
           NEW n \in File, NEW bytes, BytesOf(block', inode'[n]) = bytes,
           \A f \in File : f # n => BytesOf(block', inode'[f]) = BytesOf(block, inode[f])
    PROVE  Held' = [Held EXCEPT ![n] = bytes] /\ Held'[n] = bytes
<1>1. \A f \in File : Held'[f] = IF f = n THEN bytes ELSE Held[f]
  BY HeldIs, HeldNext
<1> QED
  BY <1>1, HeldIs, HeldNext

LEMMA Stutters ==
    ASSUME Held' = Held, Under' = Under, outages' = outages
    PROVE  [Store!Next]_(Store!vars)
  BY DEF Held, Under, Store!vars

LEMMA BufferIs ==
    ASSUME NEW buf \in Buffers
    PROVE  buf # << >> /\ [file |-> "none", buf |-> << >>] # [file |-> "none", buf |-> buf]
<1>1. Len(buf) \in Nat \ {0} /\ DOMAIN buf = 0..(Len(buf) - 1)
  BY Lengths
<1>2. 0 \in DOMAIN buf
  BY <1>1
<1> DEFINE none == << >>
<1>3. 0 \notin DOMAIN none
  OBVIOUS
<1>4. buf # none
  BY <1>2, <1>3
<1> QED
  BY <1>4

LEMMA InitStore == ASSUME Groups = 1, Init PROVE Store!Init
<1>1. block = [b \in 0..Blocks |-> [c \in Cell |-> Old]] /\ inode = InodeAt
      /\ call = Idle /\ outages = 0 /\ inode \in [Name -> Node]
  BY Ext2Assumption DEF Init, Untouched
<1>2. call.pc # "fill"
  BY <1>1 DEF Idle
<1>3. ASSUME NEW f \in File
      PROVE  BytesOf(block, inode[f]) = [k \in 0..(DirectBytes(InodeAt[f]) - 1) |-> Old]
  <2>1. f \in Name /\ InodeAt[f] \in Node
    BY FileIs, Ext2Assumption
  <2>2. ASSUME NEW k \in 0..(DirectBytes(InodeAt[f]) - 1)
        PROVE  block[Pointer(InodeAt[f], k \div BlockSize)][k % BlockSize] = Old
    <3>1. BlockSize \in Nat \ {0} /\ k \in Nat
      BY <2>1, DirectByte, Ext2Assumption
    <3>2. k \div BlockSize \in Nat /\ k % BlockSize \in Cell
      BY <3>1, Divided DEF Cell
    <3>3. Pointer(InodeAt[f], k \div BlockSize) \in 0..Blocks
      BY <2>1, <3>2, PointerTyped
    <3> QED
      BY <1>1, <3>2, <3>3
  <2> QED
    BY <1>1, <2>2 DEF BytesOf
<1>4. Held = [f \in File |-> [k \in 0..(DirectBytes(InodeAt[f]) - 1) |-> Old]]
  BY <1>1, <1>3, HeldIs
<1> QED
  BY <1>1, <1>2, <1>4 DEF Store!Init, Store!Nothing, Held

(* The inode of a file that was empty is written: its blocks show as its   *)
(* bytes, whatever they hold.                                              *)
LEMMA CommitStore == ASSUME Groups = 1, RInv, Commit PROVE Store!Next
<1>1. /\ call \in FreshCall /\ call.pc = "commit" /\ call.name \in File /\ call.name \in Name
      /\ call.node \in Node /\ call.buf \in Buffers
      /\ call'.pc = "fill" /\ call'.name = call.name /\ call'.buf = call.buf
      /\ inode' = [inode EXCEPT ![call.name] = call.node] /\ block' = block
      /\ outages' = outages
  BY CommitIs, FreshIs, FileIs
<1>2. /\ inode \in [Name -> Node] /\ block \in [0..Blocks -> [Cell -> Value]]
      /\ inode' \in [Name -> Node]
      /\ inode[call.name].size = 0 /\ call.node.size = Len(call.buf)
  BY <1>1, StateIs DEF RInv, SInv, Fresh
<1>3. inode'[call.name] = call.node /\ \A f \in File : f # call.name => inode'[f] = inode[f]
  BY <1>1, <1>2, FileIs
<1>4. Held[call.name] = << >>
  <2>1. 0..(0 - 1) = {}
    OBVIOUS
  <2>2. DirectBytes(inode[call.name]) = 0
    BY <1>1, <1>2, DirectBytesIs
  <2>3. BytesOf(block, inode[call.name]) = << >>
    BY <2>1, <2>2 DEF BytesOf
  <2> QED
    BY <1>1, <1>2, <2>3, HeldIs
<1> DEFINE bytes == BytesOf(block, call.node)
<1>5. bytes \in [DOMAIN call.buf -> Value]
  <2>1. BlocksFor(Len(call.buf)) <= Direct
    BY CommitIs DEF FreshFits
  <2>2. DirectBytes(call.node) = Len(call.buf)
    BY <1>1, <1>2, <2>1, FreshDirect, Lengths
  <2> QED
    BY <1>1, <1>2, <2>2, BytesTyped, Lengths
<1> HIDE DEF bytes
<1>6. Held' = [Held EXCEPT ![call.name] = bytes] /\ Held'[call.name] = bytes
  <2>1. BytesOf(block', inode'[call.name]) = bytes
    BY <1>1, <1>3 DEF bytes
  <2>2. \A f \in File : f # call.name => BytesOf(block', inode'[f]) = BytesOf(block, inode[f])
    BY <1>1, <1>3
  <2> QED
    BY <1>1, <1>2, <2>1, <2>2, OneHeld
<1>7. /\ Under = [file |-> "none", buf |-> << >>]
      /\ Under' = [file |-> call.name, buf |-> call.buf]
  BY <1>1 DEF Under
<1>8. /\ Held' = [Held EXCEPT ![call.name] = Held'[call.name]]
      /\ DOMAIN Held'[call.name] = DOMAIN call.buf
      /\ Held'[call.name] \in [DOMAIN call.buf -> Value]
  BY <1>5, <1>6
<1>9. Store!Create(call.name, call.buf)
  BY <1>1, <1>4, <1>7, <1>8 DEF Store!Create, Store!Nothing, Held, Under
<1> QED
  BY <1>1, <1>9 DEF Store!Next

(* A sector of a fresh block is in no other file. *)
LEMMA FillStore == ASSUME Groups = 1, RInv, Fill PROVE Store!Next
<1>1. /\ call # Idle /\ call.pc = "fill" /\ call.i \in Slot /\ call.sector \in 0..LastSector
      /\ \/ /\ call' = Idle /\ call.sector = LastSector
            /\ call.i + 1 >= BlocksFor(Len(call.buf))
         \/ /\ call'.pc = "fill" /\ call'.name = call.name /\ call'.buf = call.buf
  BY FillNext DEF RInv, SInv
<1>2. /\ call.buf \in Buffers /\ call.node \in Node /\ call.name \in File
      /\ call.node.size = Len(call.buf) /\ inode[call.name] = call.node
      /\ FreshFits(call) /\ call.i \in Nat
  BY <1>1, FillIs, FreshIs DEF RInv, SInv, ServedOK, Fresh, Slot
<1>3. /\ inode' = inode /\ outages' = outages /\ inode \in [Name -> Node]
      /\ block' = SectorWritten(call.node.dbp[call.i], call.sector,
                                FreshCells(call.node, call.buf, call.i))
  BY StateIs DEF Fill, At, RInv, SInv
<1>4. call.node.dbp[call.i] # 0 /\ call.node.dbp[call.i] \in 0..Blocks
  <2>1. call.i \in 0..(BlocksFor(Len(call.buf)) - 1)
    BY <1>2, Lengths, BlocksForIs DEF FreshFits
  <2> QED
    BY <1>1, <1>2, <2>1, NodeIs DEF RInv, SInv, ServedOK
<1>5. ASSUME NEW f \in File, f # call.name
      PROVE  BytesOf(block', inode'[f]) = BytesOf(block, inode[f])
  <2>1. inode[f] \in Node
    BY StateIs, FileIs DEF RInv, SInv
  <2> DEFINE b == call.node.dbp[call.i]
             cells == FreshCells(call.node, call.buf, call.i)
             new == SectorWritten(b, call.sector, cells)
  <2>2. ASSUME NEW k \in 0..(inode[f].size - 1)
        PROVE  Pointer(inode[f], k \div BlockSize) # b
    <3>1. k \in Nat /\ BlockSize \in Nat \ {0}
      BY <2>1, NodeIs, Ext2Assumption
    <3>2. k \div BlockSize \in Nat
      BY <3>1, Divided
    <3> QED
      BY <1>1, <1>2, <1>4, <1>5, <3>2, OtherPointers DEF RInv, SInv
  <2>3. b \in 0..Blocks /\ block' = new
    BY <1>3, <1>4
  <2> HIDE DEF b, cells
  <2>4. BytesOf(new, inode[f]) = BytesOf(block, inode[f])
    BY <2>1, <2>2, <2>3, BytesKept DEF RInv, SInv
  <2> QED
    BY <1>3, <2>3, <2>4
<1> DEFINE bytes == BytesOf(block', call.node)
<1>6. bytes \in [DOMAIN call.buf -> Value]
  <2>1. block' \in [0..Blocks -> [Cell -> Value]]
    <3>1. SInv'
      BY ServedSInv DEF RInv, ServedNext, Step
    <3> QED
      BY <3>1 DEF SInv, IInv, TypeOK
  <2> DEFINE blk == block'
  <2>2. blk \in [0..Blocks -> [Cell -> Value]]
    BY <2>1
  <2> HIDE DEF blk
  <2>3. BytesOf(blk, call.node) \in [0..(DirectBytes(call.node) - 1) -> Value]
    BY <1>2, <2>2, BytesTyped
  <2>4. DirectBytes(call.node) = Len(call.buf)
    BY <1>2, FreshDirect, Lengths DEF FreshFits
  <2> QED
    BY <1>2, <2>3, <2>4, Lengths DEF blk
<1> HIDE DEF bytes
<1>7. Held' = [Held EXCEPT ![call.name] = bytes] /\ Held'[call.name] = bytes
  <2>1. BytesOf(block', inode'[call.name]) = bytes
    BY <1>2, <1>3 DEF bytes
  <2> QED
    BY <1>2, <1>3, <1>5, <2>1, OneHeld
<1>8. /\ Under = [file |-> call.name, buf |-> call.buf]
      /\ Under # [file |-> "none", buf |-> << >>]
  BY <1>1, <1>2, BufferIs DEF Under
<1>9. CASE call' = Idle
  <2>1. Filled(block', call, call.i, LastSector + 1)
    BY <1>1, <1>9, FilledFurther DEF Idle
  <2>2. call.i + 1 >= BlocksFor(Len(call.buf))
    BY <1>1, <1>9 DEF Idle
  <2> DEFINE blk == block'
  <2>3. Filled(blk, call, call.i, LastSector + 1)
    BY <2>1
  <2> HIDE DEF blk
  <2>4. BytesOf(blk, call.node) = call.buf
    BY <1>2, <2>2, <2>3, FilledIs DEF FreshFits
  <2>5. bytes = call.buf
    BY <2>4 DEF blk, bytes
  <2>6. Under' = [file |-> "none", buf |-> << >>]
    BY <1>9 DEF Under, Idle
  <2>7. Held' = [Held EXCEPT ![Under.file] = Under.buf]
    BY <1>7, <1>8, <2>5
  <2>8. Store!Finish
    BY <1>3, <1>8, <2>6, <2>7 DEF Store!Finish, Store!Nothing, Held, Under
  <2> QED
    BY <2>8 DEF Store!Next
<1>10. CASE call'.pc = "fill" /\ call'.name = call.name /\ call'.buf = call.buf
  <2>1. Under' = Under
    BY <1>1, <1>10 DEF Under
  <2>2. /\ Held'[Under.file] \in [DOMAIN Under.buf -> Value]
        /\ Held' = [Held EXCEPT ![Under.file] = Held'[Under.file]]
    BY <1>6, <1>7, <1>8
  <2>3. Store!Fill
    BY <1>3, <1>8, <2>1, <2>2 DEF Store!Fill, Store!Nothing, Held, Under
  <2> QED
    BY <2>3 DEF Store!Next
<1> QED
  BY <1>1, <1>9, <1>10

(* What an append writes is behind the end of its file and in no other.    *)
LEMMA AppendDataStore == ASSUME Groups = 1, RInv, AppendData PROVE [Store!Next]_(Store!vars)
<1>1. /\ call.pc = "append" /\ inode' = inode /\ outages' = outages
      /\ call'.pc \in {"append", "resize"}
  BY AppendDataNext
<1>2. /\ call # Idle /\ call.name \in File /\ call.node \in Node /\ call.buf \in Buffers
      /\ call.node = inode[call.name] /\ TailBlock(call.node) # 0
      /\ TailOffset(call.node) + Len(call.buf) <= BlockSize
      /\ call.node.size \div BlockSize \in Slot
      /\ TailBlock(call.node) = call.node.dbp[call.node.size \div BlockSize]
      /\ TailBlock(call.node) \in 0..Blocks
      /\ call.last = TailBlock(call.node) /\ ~call.moved
  BY <1>1, AppendingIs
<1> DEFINE b == TailBlock(call.node)
           cells == Overlay(block[b], TailOffset(call.node), call.buf, 0, Len(call.buf))
           new == SectorWritten(b, call.sector, cells)
<1>3. block' = new /\ b \in 0..Blocks /\ b # 0
  BY <1>2 DEF AppendData, At
<1>4. \A c \in Cell : c < TailOffset(call.node) => cells[c] = block[b][c]
  BY <1>2, TailCells
<1>5. /\ \A f \in File, j \in Nat : f # call.name => Pointer(inode[f], j) # b
      /\ \A j \in Slot : j # call.node.size \div BlockSize => call.node.dbp[j] # b
  BY <1>2, OtherPointers DEF RInv, SInv
<1> HIDE DEF b, cells
<1>6. ASSUME NEW f \in File
      PROVE  BytesOf(block', inode'[f]) = BytesOf(block, inode[f])
  <2>1. inode[f] \in Node
    BY StateIs, FileIs DEF RInv, SInv
  <2>2. ASSUME NEW k \in 0..(inode[f].size - 1)
        PROVE  Pointer(inode[f], k \div BlockSize) # b
                   \/ cells[k % BlockSize] = block[b][k % BlockSize]
    <3>1. /\ k \in Nat /\ BlockSize \in Nat \ {0}
          /\ inode[f].size \in Nat /\ k < inode[f].size
      BY <2>1, NodeIs, Ext2Assumption
    <3>2. k \div BlockSize \in Nat /\ k % BlockSize \in Cell
      BY <3>1, Divided DEF Cell
    <3>3. CASE f # call.name
      BY <1>5, <3>2, <3>3
    <3>4. CASE f = call.name /\ Pointer(inode[f], k \div BlockSize) = b
      <4>1. k \div BlockSize \in Slot /\ b = call.node.dbp[k \div BlockSize]
        BY <1>2, <1>3, <2>1, <3>2, <3>4, PointerTyped
      <4>2. k \div BlockSize = inode[f].size \div BlockSize
        BY <1>2, <1>5, <3>4, <4>1
      <4>3. k % BlockSize < inode[f].size % BlockSize
        BY <3>1, <4>2, BeforeEnd
      <4>4. k % BlockSize < TailOffset(call.node)
        BY <1>2, <3>4, <4>3 DEF TailOffset
      <4> QED
        BY <1>4, <3>2, <4>4
    <3> QED
      BY <3>3, <3>4
  <2>3. BytesOf(new, inode[f]) = BytesOf(block, inode[f])
    BY <1>3, <2>1, <2>2, BytesKept DEF RInv, SInv
  <2> QED
    BY <1>1, <1>3, <2>3
<1>7. Held' = Held
  <2>1. inode \in [Name -> Node] /\ inode' \in [Name -> Node]
    BY <1>1, StateIs DEF RInv, SInv
  <2> QED
    BY <1>6, <2>1, SameHeld
<1>8. Under' = Under
  BY <1>1 DEF Under
<1> QED
  BY <1>1, <1>7, <1>8, Stutters

(* The inode of an append is written: all of the buffer shows at once,     *)
(* behind what the file held.                                              *)
LEMMA ResizeBytes ==
    ASSUME Groups = 1, RInv, call.pc = "resize"
    PROVE  BytesOf(block, call.node) = Store!Cat(BytesOf(block, inode[call.name]), call.buf)
<1> DEFINE node == inode[call.name]
           size == node.size
           buf == call.buf
           old == BytesOf(block, node)
<1>1. /\ call.node \in Node /\ node \in Node /\ buf \in Buffers /\ call.node.dbp = node.dbp
      /\ TailOffset(node) + Len(buf) <= BlockSize
      /\ call.node.size = size + Len(buf) /\ Appended(block, node, buf, LastSector + 1)
  BY AppendingIs DEF RInv, Appending
<1>2. /\ size \in Nat /\ Len(buf) \in Nat \ {0} /\ DOMAIN buf = 0..(Len(buf) - 1)
      /\ BlockSize \in Nat \ {0} /\ TailOffset(node) \in Nat
  BY <1>1, OffsetIs, Lengths, Ext2Assumption
<1>17. node.size \div BlockSize < Direct
  BY AppendingIs, Ext2Assumption DEF Slot
<1>16. DirectBytes(node) = size /\ DirectBytes(call.node) = call.node.size
  <2> DEFINE len == Len(buf)
             m == node.size
  <2>1. m \in Nat /\ len \in Nat /\ m \div BlockSize < Direct /\ BlockSize \in Nat \ {0}
    BY <1>2, <1>17
  <2>2. (m % BlockSize) + len <= BlockSize /\ (m % BlockSize) + 0 <= BlockSize
        /\ call.node.size = m + len
    <3>1. (m % BlockSize) \in 0..(BlockSize - 1)
      BY <2>1, Divided
    <3> QED
      BY <1>1, <2>1, <3>1 DEF TailOffset
  <2> HIDE DEF m, len, node
  <2>3. m + len <= Direct * BlockSize /\ m + 0 <= Direct * BlockSize
    BY <2>1, <2>2, BelowDirect
  <2>4. node.size <= Direct * BlockSize /\ call.node.size <= Direct * BlockSize
    BY <2>1, <2>2, <2>3 DEF m
  <2> QED
    BY <1>1, <2>4, DirectBytesIs
<1>3. DOMAIN old = 0..(size - 1)
  BY <1>16 DEF BytesOf
<1>4. Store!Length(old) = size /\ Store!Length(buf) = Len(buf)
  BY <1>2, <1>3, LengthIs
<1> DEFINE at(k) == block[Pointer(call.node, k \div BlockSize)][k % BlockSize]
<1>5. \A j : Pointer(call.node, j) = Pointer(node, j)
  BY <1>1 DEF Pointer
<1>6. \A k \in 0..(size - 1) : at(k) = old[k]
  BY <1>5, <1>16 DEF BytesOf
<1>7. ASSUME NEW d \in 0..(Len(buf) - 1) PROVE at(size + d) = buf[d]
  <2>1. d \in Nat /\ size % BlockSize = TailOffset(node)
    BY <1>2 DEF TailOffset
  <2>2. TailOffset(node) + d < BlockSize /\ TailOffset(node) + d \in Cell
    <3> DEFINE len == Len(buf)
               o == TailOffset(node)
    <3>1. len \in Nat /\ o \in Nat /\ o + len <= BlockSize /\ d \in 0..(len - 1)
      BY <1>1, <1>2
    <3> HIDE DEF len, o
    <3>2. o + d < BlockSize /\ o + d \in Cell
      BY <1>2, <3>1 DEF Cell
    <3> QED
      BY <3>2 DEF o
  <2>3. /\ (size + d) \div BlockSize = size \div BlockSize
        /\ (size + d) % BlockSize = TailOffset(node) + d
    BY <1>2, <2>1, <2>2, BehindEnd
  <2>4. Pointer(call.node, (size + d) \div BlockSize) = TailBlock(node)
    BY <1>5, <2>3 DEF TailBlock, Last
  <2>5. (TailOffset(node) + d) \div SectorSize \in 0..LastSector
    BY <2>2, CellSector
  <2>6. (TailOffset(node) + d) \div SectorSize < LastSector + 1
    BY <2>5, SectorsAre
  <2>7. block[TailBlock(node)][TailOffset(node) + d] = buf[d]
    BY <1>1, <2>6 DEF Appended
  <2> QED
    BY <2>3, <2>4, <2>7
<1> HIDE DEF at
<1>8. \A k \in 0..(size + Len(buf) - 1) : at(k) = IF k < size THEN old[k] ELSE buf[k - size]
  <2> DEFINE len == Len(buf)
  <2>1. size \in Nat /\ len \in Nat
    BY <1>2
  <2>2. \A d \in 0..(len - 1) : at(size + d) = buf[d]
    BY <1>7
  <2> HIDE DEF len, old, buf, size
  <2> SUFFICES ASSUME NEW k \in 0..(size + len - 1)
               PROVE  at(k) = IF k < size THEN old[k] ELSE buf[k - size]
    BY DEF len
  <2>3. CASE k < size
    BY <1>6, <2>1, <2>3
  <2>4. CASE ~(k < size)
    <3>1. k - size \in 0..(len - 1) /\ size + (k - size) = k
      BY <2>1, <2>4
    <3>2. at(size + (k - size)) = buf[k - size]
      BY <2>2, <3>1
    <3> QED
      BY <2>4, <3>1, <3>2
  <2> QED
    BY <2>3, <2>4
<1> DEFINE f == BytesOf(block, call.node)
           g == Store!Cat(old, buf)
           top == call.node.size
           len == Len(buf)
<1>9. /\ DOMAIN f = 0..(top - 1) /\ f = [k \in DOMAIN f |-> f[k]]
      /\ \A k \in 0..(top - 1) : f[k] = at(k)
  BY <1>16 DEF BytesOf, at
<1>10. /\ DOMAIN g = 0..(size + len - 1) /\ g = [k \in DOMAIN g |-> g[k]]
       /\ \A k \in 0..(size + len - 1) : g[k] = IF k < size THEN old[k] ELSE buf[k - size]
  BY <1>4 DEF Store!Cat
<1>11. \A k \in 0..(size + len - 1) : at(k) = IF k < size THEN old[k] ELSE buf[k - size]
  BY <1>8
<1>12. top = size + len /\ size \in Nat /\ len \in Nat
  BY <1>1, <1>2
<1> HIDE DEF f, g, top, len, size, buf, old, node
<1>13. DOMAIN f = DOMAIN g
  <2>1. top - 1 = size + len - 1
    BY <1>12
  <2> QED
    BY <1>9, <1>10, <2>1
<1>14. \A k \in DOMAIN g : f[k] = g[k]
  <2> TAKE k \in DOMAIN g
  <2>1. k \in 0..(top - 1) /\ k \in 0..(size + len - 1)
    BY <1>9, <1>10, <1>13
  <2>2. f[k] = at(k) /\ g[k] = IF k < size THEN old[k] ELSE buf[k - size]
    BY <1>9, <1>10, <2>1
  <2>3. at(k) = IF k < size THEN old[k] ELSE buf[k - size]
    BY <1>11, <2>1
  <2> QED
    BY <2>2, <2>3
<1>15. f = g
  <2>1. f = [k \in DOMAIN f |-> f[k]] /\ g = [k \in DOMAIN g |-> g[k]]
    BY <1>9, <1>10
  <2> QED
    BY <1>13, <1>14, <2>1
<1> QED
  BY <1>15 DEF f, g, old, buf, node

LEMMA ResizeStore == ASSUME Groups = 1, RInv, Resize PROVE Store!Next
<1>1. /\ call.pc = "resize" /\ InodeWritten(call.name, call.node) /\ call' = Idle
      /\ outages' = outages
  BY DEF Resize, At
<1>2. /\ call.name \in File /\ call.name \in Name /\ call.buf \in Buffers
      /\ inode \in [Name -> Node] /\ call.node \in Node
  BY <1>1, AppendingIs, StateIs DEF RInv, SInv
<1>3. block' = block /\ inode' = [inode EXCEPT ![call.name] = call.node]
  BY <1>1, <1>2, FileIs DEF InodeWritten
<1>4. inode'[call.name] = call.node /\ \A f \in File : f # call.name => inode'[f] = inode[f]
  BY <1>2, <1>3, FileIs
<1> DEFINE bytes == Store!Cat(Held[call.name], call.buf)
<1>5. BytesOf(block', inode'[call.name]) = bytes
  BY <1>1, <1>2, <1>3, <1>4, ResizeBytes, HeldIs
<1>6. \A f \in File : f # call.name => BytesOf(block', inode'[f]) = BytesOf(block, inode[f])
  BY <1>3, <1>4
<1> HIDE DEF bytes
<1>7. Held' = [Held EXCEPT ![call.name] = bytes]
  <2>1. inode' \in [Name -> Node]
    BY <1>2, <1>3
  <2> QED
    BY <1>2, <1>5, <1>6, <2>1, OneHeld
<1>8. Held' = [Held EXCEPT ![call.name] = Store!Cat(@, call.buf)]
  BY <1>7 DEF bytes
<1>9. /\ Under = [file |-> "none", buf |-> << >>]
      /\ Under' = [file |-> "none", buf |-> << >>]
  BY <1>1 DEF Under, Idle
<1>10. Store!Append(call.name, call.buf)
  BY <1>1, <1>8, <1>9 DEF Store!Append, Store!Nothing, Held, Under
<1> QED
  BY <1>2, <1>10 DEF Store!Next

LEMMA StepStore == ASSUME Groups = 1, RInv, [ServedNext]_vars PROVE [Store!Next]_(Store!vars)
<1>0. inode \in [Name -> Node]
  BY StateIs DEF RInv, SInv
<1>1. CASE /\ inode' = inode /\ block' = block /\ outages' = outages
           /\ call.pc # "fill" /\ call'.pc # "fill"
  <2>1. Held' = Held
    BY <1>0, <1>1, SameHeld
  <2>2. Under' = Under
    BY <1>1 DEF Under
  <2> QED
    BY <1>1, <2>1, <2>2, Stutters
<1>2. CASE \E n \in Name, b \in Buffers : ServedCall(n, b)
  <2>1. call.pc = "idle" /\ call'.pc \in {"count", "append"}
    BY <1>2 DEF ServedCall, BeginFresh, BeginAppend, Idle
  <2> QED
    BY <1>1, <1>2, <2>1 DEF ServedCall, BeginFresh, BeginAppend, disk
<1>3. CASE CountGroup
  BY <1>1, <1>3, CountGroupIs DEF RInv, SInv
<1>4. CASE CountTotal
  <2>1. call.pc = "total" /\ call' = NextToAllocate(call)
        /\ UNCHANGED <<inode, block, outages>>
    BY <1>4 DEF CountTotal, At
  <2>2. call \in FreshCall /\ FreshFits(call) /\ call.node.size = 0
    BY <2>1, PhaseFresh DEF RInv, SInv, IInv, FreshFits
  <2>3. call'.pc \in {"count", "commit"}
    BY <2>1, <2>2, NextAllocates
  <2> QED
    BY <1>1, <2>1, <2>3
<1>5. CASE NoneFree
  BY <1>5, ServedNoneFree DEF RInv
<1>6. CASE Commit
  BY <1>6, CommitStore
<1>7. CASE Fill
  BY <1>7, FillStore
<1>8. CASE AppendData
  BY <1>8, AppendDataStore
<1>9. CASE Resize
  BY <1>9, ResizeStore
<1>10. CASE Outage
  <2>1. /\ call' = Idle /\ inode' = inode /\ block' = block /\ outages' = outages + 1
    BY <1>10 DEF Outage, disk
  <2>2. Held' = Held
    BY <1>0, <2>1, SameHeld
  <2>3. Under' = [file |-> "none", buf |-> << >>]
    BY <2>1 DEF Under, Idle
  <2>4. Store!Outage
    BY <2>1, <2>2, <2>3 DEF Store!Outage, Store!Nothing, Held, Under
  <2> QED
    BY <2>4 DEF Store!Next
<1>11. CASE UNCHANGED vars
  <2>1. Held' = Held
    BY <1>0, <1>11, SameHeld DEF vars
  <2>2. Under' = Under /\ outages' = outages
    BY <1>11 DEF vars, Under
  <2> QED
    BY <2>1, <2>2, Stutters
<1> QED
  BY <1>2, <1>3, <1>4, <1>5, <1>6, <1>7, <1>8, <1>9, <1>10, <1>11 DEF ServedNext, Step

(* Whatever the disk and the files, whoever reads the disk between any two *)
(* of a served call's writes, or after the power has failed between them,  *)
(* sees what FileStore promises: an append all or not at all, a write to   *)
(* an empty file complete once the call returns, and never a change of     *)
(* another file's bytes (ext2.c:448-551).                                  *)
THEOREM ServedImplementsStore == ASSUME Groups = 1 PROVE ServedSpec => ImplementsStore
<1>1. Init => RInv
  BY InitSInv, IdleFresh DEF Init, RInv
<1>2. RInv /\ [ServedNext]_vars => RInv'
  BY ServedRInv
<1>3. Init => Store!Init
  BY InitStore
<1>4. RInv /\ [ServedNext]_vars => [Store!Next]_(Store!vars)
  BY StepStore
<1> QED
  BY <1>1, <1>2, <1>3, <1>4, PTL DEF ServedSpec, ImplementsStore, Store!Spec
-----------------------------------------------------------------------------
(* What reaches the metadata.  A directory has data and no block behind    *)
(* its last, so that no call allocates for it and an append to it goes to  *)
(* the boot block, or past the direct pointers.                            *)
Behind(node) == node.size > 0 /\ \A k \in Slot : k >= Last(node) => node.dbp[k] = 0

KInv ==
    /\ IInv
    /\ \A d \in Dir : Behind(inode[d])
    /\ call # Idle /\ call.name \in Dir => call \in AppendCall /\ Behind(call.node)

LEMMA DirIs == ASSUME NEW d \in Dir PROVE d \in Name /\ d # Missing
  BY Ext2Assumption DEF Name

LEMMA QuotientGrows ==
    ASSUME NEW d \in Nat \ {0}, NEW a \in Nat, NEW b \in Nat, a <= b
    PROVE  a \div d <= b \div d
<1> DEFINE q == b \div d
           r == b % d
<1>1. q \in Nat /\ r \in 0..(d - 1) /\ b = d * q + r
  BY Divided
<1> HIDE DEF q, r
<1>2. d * (q + 1) = d * q + d /\ d * q \in Int
  BY <1>1
<1>3. a < d * (q + 1) /\ q + 1 \in Nat
  BY <1>1, <1>2
<1>4. a \div d < q + 1 /\ a \div d \in Nat
  BY <1>3, QuotientBelow, Divided
<1>5. a \div d <= q
  BY <1>1, <1>4
<1> QED
  BY <1>5 DEF q

LEMMA BehindGrows ==
    ASSUME NEW node \in Node, NEW grown \in Node, grown.dbp = node.dbp,
           node.size <= grown.size, Behind(node)
    PROVE  Behind(grown)
<1>1. /\ node.size \in Nat /\ grown.size \in Nat /\ BlockSize \in Nat \ {0}
      /\ node.size > 0
  BY NodeIs, Ext2Assumption DEF Behind
<1>2. Last(node) <= Last(grown) /\ Last(node) \in Nat /\ Last(grown) \in Nat
  BY <1>1, QuotientGrows, TailIs DEF Last
<1>3. \A k \in Slot : k >= Last(grown) => k >= Last(node)
  BY <1>2 DEF Slot
<1>4. grown.size > 0
  BY <1>1
<1> QED
  BY <1>3, <1>4 DEF Behind

LEMMA InitKInv == ASSUME Groups = 1, Init PROVE KInv
<1>1. inode = InodeAt /\ call = Idle
  BY DEF Init
<1> QED
  BY <1>1, InitIInv, HostAssumption DEF KInv, Behind

LEMMA NextKInv == ASSUME Groups = 1, KInv, [Next]_vars PROVE KInv'
<1>0. IInv' /\ IInv /\ inode \in [Name -> Node]
  BY NextIInv, StateIs DEF KInv
<1>1. ASSUME NEW n \in Name, NEW b \in Buffers, BeginFresh(n, b) PROVE KInv'
  <2>1. PICK node \in Found(n) : node.size = 0 /\ call'.name = n
    BY <1>1 DEF BeginFresh
  <2>2. n \notin Dir
    <3> SUFFICES ASSUME n \in Dir PROVE FALSE
      OBVIOUS
    <3>1. node = inode[n]
      BY <1>0, <2>1, DirIs, FoundIs
    <3> QED
      BY <2>1, <3>1 DEF KInv, Behind
  <2>3. inode' = inode
    BY <1>1 DEF BeginFresh, disk
  <2> QED
    BY <1>0, <2>1, <2>2, <2>3 DEF KInv, Behind, Last
<1>2. ASSUME NEW n \in Name, NEW b \in Buffers, BeginAppend(n, b) PROVE KInv'
  <2>1. /\ call' \in AppendCall /\ call'.name = n
        /\ n \in Dir => call'.node = inode[n]
    BY <1>0, <1>2, BeginAppendIs, DirIs
  <2>2. inode' = inode
    BY <1>2 DEF BeginAppend, disk
  <2> QED
    BY <1>0, <2>1, <2>2 DEF KInv, Behind, Last
<1>3. ASSUME CountGroup \/ CountTotal \/ NoneFree PROVE KInv'
  <2>1. inode' = inode /\ call.pc \in {"count", "total"}
    BY <1>3 DEF CountGroup, CountTotal, NoneFree, disk, At
  <2>2. call \in FreshCall /\ FreshFits(call) /\ call # Idle
    BY <1>0, <2>1, PhaseFresh, FreshIs DEF IInv
  <2>3. call.name \notin Dir
    BY <2>2, FreshIs DEF KInv
  <2>4. call' # Idle => call'.name = call.name
    <3>1. CASE CountGroup
      BY <1>0, <3>1, CountGroupIs
    <3>2. CASE CountTotal
      BY <2>2, <3>2, NextAllocates DEF CountTotal, At, FreshFits
    <3>3. CASE NoneFree
      <4> DEFINE d == [call EXCEPT !.node.dbp[call.i] = 0]
      <4>1. call' = NextToAllocate(d) /\ d.name = call.name
        BY <2>2, <3>3 DEF NoneFree, At, FreshCall
      <4>2. NextToAllocate(d).name = d.name
        BY <2>2 DEF NextToAllocate, FreshCall
      <4> QED
        BY <4>1, <4>2
    <3> QED
      BY <1>3, <3>1, <3>2, <3>3
  <2> QED
    BY <1>0, <2>1, <2>3, <2>4 DEF KInv, Behind, Last
<1>4. ASSUME Commit PROVE KInv'
  <2>1. /\ call.pc = "commit" /\ InodeWritten(call.name, call.node)
        /\ call' = [call EXCEPT !.pc = "fill"]
    BY <1>4 DEF Commit, At
  <2>2. call \in FreshCall /\ call # Idle /\ call.name \in Name /\ call.node \in Node
    BY <1>0, <2>1, PhaseFresh, FreshIs DEF IInv
  <2>3. call.name \notin Dir /\ call'.name = call.name
    BY <2>1, <2>2, FreshIs DEF KInv, FreshCall
  <2>4. \A m \in Name : inode'[m] = IF m = call.name THEN call.node ELSE inode[m]
    BY <1>0, <2>1, <2>2, InodeTyped DEF IInv
  <2>5. \A d \in Dir : inode'[d] = inode[d]
    BY <2>3, <2>4, DirIs
  <2> QED
    BY <1>0, <2>3, <2>5 DEF KInv
<1>5. ASSUME Fill PROVE KInv'
  <2>1. call \in FreshCall /\ call # Idle /\ (call' # Idle => call'.name = call.name)
    BY <1>0, <1>5, FillIs, FreshIs
  <2>2. inode' = inode
    BY <1>5 DEF Fill, At
  <2>3. call.name \notin Dir
    BY <2>1, FreshIs DEF KInv
  <2> QED
    BY <1>0, <2>1, <2>2, <2>3 DEF KInv
<1>6. ASSUME AppendData PROVE KInv'
  <2>1. /\ call \in AppendCall /\ call # Idle /\ call' \in AppendCall
        /\ call'.name = call.name /\ call'.node.dbp = call.node.dbp
        /\ call.node.size <= call'.node.size
    BY <1>0, <1>6, AppendDataIs
  <2>2. call.node \in Node /\ call'.node \in Node
    BY <2>1, AppendIs
  <2>3. call.name \in Dir => Behind(call'.node)
    BY <2>1, <2>2, BehindGrows DEF KInv
  <2>4. inode' = inode
    BY <1>6 DEF AppendData, At
  <2> QED
    BY <1>0, <2>1, <2>3, <2>4 DEF KInv
<1>7. ASSUME Resize PROVE KInv'
  <2>1. /\ call.pc = "resize" /\ InodeWritten(call.name, call.node) /\ call' = Idle
    BY <1>7 DEF Resize, At
  <2>2. call # Idle /\ call.name \in Name /\ call.node \in Node
    BY <1>0, <2>1, PhaseAppend, AppendIs DEF IInv
  <2>3. \A m \in Name : inode'[m] = IF m = call.name THEN call.node ELSE inode[m]
    BY <1>0, <2>1, <2>2, InodeTyped DEF IInv
  <2>4. \A d \in Dir : inode'[d] = IF d = call.name THEN call.node ELSE inode[d]
    BY <2>3, DirIs
  <2> QED
    BY <1>0, <2>1, <2>2, <2>4 DEF KInv
<1>8. ASSUME Outage \/ UNCHANGED vars PROVE KInv'
  <2>1. inode' = inode /\ (call' = Idle \/ call' = call)
    BY <1>8 DEF Outage, disk, vars
  <2> QED
    BY <1>0, <2>1 DEF KInv
<1> QED
  BY <1>1, <1>2, <1>3, <1>4, <1>5, <1>6, <1>7, <1>8 DEF Next, Step, AnyCall

(* A block that no file has as one of its own is at most the boot block.   *)
LEMMA SpoilsNone ==
    ASSUME Groups = 1, KInv, call # Idle, call.node \in Node, call.name \in File,
           NEW k \in Slot
    PROVE  call.node.dbp[k] \notin System \ {0}
<1>1. CASE call.node.dbp[k] = 0
  BY <1>1
<1>2. CASE call.node.dbp[k] # 0
  BY <1>2, NotOurs DEF KInv
<1> QED
  BY <1>1, <1>2

LEMMA OnlyThere ==
    ASSUME Groups = 1, IInv, NEW p \in 0..Blocks, p \notin System \ {0},
           NEW s, NEW cells, block' = SectorWritten(p, s, cells)
    PROVE  KeepsMetadata
<1>1. \A b \in 0..Blocks : b # p => block'[b] = block[b]
  BY StateIs DEF SectorWritten
<1>2. System \subseteq 0..Blocks
  BY Ext2Assumption
<1> QED
  BY <1>1, <1>2 DEF KeepsMetadata

LEMMA NextKeeps == ASSUME Groups = 1, KInv, [Next]_vars PROVE [KeepsMetadata]_vars
<1>0. IInv
  BY DEF KInv
<1>1. CASE block' = block
  BY <1>1 DEF KeepsMetadata
<1>2. CASE call.name = Missing
  BY <1>2 DEF KeepsMetadata
<1>3. ASSUME CountGroup PROVE block' = block
  BY <1>0, <1>3, CountGroupIs
<1>4. ASSUME Commit \/ Resize, call.name # Missing PROVE block' = block
  BY <1>4 DEF Commit, Resize, InodeWritten, At
<1>5. ASSUME Fill, call.name # Missing PROVE KeepsMetadata
  <2>1. call \in FreshCall /\ call # Idle /\ call.name \in Name /\ call.node \in Node /\ call.i \in Slot
    BY <1>0, <1>5, FillIs, FreshIs
  <2>2. call.name \in File
    BY <1>5, <2>1, FreshIs DEF KInv, Name
  <2>3. call.node.dbp[call.i] \in 0..Blocks /\ call.node.dbp[call.i] \notin System \ {0}
    BY <2>1, <2>2, NodeIs, SpoilsNone
  <2>4. block' = SectorWritten(call.node.dbp[call.i], call.sector,
                               FreshCells(call.node, call.buf, call.i))
    BY <1>5 DEF Fill, At
  <2> QED
    BY <1>0, <2>3, <2>4, OnlyThere
<1>6. ASSUME AppendData, call.name # Missing PROVE KeepsMetadata
  <2> DEFINE read == IF call.moved THEN [c \in Cell |-> Damage] ELSE block[call.last]
             cells == Overlay(read, TailOffset(call.node), call.buf, 0, Len(call.buf))
  <2>1. call.pc = "append" /\ block' = SectorWritten(call.last, call.sector, cells)
    BY <1>6 DEF AppendData, At
  <2> HIDE DEF cells
  <2>2. /\ call \in AppendCall /\ call # Idle /\ call.name \in Name /\ call.node \in Node
        /\ call.last \in 0..Blocks /\ call.last \in Tails(call.node)
    BY <1>0, <2>1, PhaseAppend, AppendIs DEF IInv, TypeOK
  <2>3. CASE Last(call.node) >= Direct
    BY <2>1, <2>3 DEF KeepsMetadata
  <2>4. CASE Last(call.node) < Direct
    <3>1. call.last = call.node.dbp[Last(call.node)] /\ Last(call.node) \in Slot
      BY <2>2, <2>4, TailIs, Ext2Assumption DEF Tails, Slot
    <3>2. call.last \notin System \ {0}
      <4>1. CASE call.name \in File
        BY <2>2, <3>1, <4>1, SpoilsNone
      <4>2. CASE call.name \in Dir
        <5>1. Behind(call.node) /\ Last(call.node) \in Nat
          BY <2>2, <4>2, TailIs DEF KInv
        <5>2. call.last = 0
          BY <3>1, <5>1 DEF Behind
        <5> QED
          BY <5>2
      <4> QED
        BY <1>6, <2>2, <4>1, <4>2 DEF Name
    <3> QED
      BY <1>0, <2>1, <2>2, <3>2, OnlyThere
  <2>5. Last(call.node) \in Nat /\ Direct \in Nat
    BY <2>2, TailIs, Ext2Assumption
  <2> QED
    BY <2>3, <2>4, <2>5
<1>7. CASE \E n \in Name, b \in Buffers : AnyCall(n, b)
  <2>1. block' = block
    BY <1>7 DEF AnyCall, BeginFresh, BeginAppend, disk
  <2> QED
    BY <1>1, <2>1
<1>8. CASE CountTotal \/ NoneFree \/ Outage
  <2>1. block' = block
    BY <1>8 DEF CountTotal, NoneFree, Outage, disk
  <2> QED
    BY <1>1, <2>1
<1> QED
  BY <1>1, <1>2, <1>3, <1>4, <1>5, <1>6, <1>7, <1>8 DEF Next, Step

(* On one group, whatever else is written and however full the disk: only  *)
(* calls on a name that is in no directory and appends past the direct     *)
(* pointers write over the superblock, the descriptors, the inodes or the  *)
(* directories (ext2.c:107-138, 480-551).                                  *)
THEOREM MetadataStays == ASSUME Groups = 1 PROVE Spec => MetadataKept
<1>1. Init => KInv
  BY InitKInv
<1>2. KInv /\ [Next]_vars => KInv'
  BY NextKInv
<1>3. KInv /\ [Next]_vars => [KeepsMetadata]_vars
  BY NextKeeps
<1> QED
  BY <1>1, <1>2, <1>3, PTL DEF Spec, MetadataKept
=============================================================================
