---------------------------- MODULE AtaPioProofs ----------------------------
(***************************************************************************)
(* The disk driver of module AtaPio beside a drive that works, fails and   *)
(* is late at any time: what it reads is what the disk holds, and what the *)
(* drive stores is what the driver was last given, for disks, sectors and  *)
(* requests of every size.                                                 *)
(***************************************************************************)
EXTENDS AtaPio, TLAPS

Phases == {"rest", "fetch", "give", "accept", "take", "commit", "identify"}

Steps == {"idle", "setup", "command", "poll", "ready", "transfer", "pause", "done",
          "identify", "present", "unbusy", "identified"}

Full == [Word -> Data]

Buffered == UNION { [0..(n - 1) -> Sector] : n \in 0..MaxCount }

Dev == [kind : [Drive -> {"ata", "atapi", "none"}], phase : Phases, err : BOOLEAN, sel : Drive,
        lba : 0..(Sectors + MaxCount), word : 0..Words, buf : Sector]

Drv == [pc : Steps, op : {"none", "read", "write", "identify"}, lba : Nat,
        n : 0..MaxCount, i : 0..(MaxCount - 1), w : Word, words : Buffered]

Types ==
    /\ platter \in [0..(Sectors - 1) -> Full]
    /\ dev \in Dev /\ drv \in Drv /\ faults \in 0..MaxFaults
    /\ failed \subseteq 0..(Sectors + MaxCount)
    /\ asked \in [lba : Nat, words : Full]

(* The calls: a program counter is only reached by the operations that     *)
(* pass it, and indices are those of the request.                          *)
Transfers == {"setup", "command", "poll", "ready", "pause"}
Identifies == {"identify", "present", "unbusy", "identified"}

CallOK(d) ==
    /\ d.pc = "idle" => d = Idle
    /\ d.pc # "idle" => d.op # "none"
    /\ d.pc \in Transfers => d.op \in {"read", "write"}
    /\ d.pc \in Identifies => d.op = "identify"
    /\ d.op \in {"read", "write"} =>
          /\ d.lba \in 0..Sectors /\ d.i < d.n
          /\ d.words \in [0..(d.n - 1) -> Sector]
          /\ d.pc = "done" => d.i + 1 = d.n
    /\ d.op = "write" => d.words \in [0..(d.n - 1) -> Full]
    /\ d.op = "identify" => d.lba \in Drive /\ d.i = 0 /\ d.n = 1
    /\ d.pc # "transfer" => d.w = 0

(* What the drive is doing while the driver is at its step: it is at rest  *)
(* or done with a command when the next one arrives, and a sector is under *)
(* way from the command to the last word, unless the drive has failed.     *)
PhaseOK ==
    /\ dev.err => dev.phase = "rest"
    /\ Absent => dev.phase = "rest"
    /\ drv.pc \in {"setup", "command", "identify"} => dev.phase = "rest"
    /\ drv.pc \in {"idle", "pause", "done"} => dev.phase \in {"rest", "commit"}
    /\ drv.op = "read" => dev.phase \in {"rest", "fetch", "give"}
    /\ drv.op = "write" => dev.phase \in {"rest", "accept", "take", "commit"}
    /\ drv.op = "identify" => dev.phase \in {"rest", "identify", "give"}
    /\ dev.phase = "commit" => drv.pc \in {"idle", "pause", "done"}
    /\ drv.pc = "ready" => dev.phase \notin {"fetch", "accept"}
    /\ drv.pc = "transfer" => dev.phase \in {"rest", "give", "take"}
    /\ drv.pc = "transfer" /\ drv.op # "write" => dev.phase = "give"
    /\ dev.phase \in {"fetch", "give", "accept", "take", "identify"} => dev.word = drv.w

(* Where the sector under way belongs, and what of it has arrived.         *)
Under == drv.op \in {"read", "write"} /\ drv.pc \in {"command", "poll", "ready", "transfer"}

PlaceOK ==
    /\ Under => dev.lba = drv.lba + drv.i
    /\ Under /\ drv.op = "write" =>
          asked.lba = drv.lba + drv.i /\ asked.words = drv.words[drv.i]
    /\ dev.phase = "take" => \A v \in Word : v < dev.word => dev.buf[v] = asked.words[v]
    /\ dev.phase = "commit" => dev.lba = asked.lba /\ dev.buf = asked.words

(* The buffer of a read: sectors behind are right, those to come empty,    *)
(* and of the one under way the words so far have arrived.                 *)
Right(words, j) ==
    \/ drv.lba + j < Sectors /\ words[j] = platter[drv.lba + j]
    \/ drv.lba + j \in failed /\ words[j] = NoWords

UpTo(sector, w) == [v \in Word |-> IF v < w THEN sector[v] ELSE Stale]

Partial(words, w) == words[drv.i] = UpTo(platter[dev.lba], w)

ReadOK ==
    drv.op = "read" =>
        /\ \A j \in 0..(drv.i - 1) : Right(drv.words, j)
        /\ \A j \in (drv.i + 1)..(drv.n - 1) : drv.words[j] = NoWords
        /\ drv.pc = "done" => Right(drv.words, drv.i)
        /\ drv.pc \notin {"transfer", "done"} => drv.words[drv.i] = NoWords
        /\ drv.pc = "transfer" => Partial(drv.words, drv.w)
        /\ dev.phase = "give" => dev.lba < Sectors /\ dev.buf = platter[dev.lba]
        /\ drv.pc \in {"poll", "ready"} /\ ERR => dev.lba \in failed

IInv == Types /\ CallOK(drv) /\ PhaseOK /\ PlaceOK /\ ReadOK
-----------------------------------------------------------------------------
(* Constants and fields. *)
LEMMA ZeroWord == 0 \in Word /\ LastWord \in Word /\ Words \in Nat \ {0}
  BY AtaAssumption DEF Word, LastWord

LEMMA NoWordsTyped == NoWords \in Sector
  BY DEF NoWords, Sector

LEMMA FullSector == \A f \in Full : f \in Sector
<1> SUFFICES ASSUME NEW f \in Full PROVE f \in Sector
  OBVIOUS
<1>1. f = [w \in Word |-> f[w]] /\ \A w \in Word : f[w] \in Data
  BY DEF Full
<1> QED
  BY <1>1 DEF Sector

LEMMA BufferedIs ==
    ASSUME NEW n \in 0..MaxCount, NEW words \in [0..(n - 1) -> Sector]
    PROVE  words \in Buffered
  BY DEF Buffered

LEMMA FullBuffer ==
    ASSUME NEW n \in 0..MaxCount, NEW words \in [0..(n - 1) -> Full]
    PROVE  words \in [0..(n - 1) -> Sector]
<1>1. \A j \in 0..(n - 1) : words[j] \in Sector
  BY FullSector
<1> QED
  BY <1>1

LEMMA IdleTyped == Idle \in Drv
<1>1. << >> \in [0..(0 - 1) -> Sector]
  <2>1. 0..(0 - 1) = {} /\ DOMAIN << >> = {}
    OBVIOUS
  <2> QED
    BY <2>1
<1>2. 0 \in 0..MaxCount /\ 0 \in 0..(MaxCount - 1)
  BY AtaAssumption
<1>3. << >> \in Buffered
  BY <1>1, <1>2, BufferedIs
<1> QED
  BY <1>2, <1>3, ZeroWord DEF Idle, Drv, Steps

(* The end of a sector. *)
LEMMA SectorOverIs ==
    ASSUME NEW d \in Drv, d.i < d.n
    PROVE  LET e == SectorOver(d)
           IN  /\ e \in Drv
               /\ e.op = d.op /\ e.lba = d.lba /\ e.n = d.n /\ e.words = d.words
               /\ e.w = 0
               /\ \/ e.pc = "pause" /\ e.i = d.i + 1 /\ e.i < e.n
                  \/ e.pc = "done" /\ e.i = d.i /\ e.i + 1 = e.n
<1>1. /\ d.pc \in Steps /\ d.op \in {"none", "read", "write", "identify"}
      /\ d.lba \in Nat /\ d.n \in 0..MaxCount /\ d.i \in 0..(MaxCount - 1)
      /\ d.words \in Buffered
  BY DEF Drv
<1>2. CASE d.i + 1 < d.n
  <2> DEFINE e == [d EXCEPT !.pc = "pause", !.i = @ + 1, !.w = 0]
  <2>1. SectorOver(d) = e
    BY <1>2 DEF SectorOver
  <2>2. /\ e.pc = "pause" /\ e.i = d.i + 1 /\ e.w = 0
        /\ e.op = d.op /\ e.lba = d.lba /\ e.n = d.n /\ e.words = d.words
    BY DEF Drv
  <2>3. d.i + 1 \in 0..(MaxCount - 1)
    BY <1>1, <1>2, AtaAssumption
  <2>4. e \in Drv
    BY <2>3, ZeroWord DEF Drv, Steps
  <2> QED
    BY <1>2, <2>1, <2>2, <2>4
<1>3. CASE ~(d.i + 1 < d.n)
  <2> DEFINE e == [d EXCEPT !.pc = "done", !.w = 0]
  <2>1. SectorOver(d) = e
    BY <1>3 DEF SectorOver
  <2>2. /\ e.pc = "done" /\ e.i = d.i /\ e.w = 0
        /\ e.op = d.op /\ e.lba = d.lba /\ e.n = d.n /\ e.words = d.words
    BY DEF Drv
  <2>3. d.i + 1 = d.n
    BY <1>1, <1>3, AtaAssumption
  <2>4. e \in Drv
    BY ZeroWord DEF Drv, Steps
  <2> QED
    BY <2>1, <2>2, <2>3, <2>4
<1> QED
  BY <1>2, <1>3

(* A word of the sector under way arrives. *)
Kept(d, x) == [d EXCEPT !.words[d.i][d.w] = x]

LEMMA KeptIs ==
    ASSUME NEW d \in Drv, NEW x \in Data \cup {Stale},
           d.i < d.n, d.words \in [0..(d.n - 1) -> Sector]
    PROVE  /\ Kept(d, x) \in Drv
           /\ \A f \in {"pc", "op", "lba", "n", "i", "w"} : Kept(d, x)[f] = d[f]
           /\ Kept(d, x).words = [d.words EXCEPT ![d.i] = [d.words[d.i] EXCEPT ![d.w] = x]]
           /\ Kept(d, x).words \in [0..(d.n - 1) -> Sector]
<1> DEFINE row == [d.words[d.i] EXCEPT ![d.w] = x]
           rows == [d.words EXCEPT ![d.i] = row]
<1>1. /\ d.i \in 0..(d.n - 1) /\ d.n \in 0..MaxCount /\ d.w \in Word
  BY DEF Drv
<1>2. d.words[d.i] \in Sector
  BY <1>1
<1>3. row \in Sector
  BY <1>2 DEF Sector
<1>4. rows \in [0..(d.n - 1) -> Sector]
  BY <1>3
<1>5. rows \in Buffered
  BY <1>1, <1>4, BufferedIs
<1>6. Kept(d, x) = [d EXCEPT !.words = rows]
  BY DEF Kept, Drv
<1> HIDE DEF rows
<1>7. [d EXCEPT !.words = rows].words = rows
  BY DEF Drv
<1>8. [d EXCEPT !.words = rows] \in Drv
  BY <1>5 DEF Drv
<1>9. \A f \in {"pc", "op", "lba", "n", "i", "w"} : [d EXCEPT !.words = rows][f] = d[f]
  BY DEF Drv
<1> QED
  BY <1>4, <1>6, <1>7, <1>8, <1>9 DEF rows

LEMMA Fields ==
    ASSUME Types
    PROVE  /\ drv.pc \in Steps /\ drv.op \in {"none", "read", "write", "identify"}
           /\ drv.lba \in Nat /\ drv.n \in 0..MaxCount /\ drv.i \in 0..(MaxCount - 1)
           /\ drv.w \in Word
           /\ dev.phase \in Phases /\ dev.err \in BOOLEAN /\ dev.sel \in Drive
           /\ dev.lba \in 0..(Sectors + MaxCount) /\ dev.word \in 0..Words
           /\ dev.buf \in Sector
           /\ faults \in 0..MaxFaults /\ failed \subseteq 0..(Sectors + MaxCount)
  BY DEF Types, Dev, Drv

(* Only phases that need a drive have one. *)
LEMMA StatusIs ==
    ASSUME Types, PhaseOK
    PROVE  /\ BSY <=> dev.phase \in {"fetch", "accept", "commit", "identify"}
           /\ DRQ <=> dev.phase \in {"give", "take"}
           /\ Deaf <=> dev.phase # "rest"
           /\ ERR => dev.err /\ dev.phase = "rest"
<1>1. dev.phase \in Phases
  BY Fields
<1> QED
  BY <1>1 DEF PhaseOK, BSY, DRQ, Deaf, ERR, Phases
-----------------------------------------------------------------------------
(* Steps that only move the program counter. *)
Same(d, e) ==
    /\ e.op = d.op /\ e.lba = d.lba /\ e.n = d.n /\ e.i = d.i /\ e.w = d.w
    /\ e.words = d.words

LEMMA MovedIs ==
    ASSUME NEW d \in Drv, NEW p \in Steps
    PROVE  LET e == [d EXCEPT !.pc = p] IN e \in Drv /\ e.pc = p /\ Same(d, e)
  BY DEF Drv, Same

LEMMA IdleCall == CallOK(Idle)
  BY DEF CallOK, Idle, Transfers, Identifies

LEMMA InitIInv ==
    ASSUME Init PROVE IInv
<1>1. 0 \in 0..MaxFaults /\ 0 \in Drive /\ 0 \in 0..(Sectors + MaxCount) /\ 0 \in 0..Words
  BY AtaAssumption DEF Drive
<1>2. dev \in Dev
  <2>1. PICK kind \in Kinds :
            dev = [kind |-> kind, phase |-> "rest", err |-> FALSE, sel |-> 0,
                   lba |-> 0, word |-> 0, buf |-> NoWords]
    BY DEF Init
  <2>2. kind \in [Drive -> {"ata", "atapi", "none"}]
    BY AtaAssumption
  <2> QED
    BY <1>1, <2>1, <2>2, NoWordsTyped DEF Dev, Phases
<1>3. asked \in [lba : Nat, words : Full]
  BY AtaAssumption DEF Init, Full
<1>4. Types
  BY <1>1, <1>2, <1>3, IdleTyped DEF Init, Types, Full
<1>5. drv.pc = "idle" /\ drv.op = "none" /\ dev.phase = "rest" /\ dev.err = FALSE
  BY DEF Init, Idle
<1>6. CallOK(drv)
  BY IdleCall DEF Init
<1>7. PhaseOK /\ PlaceOK /\ ReadOK
  BY <1>5 DEF PhaseOK, PlaceOK, ReadOK, Under
<1> QED
  BY <1>4, <1>6, <1>7 DEF IInv

LEMMA PollBusyIInv == ASSUME IInv, PollBusy PROVE IInv'
<1>1. Types /\ CallOK(drv) /\ PhaseOK /\ PlaceOK /\ ReadOK
  BY DEF IInv
<1>2. /\ drv' \in Drv /\ drv'.pc = "ready" /\ Same(drv, drv') /\ drv.pc = "poll"
      /\ UNCHANGED <<platter, dev, faults, failed, asked>>
  BY <1>1, MovedIs DEF PollBusy, Types, Steps
<1>3. dev.phase \notin {"fetch", "accept", "commit", "identify"}
  BY <1>1, StatusIs DEF PollBusy
<1>4. Types'
  BY <1>1, <1>2 DEF Types
<1>5. CallOK(drv')
  BY <1>1, <1>2 DEF CallOK, Same, Transfers, Identifies
<1>6. PhaseOK'
  BY <1>1, <1>2, <1>3, Fields DEF PhaseOK, Same, Absent, Kind, CallOK, Transfers, Identifies, Phases
<1>7. PlaceOK'
  BY <1>1, <1>2 DEF PlaceOK, Under, Same
<1>8. ReadOK'
  BY <1>1, <1>2 DEF ReadOK, ERR, Absent, Kind, Right, Partial, Same
<1> QED
  BY <1>4, <1>5, <1>6, <1>7, <1>8 DEF IInv

LEMMA ResumeIInv == ASSUME IInv, Resume PROVE IInv'
<1>1. Types /\ CallOK(drv) /\ PhaseOK /\ PlaceOK /\ ReadOK
  BY DEF IInv
<1>2. /\ drv' \in Drv /\ drv'.pc = "setup" /\ Same(drv, drv') /\ drv.pc = "pause"
      /\ UNCHANGED <<platter, dev, faults, failed, asked>>
  BY <1>1, MovedIs DEF Resume, Types, Steps
<1>3. dev.phase = "rest"
  BY <1>1, <1>2, StatusIs DEF Resume, Settled, PhaseOK
<1>4. Types'
  BY <1>1, <1>2 DEF Types
<1>5. CallOK(drv')
  BY <1>1, <1>2 DEF CallOK, Same, Transfers, Identifies
<1>6. PhaseOK'
  BY <1>1, <1>2, <1>3 DEF PhaseOK, Same, Absent, Kind
<1>7. PlaceOK'
  BY <1>1, <1>2, <1>3 DEF PlaceOK, Under, Same
<1>8. ReadOK'
  BY <1>1, <1>2, <1>3 DEF ReadOK, ERR, Absent, Kind, Right, Partial, Same
<1> QED
  BY <1>4, <1>5, <1>6, <1>7, <1>8 DEF IInv

LEMMA ReturnIInv == ASSUME IInv, Return PROVE IInv'
<1>1. Types /\ CallOK(drv) /\ PhaseOK /\ PlaceOK /\ ReadOK
  BY DEF IInv
<1>2. /\ drv' = Idle /\ drv.pc = "done" /\ UNCHANGED <<platter, dev, faults, failed, asked>>
  BY DEF Return
<1>3. drv'.pc = "idle" /\ drv'.op = "none" /\ dev.phase \in {"rest", "commit"}
  BY <1>1, <1>2 DEF Idle, PhaseOK
<1>4. Types'
  BY <1>1, <1>2, IdleTyped DEF Types
<1>5. CallOK(drv')
  BY <1>2, IdleCall
<1>6. PhaseOK'
  BY <1>1, <1>2, <1>3 DEF PhaseOK, Absent, Kind
<1>7. PlaceOK'
  BY <1>1, <1>2, <1>3 DEF PlaceOK, Under
<1>8. ReadOK'
  BY <1>3 DEF ReadOK
<1> QED
  BY <1>4, <1>5, <1>6, <1>7, <1>8 DEF IInv

(* ide_poll has an answer: a sector is given up or goes on. *)
LEMMA PollReadyIInv == ASSUME IInv, PollReady PROVE IInv'
<1>1. Types /\ CallOK(drv) /\ PhaseOK /\ PlaceOK /\ ReadOK
  BY DEF IInv
<1>2. drv.pc = "ready" /\ drv \in Drv /\ UNCHANGED <<platter, dev, faults, failed, asked>>
  BY <1>1 DEF PollReady, Types
<1>3. drv.op \in {"read", "write"} /\ drv.i < drv.n /\ drv.w = 0
  BY <1>1, <1>2 DEF CallOK, Transfers
<1>4. CASE ERR /\ drv.op = "read"
  <2>1. /\ drv' = SectorOver(drv) /\ dev.err /\ dev.phase = "rest"
    BY <1>1, <1>4, StatusIs DEF PollReady
  <2>2. /\ drv' \in Drv /\ drv'.op = "read" /\ drv'.lba = drv.lba /\ drv'.n = drv.n
        /\ drv'.words = drv.words /\ drv'.w = 0
        /\ \/ drv'.pc = "pause" /\ drv'.i = drv.i + 1 /\ drv'.i < drv'.n
           \/ drv'.pc = "done" /\ drv'.i = drv.i /\ drv'.i + 1 = drv'.n
    BY <1>2, <1>3, <1>4, <2>1, SectorOverIs
  <2>3. Types'
    BY <1>1, <1>2, <2>2 DEF Types
  <2>4. CallOK(drv')
    BY <1>1, <1>4, <2>2 DEF CallOK, Transfers, Identifies
  <2>5. PhaseOK'
    BY <1>1, <1>2, <2>1, <2>2 DEF PhaseOK, Absent, Kind
  <2>6. PlaceOK'
    BY <1>1, <1>2, <2>1, <2>2 DEF PlaceOK, Under
  <2>7. Right(drv.words, drv.i)
    BY <1>1, <1>2, <1>4, <2>1 DEF ReadOK, ERR, Absent, Kind, Right, PlaceOK, Under
  <2>8. ReadOK'
    <3>1. \A j \in 0..drv.i : Right(drv.words, j)
      BY <1>1, <1>4, <2>7, Fields DEF ReadOK
    <3>2. \A j \in 0..drv.i : Right(drv.words, j)'
      BY <3>1, <1>2, <2>2 DEF Right
    <3>3. \A j \in 0..(drv'.i - 1) : Right(drv.words, j)'
      BY <3>2, <2>2, <1>1, Fields
    <3>4. drv'.pc = "done" => Right(drv.words, drv.i)'
      BY <3>2, <2>2, <1>1, Fields
    <3>5. \A j \in (drv.i + 1)..(drv.n - 1) : drv.words[j] = NoWords
      BY <1>1, <1>4 DEF ReadOK
    <3>6. \A j \in (drv'.i + 1)..(drv'.n - 1) : drv'.words[j] = NoWords
      BY <3>5, <2>2, <1>1, Fields
    <3>7. drv'.pc # "done" => drv'.words[drv'.i] = NoWords
      BY <3>5, <2>2, <1>1, Fields
    <3> QED
      BY <3>3, <3>4, <3>6, <3>7, <2>1, <2>2, <1>2 DEF ReadOK, ERR, Absent, Kind, Right
  <2> QED
    BY <2>3, <2>4, <2>5, <2>6, <2>8 DEF IInv
<1>5. CASE ~(ERR /\ drv.op = "read")
  <2>1. /\ drv' \in Drv /\ drv'.pc = "transfer" /\ Same(drv, drv')
    BY <1>2, <1>5, MovedIs DEF PollReady, Steps
  <2>2. drv.op = "read" => dev.phase = "give"
    BY <1>1, <1>5, <1>2, StatusIs DEF PollReady, PhaseOK
  <2>3. drv.op = "write" => dev.phase \in {"rest", "take"}
    BY <1>1, <1>2, Fields DEF PhaseOK
  <2>4. Types'
    BY <1>1, <1>2, <2>1 DEF Types
  <2>5. CallOK(drv')
    BY <1>1, <1>2, <2>1 DEF CallOK, Same, Transfers, Identifies
  <2>6. PhaseOK'
    BY <1>1, <1>2, <1>3, <2>1, <2>2, <2>3 DEF PhaseOK, Same, Absent, Kind
  <2>7. PlaceOK'
    BY <1>1, <1>2, <2>1 DEF PlaceOK, Under, Same
  <2>8. drv.op = "read" => Partial(drv.words, 0)
    <3>1. drv.op = "read" => drv.words[drv.i] = NoWords
      BY <1>1, <1>2 DEF ReadOK
    <3>2. NoWords = UpTo(platter[dev.lba], 0)
      BY DEF NoWords, Word, UpTo
    <3> QED
      BY <3>1, <3>2 DEF Partial
  <2>9. ReadOK'
    BY <1>1, <1>2, <1>3, <2>1, <2>8 DEF ReadOK, ERR, Absent, Kind, Right, Partial, Same
  <2> QED
    BY <2>4, <2>5, <2>6, <2>7, <2>9 DEF IInv
<1> QED
  BY <1>4, <1>5
-----------------------------------------------------------------------------
(* Requests come while nothing is under way and the drive is at rest. *)
LEMMA AtRest ==
    ASSUME IInv, drv = Idle, Settled
    PROVE  dev.phase = "rest" /\ drv.pc = "idle" /\ drv.op = "none"
<1>1. drv.pc = "idle" /\ drv.op = "none"
  BY DEF Idle
<1>2. dev.phase = "rest"
  BY <1>1, StatusIs DEF IInv, Settled, PhaseOK
<1> QED
  BY <1>1, <1>2

(* A request for n sectors. *)
LEMMA RequestIInv ==
    ASSUME IInv, drv = Idle, Settled, UNCHANGED <<platter, dev, faults, asked>>, failed' = {},
           NEW d \in Drv, drv' = d, CallOK(d), d.pc \in {"setup", "identify"}, d.i = 0,
           d.op = "read" => \A j \in 0..(d.n - 1) : d.words[j] = NoWords
    PROVE  IInv'
<1>1. dev.phase = "rest" /\ Types /\ PhaseOK
  BY AtRest DEF IInv
<1>2. Types'
  BY <1>1 DEF Types
<1>3. PhaseOK'
  BY <1>1 DEF PhaseOK, Absent, Kind
<1>4. PlaceOK'
  BY <1>1 DEF PlaceOK, Under
<1>5. ReadOK'
  <2>1. d.op = "read" => d.n \in Nat /\ 0 < d.n
    BY DEF CallOK, Drv
  <2> QED
    BY <1>1, <2>1 DEF ReadOK
<1> QED
  BY <1>2, <1>3, <1>4, <1>5 DEF IInv

LEMMA ReadIInv ==
    ASSUME IInv, NEW lba \in 0..Sectors, NEW n \in 1..MaxCount, Read(lba, n)
    PROVE  IInv'
<1> DEFINE words == [i \in 0..(n - 1) |-> NoWords]
           d == [Idle EXCEPT !.pc = "setup", !.op = "read", !.lba = lba, !.n = n,
                             !.words = words]
<1>1. lba \in Nat /\ n \in 0..MaxCount /\ 0 < n
  BY AtaAssumption
<1>2. words \in [0..(n - 1) -> Sector] /\ \A j \in 0..(n - 1) : words[j] = NoWords
  BY NoWordsTyped
<1>3. words \in Buffered
  BY <1>1, <1>2, BufferedIs
<1> HIDE DEF words
<1>4. d \in Drv
  BY <1>1, <1>3, IdleTyped DEF Drv, Steps
<1>5. /\ d.pc = "setup" /\ d.op = "read" /\ d.lba = lba /\ d.n = n /\ d.i = 0 /\ d.w = 0
      /\ d.words = words
  BY DEF Idle
<1>6. CallOK(d)
  BY <1>1, <1>2, <1>5 DEF CallOK, Transfers, Identifies
<1>7. /\ drv = Idle /\ Settled /\ drv' = d /\ failed' = {}
      /\ UNCHANGED <<platter, dev, faults, asked>>
  BY DEF Read, words
<1> QED
  BY <1>2, <1>4, <1>5, <1>6, <1>7, RequestIInv

LEMMA WriteIInv ==
    ASSUME IInv, NEW lba \in 0..Sectors, NEW n \in 1..MaxCount,
           NEW words \in [0..(n - 1) -> Full], Write(lba, n, words)
    PROVE  IInv'
<1> DEFINE d == [Idle EXCEPT !.pc = "setup", !.op = "write", !.lba = lba, !.n = n,
                             !.words = words]
<1>1. lba \in Nat /\ n \in 0..MaxCount /\ 0 < n
  BY AtaAssumption
<1>2. words \in [0..(n - 1) -> Sector]
  BY <1>1, FullBuffer
<1>3. words \in Buffered
  BY <1>1, <1>2, BufferedIs
<1>4. d \in Drv
  BY <1>1, <1>3, IdleTyped DEF Drv, Steps
<1>5. /\ d.pc = "setup" /\ d.op = "write" /\ d.lba = lba /\ d.n = n /\ d.i = 0 /\ d.w = 0
      /\ d.words = words
  BY DEF Idle
<1>6. CallOK(d)
  BY <1>1, <1>2, <1>5 DEF CallOK, Transfers, Identifies
<1>7. /\ drv = Idle /\ Settled /\ drv' = d /\ failed' = {}
      /\ UNCHANGED <<platter, dev, faults, asked>>
  BY DEF Write
<1> QED
  BY <1>4, <1>5, <1>6, <1>7, RequestIInv

LEMMA IdentifyIInv ==
    ASSUME IInv, NEW device \in Drive, Identify(device)
    PROVE  IInv'
<1> DEFINE d == [Idle EXCEPT !.pc = "identify", !.op = "identify", !.lba = device, !.n = 1]
<1>1. device \in Nat /\ 1 \in 0..MaxCount
  BY AtaAssumption DEF Drive
<1>2. d \in Drv
  BY <1>1, IdleTyped DEF Drv, Steps
<1>3. d.pc = "identify" /\ d.op = "identify" /\ d.lba = device /\ d.n = 1 /\ d.i = 0 /\ d.w = 0
  BY DEF Idle
<1>4. CallOK(d)
  BY <1>3 DEF CallOK, Transfers, Identifies
<1>5. /\ drv = Idle /\ Settled /\ drv' = d /\ failed' = {}
      /\ UNCHANGED <<platter, dev, faults, asked>>
  BY DEF Identify
<1> QED
  BY <1>2, <1>3, <1>4, <1>5, RequestIInv

(* The registers are loaded: the drive is at rest and takes them. *)
LEMMA SetUpIInv == ASSUME IInv, SetUp PROVE IInv'
<1>1. Types /\ CallOK(drv) /\ PhaseOK /\ PlaceOK /\ ReadOK
  BY DEF IInv
<1>2. drv.pc = "setup" /\ dev.phase = "rest" /\ ~Deaf
  BY <1>1, StatusIs DEF SetUp, PhaseOK
<1>3. /\ drv.op \in {"read", "write"} /\ drv.i < drv.n /\ drv.w = 0 /\ drv.lba \in 0..Sectors
      /\ drv.words \in [0..(drv.n - 1) -> Sector]
      /\ drv.op = "write" => drv.words \in [0..(drv.n - 1) -> Full]
  BY <1>1, <1>2 DEF CallOK, Transfers
<1>4. drv.i \in 0..(drv.n - 1) /\ drv.lba + drv.i \in 0..(Sectors + MaxCount)
  <2>1. drv.n \in 0..MaxCount /\ drv.i \in 0..(MaxCount - 1)
    BY <1>1, Fields
  <2> QED
    BY <1>3, <2>1, AtaAssumption
<1>5. drv' \in Drv /\ drv'.pc = "command" /\ Same(drv, drv')
  BY <1>1, MovedIs DEF SetUp, Types, Steps
<1>6. /\ dev' = [dev EXCEPT !.sel = 0, !.lba = drv.lba + drv.i]
      /\ UNCHANGED <<platter, faults, failed>>
  BY <1>2 DEF SetUp
<1>7. /\ dev' \in Dev /\ dev'.phase = "rest" /\ dev'.lba = drv.lba + drv.i /\ dev'.sel = 0
      /\ dev'.err = dev.err
  BY <1>1, <1>2, <1>4, <1>6 DEF Types, Dev, Drive
<1>8. /\ asked' \in [lba : Nat, words : Full]
      /\ drv.op = "write" => asked'.lba = drv.lba + drv.i /\ asked'.words = drv.words[drv.i]
  <2>1. CASE drv.op = "write"
    <3>1. drv.words[drv.i] \in Full
      BY <1>3, <1>4, <2>1
    <3>2. drv.lba + drv.i \in Nat
      BY <1>4, AtaAssumption
    <3>3. asked' = [lba |-> drv.lba + drv.i, words |-> drv.words[drv.i]]
      BY <2>1 DEF SetUp
    <3> QED
      BY <3>1, <3>2, <3>3
  <2>2. CASE drv.op # "write"
    BY <1>1, <2>2 DEF SetUp, Types
  <2> QED
    BY <2>1, <2>2
<1>9. Types'
  BY <1>1, <1>5, <1>6, <1>7, <1>8 DEF Types
<1>10. CallOK(drv')
  BY <1>1, <1>2, <1>5 DEF CallOK, Same, Transfers, Identifies
<1>11. PhaseOK'
  BY <1>7, <1>5, <1>3 DEF PhaseOK, Same, Absent, Kind
<1>12. PlaceOK'
  BY <1>5, <1>7, <1>8 DEF PlaceOK, Under, Same
<1>13. ReadOK'
  BY <1>1, <1>2, <1>5, <1>6, <1>7 DEF ReadOK, ERR, Absent, Kind, Right, Same
<1> QED
  BY <1>9, <1>10, <1>11, <1>12, <1>13 DEF IInv

LEMMA StartedIs ==
    ASSUME Types, ~Deaf, NEW p \in Phases
    PROVE  LET d == Started(p)
           IN  /\ d \in Dev /\ d.phase = p /\ d.err = FALSE /\ d.word = 0
               /\ d.kind = dev.kind /\ d.sel = dev.sel /\ d.lba = dev.lba
<1>1. 0 \in 0..Words
  BY AtaAssumption
<1>2. Started(p) = [dev EXCEPT !.err = FALSE, !.word = 0, !.buf = NoWords, !.phase = p]
  BY DEF Started
<1> QED
  BY <1>1, <1>2, NoWordsTyped DEF Types, Dev

LEMMA CommandIInv == ASSUME IInv, Command PROVE IInv'
<1>1. Types /\ CallOK(drv) /\ PhaseOK /\ PlaceOK /\ ReadOK
  BY DEF IInv
<1>2. drv.pc = "command" /\ dev.phase = "rest" /\ ~Deaf
  BY <1>1, StatusIs DEF Command, PhaseOK
<1>3. drv.op \in {"read", "write"} /\ drv.w = 0
  BY <1>1, <1>2 DEF CallOK, Transfers
<1>4. /\ drv' \in Drv /\ drv'.pc = "poll" /\ Same(drv, drv')
      /\ UNCHANGED <<platter, faults, failed, asked>>
  BY <1>1, MovedIs DEF Command, Types, Steps
<1>5. /\ dev' \in Dev
      /\ dev'.kind = dev.kind /\ dev'.sel = dev.sel /\ dev'.lba = dev.lba
      /\ \/ Absent /\ dev' = dev
         \/ /\ ~Absent /\ dev'.phase = (IF drv.op = "read" THEN "fetch" ELSE "accept")
            /\ dev'.err = FALSE /\ dev'.word = 0
  <2>1. CASE Absent
    <3>1. dev' = dev
      BY <2>1 DEF Command
    <3> QED
      BY <1>1, <2>1, <3>1 DEF Types
  <2>2. CASE ~Absent
    <3>1. dev' = Started(IF drv.op = "read" THEN "fetch" ELSE "accept")
      BY <2>2 DEF Command
    <3> QED
      BY <1>1, <1>2, <2>2, <3>1, StartedIs DEF Phases
  <2> QED
    BY <2>1, <2>2
<1>6. Types'
  BY <1>1, <1>4, <1>5 DEF Types
<1>7. CallOK(drv')
  BY <1>1, <1>2, <1>4 DEF CallOK, Same, Transfers, Identifies
<1>8. PhaseOK'
  BY <1>1, <1>2, <1>3, <1>4, <1>5 DEF PhaseOK, Same, Absent, Kind
<1>9. PlaceOK'
  BY <1>1, <1>2, <1>4, <1>5 DEF PlaceOK, Under, Same
<1>10. ReadOK'
  BY <1>1, <1>2, <1>3, <1>4, <1>5 DEF ReadOK, ERR, Absent, Kind, Right, Same
<1> QED
  BY <1>6, <1>7, <1>8, <1>9, <1>10 DEF IInv
-----------------------------------------------------------------------------
(* Identification. *)
LEMMA IdentifyCommandIInv == ASSUME IInv, IdentifyCommand PROVE IInv'
<1>1. Types /\ CallOK(drv) /\ PhaseOK /\ PlaceOK /\ ReadOK
  BY DEF IInv
<1>2. drv.pc = "identify" /\ dev.phase = "rest" /\ ~Deaf
  BY <1>1, StatusIs DEF IdentifyCommand, PhaseOK
<1>3. drv.op = "identify" /\ drv.w = 0 /\ drv.lba \in Drive
  BY <1>1, <1>2 DEF CallOK, Identifies
<1>4. /\ drv' \in Drv /\ drv'.pc = "present" /\ Same(drv, drv')
      /\ UNCHANGED <<platter, faults, failed, asked>>
  BY <1>1, MovedIs DEF IdentifyCommand, Types, Steps
<1>5. dev' \in Dev /\ dev'.sel = drv.lba /\ PhaseOK'
  <2>1. CASE Kind[drv.lba] = "none"
    <3>1. dev' = [dev EXCEPT !.sel = drv.lba]
      BY <1>2, <2>1 DEF IdentifyCommand
    <3>2. dev' \in Dev /\ dev'.sel = drv.lba /\ dev'.phase = "rest"
      BY <1>1, <1>2, <1>3, <3>1 DEF Types, Dev
    <3> QED
      BY <1>3, <1>4, <3>2 DEF PhaseOK, Same
  <2>2. CASE Kind[drv.lba] # "none"
    <3> DEFINE d == Started("identify")
    <3>1. /\ d \in Dev /\ d.phase = "identify" /\ d.err = FALSE /\ d.word = 0
          /\ d.kind = dev.kind
      BY <1>1, <1>2, StartedIs DEF Phases
    <3>2. dev' = [d EXCEPT !.sel = drv.lba]
      BY <1>2, <2>2 DEF IdentifyCommand
    <3> HIDE DEF d
    <3>3. /\ dev' \in Dev /\ dev'.phase = "identify" /\ dev'.err = FALSE /\ dev'.word = 0
          /\ dev'.sel = drv.lba /\ dev'.kind = dev.kind
      BY <1>3, <3>1, <3>2 DEF Dev
    <3> QED
      BY <1>3, <1>4, <2>2, <3>3 DEF PhaseOK, Same, Absent, Kind
  <2> QED
    BY <2>1, <2>2
<1>6. Types'
  BY <1>1, <1>4, <1>5 DEF Types
<1>7. CallOK(drv')
  BY <1>1, <1>2, <1>4 DEF CallOK, Same, Transfers, Identifies
<1>8. PlaceOK'
  <2>1. dev'.phase \notin {"take", "commit"}
    BY <1>3, <1>4, <1>5 DEF PhaseOK, Same
  <2> QED
    BY <1>3, <1>4, <2>1 DEF PlaceOK, Under, Same
<1>9. ReadOK'
  BY <1>3, <1>4 DEF ReadOK, Same
<1> QED
  BY <1>5, <1>6, <1>7, <1>8, <1>9 DEF IInv

(* The driver looks at the status and goes on. *)
LEMMA IdentifyMoved ==
    ASSUME IInv, drv.pc \in Identifies \ {"identify"},
           UNCHANGED <<platter, dev, faults, failed, asked>>,
           NEW p \in {"done", "unbusy", "identified", "transfer"},
           drv' = [drv EXCEPT !.pc = p],
           p = "done" => dev.phase = "rest",
           p = "transfer" => dev.phase = "give"
    PROVE  IInv'
<1>1. Types /\ CallOK(drv) /\ PhaseOK /\ PlaceOK /\ ReadOK
  BY DEF IInv
<1>2. drv' \in Drv /\ drv'.pc = p /\ Same(drv, drv')
  <2>1. drv \in Drv /\ p \in Steps
    BY <1>1 DEF Types, Steps
  <2> QED
    BY <2>1, MovedIs
<1>3. drv.op = "identify" /\ drv.pc # "transfer"
  BY <1>1 DEF CallOK, Identifies
<1>4. Types'
  BY <1>1, <1>2 DEF Types
<1>5. CallOK(drv')
  BY <1>1, <1>2, <1>3 DEF CallOK, Same, Transfers, Identifies
<1>6. PhaseOK'
  BY <1>1, <1>2, <1>3 DEF PhaseOK, Same, Absent, Kind
<1>7. PlaceOK'
  BY <1>1, <1>2, <1>3 DEF PlaceOK, Under, Same
<1>8. ReadOK'
  BY <1>2, <1>3 DEF ReadOK, Same
<1> QED
  BY <1>4, <1>5, <1>6, <1>7, <1>8 DEF IInv

LEMMA IdentifyPresentIInv == ASSUME IInv, IdentifyPresent PROVE IInv'
<1>1. drv.pc \in Identifies \ {"identify"} /\ UNCHANGED <<platter, dev, faults, failed, asked>>
  BY DEF IdentifyPresent, Identifies
<1>2. CASE Absent
  <2>1. drv' = [drv EXCEPT !.pc = "done"] /\ dev.phase = "rest"
    BY <1>2 DEF IdentifyPresent, IInv, PhaseOK
  <2> QED
    BY <1>1, <2>1, IdentifyMoved
<1>3. CASE ~Absent
  <2>1. drv' = [drv EXCEPT !.pc = "unbusy"]
    BY <1>3 DEF IdentifyPresent
  <2> QED
    BY <1>1, <2>1, IdentifyMoved
<1> QED
  BY <1>2, <1>3

LEMMA IdentifyBusyIInv == ASSUME IInv, IdentifyBusy PROVE IInv'
<1>1. /\ drv.pc \in Identifies \ {"identify"} /\ UNCHANGED <<platter, dev, faults, failed, asked>>
      /\ drv' = [drv EXCEPT !.pc = "identified"]
  BY DEF IdentifyBusy, Identifies
<1> QED
  BY <1>1, IdentifyMoved

LEMMA IdentifyReadyIInv == ASSUME IInv, IdentifyReady PROVE IInv'
<1>1. drv.pc \in Identifies \ {"identify"} /\ UNCHANGED <<platter, dev, faults, failed, asked>>
  BY DEF IdentifyReady, Identifies
<1>2. CASE ERR
  <2>1. drv' = [drv EXCEPT !.pc = "done"] /\ dev.phase = "rest"
    BY <1>2, StatusIs DEF IdentifyReady, IInv
  <2> QED
    BY <1>1, <2>1, IdentifyMoved
<1>3. CASE ~ERR
  <2>1. drv' = [drv EXCEPT !.pc = "transfer"] /\ DRQ
    BY <1>3 DEF IdentifyReady
  <2>2. drv.op = "identify"
    BY <1>1 DEF IInv, CallOK
  <2>3. dev.phase = "give"
    BY <2>1, <2>2, StatusIs DEF IInv, PhaseOK
  <2> QED
    BY <1>1, <2>1, <2>3, IdentifyMoved
<1> QED
  BY <1>2, <1>3
-----------------------------------------------------------------------------
(* The drive. *)
LEMMA FetchedIInv ==
    ASSUME IInv, Works("fetch"), dev.lba < Sectors, UNCHANGED <<platter, faults, failed>>,
           dev' = [dev EXCEPT !.phase = "give", !.buf = platter[dev.lba]]
    PROVE  IInv'
<1>1. /\ Types /\ CallOK(drv) /\ PhaseOK /\ PlaceOK /\ ReadOK
      /\ dev.phase = "fetch" /\ drv' = drv /\ asked' = asked
  BY DEF IInv, Works
<1>2. platter[dev.lba] \in Sector
  <2>1. dev.lba \in 0..(Sectors - 1)
    BY <1>1, Fields, AtaAssumption
  <2> QED
    BY <1>1, <2>1, FullSector DEF Types
<1>3. /\ dev' \in Dev /\ dev'.phase = "give" /\ dev'.buf = platter[dev.lba]
      /\ dev'.kind = dev.kind /\ dev'.sel = dev.sel /\ dev'.lba = dev.lba /\ dev'.word = dev.word
      /\ dev'.err = dev.err
  BY <1>1, <1>2 DEF Types, Dev, Phases
<1>4. /\ drv.op \notin {"write", "identify"} /\ dev.err = FALSE /\ ~Absent
      /\ drv.pc \notin {"setup", "command", "identify", "idle", "pause", "done", "ready", "transfer"}
  BY <1>1, Fields DEF PhaseOK
<1>5. Types'
  BY <1>1, <1>3 DEF Types
<1>6. CallOK(drv')
  BY <1>1
<1>7. PhaseOK'
  BY <1>1, <1>3, <1>4 DEF PhaseOK, Absent, Kind
<1>8. PlaceOK'
  BY <1>1, <1>3 DEF PlaceOK, Under
<1>9. ReadOK'
  BY <1>1, <1>3, <1>4 DEF ReadOK, ERR, Absent, Kind, Right, Partial
<1> QED
  BY <1>5, <1>6, <1>7, <1>8, <1>9 DEF IInv

LEMMA AcceptedIInv ==
    ASSUME IInv, Works("accept"), dev.lba < Sectors, UNCHANGED <<platter, faults, failed>>,
           dev' = [dev EXCEPT !.phase = "take"]
    PROVE  IInv'
<1>1. /\ Types /\ CallOK(drv) /\ PhaseOK /\ PlaceOK /\ ReadOK
      /\ dev.phase = "accept" /\ drv' = drv /\ asked' = asked
  BY DEF IInv, Works
<1>2. /\ dev' \in Dev /\ dev'.phase = "take" /\ dev'.buf = dev.buf
      /\ dev'.kind = dev.kind /\ dev'.sel = dev.sel /\ dev'.lba = dev.lba /\ dev'.word = dev.word
      /\ dev'.err = dev.err
  BY <1>1 DEF Types, Dev, Phases
<1>3. /\ drv.op \notin {"read", "identify"} /\ dev.err = FALSE /\ ~Absent
      /\ drv.pc \notin {"setup", "command", "identify", "idle", "pause", "done", "ready", "transfer"}
  BY <1>1, Fields DEF PhaseOK
<1>4. drv.w = 0 /\ dev.word = 0
  BY <1>1, <1>3 DEF CallOK, PhaseOK
<1>5. Types'
  BY <1>1, <1>2 DEF Types
<1>6. CallOK(drv')
  BY <1>1
<1>7. PhaseOK'
  BY <1>1, <1>2, <1>3 DEF PhaseOK, Absent, Kind
<1>8. PlaceOK'
  BY <1>1, <1>2, <1>4 DEF PlaceOK, Under, Word
<1>9. ReadOK'
  BY <1>1, <1>3 DEF ReadOK
<1> QED
  BY <1>5, <1>6, <1>7, <1>8, <1>9 DEF IInv

LEMMA IdentifiedIInv ==
    ASSUME IInv, Works("identify"), UNCHANGED <<platter, faults, failed>>,
           dev' = [dev EXCEPT !.phase = "give"]
    PROVE  IInv'
<1>1. /\ Types /\ CallOK(drv) /\ PhaseOK /\ PlaceOK /\ ReadOK
      /\ dev.phase = "identify" /\ drv' = drv /\ asked' = asked
  BY DEF IInv, Works
<1>2. /\ dev' \in Dev /\ dev'.phase = "give" /\ dev'.buf = dev.buf
      /\ dev'.kind = dev.kind /\ dev'.sel = dev.sel /\ dev'.lba = dev.lba /\ dev'.word = dev.word
      /\ dev'.err = dev.err
  BY <1>1 DEF Types, Dev, Phases
<1>3. /\ drv.op \notin {"read", "write"} /\ dev.err = FALSE /\ ~Absent
      /\ drv.pc \notin {"setup", "command", "identify", "idle", "pause", "done", "transfer"}
  BY <1>1, Fields DEF PhaseOK
<1>4. Types'
  BY <1>1, <1>2 DEF Types
<1>5. CallOK(drv')
  BY <1>1
<1>6. PhaseOK'
  BY <1>1, <1>2, <1>3 DEF PhaseOK, Absent, Kind
<1>7. PlaceOK'
  BY <1>1, <1>2, <1>3 DEF PlaceOK, Under
<1>8. ReadOK'
  BY <1>1, <1>3 DEF ReadOK
<1> QED
  BY <1>4, <1>5, <1>6, <1>7, <1>8 DEF IInv

(* What the drive stores is what it was asked to. *)
LEMMA Committed ==
    ASSUME IInv, Works("commit"), platter' = [platter EXCEPT ![dev.lba] = dev.buf]
    PROVE  platter' = [platter EXCEPT ![asked.lba] = asked.words]
  BY DEF IInv, PlaceOK, Works

LEMMA CommittedIInv ==
    ASSUME IInv, Works("commit"), UNCHANGED <<faults, failed>>,
           dev' = [dev EXCEPT !.phase = "rest"], platter' = [platter EXCEPT ![dev.lba] = dev.buf]
    PROVE  IInv'
<1>1. /\ Types /\ CallOK(drv) /\ PhaseOK /\ PlaceOK /\ ReadOK
      /\ dev.phase = "commit" /\ drv' = drv /\ asked' = asked
  BY DEF IInv, Works
<1>2. /\ dev' \in Dev /\ dev'.phase = "rest"
      /\ dev'.kind = dev.kind /\ dev'.sel = dev.sel /\ dev'.lba = dev.lba
  BY <1>1 DEF Types, Dev, Phases
<1>3. drv.op \notin {"read", "identify"} /\ drv.pc \in {"idle", "pause", "done"}
  BY <1>1 DEF PhaseOK
<1>4. platter' \in [0..(Sectors - 1) -> Full]
  BY <1>1, Committed DEF Types
<1>5. Types'
  BY <1>1, <1>2, <1>4 DEF Types
<1>6. CallOK(drv')
  BY <1>1
<1>7. PhaseOK'
  BY <1>1, <1>2, <1>3 DEF PhaseOK
<1>8. PlaceOK'
  BY <1>1, <1>2, <1>3 DEF PlaceOK, Under
<1>9. ReadOK'
  BY <1>1, <1>3 DEF ReadOK
<1> QED
  BY <1>5, <1>6, <1>7, <1>8, <1>9 DEF IInv

LEMMA DeviceErrorIInv == ASSUME IInv, DeviceError PROVE IInv'
<1>1. /\ Types /\ CallOK(drv) /\ PhaseOK /\ PlaceOK /\ ReadOK
      /\ dev.phase \in {"fetch", "accept", "commit", "identify"}
      /\ drv' = drv /\ asked' = asked /\ platter' = platter
      /\ dev' = [dev EXCEPT !.phase = "rest", !.err = TRUE]
  BY DEF IInv, DeviceError, Works
<1>2. /\ dev' \in Dev /\ dev'.phase = "rest" /\ dev'.lba = dev.lba
  BY <1>1 DEF Types, Dev, Phases
<1>3. faults' \in 0..MaxFaults
  <2>1. faults \in Nat /\ faults <= MaxFaults /\ MaxFaults \in Nat
    BY <1>1, Fields, AtaAssumption
  <2>2. faults' = faults \/ (faults < MaxFaults /\ faults' = faults + 1)
    BY DEF DeviceError
  <2> QED
    BY <2>1, <2>2
<1>4. Types' /\ failed \subseteq failed' /\ dev.lba \in failed'
  <2>1. failed' = failed \cup {dev.lba}
    BY DEF DeviceError
  <2> QED
    BY <1>1, <1>2, <1>3, <2>1, Fields DEF Types
<1>5. CallOK(drv')
  BY <1>1
<1>6. PhaseOK'
  <2>1. drv.pc # "transfer"
    BY <1>1, Fields DEF PhaseOK
  <2> QED
    BY <1>1, <1>2, <2>1 DEF PhaseOK
<1>7. PlaceOK'
  BY <1>1, <1>2 DEF PlaceOK, Under
<1>8. ReadOK'
  <2>1. drv.op = "read" => dev.phase = "fetch" /\ drv.pc \notin {"transfer", "done"}
    BY <1>1 DEF PhaseOK
  <2>2. \A j : Right(drv.words, j) => Right(drv.words, j)'
    BY <1>1, <1>4 DEF Right
  <2> QED
    BY <1>1, <1>2, <1>4, <2>1, <2>2 DEF ReadOK
<1> QED
  BY <1>4, <1>5, <1>6, <1>7, <1>8 DEF IInv
-----------------------------------------------------------------------------
(* Words of a sector go over the channel one by one. *)
LEMMA WordOn ==
    ASSUME NEW d \in Drv, d.w # LastWord
    PROVE  LET e == [d EXCEPT !.w = @ + 1]
           IN  /\ e \in Drv /\ e.w = d.w + 1 /\ e.pc = d.pc /\ e.op = d.op
               /\ e.lba = d.lba /\ e.n = d.n /\ e.i = d.i /\ e.words = d.words
<1>1. d.w + 1 \in Word
  BY AtaAssumption DEF Drv, Word, LastWord
<1> QED
  BY <1>1 DEF Drv

LEMMA WordGiven ==
    ASSUME IInv, TransferIn
    PROVE  /\ DRQ /\ dev.phase = "give" /\ dev.word = drv.w /\ drv.i < drv.n
           /\ drv.op \in {"read", "identify"} /\ drv.pc = "transfer"
           /\ UNCHANGED <<platter, faults, failed, asked>>
           /\ dev' \in Dev /\ dev'.word = drv.w + 1 /\ dev'.err = dev.err
           /\ dev'.lba = dev.lba /\ dev'.kind = dev.kind /\ dev'.sel = dev.sel /\ dev'.buf = dev.buf
           /\ dev'.phase = (IF drv.w = LastWord THEN "rest" ELSE "give")
<1>1. Types /\ CallOK(drv) /\ PhaseOK /\ drv.pc = "transfer" /\ drv.op # "write"
  BY DEF IInv, TransferIn
<1>2. dev.phase = "give" /\ DRQ /\ dev.word = drv.w
  BY <1>1, StatusIs DEF PhaseOK
<1>3. drv.op \in {"read", "identify"} /\ drv.i < drv.n
  BY <1>1, Fields DEF CallOK
<1>4. dev.word + 1 \in 0..Words /\ dev.word = drv.w
  BY <1>1, <1>2, Fields, AtaAssumption DEF Word
<1> DEFINE p == IF drv.w = LastWord THEN "rest" ELSE "give"
<1>5. p \in Phases
  BY DEF Phases
<1>6. dev' = [dev EXCEPT !.word = dev.word + 1, !.phase = p]
  BY <1>2 DEF TransferIn, LastWord
<1> HIDE DEF p
<1>7. /\ dev' \in Dev /\ dev'.word = dev.word + 1 /\ dev'.err = dev.err /\ dev'.phase = p
      /\ dev'.lba = dev.lba /\ dev'.kind = dev.kind /\ dev'.sel = dev.sel /\ dev'.buf = dev.buf
  BY <1>1, <1>4, <1>5, <1>6 DEF Types, Dev
<1>8. UNCHANGED <<platter, faults, failed, asked>>
  BY DEF TransferIn
<1> QED
  BY <1>1, <1>2, <1>3, <1>4, <1>7, <1>8 DEF p

(* The buffer with one more word of the sector in it. *)
LEMMA PartialOn ==
    ASSUME NEW sector, NEW w \in Word
    PROVE  [UpTo(sector, w) EXCEPT ![w] = sector[w]] = UpTo(sector, w + 1)
<1>1. \A v \in Word : v \in Int
  BY DEF Word
<1>2. \A v \in Word : v < w + 1 <=> (v < w \/ v = w)
  BY <1>1
<1> QED
  BY <1>1, <1>2 DEF UpTo

LEMMA WholeSector ==
    ASSUME NEW sector \in Full
    PROVE  UpTo(sector, LastWord + 1) = sector
<1>1. \A v \in Word : v < LastWord + 1
  BY AtaAssumption DEF Word, LastWord
<1> QED
  BY <1>1 DEF Full, UpTo

LEMMA TransferReadIInv ==
    ASSUME IInv, TransferIn, drv.op = "read"
    PROVE  IInv'
<1> DEFINE x == dev.buf[dev.word]
           kept == Kept(drv, x)
<1>1. Types /\ CallOK(drv) /\ PhaseOK /\ PlaceOK /\ ReadOK
  BY DEF IInv
<1>2. /\ DRQ /\ dev.phase = "give" /\ dev.word = drv.w /\ drv.i < drv.n
      /\ drv.pc = "transfer" /\ UNCHANGED <<platter, faults, failed, asked>>
      /\ dev' \in Dev /\ dev'.word = drv.w + 1 /\ dev'.err = dev.err
      /\ dev'.lba = dev.lba /\ dev'.kind = dev.kind /\ dev'.sel = dev.sel /\ dev'.buf = dev.buf
      /\ dev'.phase = (IF drv.w = LastWord THEN "rest" ELSE "give")
  BY WordGiven
<1>3. /\ drv.words \in [0..(drv.n - 1) -> Sector] /\ drv.i \in 0..(drv.n - 1)
      /\ drv \in Drv /\ drv.w \in Word
  BY <1>1, <1>2, Fields DEF CallOK, Types
<1>4. x \in Data \cup {Stale}
  BY <1>2, <1>3, Fields, <1>1 DEF Sector
<1>5. /\ kept \in Drv /\ kept.pc = "transfer" /\ kept.op = "read" /\ kept.lba = drv.lba
      /\ kept.n = drv.n /\ kept.i = drv.i /\ kept.w = drv.w
      /\ kept.words = [drv.words EXCEPT ![drv.i] = [drv.words[drv.i] EXCEPT ![drv.w] = x]]
      /\ kept.words \in [0..(drv.n - 1) -> Sector]
  <2> HIDE DEF x
  <2>1. \A f \in {"pc", "op", "lba", "n", "i", "w"} : kept[f] = drv[f]
    BY <1>2, <1>3, <1>4, KeptIs
  <2>2. kept.pc = drv.pc /\ kept.op = drv.op /\ kept.lba = drv.lba
        /\ kept.n = drv.n /\ kept.i = drv.i /\ kept.w = drv.w
    BY <2>1
  <2> QED
    BY <1>2, <1>3, <1>4, <2>2, KeptIs
<1>6. drv' = IF drv.w = LastWord THEN SectorOver(kept) ELSE [kept EXCEPT !.w = @ + 1]
  BY <1>2 DEF TransferIn, Kept
<1> HIDE DEF x, kept
<1>7. dev.lba \in 0..(Sectors - 1) /\ dev.lba = drv.lba + drv.i /\ dev.buf = platter[dev.lba]
  <2>1. dev.lba < Sectors /\ dev.buf = platter[dev.lba] /\ dev.lba = drv.lba + drv.i
    BY <1>1, <1>2 DEF ReadOK, PlaceOK, Under
  <2> QED
    BY <2>1, <1>1, Fields, AtaAssumption
<1>8. kept.words[drv.i] = UpTo(platter[dev.lba], drv.w + 1)
  <2>1. drv.words[drv.i] = UpTo(platter[dev.lba], drv.w)
    BY <1>1, <1>2 DEF ReadOK, Partial
  <2>2. x = platter[dev.lba][drv.w]
    BY <1>2, <1>7 DEF x
  <2>3. kept.words[drv.i] = [drv.words[drv.i] EXCEPT ![drv.w] = x]
    BY <1>3, <1>5
  <2> QED
    BY <1>3, <2>1, <2>2, <2>3, PartialOn
<1>9. \A j \in 0..(drv.n - 1) : j # drv.i => kept.words[j] = drv.words[j]
  BY <1>3, <1>5
<1>10. /\ drv.i \in Int /\ drv.n \in Int
       /\ \A j \in 0..(drv.i - 1) : j \in 0..(drv.n - 1) /\ j # drv.i
       /\ \A j \in (drv.i + 1)..(drv.n - 1) : j \in 0..(drv.n - 1) /\ j # drv.i
  BY <1>1, <1>2, Fields
<1>11. \A j \in 0..(drv.i - 1) : Right(kept.words, j)
  BY <1>1, <1>2, <1>9, <1>10 DEF ReadOK, ERR, Absent, Kind, Right
<1>12. \A j \in (drv.i + 1)..(drv.n - 1) : kept.words[j] = NoWords
  BY <1>1, <1>2, <1>9, <1>10 DEF ReadOK
<1>13. CASE drv.w = LastWord
  <2>1. /\ drv' \in Drv /\ drv'.op = "read" /\ drv'.lba = drv.lba /\ drv'.n = drv.n
        /\ drv'.words = kept.words /\ drv'.w = 0
        /\ \/ drv'.pc = "pause" /\ drv'.i = drv.i + 1 /\ drv'.i < drv'.n
           \/ drv'.pc = "done" /\ drv'.i = drv.i /\ drv'.i + 1 = drv'.n
    BY <1>2, <1>5, <1>6, <1>13, SectorOverIs
  <2>2. dev'.phase = "rest"
    BY <1>2, <1>13
  <2>3. Types'
    BY <1>1, <1>2, <2>1 DEF Types
  <2>4. CallOK(drv')
    BY <1>1, <1>2, <1>5, <2>1 DEF CallOK, Transfers, Identifies
  <2>5. PhaseOK'
    BY <1>1, <1>2, <2>1, <2>2 DEF PhaseOK, Absent, Kind
  <2>6. PlaceOK'
    BY <2>1, <2>2 DEF PlaceOK, Under
  <2>7. kept.words[drv.i] = platter[drv.lba + drv.i]
    <3>1. platter[dev.lba] \in Full
      BY <1>1, <1>7 DEF Types
    <3> QED
      BY <1>7, <1>8, <1>13, <3>1, WholeSector
  <2>8. Right(kept.words, drv.i)
    <3>1. drv.lba + drv.i < Sectors
      BY <1>7, AtaAssumption
    <3> QED
      BY <2>7, <3>1 DEF Right
  <2>9. \A j \in 0..drv.i : Right(drv.words, j)'
    <3>1. \A j \in 0..drv.i : Right(kept.words, j)
      BY <1>10, <1>11, <2>8
    <3> QED
      BY <3>1, <1>2, <2>1 DEF Right
  <2>10. ReadOK'
    <3>1. \A j \in 0..(drv'.i - 1) : Right(drv.words, j)'
      BY <1>10, <2>1, <2>9
    <3>2. drv'.pc = "done" => Right(drv.words, drv.i)'
      BY <1>10, <2>1, <2>9, Fields, <1>1
    <3>3. \A j \in (drv'.i + 1)..(drv'.n - 1) : drv'.words[j] = NoWords
      BY <1>10, <1>12, <2>1
    <3>4. drv'.pc # "done" => drv'.words[drv'.i] = NoWords
      BY <1>10, <1>12, <2>1
    <3> QED
      BY <3>1, <3>2, <3>3, <3>4, <2>1, <2>2 DEF ReadOK, ERR, Absent, Kind, Right
  <2> QED
    BY <2>3, <2>4, <2>5, <2>6, <2>10 DEF IInv
<1>14. CASE drv.w # LastWord
  <2>1. /\ drv' \in Drv /\ drv'.op = "read" /\ drv'.lba = drv.lba /\ drv'.n = drv.n
        /\ drv'.words = kept.words /\ drv'.w = drv.w + 1 /\ drv'.pc = "transfer"
        /\ drv'.i = drv.i
    BY <1>5, <1>6, <1>14, WordOn
  <2>2. dev'.phase = "give"
    BY <1>2, <1>14
  <2>3. Types'
    BY <1>1, <1>2, <2>1 DEF Types
  <2>4. CallOK(drv')
    BY <1>1, <1>2, <1>5, <2>1 DEF CallOK, Transfers, Identifies
  <2>5. PhaseOK'
    BY <1>1, <1>2, <2>1, <2>2 DEF PhaseOK, Absent, Kind
  <2>6. PlaceOK'
    BY <1>7, <1>2, <2>1, <2>2 DEF PlaceOK, Under
  <2>7. Partial(drv.words, drv.w)'
    BY <1>2, <1>8, <2>1 DEF Partial
  <2>8. \A j \in 0..(drv'.i - 1) : Right(drv.words, j)'
    BY <1>2, <1>11, <2>1 DEF Right
  <2>9. \A j \in (drv'.i + 1)..(drv'.n - 1) : drv'.words[j] = NoWords
    BY <1>12, <2>1
  <2>10. dev'.lba < Sectors /\ dev'.buf = platter'[dev'.lba]
    BY <1>2, <1>7, AtaAssumption
  <2>11. ReadOK'
    BY <2>1, <2>7, <2>8, <2>9, <2>10 DEF ReadOK
  <2> QED
    BY <2>3, <2>4, <2>5, <2>6, <2>11 DEF IInv
<1> QED
  BY <1>13, <1>14

LEMMA TransferIdentifyIInv ==
    ASSUME IInv, TransferIn, drv.op # "read"
    PROVE  IInv'
<1>1. Types /\ CallOK(drv) /\ PhaseOK /\ PlaceOK /\ ReadOK
  BY DEF IInv
<1>2. /\ dev.phase = "give" /\ dev.word = drv.w /\ drv.i < drv.n
      /\ drv.op = "identify" /\ drv.pc = "transfer" /\ UNCHANGED <<platter, faults, failed, asked>>
      /\ dev' \in Dev /\ dev'.word = drv.w + 1 /\ dev'.err = dev.err
      /\ dev'.lba = dev.lba /\ dev'.kind = dev.kind /\ dev'.sel = dev.sel
      /\ dev'.phase = (IF drv.w = LastWord THEN "rest" ELSE "give")
  BY WordGiven
<1>3. drv' = IF drv.w = LastWord THEN SectorOver(drv) ELSE [drv EXCEPT !.w = @ + 1]
  BY <1>2 DEF TransferIn
<1>4. drv \in Drv /\ drv.i = 0 /\ drv.n = 1 /\ drv.lba \in Drive
  BY <1>1, <1>2 DEF Types, CallOK
<1>5. /\ drv' \in Drv /\ drv'.op = "identify" /\ drv'.lba = drv.lba /\ drv'.n = 1 /\ drv'.i = 0
      /\ IF drv.w = LastWord THEN drv'.pc = "done" /\ drv'.w = 0
         ELSE drv'.pc = "transfer" /\ drv'.w = drv.w + 1
  <2>1. CASE drv.w = LastWord
    BY <1>2, <1>3, <1>4, <2>1, SectorOverIs
  <2>2. CASE drv.w # LastWord
    BY <1>2, <1>3, <1>4, <2>2, WordOn
  <2> QED
    BY <2>1, <2>2
<1>6. Types'
  BY <1>1, <1>2, <1>5 DEF Types
<1>7. CallOK(drv')
  BY <1>4, <1>5 DEF CallOK, Transfers, Identifies
<1>8. PhaseOK'
  BY <1>1, <1>2, <1>5 DEF PhaseOK, Absent, Kind
<1>9. PlaceOK'
  BY <1>2, <1>5 DEF PlaceOK, Under
<1>10. ReadOK'
  BY <1>5 DEF ReadOK
<1> QED
  BY <1>6, <1>7, <1>8, <1>9, <1>10 DEF IInv

(* A drive that has failed ignores the words. *)
LEMMA WordPut ==
    ASSUME IInv, TransferOut
    PROVE  /\ dev' \in Dev /\ dev'.lba = dev.lba /\ dev'.err = dev.err
           /\ dev'.kind = dev.kind /\ dev'.sel = dev.sel
           /\ IF dev.phase = "take"
              THEN /\ dev'.buf = [dev.buf EXCEPT ![drv.w] = drv.words[drv.i][drv.w]]
                   /\ dev'.word = drv.w + 1 /\ dev.word = drv.w
                   /\ dev'.phase = (IF drv.w = LastWord THEN "commit" ELSE "take")
              ELSE dev.phase = "rest" /\ dev' = dev
<1>1. /\ Types /\ CallOK(drv) /\ PhaseOK /\ drv.pc = "transfer" /\ drv.op = "write"
      /\ dev \in Dev
  BY DEF IInv, TransferOut, Types
<1>2. CASE dev.phase = "take"
  <2>1. DRQ /\ dev.word = drv.w
    BY <1>1, <1>2, StatusIs DEF PhaseOK
  <2>2. /\ dev.word + 1 \in 0..Words /\ drv.w \in Word /\ drv.i \in 0..(drv.n - 1)
        /\ drv.words \in [0..(drv.n - 1) -> Full]
    <3>1. drv.w \in Word /\ drv.i \in Nat /\ drv.n \in Nat
      BY <1>1, Fields
    <3>2. drv.i < drv.n /\ drv.words \in [0..(drv.n - 1) -> Full]
      BY <1>1 DEF CallOK
    <3>3. drv.w + 1 \in 0..Words
      BY <3>1, AtaAssumption DEF Word
    <3> QED
      BY <2>1, <3>1, <3>2, <3>3
  <2>3. drv.words[drv.i][drv.w] \in Data
    BY <2>2 DEF Full
  <2> DEFINE b == [dev.buf EXCEPT ![drv.w] = drv.words[drv.i][drv.w]]
             p == IF drv.w = LastWord THEN "commit" ELSE "take"
  <2>4. b \in Sector
    BY <1>1, <2>2, <2>3, Fields DEF Sector
  <2>5. p \in Phases
    BY DEF Phases
  <2>6. dev' = [dev EXCEPT !.buf = b, !.word = dev.word + 1, !.phase = p]
    <3>1. dev' = [dev EXCEPT !.buf[dev.word] = drv.words[drv.i][drv.w],
                             !.word = dev.word + 1,
                             !.phase = IF dev.word = Words - 1 THEN "commit" ELSE dev.phase]
      BY <2>1 DEF TransferOut
    <3>2. [dev EXCEPT !.buf[dev.word] = drv.words[drv.i][drv.w]] = [dev EXCEPT !.buf = b]
      BY <2>1 DEF Dev
    <3> QED
      BY <1>2, <2>1, <3>1, <3>2 DEF LastWord
  <2> HIDE DEF b, p
  <2>7. /\ dev' \in Dev /\ dev'.lba = dev.lba /\ dev'.err = dev.err
        /\ dev'.kind = dev.kind /\ dev'.sel = dev.sel
        /\ dev'.buf = b /\ dev'.word = dev.word + 1 /\ dev'.phase = p
    BY <1>1, <2>2, <2>4, <2>5, <2>6 DEF Dev
  <2> QED
    BY <1>2, <2>1, <2>7 DEF b, p
<1>3. CASE dev.phase # "take"
  <2>1. dev.phase = "rest" /\ ~DRQ
    BY <1>1, <1>3, StatusIs, Fields DEF PhaseOK
  <2>2. dev' = dev
    BY <2>1 DEF TransferOut
  <2> QED
    BY <1>1, <1>3, <2>1, <2>2
<1> QED
  BY <1>2, <1>3

LEMMA TransferOutIInv == ASSUME IInv, TransferOut PROVE IInv'
<1>1. Types /\ CallOK(drv) /\ PhaseOK /\ PlaceOK /\ ReadOK
  BY DEF IInv
<1>2. /\ drv.pc = "transfer" /\ drv.op = "write" /\ UNCHANGED <<platter, faults, failed, asked>>
      /\ drv' = IF drv.w = LastWord THEN SectorOver(drv) ELSE [drv EXCEPT !.w = @ + 1]
  BY DEF TransferOut
<1>3. /\ drv \in Drv /\ drv.i < drv.n /\ drv.w \in Word /\ drv.lba \in 0..Sectors
      /\ drv.words \in [0..(drv.n - 1) -> Full] /\ drv.words \in [0..(drv.n - 1) -> Sector]
  BY <1>1, <1>2, Fields DEF Types, CallOK
<1>4. /\ drv' \in Drv /\ drv'.op = "write" /\ drv'.lba = drv.lba /\ drv'.n = drv.n
      /\ drv'.words = drv.words
      /\ IF drv.w = LastWord
         THEN /\ drv'.w = 0
              /\ \/ drv'.pc = "pause" /\ drv'.i = drv.i + 1 /\ drv'.i < drv'.n
                 \/ drv'.pc = "done" /\ drv'.i = drv.i /\ drv'.i + 1 = drv'.n
         ELSE drv'.pc = "transfer" /\ drv'.w = drv.w + 1 /\ drv'.i = drv.i
  <2>1. CASE drv.w = LastWord
    BY <1>2, <1>3, <2>1, SectorOverIs
  <2>2. CASE drv.w # LastWord
    BY <1>2, <1>3, <2>2, WordOn
  <2> QED
    BY <2>1, <2>2
<1>5. Types'
  BY <1>1, <1>2, <1>4, WordPut DEF Types
<1>6. CallOK(drv')
  BY <1>3, <1>4 DEF CallOK, Transfers, Identifies
<1>7. PhaseOK'
  BY <1>1, <1>2, <1>4, WordPut DEF PhaseOK, Absent, Kind
<1>8. Under /\ asked.words = drv.words[drv.i] /\ asked.lba = drv.lba + drv.i
            /\ dev.lba = drv.lba + drv.i
  BY <1>1, <1>2 DEF PlaceOK, Under
<1>9. dev.phase = "take" => \A v \in Word : v < drv.w + 1 => dev'.buf[v] = asked.words[v]
  <2> SUFFICES ASSUME dev.phase = "take", NEW v \in Word, v < drv.w + 1
               PROVE  dev'.buf[v] = asked.words[v]
    OBVIOUS
  <2>1. dev'.buf = [dev.buf EXCEPT ![drv.w] = drv.words[drv.i][drv.w]] /\ dev.word = drv.w
    BY WordPut
  <2>2. DOMAIN dev.buf = Word
    BY <1>1, Fields DEF Sector
  <2>3. v \in Int /\ drv.w \in Int
    BY <1>3 DEF Word
  <2>4. CASE v = drv.w
    BY <1>8, <2>1, <2>2, <2>4
  <2>5. CASE v # drv.w
    <3>1. v < drv.w
      BY <2>3, <2>5
    <3>2. dev.buf[v] = asked.words[v]
      BY <1>1, <2>1, <3>1 DEF PlaceOK
    <3> QED
      BY <2>1, <2>2, <2>5, <3>2
  <2> QED
    BY <2>4, <2>5
<1>10. dev.phase = "take" /\ drv.w = LastWord => dev'.buf = asked.words
  <2> SUFFICES ASSUME dev.phase = "take", drv.w = LastWord PROVE dev'.buf = asked.words
    OBVIOUS
  <2>1. \A v \in Word : v < drv.w + 1
    BY AtaAssumption DEF Word, LastWord
  <2>2. \A v \in Word : dev'.buf[v] = asked.words[v]
    BY <1>9, <2>1
  <2>3. dev' \in Dev /\ asked.words \in Full
    BY <1>1, WordPut DEF Types
  <2>4. dev'.buf = [v \in Word |-> dev'.buf[v]] /\ asked.words = [v \in Word |-> asked.words[v]]
    BY <2>3 DEF Dev, Sector, Full
  <2> QED
    BY <2>2, <2>4
<1>11. PlaceOK'
  <2>1. Under' => dev'.lba = drv'.lba + drv'.i
    BY <1>4, <1>8, WordPut DEF Under
  <2>2. Under' => asked'.lba = drv'.lba + drv'.i /\ asked'.words = drv'.words[drv'.i]
    BY <1>2, <1>4, <1>8 DEF Under
  <2>3. dev'.phase = "take" => \A v \in Word : v < dev'.word => dev'.buf[v] = asked'.words[v]
    BY <1>2, <1>9, WordPut
  <2>4. dev'.phase = "commit" => dev'.lba = asked'.lba /\ dev'.buf = asked'.words
    BY <1>2, <1>8, <1>10, WordPut
  <2> QED
    BY <2>1, <2>2, <2>3, <2>4 DEF PlaceOK
<1>12. ReadOK'
  BY <1>4 DEF ReadOK
<1> QED
  BY <1>5, <1>6, <1>7, <1>11, <1>12 DEF IInv
-----------------------------------------------------------------------------
LEMMA DeviceOKIInv ==
    ASSUME IInv, DeviceOK, UNCHANGED <<faults, failed>>
    PROVE  IInv' /\ (platter' # platter => platter' = [platter EXCEPT ![asked.lba] = asked.words])
<1>1. CASE /\ Works("fetch") /\ dev.lba < Sectors
           /\ dev' = [dev EXCEPT !.phase = "give", !.buf = platter[dev.lba]]
           /\ UNCHANGED platter
  BY <1>1, FetchedIInv
<1>2. CASE /\ Works("accept") /\ dev.lba < Sectors
           /\ dev' = [dev EXCEPT !.phase = "take"]
           /\ UNCHANGED platter
  BY <1>2, AcceptedIInv
<1>3. CASE /\ Works("commit")
           /\ dev' = [dev EXCEPT !.phase = "rest"]
           /\ platter' = [platter EXCEPT ![dev.lba] = dev.buf]
  BY <1>3, CommittedIInv, Committed
<1>4. CASE /\ Works("identify")
           /\ dev' = [dev EXCEPT !.phase = "give"]
           /\ UNCHANGED platter
  BY <1>4, IdentifiedIInv
<1> QED
  BY <1>1, <1>2, <1>3, <1>4 DEF DeviceOK

(* The drive alone writes to the disk. *)
LEMMA DriverReads == ASSUME Driver \/ Requests \/ DeviceError PROVE platter' = platter
<1>1. ASSUME Driver PROVE platter' = platter
  BY <1>1 DEF Driver, SetUp, Command, PollBusy, PollReady, TransferIn, TransferOut, Resume,
              Return, IdentifyCommand, IdentifyPresent, IdentifyBusy, IdentifyReady
<1>2. ASSUME Requests PROVE platter' = platter
  BY <1>2 DEF Requests, Read, Write, Identify
<1>3. ASSUME DeviceError PROVE platter' = platter
  BY <1>3 DEF DeviceError
<1> QED
  BY <1>1, <1>2, <1>3

LEMMA RequestsIInv == ASSUME IInv, Requests PROVE IInv'
<1>1. ASSUME NEW lba \in 0..Sectors, NEW n \in 1..MaxCount, Read(lba, n) PROVE IInv'
  BY <1>1, ReadIInv
<1>2. ASSUME NEW lba \in 0..Sectors, NEW n \in 1..MaxCount,
             NEW words \in [0..(n - 1) -> [Word -> Data]], Write(lba, n, words)
      PROVE  IInv'
  BY <1>2, WriteIInv DEF Full
<1>3. ASSUME NEW d \in Drive, Identify(d) PROVE IInv'
  BY <1>3, IdentifyIInv
<1> QED
  BY <1>1, <1>2, <1>3 DEF Requests

LEMMA NextIInv == ASSUME IInv, [Next]_vars PROVE IInv'
<1>1. CASE SetUp
  BY <1>1, SetUpIInv
<1>2. CASE Command
  BY <1>2, CommandIInv
<1>3. CASE PollBusy
  BY <1>3, PollBusyIInv
<1>4. CASE PollReady
  BY <1>4, PollReadyIInv
<1>5. CASE TransferIn
  BY <1>5, TransferReadIInv, TransferIdentifyIInv
<1>6. CASE TransferOut
  BY <1>6, TransferOutIInv
<1>7. CASE Resume
  BY <1>7, ResumeIInv
<1>8. CASE Return
  BY <1>8, ReturnIInv
<1>9. CASE IdentifyCommand
  BY <1>9, IdentifyCommandIInv
<1>10. CASE IdentifyPresent
  BY <1>10, IdentifyPresentIInv
<1>11. CASE IdentifyBusy
  BY <1>11, IdentifyBusyIInv
<1>12. CASE IdentifyReady
  BY <1>12, IdentifyReadyIInv
<1>13. CASE DeviceOK /\ UNCHANGED <<faults, failed>>
  BY <1>13, DeviceOKIInv
<1>14. CASE DeviceError
  BY <1>14, DeviceErrorIInv
<1>15. CASE Requests
  BY <1>15, RequestsIInv
<1>16. CASE UNCHANGED vars
  BY <1>16 DEF vars, IInv, Types, CallOK, PhaseOK, Absent, Kind, PlaceOK, Under, ReadOK, ERR, Right, Partial
<1> QED
  BY <1>1, <1>2, <1>3, <1>4, <1>5, <1>6, <1>7, <1>8, <1>9, <1>10, <1>11, <1>12, <1>13,
     <1>14, <1>15, <1>16 DEF Next, Driver, Device

(* The inductive invariant of the driver and the drive (ata.c).            *)
THEOREM Inductive == Spec => []IInv
<1>1. Init => IInv
  BY InitIInv
<1>2. IInv /\ [Next]_vars => IInv'
  BY NextIInv
<1> QED
  BY <1>1, <1>2, PTL DEF Spec

LEMMA ExactNow == ASSUME IInv PROVE TransfersExact
<1>1. Types /\ CallOK(drv) /\ ReadOK
  BY DEF IInv
<1>2. TypeOK
  <2>1. /\ platter \in [0..(Sectors - 1) -> [Word -> Data]] /\ drv.words \in Buffered
    BY <1>1 DEF Types, Full, Drv
  <2> QED
    BY <1>1, <2>1, Fields DEF TypeOK, Phases, Steps, Buffered
<1>3. ReadExact
  <2> SUFFICES ASSUME drv.pc = "done", drv.op = "read", NEW j \in 0..(drv.n - 1)
               PROVE  Right(drv.words, j)
    BY DEF ReadExact, Right
  <2>1. drv.i + 1 = drv.n /\ drv.i \in Int /\ drv.n \in Int
    BY <1>1, Fields DEF CallOK
  <2>2. j \in 0..(drv.i - 1) \/ j = drv.i
    BY <2>1
  <2> QED
    BY <1>1, <2>2 DEF ReadOK
<1> QED
  BY <1>2, <1>3 DEF TransfersExact

(* What ata_read leaves in the caller's buffer is, sector by sector, what  *)
(* the disk holds, or, where the drive failed on that sector in this call, *)
(* what was there before (ata.c:112, 173), on machines with and without    *)
(* the drives; indices stay in range.                                      *)
THEOREM ReadsExact == Spec => []TransfersExact
<1>1. IInv => TransfersExact
  BY ExactNow
<1> QED
  BY <1>1, Inductive, PTL

(* The drive stores the whole of the sector ata_write was last given, at   *)
(* its place, or nothing (ata.c:138).                                      *)
THEOREM StoresAsAsked == Spec => WritesAsAsked
<1>1. IInv /\ [Next]_vars =>
          [platter' # platter => platter' = [platter EXCEPT ![asked.lba] = asked.words]]_vars
  <2> SUFFICES ASSUME IInv, [Next]_vars, platter' # platter
               PROVE  platter' = [platter EXCEPT ![asked.lba] = asked.words]
    OBVIOUS
  <2>1. DeviceOK /\ UNCHANGED <<faults, failed>>
    BY DriverReads DEF Next, Device, vars
  <2> QED
    BY <2>1, DeviceOKIInv
<1> QED
  BY <1>1, Inductive, PTL DEF Spec, WritesAsAsked
=============================================================================
