------------------------------- MODULE AtaPio -------------------------------
(***************************************************************************)
(* The programmed-I/O disk driver of kernel/arch/i386/ata.c on the primary *)
(* channel, and the drive it talks to.                                     *)
(*                                                                         *)
(* The driver's steps are its port accesses, the accesses that set up one  *)
(* command's registers taken together; a polling loop is a step that waits *)
(* for the status it loops on.  The drive is modelled from what the driver *)
(* relies on: BSY while it works, DRQ while it wants or has words, ERR     *)
(* until the next command, and registers that do not change under BSY or   *)
(* DRQ.  It works between any two steps of the driver.                     *)
(***************************************************************************)
EXTENDS Integers

CONSTANTS
    Kinds,      \* the machines: drive (0 master, 1 slave) -> what it is
    Sectors,    \* the master's sectors are 0..Sectors - 1
    Words,      \* words of a sector (256)
    Data,       \* the values of a word
    MaxCount,   \* bound: sectors of one call
    MaxFaults   \* bound: commands that fail on a sector that exists

Stale == -1         \* a word of the caller's buffer nobody has read into
Drive == {0, 1}
Word  == 0..(Words - 1)

ASSUME AtaAssumption ==
    /\ Kinds \subseteq [Drive -> {"ata", "atapi", "none"}] /\ Kinds # {}
    /\ Stale \notin Data /\ Data # {}
    /\ Sectors \in Nat \ {0} /\ Words \in Nat \ {0} /\ MaxCount \in Nat \ {0}
    /\ MaxFaults \in Nat

VARIABLES
    platter,    \* sector -> its words
    dev,        \* the drive's side of the channel
    faults,     \* failed commands so far, as far as MaxFaults counts them
    drv,        \* the driver: where it is and what it was asked
    failed,     \* history: the sectors the drive has failed on in this call
    asked       \* history: the last sector the driver was given to write

vars == <<platter, dev, faults, drv, failed, asked>>

NoWords == [w \in Word |-> Stale]

Sector == [Word -> Data \cup {Stale}]

(* Nothing under way: the driver's locals mean nothing. *)
Idle == [pc |-> "idle", op |-> "none", lba |-> 0, n |-> 0, i |-> 0, w |-> 0,
         words |-> << >>]
-----------------------------------------------------------------------------
(* The drives there are on this machine. *)
Kind == dev.kind

(* The status register of the selected drive: 0 where there is none. *)
Absent == Kind[dev.sel] = "none"
BSY == ~Absent /\ dev.phase \in {"fetch", "accept", "commit", "identify"}
DRQ == ~Absent /\ dev.phase \in {"give", "take"}
ERR == ~Absent /\ dev.err

(* Writes to the command registers are lost while the drive works.         *)
Deaf == BSY \/ DRQ

Init ==
    /\ platter \in [0..(Sectors - 1) -> [Word -> Data]]
    /\ \E kind \in Kinds :
          dev = [kind |-> kind, phase |-> "rest", err |-> FALSE, sel |-> 0,
                 lba |-> 0, word |-> 0, buf |-> NoWords]
    /\ faults = 0 /\ failed = {}
    /\ drv = Idle
    /\ asked = [lba |-> 0, words |-> platter[0]]
-----------------------------------------------------------------------------
(* Variant: no time passes. *)
SettledNever == TRUE

(* The time that passes between two commands (a few port reads and a       *)
(* printf) is taken to be enough for the drive to finish the first.        *)
Settled == ~BSY

(* ata_read and ata_write of n sectors from lba on.                        *)
Read(lba, n) ==
    /\ drv = Idle /\ Settled
    /\ drv' = [Idle EXCEPT !.pc = "setup", !.op = "read", !.lba = lba, !.n = n,
                           !.words = [i \in 0..(n - 1) |-> NoWords]]
    /\ failed' = {}
    /\ UNCHANGED <<platter, dev, faults, asked>>

Write(lba, n, words) ==
    /\ drv = Idle /\ Settled
    /\ drv' = [Idle EXCEPT !.pc = "setup", !.op = "write", !.lba = lba, !.n = n,
                           !.words = words]
    /\ failed' = {}
    /\ UNCHANGED <<platter, dev, faults, asked>>

(* Variant: the LBA of the first sector every time. *)
SetUpFirst ==
    /\ drv.pc = "setup"
    /\ dev' = IF Deaf THEN dev ELSE [dev EXCEPT !.sel = 0, !.lba = drv.lba]
    /\ drv' = [drv EXCEPT !.pc = "command"]
    /\ asked' = IF drv.op = "write"
                THEN [lba |-> drv.lba, words |-> drv.words[drv.i]] ELSE asked
    /\ UNCHANGED <<platter, faults, failed>>

(* Drive select, sector count and LBA of the sector whose turn it is.      *)
SetUp ==
    /\ drv.pc = "setup"
    /\ dev' = IF Deaf THEN dev ELSE [dev EXCEPT !.sel = 0, !.lba = drv.lba + drv.i]
    /\ drv' = [drv EXCEPT !.pc = "command"]
    /\ asked' = IF drv.op = "write"
                THEN [lba |-> drv.lba + drv.i, words |-> drv.words[drv.i]] ELSE asked
    /\ UNCHANGED <<platter, faults, failed>>

Started(phase) ==
    IF Deaf THEN dev
    ELSE [dev EXCEPT !.err = FALSE, !.word = 0, !.buf = NoWords, !.phase = phase]

Command ==
    /\ drv.pc = "command"
    /\ dev' = IF Absent THEN dev
              ELSE Started(IF drv.op = "read" THEN "fetch" ELSE "accept")
    /\ drv' = [drv EXCEPT !.pc = "poll"]
    /\ UNCHANGED <<platter, faults, failed, asked>>

(* ide_poll, first loop: until BSY clears. *)
PollBusy ==
    /\ drv.pc = "poll"
    /\ ~BSY
    /\ drv' = [drv EXCEPT !.pc = "ready"]
    /\ UNCHANGED <<platter, dev, faults, failed, asked>>

(* The loop over the sectors: buff advances whether or not one failed.     *)
SectorOver(d) ==
    IF d.i + 1 < d.n THEN [d EXCEPT !.pc = "pause", !.i = @ + 1, !.w = 0]
    ELSE [d EXCEPT !.pc = "done", !.w = 0]

(* Variant: the loop looks for DRQ alone. *)
PollReadyDRQ ==
    /\ drv.pc = "ready"
    /\ DRQ
    /\ drv' = [drv EXCEPT !.pc = "transfer"]
    /\ UNCHANGED <<platter, dev, faults, failed, asked>>

(* Variant: the first sector that fails is the last one read. *)
PollReadyGivingUp ==
    /\ drv.pc = "ready"
    /\ ERR \/ DRQ
    /\ drv' = IF ERR /\ drv.op = "read" THEN [drv EXCEPT !.pc = "done"]
              ELSE [drv EXCEPT !.pc = "transfer"]
    /\ UNCHANGED <<platter, dev, faults, failed, asked>>

(* ide_poll, second loop: until ERR or DRQ.  ata_read_one gives up on ERR, *)
(* ata_write_one does not look at what ide_poll returned.                  *)
PollReady ==
    /\ drv.pc = "ready"
    /\ ERR \/ DRQ
    /\ drv' = IF ERR /\ drv.op = "read" THEN SectorOver(drv)
              ELSE [drv EXCEPT !.pc = "transfer"]
    /\ UNCHANGED <<platter, dev, faults, failed, asked>>

LastWord == Words - 1

(* inportw: a word leaves the drive, which is done after the last one.     *)
TransferIn ==
    /\ drv.pc = "transfer" /\ drv.op # "write"
    /\ dev' = IF DRQ THEN [dev EXCEPT !.word = @ + 1,
                                      !.phase = IF dev.word = Words - 1
                                                THEN "rest" ELSE @]
              ELSE dev
    /\ LET kept == IF drv.op = "read"
                   THEN [drv EXCEPT !.words[drv.i][drv.w] =
                                        IF DRQ THEN dev.buf[dev.word] ELSE Stale]
                   ELSE drv
       IN  drv' = IF drv.w = LastWord THEN SectorOver(kept)
                  ELSE [kept EXCEPT !.w = @ + 1]
    /\ UNCHANGED <<platter, faults, failed, asked>>

(* outportw: a drive that does not ask for words ignores them.             *)
TransferOut ==
    /\ drv.pc = "transfer" /\ drv.op = "write"
    /\ dev' = IF DRQ THEN [dev EXCEPT !.buf[dev.word] = drv.words[drv.i][drv.w],
                                      !.word = @ + 1,
                                      !.phase = IF dev.word = Words - 1
                                                THEN "commit" ELSE @]
              ELSE dev
    /\ drv' = IF drv.w = LastWord THEN SectorOver(drv) ELSE [drv EXCEPT !.w = @ + 1]
    /\ UNCHANGED <<platter, faults, failed, asked>>

Resume ==
    /\ drv.pc = "pause" /\ Settled
    /\ drv' = [drv EXCEPT !.pc = "setup"]
    /\ UNCHANGED <<platter, dev, faults, failed, asked>>

Return ==
    /\ drv.pc = "done"
    /\ drv' = Idle
    /\ UNCHANGED <<platter, dev, faults, failed, asked>>
-----------------------------------------------------------------------------
(* ide_identify of drive d.  What the words say is not looked at here.     *)
Identify(d) ==
    /\ drv = Idle /\ Settled
    /\ drv' = [Idle EXCEPT !.pc = "identify", !.op = "identify", !.lba = d, !.n = 1]
    /\ failed' = {}
    /\ UNCHANGED <<platter, dev, faults, asked>>

IdentifyCommand ==
    /\ drv.pc = "identify"
    /\ dev' = IF Deaf THEN dev
              ELSE IF Kind[drv.lba] = "none" THEN [dev EXCEPT !.sel = drv.lba]
              ELSE [Started("identify") EXCEPT !.sel = drv.lba]
    /\ drv' = [drv EXCEPT !.pc = "present"]
    /\ UNCHANGED <<platter, faults, failed, asked>>

(* A status of 0 means no drive. *)
IdentifyPresent ==
    /\ drv.pc = "present"
    /\ drv' = [drv EXCEPT !.pc = IF Absent THEN "done" ELSE "unbusy"]
    /\ UNCHANGED <<platter, dev, faults, failed, asked>>

(* "status & ATA_SR_BSY != 0": != binds tighter, so the loop waits while   *)
(* bit 0 of the status is set, and that bit is ERR.                        *)
IdentifyBusy ==
    /\ drv.pc = "unbusy"
    /\ ~ERR
    /\ drv' = [drv EXCEPT !.pc = "identified"]
    /\ UNCHANGED <<platter, dev, faults, failed, asked>>

(* The status is read until it says ERR or DRQ. *)
IdentifyReady ==
    /\ drv.pc = "identified"
    /\ ERR \/ DRQ
    /\ drv' = [drv EXCEPT !.pc = IF ERR THEN "done" ELSE "transfer"]
    /\ UNCHANGED <<platter, dev, faults, failed, asked>>
-----------------------------------------------------------------------------
(* The drive finishes a phase of its work.                                 *)
Works(phase) == dev.phase = phase /\ UNCHANGED <<drv, asked>>

Packet == Kind[dev.sel] = "atapi"

DeviceOK ==
    /\ ~Packet
    /\ \/ /\ Works("fetch") /\ dev.lba < Sectors
          /\ dev' = [dev EXCEPT !.phase = "give", !.buf = platter[dev.lba]]
          /\ UNCHANGED platter
       \/ /\ Works("accept") /\ dev.lba < Sectors
          /\ dev' = [dev EXCEPT !.phase = "take"]
          /\ UNCHANGED platter
       \/ /\ Works("commit")
          /\ dev' = [dev EXCEPT !.phase = "rest"]
          /\ platter' = [platter EXCEPT ![dev.lba] = dev.buf]
       \/ /\ Works("identify")
          /\ dev' = [dev EXCEPT !.phase = "give"]
          /\ UNCHANGED platter

(* It reports an error: a command a packet device does not take, an LBA    *)
(* past its end, or a sector it cannot read or write.                      *)
DeviceError ==
    /\ \/ Works("fetch") \/ Works("accept") \/ Works("commit")
       \/ Works("identify") /\ Packet
    /\ LET fault == ~Packet /\ dev.lba < Sectors
       IN  /\ fault => faults < MaxFaults
           /\ faults' = IF fault THEN faults + 1 ELSE faults
    /\ failed' = failed \cup {dev.lba}
    /\ dev' = [dev EXCEPT !.phase = "rest", !.err = TRUE]
    /\ UNCHANGED platter
-----------------------------------------------------------------------------
Driver == \/ SetUp \/ Command \/ PollBusy \/ PollReady
          \/ TransferIn \/ TransferOut \/ Resume \/ Return
          \/ IdentifyCommand \/ IdentifyPresent \/ IdentifyBusy \/ IdentifyReady

Device == (DeviceOK /\ UNCHANGED <<faults, failed>>) \/ DeviceError

Requests ==
    \/ \E lba \in 0..Sectors, n \in 1..MaxCount :
        \/ Read(lba, n)
        \/ \E words \in [0..(n - 1) -> [Word -> Data]] : Write(lba, n, words)
    \/ \E d \in Drive : Identify(d)

Next == Driver \/ Device \/ Requests

Spec == Init /\ [][Next]_vars

(* The kernel has nothing else to run, and a drive answers in the end.     *)
FairSpec == Spec /\ WF_vars(Driver) /\ WF_vars(Device)
-----------------------------------------------------------------------------
TypeOK ==
    /\ platter \in [0..(Sectors - 1) -> [Word -> Data]]
    /\ dev.phase \in {"rest", "fetch", "give", "accept", "take", "commit", "identify"}
    /\ dev.err \in BOOLEAN /\ dev.sel \in Drive /\ dev.lba \in 0..(Sectors + MaxCount)
    /\ dev.word \in 0..Words /\ dev.buf \in Sector
    /\ faults \in 0..MaxFaults /\ failed \subseteq 0..(Sectors + MaxCount)
    /\ drv.pc \in {"idle", "setup", "command", "poll", "ready", "transfer", "pause",
                   "done", "identify", "present", "unbusy", "identified"}
    /\ drv.i \in 0..(MaxCount - 1) /\ drv.w \in Word
    /\ drv.words \in UNION { [0..(n - 1) -> Sector] : n \in 0..MaxCount }

(* What ata_read leaves in the buffer is, sector by sector, what the disk  *)
(* holds there, or, for a sector on which the drive has reported an error  *)
(* in this very call, what the buffer held before: a failed sector moves   *)
(* no other out of its place and keeps none behind it from being read.     *)
ReadExact ==
    drv.pc = "done" /\ drv.op = "read" =>
        \A i \in 0..(drv.n - 1) :
            LET lba == drv.lba + i
            IN  \/ lba < Sectors /\ drv.words[i] = platter[lba]
                \/ lba \in failed /\ drv.words[i] = NoWords

(* Indices stay in their ranges, and what arrives is what the disk holds.  *)
TransfersExact == TypeOK /\ ReadExact

(* The drive never stores anything but the whole of the sector the driver  *)
(* was last given, at its place: no word is lost, doubled or carried over  *)
(* from a command that failed.                                             *)
WritesAsAsked ==
    [][ platter' # platter =>
            platter' = [platter EXCEPT ![asked.lba] = asked.words] ]_vars

(* Who answers.  Without a master ata_read and ata_write poll a status of  *)
(* 0 for ever (ata.c:77-83): nothing asks first whether ata_probe found    *)
(* one.  IDENTIFY sent to a packet device may never leave IdentifyBusy.    *)
Answering ==
    IF drv.op = "identify" THEN Kind[drv.lba] # "atapi" ELSE Kind[0] # "none"

(* Every ata_read and ata_write with a master there returns, and every     *)
(* ide_identify but of a packet device, whichever commands fail.           *)
Terminates == (drv.pc # "idle" /\ Answering) ~> drv.pc = "idle"

(* "Poll untill BSY clears": once BSY is clear the loop ends.              *)
PollEndsWithBusy == (drv.pc = "unbusy" /\ ~BSY) ~> drv.pc # "unbusy"
=============================================================================
