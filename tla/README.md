# GrainX in TLA+

GrainX is a small i386 kernel: it boots, probes the primary ATA channel and the
ext2 file system on its master drive, and runs a command prompt on the VGA text
screen.  It is single-threaded and polls its devices with interrupts off.  This
directory models its own logic in TLA+, checks it with TLC and proves parts of
it with TLAPS.  The code has no tests and few comments, so the modules are
translated from the C source; file and line of every definition are in
`PROJECT.json` under `map`.

## Inventory

| Part | Source | State | Operations |
|---|---|---|---|
| Kernel heap | `kernel/arch/i386/malloc.c` | the bytes of the heap, nothing else: `$` means free | `mm_init`, `malloc`, `free`, `heap_used`, `print_heap` |
| ext2 writing | `kernel/arch/i386/ext2.c` 417-553 | the disk, `priv` (superblock, sizes), `root_buff` | `ext2_write_file`, `ext2_alloc_block`, `ext2_write_inode` |
| ext2 look-up, reading | `ext2.c` 26-414, `libc/stdio/read.c` | the same | `ext2_probe`, `ext2_find_file_inode`, `ext2_read_file`, `list`, `read` |
| ATA driver | `kernel/arch/i386/ata.c` | none of its own; the drive's registers and sectors | `ata_probe`, `ata_read`, `ata_write` |
| VGA terminal | `kernel/arch/i386/vga_console.c` | virtual screen, row, column, first row shown | `vga_term_putc`, `_write_str`, `_pos`, `_clear` |
| PS/2 keyboard | `kernel/arch/i386/ps2.c` | `keys_down`, `shift_down`; the controller's output port | `ps2_key_in` |
| Line editor | `kernel/arch/i386/tty.c` | the line and its index | `tty_get_user_input` |
| Console | `kernel/kernel/kernel.c` | `wdir`, `l_cmd`, `buff`, `ptr` | `kernel_main` and its commands |
| C library | `libc/` | none | `printf`, strings, memory, `atoi`, `u32_to_str` |
| ELF stub | `kernel/arch/i386/elf.c` | none | `load_elf` (checks the magic, loads nothing) |
| Boot | `kernel/arch/i386/boot.asm` | `restart_flag`, the stack | calls `kernel_main`, again while it returns 0 |

How they interact: the console calls the line editor, which calls the keyboard
and echoes to the terminal; commands call the heap, ext2 and the library, which
prints on the terminal; ext2 takes its buffers from the heap and its sectors
from the ATA driver.  All of it is plain calls on one stack.  What runs beside
the kernel are its devices (the drive, the keyboard and the person at it) and
the power supply.

What is hard in it, and what the properties are about:

* the heap's bookkeeping is made of bytes its clients write;
* a write to a file is several disk writes, and the power can fail between any
  two of them; a number for a block is computed from a count, without a bitmap;
* the drive works on while the driver goes through its registers, and single
  commands fail;
* rows, columns and the start of the page are stepped, wrapped and computed
  modulo 2^32 while the screen scrolls;
* nothing is checked for running out: heap, disk, last block, pointers, arrays, stack;
* the commands share one small heap, some keep a pointer to what they have freed, and
  `reboot` runs `kernel_main` again over the globals of its previous life.

What makes each part correct: blocks of the heap are disjoint, zeroed and freed
whole; a file's content grows by what was written, at once, or stays; every
block is in at most one place; a sector read is the sector on the disk, one
written is the one asked for; every poll ends; the screen is the end of what was
printed; a key comes out once per press; the line handed over is the line typed; a
path finds what it names and reading gives its content; the directory in the prompt is the
one commands work in; a command gives back what it took, and the heap is large enough
for the next one.  `PROJECT.json` lists the hazards line by line under `hazards`, with
the properties that cover them.

## Modules

| Module | Models |
|---|---|
| `BlockStore` | abstract: blocks of bytes at disjoint places of an arena, new ones zeroed |
| `Heap` | `malloc.c` on bytes; implements `BlockStore` |
| `HeapProofs` | the invariants of `Heap` and the refinement, proved |
| `FileStore` | abstract: files that grow by whole writes and survive a power failure |
| `Ext2File` | `ext2_write_file`, one disk write per step; implements `FileStore` |
| `Ext2FileProofs` | on disks of one group: inodes, counts and blocks stay sound, the metadata whole, and the refinement, proved |
| `AtaPio` | the ATA driver's port accesses and the drive beside it |
| `AtaPioProofs` | sectors arrive whole and in place, proved |
| `VgaTerm` | the VGA terminal, one character per step |
| `Ps2` | the keyboard driver, the controller it polls and the typist |
| `DeviceProofs` | the invariants of `VgaTerm`; what comes out of `Ps2` was pressed, and at a slow pace everything pressed comes out, proved |
| `LineEntry` | abstract: a line that grows and shrinks at its end until it is entered |
| `TtyLine` | `tty_get_user_input` and the row it echoes to; implements `LineEntry` |
| `TtyLineProofs` | its invariants and the refinement, proved |
| `Ext2Read` | look-up, listing and reading of files |
| `Ext2Layout` | which sectors and bytes of the disk an inode or a block is at |
| `Ext2ReadProofs` | look-up, listing and reading agree with the tree, and places are apart, proved |
| `KernelHeap` | the heap under all its users: every command's `malloc`, `free` and stores |
| `KernelHeapProofs` | the users keep to their blocks, lose none, and no stray store reaches the private data, proved |
| `Libc` | the library's functions, as operators |
| `Console` | `kernel_main` and the loop in `boot.asm` around it; extends `Libc` |
| `ConsoleProofs` | its invariants, and that the library computes what it should, proved |
| `MC...` | constants for TLC |

Definitions whose comment begins with "Variant" are the same operation with a
plausible mistake in it; no specification uses them.  They are there to see that
each property notices the mistake (`mutants` in `PROJECT.json`).

**Heap.**  `heap` is the array of bytes, `live` remembers which blocks clients
hold (the code does not), `scanning` says a `malloc` has run past the end and
never came back.  `Malloc`, `Free` and `Write` (a client's own `memcpy`) are the
actions.  Header bytes are computed as the build lays them out, because a size of
36 puts a `$` in one.  The code is only right for clients that never store four
`$` in a row and that free what they hold, once; the first is `Quiet`, and `Spec`
has only such clients.  What clients of the other kind do is in `KernelHeap`.

**Ext2File.**  The state is what is on the disk: the two free counts, inodes and
data blocks; and the call under way with its copy of the inode.  `BeginFresh` and
`BeginAppend` are the two branches of `ext2_write_file`; `CountGroup`,
`CountTotal` and `NoneFree` are `ext2_alloc_block`; `Commit` and `Resize` write
the inode; `Fill` and `AppendData` send a block, one sector per step.  `Outage`
stops a call anywhere and boots again: nothing but the disk is left.  The file's
name stands for what the look-up returned, including the inode 0 of a failed one
(`Missing`).  What the code reads as inode 0 is whatever is in block `Stray`: as the host
left it, as the last such write left it, or one of the `Records` that a write to that block
as a block may have made of it (`Found`); so a second write to a name that is not there
appends through what the first has left.  `Tails` is where an append goes: past the direct
pointers the code reads an indirect one, or the memory after the inode, and it may be any
block.  `Lost` says that a write has gone over the superblock, the descriptors, the inodes
or a directory.  The kernel would go on from whatever it then reads there; behaviours end
there instead, and `NoSharedBlock` and `CountsSound` are about the time before.
`MetadataKept` says which calls can bring it about: a write to a missing name and an append
past the direct pointers, nothing else.
`ServedSpec` restricts the calls to those the code's own comment describes
(`Served`), `Spec` does not.

**AtaPio.**  `drv` is the driver with its program counter, `dev` the drive with
the task-file registers and its phase.  A step of the driver is one port access
or one polling loop, the accesses that load the registers of one command are
taken together since the drive looks at them only when the command arrives.  The
drive may do its part, or fail, between any two.  `Kinds` are the machines, with and
without a drive as master and as slave, one of them chosen at the start.  `failed`
remembers the sectors the drive has reported an error on in the call under way.

**VgaTerm.**  `virtual` is the virtual screen by rows and `start` the row the
display begins at.  `WriteStr` puts a string into `text`, the actions `NewLine`,
`Return`, `Back`, `Put` take a character from it and `Refresh` is the update of
cursor and display at its end.  `Scroll` is `vga_term_pos` with the two values
the line editor passes, `Clear` is `vga_term_clear` and the line it prints.
`log` remembers everything printed since the last clear.

**Ps2.**  Three processes: the typist presses, holds and releases keys; the
controller shows the next byte at port 0x60 once the last has been read; the driver
reads the port twice per turn of `get_scancode`, and goes on reading the same byte
while nothing else comes.  `KeyIn` is the turn of `ps2_key_in` that returns,
`KeepReading` the one that goes round.  While the driver is "away" a command runs
and nothing is read: the keyboard's few bytes of memory fill and drop what comes.
`hasty` remembers whether the typist has ever not waited for the driver or held both
shift keys at once; `Exact` and `Answered` are about the time before.

**TtyLine.**  A turn of the loop is one action, with the `i++` it ends in; `i` is a
`size_t` and really goes through 0 - 1.  The keys are inputs.  `screen` is the row the
echo goes to, from the column the prompt ends in; `EchoShowsLine` stops where the line
reaches the margin, since `\b` does not go back over it.

**Ext2Read.**  The tree is fixed, a call starts with `Begin` and a turn of its loop is
an action.  `FindInNothing` and `ListInNothing` are the turns that meet an inode without
a block and do nothing; `FindInRoot` is the branch for paths without a `/`, which
searches the root and answers 0 whatever it finds.  `BlocksRead` are the direct blocks
(`Direct`, 12 in the code), which is all of a file `ext2_read_file` reads.  `Copied` is
`read` with the buffer of its caller, `Junk` being a byte that was never written and `Wild`
one from behind the 12 KB `read` reads into.

**Ext2Layout.**  Operators without state: `ext2_probe`'s derived sizes, `Sectors` of
a block and `Place` of an inode.  `MCExt2Read` extends it together with `Ext2Read`.

**KernelHeap.**  It composes the heap with everything that takes blocks from it.  A
command is the list of its calls of `malloc` and `free` and of its stores, written by
operators named after the functions of the code (`FindFileInode`, `ReadFile`,
`WriteAppend`...), and is run one such step at a time; `at` holds the code's pointer
variables, globals and locals.  `used` is the heap as its runs of bytes that are not `$`,
which is all `malloc` looks at.  `Malloc`, `Free` and `Store` are what the calls are meant
to be; `MallocAstray` is the scan that finds no run, or a size that wraps round, and
`FreeAgain` and `FreeAstray` are `free` of a block whose header is not a length any
more.  `wild` is the end: what follows depends on the memory behind the heap.  `Cheap`
and `Reboot` empty the heap under the pointers that stay.  `live`, `hurt`, `stray` and
`careless` are history, for the properties: the user is careless who frees what he does not
hold, empties the heap, or asks for a size that wraps round.  `PrivWhole` says that `priv`
points to its block and nothing else has been written into it; without it `FileSystemAstray`
is all that a command of the file system does.  `Kept` is what of a block
must stay, which is all of it but for `priv`: that is never freed, so nobody reads its
header, and the first blocks after a reboot do go over it.

**Libc.**  Each function of the library the kernel uses is an operator; a loop is a
recursive function of its turns, `printf` one of the place in the format and the parameter.  Where the code moves bytes in memory (`memcpy`, `strsplit`)
the operator maps memory to memory.  What they should do is stated next to them by
reference definitions: `NumbersExact`, `StringsExact` and `PrintsPieces` quantify over
all numbers and strings up to a bound.

**Console.**  A line is the word it begins with and what follows it.  `Type` reads one
(`!!` stands for the last), and the branch of the `if` chain it takes is an action:
`CdTo`, `CdUp`, `CdDown`, `Read`, `Write`, `Reboot`, `Hang`, and `Say` for the commands
that change neither history nor directory.  `Write` asks for a second line, which is
`Data` or `Exit`.  `KernelMain` is the beginning of `kernel_main`, which `boot.asm`
calls again after `Return`, and `left` is the stack that remains.  `CdDown` appends to
`wdir` whatever room is left there, as the code does, and `wild` is what it comes to when
that passed the end: memory behind the array is overwritten, and the behaviour ends.

## Runs

| Run | Asks | Result |
|---|---|---|
| `heap_quiet` | do careful clients keep blocks disjoint and headers intact, is everything freed free again, and does the heap implement `BlockStore`? | yes |
| `ext2_served` | do served writes implement `FileStore` and leave the metadata alone, with power failures? | yes |
| `ext2_any` | what can go over the metadata, and before that, is no block shared and are the counts ordered, whatever is asked? | missing names and files past their direct blocks only; yes |
| `ext2_append` | does an append that does not fit go on in a new block (`ext2.c:462`)? | **no** |
| `ext2_read` | do look-up, listing and reading agree with the tree, and are inodes and blocks at places of their own? | yes, within the premises below |
| `ata_transfers` | do sectors arrive whole and in place with commands failing, and does every transfer and identification return? | yes, with a master, and no packet device to identify |
| `ata_identify` | does the loop before `IDENTIFY`'s data end with BSY (`ata.c:39`)? | **no**, for a device that aborts it |
| `vga_lines` | is the screen the end of what was printed, the display current, every index in range? | yes |
| `ps2_keys` | does no key come out unpressed, twice or out of turn, and does every one come out, with its shift, for a typist who waits? | yes |
| `tty_line` | does the editor implement `LineEntry`, within its buffer, showing what it holds? | yes |
| `kernel_heap` | what do commands keep, lose and destroy in the heap they share, and when does it run out? | sound for careful users, within `Bounds`; else as below |
| `console` | do history, prompt and working directory stay right and in their arrays over any lines and reboots, and does the library compute what it should? | yes, within the premises below |

What the premises of the passing properties leave out is where the code does something
else than its comments say, seen by dropping the premise:

* `OneBlockDirs`: `ext2_find_file_inode` and `list` leave their loop over the direct
  blocks in its first turn, found or not (`ext2.c:295`, against `ext2.c:281`), so names
  in a later block of a directory are missing;
* `~PastNothing`: a name below an empty file, as in `/empty/x`, is found to be that
  file (`ext2.c:284`, against `ext2.c:293`);
* `Absolute`: a path without a leading `/` loses its first character;
* "one block" in `ReadsAll`: of a file of several blocks `read` answers its size once per
  block (`ext2.c:372`, against `stdio.h:13`), so that it may answer more than there is, and
  what it copies from behind the last block read is not the file's;
* `BlockSize * Direct` in `ReadsContent`: of a longer file the rest is not read
  (`ext2.c:349`);
* `due` in `ReadsAll` is all that was asked for where there is as much, and `read` answers
  it; the comment at `read.c:20` has it return one less;
* `Answering` in `Terminates`: without a master drive `ata_read` polls a status of 0 for
  ever (`ata.c:77-83`), and `kernel_main` probes ext2 whatever `ata_probe` found
  (`kernel.c:102-105`), so such a machine never gets to its prompt; `IDENTIFY` of a packet
  device need not return either (`ata_identify`);
* `Missing` in `MetadataKept`: for inode 0 the code computes a group and a block far from
  every inode table, and writes there;
* `Last(call.node) >= Direct` in `MetadataKept`: an append to a file of twelve blocks or
  more goes to its indirect block, or to one that some other word names (`ext2.c:537`,
  against `ext2.c:463`);
* when more is asked for than there is, `read` leaves the byte behind the last one as it
  was and ends the string one further on (`read.c:16`, against `read.c:13`);
* `File` in `Served`: directories and names that are not found (inode 0) are written to as
  well (`ext2.c:481`, against `ext2.c:450`);
* the names of F11 and F12 are at 0x54 and 0x55 of the keyboard's table, their codes are
  0x57 and 0x58: `scancode_to_str` reads past its end (`ps2.c:39`);
* `Quiet` in `Heap`: a block whose data ends in four `$` is handed out again in part
  while it is held (`malloc.c:67`);
* one group in `Served`: with a second one, the number `ext2_alloc_block` computes from the
  count of one group is a block in use (`ext2.c:429`, against `ext2.c:419`);
* `bs = SuperblockSize` in `BlocksApart`: for blocks of more than 1024 bytes the
  descriptors are looked for in the superblock's own block (`ext2.c:69`).

What TLC shows of the shared heap when the premises of `kernel_heap` are dropped one by
one (each a trace of commands a user can type):

* `NothingLost` and `stray`: a write that creates a file and an append leave `root_buff`
  pointing to what they freed, and the next write stores blocks through it, which stay
  marked as used: about 1 KB is lost each time, and after nine such writes the next `read`
  scans past the heap;
* the block a store through `root_buff` hits is free until the user takes some: after an
  append and a `load bin` it is the loaded program, which the next write changes; an append
  that passes the end of its block by 249 bytes or more reaches the block behind it;
* `Bounds`: eight misspelt names in `read` and one `load bin` leave no 12 KB in one piece,
  seven leave it; `malloc 1000`, a misspelt name and `malloc 100` leave none either.  The
  scan of the next `read` then never comes back (`malloc.c:60`);
* `careless`: a second `free` reads 0x24242424 as a length and marks everything above as
  free; `cheap` does so to the file system's private data, and no command of it ends from
  then on; a size near 2^32 wraps round.  A reboot repairs all of it, since the private
  data is read again.  `read` itself takes 12 KB whatever the file: a file of more than 12
  blocks of 1 KB would not fit.

And of the console:

* `CdDown` puts a name behind the directory as it is: `cd a` and `cd b` lead to `/ab`.
  `cd ..` leaves the `/` at the end, so that `ls` says INVALID PATH there, while `read`
  finds its files, and a second `cd ..` does not move (the premises of `LsAgrees` and
  `UpUndoesDown`);
* `..` is told by the sum of its two characters, `-/` is the same (`kernel.c:187`);
* `write` takes a name as it is typed, `read` joins it to the working directory;
* `cd` appends without a look at the size of `wdir`: the third long name passes its end, and
  after the second `read` passes the end of its path (`ArraysHold` says no less will do);
* every `reboot` leaves four bytes on the stack of 16 KB (`boot.asm:114`), and the overrun
  of the stack is reached;
* `sqrt` of `math.h` is a power.

Bounds, and why they are enough:

* `Heap_*.cfg`: a heap of a few dozen bytes holds two
  or three blocks with room to free the middle one; 57 bytes is the least that
  takes a 36-byte block and a small one behind it.  The images are the ones that
  differ for the scan: marks at the beginning, the end and between.
* `Ext2_*.cfg`: eight or nine blocks of one or two sectors, three files, two or three direct
  pointers.  Fresh files take one or two blocks, and one or two power failures can hit every
  pair of consecutive writes.  In `ext2_any` the disk runs full, a file fills its direct
  blocks, so that the next append leaves them, and `Records` is one record that points into
  the metadata.  `MaxSize` bounds the size of a file, and that of what is taken for inode 0.
* `Ata_*.cfg`: machines with a disk and no slave, with no master, and with a packet device
  for a master; two sectors and one past the end, two words each, up to two
  sectors per call, so each loop is entered, repeated and left; `MaxFaults`
  bounds the failures of good sectors.
* `Vga_lines.cfg`: five rows of two columns, a page of two: a string wraps, the
  screen scrolls, and F2 pages from the bottom to past the top.  `MaxLines`
  bounds the history, twice the height of the screen.
* `Ps2_keys.cfg`: a letter and both shift keys, a keyboard that holds two bytes, so that
  the third is lost, and three presses (`MaxPresses`): a key can be pressed again after
  its release was lost, and letters fall before, under and after shift.
* `Tty_line.cfg`: a buffer of six and a row of six with a prompt of two: the line can
  be entered, be full, and reach the margin before it is full.
* `Ext2_read.cfg`: paths of up to three segments over a root of one block or two, a
  directory in it, files of no, one and three blocks, of which two are direct (`Direct`), and
  amounts below, at and above their sizes and past the 12 KB `read` has.  Layout: blocks of one, two and four KB; groups whose inodes fill the blocks of
  their table (8) and do not (20), two of them (`Hints`, `GroupInodes`, `Groups`).
* `KernelHeap.cfg`: the sizes of the build, so that fragmentation is the real one; only
  `Word` is smaller, 2^16, for one size that wraps round.  `Bounds` is how many failed
  look-ups, `load bin`s, `malloc`s and stray stores there are between two boots, in two
  combinations: seven failures and nothing else, which is the most the heap bears, and one
  of everything.  `Over` is the least overrun that reaches the next block.
* `Console.cfg`: arrays of 9 instead of 256 characters and names of up to three, in the
  proportion that lets two names fit and not three; a stack for two returns.  `downs`
  stops counting at 3.  `Word` is 1024 and strings are up to three of three characters
  (`Letters`, `MaxLen`): numerals wrap round from four digits on, and formats are made of
  three pieces, each text, `%%` or a directive.  The `Library*` properties are functions of nothing but
  constants and are looked at in one state.

The runs of `Heap`, `Ext2File`, `VgaTerm`, `KernelHeap`, `Console` and the passing one of
`AtaPio` switch the deadlock check off: their behaviours stop at a bound, where a `malloc`
or a poll never returns, where memory or metadata is overwritten, or with the machine off.
The other passing runs check it: `Ps2`, `TtyLine` and `Ext2Read` stop nowhere.

**Fairness.**  `AtaPio`: weak fairness of the driver, because the
kernel runs one thread with interrupts off and has nothing else to do, and of the
drive, because a drive ends each command with data or with an error.  `Terminates` claims
nothing of calls nobody answers (`Answering`).  Requests are
not fair: nobody has to ask for anything.  `Ps2`: weak fairness of the driver, with
the same reason and because the console's commands return and ask for input again
(`Call`), and of the controller.  The typist is not fair: keys may be held for ever.
The other modules state none.

**Assumptions about the environment.**  `Settled`: the port reads and the
`printf` between two commands last longer than the drive takes to store a sector
(the code's comments call it a delay to be implemented); the mutant `SettledNever`
shows `WritesAsAsked` needs it.  A disk write of a sector is atomic.  ext2's
buffers are private to it while a call runs.  Behind the last entry of a directory block
the walk meets nothing that matches: the code walks on into whatever memory follows, up
to a zero inode number.  Of the keys held only the last one pressed repeats, and keys
with two-byte codes are not used.

## Proofs

`HeapProofs` proves, for every heap size, set of sizes and set of images, that
`Spec` has `TypeOK`, `Disjoint`, `HeaderIntact` and `NoResidue` as invariants and
implements `BlockStore`.  The inductive invariant is
`IInv == TypeOK /\ HeaderIntact /\ Disjoint /\ QuietData`.  The invariants alone
are not inductive: `malloc` looks at bytes, so one has to know that a run of ten
marks or more cannot begin in one block's data and end outside it in a way that
the three bytes of padding do not make up for.  `QuietData` says that no block
holds four marks in a row in its data, and the key lemma is that a run long enough
for a block starts at most three marks before the end of another block, so that
header and data fall behind it.  `NoResidue` is proved from `IInv` on top.  For
the refinement each step maps to the abstract step of the same name, or to a
stutter for `MallocRunsOff`.

`KernelHeapProofs` proves `HeapSound`, `NothingLost` and `PrivKept`, for heaps, blocks, names
and buffers of every size, any files and any `Bounds` (`SizesAssumption`: a disk block has 1024
bytes or more, since ext2 shifts 1024 to the left (`ext2.c:52`), and is smaller than the buffer
of `read`).  It has four parts, of which the first two are about the operators of the model.

* What the heap does with runs: storing makes one run of all it touches (`FilledIs`),
  freeing cuts its bytes out (`MarkedIs`), and what `malloc` finds touches nothing that is
  stored (`FirstFitIs`).  Which run is cut or joined is told by the bytes in it.
* What a command holds between its steps.  `Path(prog, A, B)` says that a program that
  begins with blocks for the variables `A` ends with those for `B`, takes for no variable
  that holds a block and frees only what it holds; there is one lemma per function of the code,
  joined by `PathJoin` as the functions are.  `Chain(c)` is what command `c` holds after each of its
  steps, and it ends with nothing but what `NothingLost` names (`ChainIs`).
* For `HeapSound` and `NothingLost` the invariant `KInv == Types /\ (Calm => Orderly)`.
  `Types` holds whatever the user
  does; `Orderly` as long as he was careful and no store went astray.  It says that blocks are
  apart, that what is stored belongs to one and what belongs to one is stored, and that the
  command holds what `Chain` says.  "Is stored" has to be in it because `malloc` looks at
  nothing else: a block with a mark in it could be handed out again.  It is not true of
  `priv` just after a reboot, when the heap is empty and `priv` stays; `Early` is this time,
  and `Pointers` says that `priv` is above the one buffer that is taken meanwhile.

* For `PrivKept`, which is about the time after a store went astray, when `Orderly` says
  nothing, the invariant `LInv == KInv /\ Fixed /\ (Lower \/ Gone)`.  The first probe puts the
  private data right above the superblock's buffer, and every later block lies wholly below
  it or wholly above (`Parted`, by `RoomIs`: `malloc` takes no stored byte, and the private
  data is stored but between a reboot and its second probe).  So only what is stored from below
  can reach it.  `root_buff` and the buffer of `read`, into which whole blocks are stored
  whether they fit or not, are never below (`Fixed`): the buffer does not fit there, and
  `root_buff` would have to begin at the first byte of the heap, while the command that takes
  it has taken an inode before that ends up at or keeps something in those first bytes
  (`Holdfast`; that it has, and frees it last, is `Tame`, proved of every program along with
  `Path`).  Everything else is stored at most one byte past the end, and blocks below are seven
  bytes apart.  `Gone` is the way out: the user's `free` of something he does not hold, or
  `cheap`, destroys the private data, and from then on only `malloc` and `free` run until a
  reboot (`FreeAgainLower`, `MallocGone`, `FreeGone`).

That no `free` in `Orderly` goes wrong but the user's own (`NeverAgain`) follows from
`Chain`.  Nothing is said about whether there is room: that depends on the sizes.

`DeviceProofs` proves, for screens of every size and any strings, the four
invariants of `vga_lines`.  Its inductive invariant adds two facts to them:
printing never leaves the bottom page (`RowAtBottom`), and a string under way
ends with the refresh (`EndsInRefresh`).  The first is what makes paging
harmless: a scrolled display starts above that page.

Its second half proves, of the keyboard, `KeysFaithful` and `Exact` for any keys, pauses and losses.
`Types /\ Traced` says that every byte on its way (in the keyboard's memory, at the port,
in the driver's local variable) stems from one press or release, in order, and that the
byte at the port is new or one the driver has compared before; with it a press is taken at
most once.  `Paced` is about the time before the typist is hasty: at most one byte is on
its way then, and what the driver believes to be held differs from what is held by this
byte only.

`TtyLineProofs` proves, for buffers, rows and key tables of every size, the two
invariants of `tty_line` and that `TtyLine` implements `LineEntry`.  The inductive
invariant is `IInv == TypeOK /\ LineInBuffer /\ EchoShowsLine`.  `LineInBuffer` says that
there is room for a character and the end while keys are read, and that no character
before the index is the end of the string; from it follows that the string the caller
sees is the characters before `i`, which is what the refinement maps the abstract line to.
The lemmas before it are about the index: stepped back and on again modulo the width of a
`size_t`, through 0 - 1 as well, it comes out where it would without the modulus.

`Ext2FileProofs` proves, for disks of every size with any files, buffers and `Records`,
that `NoSharedBlock` and `CountsSound` are invariants of `Spec` and `SystemIntact` of
`ServedSpec`, and that `Spec` has `MetadataKept`. It is for disks of one group (`Groups =
1` is a hypothesis of each theorem; with two groups the number of a new block is not that
of a free one) that the host has filled from the bottom (`HostAssumption`), as `mke2fs`
and the copy into an empty image do, and whose directories are whole blocks, as ext2 has
them. The argument: with one group `ext2_alloc_block` hands out numbers in order, so that
every pointer in use is below the next number, `Limit`. `Apart` says this and that no
block is at two places. It has to hold of the inodes on the disk and also of what they
will be when the call under way has written its inode (`Meant`), because the block chosen
is in neither between `CountTotal` and `Commit`; a power failure there loses the block and
nothing else. For `SystemIntact` `SInv` adds what a served call is: its pointers are to
blocks that are on the disk, and its data fits. The sum of the groups' free counts is a
fold, which is unfolded for one group (`TotalIs`). For `MetadataKept` `KInv` adds that a
directory has data and no block behind its last (`Behind`): nothing is allocated for it,
and an append to it goes to the boot block or past the direct pointers.

The same module proves, of `ServedSpec`, that `Ext2File` implements `FileStore`
(`ServedImplementsStore`), for whoever looks at the disk between two writes or after a
power failure.  `RInv` adds to `SInv` what a write under way has done so far: a fresh
file's inode has its size but its blocks are filled one sector after the other, and
nobody's content is promised before the last (`Fresh`); an append has sent some sectors of
its last block and not yet the inode (`Appending`), so what it has sent lies behind the
end of the file.  `Commit` maps to `Create`, `Fill` to `Fill` and with the last sector to
`Finish`, `Resize` to `Append`, `Outage` to `Outage`; all other steps, `AppendData`
among them, map to a stutter.  That needs `NoSharedBlock` of the inodes on the disk, since
a sector sent must be in no other file.  `BuffersAssumption` says that a buffer holds values.

`AtaPioProofs` proves `TransfersExact` and `WritesAsAsked` for disks and sectors of every
size, requests of any length and any failures.  The inductive invariant is
`IInv == Types /\ CallOK /\ PhaseOK /\ PlaceOK /\ ReadOK`.  `PhaseOK` is the heart of it: for
each place in the driver's code it says which phases the drive can be in, so that a
command is never given to a drive that would ignore it, and no word is taken that
belongs to another sector.  It rests on `Settled`, as said above.  `PlaceOK` ties the
drive's sector and position to the driver's; `ReadOK` says which part of the buffer is
done and what it holds.

`Ext2ReadProofs` proves the four invariants of `ext2_read` for trees of every shape, paths
of every length, files of every number of blocks and any number of direct ones, and
`PlacesApart` of `Ext2Layout` for disks of every geometry. `IInv == Types /\ OnTheWay /\
Answers`: on its way a look-up is at the inode the path leads to as far as it has been
followed, or it has passed an inode without a block. Where a path leads is a recursive
function of its length; that it exists is proved by taking the least length for which it
does not. The assumptions are those of a sound tree (`DiskAssumption`: names are unique in
a directory, entries lead to inodes of the tree).

`ConsoleProofs` proves, for any lines and arrays of every size, `WdirNamed`,
`HistorySound`, `ArraysHold`, `LsAgrees` and `UpUndoesDown`.  The inductive invariant is
`IInv == Types /\ History /\ Lengths /\ Joined`: the line under way repeats nothing and a
write's data are for a write; how full `wdir` is follows from the number of `cd`s since it was
set; and `wdir` is what it was before the last `cd`, followed by a name.  An array holds
two of the longest arguments (`ConsoleAssumption`); `WdirStaysNamed` has the hypothesis that users type
no empty names.  For `LsAgrees` one has to know what stepping over the zeros of `strsplit`
meets: after `k` steps `k` zeros are behind, so the last part is met exactly at the end
(`AtEnd`, `Walking`), and a longer path is walked through as the shorter one as far as that
goes (`SameWalk`).  `PartsFurther` and `PartsOfName` sum this up and determine the parts of
every path; `NamesToldApart` does so for `strcmp`.

Its second half proves what the library computes, `LibraryStrings`, `LibraryNumbers` and
`LibraryPrints`, for letters and strings of every number and length and words of up to 32
bits (`LibcAssumption`).  The library's induction theorems take an operator as a parameter and cannot be
used; what replaces them is `Turns` (a set of turns that has the first and with each the
next one has all, by the least that it has not) and `LoopExists` (a loop, as a
function of its turns, exists).  What is said of the loops:

* copying: after `k` turns exactly the first `2k` or `2k + 1` characters are in place, and what
  is still to be read has not been written;
* splitting: the parts met in `k` steps, joined, are the string as far as the walk has come
  (`PartsJoinAgain`);
* printing a number: the digits taken off so far and the rest make up the number (`Divisions`),
  ten digits are enough for a word of 32 bits (`TenDigits`), so the loop ends with the rest and not with
  the buffer, and reading the digits from the other end is Horner's rule (`Horner`);
* `atoi`: from the right, the number is the part not read yet times the power reached, plus
  what is read; the code's power and sum are these modulo `Word` (`AtoiIs`), so a wrapped
  power does no harm;
* `printf`: as a function it exists (`PrintingExists`: every turn goes on in the format); to print
  from a character on is to print it and then from the next on, wherever the run it is in
  ends (`CharPrints`), and likewise for `%%` and a directive (`PercentPrints`,
  `ParameterPrints`), so that each piece prints its own and leaves the rest (`PiecesPrint`).

The assumptions on constants are the named `ASSUME`s of the modules; TLC evaluates
them on every run.  What remains model-checked only:

* liveness (`Terminates`, `Answered`): fairness and `ENABLED` are outside what the prover does;
* `Enough` of `KernelHeap`: whether 12 KB are in one piece, and whether a store that has
  gone astray meets a block other than the private data, depends on the sizes of the build and
  on where first fit puts each block, so it holds for these sizes and not for all;
* the two properties that are violated.

## Not modelled

Colours and the status bar of the terminal, the text of messages, the heap's
statistics and dump (they only read), the words of `IDENTIFY`, selecting a slave for
transfers (the code never does), `memset`, `puts` and `putchar` (a loop or a call each),
`str_find_first` and `u8_to_str` (not used by the kernel), the ELF stub (`elf.c` compares
the magic number; what would load is commented out), the real-mode stub of `boot.asm`
(never called) and the port instructions, the headers (declarations only; the layout of
the packed structures is in `KernelHeap`), `sysroot/`, `isodir/`, `mnt/` and the build
scripts (copies, generated files and assets).

## Plan

Every invariant of the passing runs is proved but `Enough`, which is not true of every heap.
What could still be proved of it is a bound: how many failed look-ups a heap of a given size
bears before `read` finds no room.
