------------------------------ MODULE Console ------------------------------
(***************************************************************************)
(* kernel_main, the console (kernel/kernel/kernel.c), and the loop of      *)
(* boot.asm that calls it again when it returns 0.                         *)
(*                                                                         *)
(* A line is the word it begins with and what follows: the words are those *)
(* of the if chain with the blank behind them, the rest is a string of     *)
(* Libc.  What the commands do to the heap, the disk and the screen is in  *)
(* KernelHeap, Ext2File, Ext2Read, AtaPio and VgaTerm; here are the lines, *)
(* the history, the working directory and the arrays they are kept in.     *)
(***************************************************************************)
EXTENDS Libc

CONSTANTS
    Lines,      \* what users type: [word, arg]
    Size,       \* of wdir and of read's path
    Stack,      \* bytes of stack
    Frame       \* bytes of it that kernel_main needs with all it calls

(* Two of the longest arguments fit into an array of their own: what       *)
(* follows "cd " or "read " in a line of 100 bytes, into one of 256.       *)
ASSUME ConsoleAssumption ==
    /\ Size \in Nat \ {0, 1} /\ Stack \in Nat /\ Frame \in 0..Stack
    /\ \A line \in Lines : DOMAIN line = {"word", "arg"} /\ line.arg \in Seq(1..255)
    /\ \A line \in Lines : 2 * Len(line.arg) + 2 < Size

VARIABLES
    phase,      \* "start", "boot", "prompt", "run", "data", "off", or "wild":
                \* something has been stored behind the end of an array, and
                \* the code goes on with what that has made of its memory
    buff,       \* the line to carry out
    l_cmd,      \* the line `!!` repeats
    wdir,       \* the working directory
    shown,      \* the directory in the last prompt on the screen
    left,       \* bytes of stack below boot.asm's frame
    where,      \* history: the array that was overrun
    downs,      \* history: cd's to anywhere since wdir was set to "/", 3 for more
    came,       \* history: wdir before the last cd, if that was to a name
    written     \* history: what has been written, as it was typed

vars == <<phase, buff, l_cmd, wdir, shown, left, where, downs, came, written>>

Nothing == [word |-> "", arg |-> << >>]

Phases == {"start", "boot", "prompt", "run", "data", "off", "wild"}
-----------------------------------------------------------------------------
(* The if chain compares the line with one name after the other.           *)
Begins(word, name) == Len(name) <= Len(word) /\ SubSeq(word, 1, Len(name)) = name

Names == << "reboot", "reboo", "echo", "logo", "mem", "hang", "clear", "fd", "write",
            "read", "load bin", "ls", "cd ", "heap stat", "cheap", "print heap ",
            "malloc", "free", "wdir", "help" >>

Branch(word) ==
    LET hits == { k \in DOMAIN Names : Begins(word, Names[k]) }
    IN  IF hits = {} THEN "none" ELSE Names[Min(hits)]

(* An empty line is none of them, and no `!!`. *)
ASSUME EmptyLine == Branch("") = "none" /\ ~Begins("", "!!")

Running(name) == phase = "run" /\ Branch(buff.word) = name

(* Variant: nothing is put between the directory and the name. *)
ReadPathBare(dir, name) == dir \o name

(* read's path: the working directory, a '/' unless it ends in one, the name. *)
ReadPath(dir, name) == dir \o (IF Last(dir) = Slash THEN << >> ELSE <<Slash>>) \o name

(* Variant: the '/' is taken away as well. *)
StrippedWhole(dir) ==
    SubSeq(dir, 1, Max({ i \in 2..Len(dir) : dir[i] = Slash } \cup {2}) - 1)

(* Back to the last '/', which stays. *)
Stripped(dir) == SubSeq(dir, 1, Max({ i \in 2..Len(dir) : dir[i] = Slash } \cup {1}))

Init ==
    /\ phase = "start" /\ buff = Nothing /\ l_cmd = Nothing
    /\ wdir = << >> /\ shown = << >> /\ left = Stack
    /\ where = "nowhere" /\ downs = 0 /\ came = << >> /\ written = {}

(* _start: without the loader's magic number it halts. *)
Start ==
    /\ phase = "start" /\ phase' \in {"boot", "off"}
    /\ UNCHANGED <<buff, l_cmd, wdir, shown, left, where, downs, came, written>>

Overrun(array) == phase' = "wild" /\ where' = array

(* Variant: the directory is what it was before the reboot. *)
KernelMainKeeping ==
    /\ phase = "boot"
    /\ IF left < Frame
       THEN Overrun("stack") /\ UNCHANGED <<wdir, shown, downs, came>>
       ELSE /\ wdir' = IF wdir = << >> THEN <<Slash>> ELSE wdir
            /\ shown' = <<Slash>> /\ downs' = 0 /\ came' = << >>
            /\ phase' = "prompt"
            /\ UNCHANGED where
    /\ UNCHANGED <<buff, l_cmd, left, written>>

(* kernel_main up to its loop.  l_cmd is what it was. *)
KernelMain ==
    /\ phase = "boot"
    /\ IF left < Frame
       THEN Overrun("stack") /\ UNCHANGED <<wdir, shown, downs, came>>
       ELSE /\ wdir' = <<Slash>> /\ shown' = <<Slash>>
            /\ downs' = 0 /\ came' = << >>
            /\ phase' = "prompt"
            /\ UNCHANGED where
    /\ UNCHANGED <<buff, l_cmd, left, written>>

(* A line is typed; `!!` is the last one again. *)
Type ==
    /\ phase = "prompt"
    /\ \E line \in Lines : buff' = IF Begins(line.word, "!!") THEN l_cmd ELSE line
    /\ phase' = "run"
    /\ UNCHANGED <<l_cmd, wdir, shown, left, where, downs, came, written>>

(* The end of the loop: the prompt, the copy for `!!`, and buff cleared.   *)
Finish(dir) ==
    /\ wdir' = dir /\ shown' = dir
    /\ l_cmd' = buff /\ buff' = Nothing
    /\ phase' = "prompt"
    /\ UNCHANGED <<left, where>>
-----------------------------------------------------------------------------
(* Commands that leave everything here as it is. *)
Say ==
    /\ phase = "run"
    /\ Branch(buff.word) \notin {"reboot", "hang", "write", "read", "cd "}
    /\ Finish(wdir)
    /\ UNCHANGED <<downs, came, written>>

(* The address of the message stays on the stack whenever kernel_main      *)
(* returns.                                                                *)
Return(next) ==
    /\ left' = left - 4
    /\ phase' = next /\ buff' = Nothing
    /\ UNCHANGED <<l_cmd, wdir, shown, where, downs, came, written>>

Reboot == Running("reboot") /\ Return("boot")
Hang   == Running("hang") /\ Return("off")

Write ==
    /\ Running("write") /\ phase' = "data"
    /\ UNCHANGED <<buff, l_cmd, wdir, shown, left, where, downs, came, written>>

Data ==
    /\ phase = "data" /\ written' = written \cup {buff.arg}
    /\ Finish(wdir)
    /\ UNCHANGED <<downs, came>>

(* Variant: the command counts as carried out. *)
ExitFinishing ==
    /\ phase = "data"
    /\ Finish(wdir)
    /\ UNCHANGED <<downs, came, written>>

(* "exit": round the loop past its end, without a prompt or a copy. *)
Exit ==
    /\ phase = "data" /\ phase' = "prompt" /\ buff' = Nothing
    /\ UNCHANGED <<l_cmd, wdir, shown, left, where, downs, came, written>>

Read ==
    /\ Running("read")
    /\ IF Len(ReadPath(wdir, buff.arg)) < Size THEN Finish(wdir)
       ELSE Overrun("path") /\ UNCHANGED <<buff, l_cmd, wdir, shown, left>>
    /\ UNCHANGED <<downs, came, written>>

CdTo ==
    /\ Running("cd ") /\ At(buff.arg, 1) = Slash
    /\ downs' = (IF buff.arg = <<Slash>> THEN 0 ELSE 1) /\ came' = << >>
    /\ Finish(buff.arg)
    /\ UNCHANGED written

(* The sum of the two characters is compared. *)
Up == At(buff.arg, 1) # Slash /\ At(buff.arg, 1) + At(buff.arg, 2) = Dot * 2

CdUp ==
    /\ Running("cd ") /\ Up
    /\ came' = << >>
    /\ Finish(Stripped(wdir))
    /\ UNCHANGED <<downs, written>>

Came == came' = IF Slash \in Range(buff.arg) THEN << >> ELSE wdir

(* dir is stored from the beginning of wdir on, whatever its length.       *)
Stored(dir) ==
    IF Len(dir) < Size THEN Finish(dir)
    ELSE wdir' = dir /\ Overrun("wdir") /\ UNCHANGED <<buff, l_cmd, shown, left>>

(* Variant: a '/' before the name. *)
CdDownJoined ==
    /\ Running("cd ") /\ At(buff.arg, 1) # Slash /\ ~Up
    /\ downs' = IF downs = 3 THEN 3 ELSE downs + 1
    /\ Came /\ Stored(wdir \o <<Slash>> \o buff.arg)
    /\ UNCHANGED written

(* The name is put behind the directory as it is, and nothing looks at how *)
(* much room there is (kernel.c:195).                                      *)
CdDown ==
    /\ Running("cd ") /\ At(buff.arg, 1) # Slash /\ ~Up
    /\ downs' = IF downs = 3 THEN 3 ELSE downs + 1
    /\ Came /\ Stored(wdir \o buff.arg)
    /\ UNCHANGED written

Next ==
    \/ Start \/ KernelMain \/ Type
    \/ Say \/ Reboot \/ Hang \/ Write \/ Data \/ Exit \/ Read
    \/ CdTo \/ CdUp \/ CdDown

Spec == Init /\ [][Next]_vars
-----------------------------------------------------------------------------
Alive == phase \in {"prompt", "run", "data"}

(* The types.  How long wdir may be is no part of them: the code does not  *)
(* bound it (ArraysHold says when it still fits).                          *)
TypeOK ==
    /\ phase \in Phases /\ left <= Stack /\ downs \in 0..3
    /\ buff \in Lines \cup {Nothing} /\ l_cmd \in Lines \cup {Nothing}
    /\ wdir \in Seq(1..255) /\ shown \in Seq(1..255) /\ came \in Seq(1..255)

(* The working directory begins with '/' and has no empty name in it, for  *)
(* users who type none: cd, whatever its argument, never makes one up      *)
(* (kernel.c:186).  While a line is typed and carried out it is the one    *)
(* the last prompt shows, although an abandoned write prints none          *)
(* (kernel.c:154, 234).                                                    *)
Rooted(dir) == dir # << >> /\ dir[1] = Slash
NoEmptyName(dir) == \A i \in 1..(Len(dir) - 1) : ~(dir[i] = Slash /\ dir[i + 1] = Slash)
WdirNamed == Alive => Rooted(wdir) /\ NoEmptyName(wdir) /\ shown = wdir

(* `!!` neither reboots nor hangs nor repeats itself, also after a reboot: *)
(* such lines never reach the copy (kernel.c:129, 139, 236).  A write that *)
(* was given up with `exit` is not repeated either: the line repeated then *)
(* is the one before (kernel.c:154).                                       *)
HistorySound ==
    /\ Branch(l_cmd.word) \notin {"reboot", "hang"} /\ ~Begins(l_cmd.word, "!!")
    /\ Branch(l_cmd.word) = "write" => l_cmd.arg \in written

(* The names ext2 looks for on its way through a path. *)
Walked(path) == IF path = <<Slash>> THEN << >> ELSE Tail(Parts(strsplit(path, Slash)))

(* ls lists the directory read looks for names in (kernel.c:166, 181), as  *)
(* long as cd has not left a '/' at its end.                               *)
LsAgrees ==
    Alive /\ (Len(wdir) > 1 => Last(wdir) # Slash) =>
        Walked(wdir) = Front(Walked(ReadPath(wdir, <<97>>)))

(* cd .. takes back a cd to a name when the directory ended in '/'         *)
(* (kernel.c:187).                                                         *)
UpUndoesDown == [][CdUp /\ Rooted(came) /\ Last(came) = Slash => wdir' = came]_vars

(* From "/" no array is overrun before the second cd (read's path) or the  *)
(* third (wdir), however long the lines (kernel.c:166, 195).               *)
ArraysHold ==
    /\ where = "path" => downs >= 2
    /\ where = "wdir" => downs >= 3

(* The functions of the library have no state: what Libc says of them is   *)
(* looked at once, in the state the machine starts in.                     *)

(* Numbers survive being printed and read (u32_to_str.c, atoi.c).          *)
LibraryNumbers == phase = "start" => NumbersExact

(* Strings are copied, told apart and split exactly (memcpy.c, strcmp.c,   *)
(* strsplit.c).                                                            *)
LibraryStrings == phase = "start" => StringsExact

(* A format prints what its pieces print (printf.c).                       *)
LibraryPrints == phase = "start" => PrintsPieces
=============================================================================
