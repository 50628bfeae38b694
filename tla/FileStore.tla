----------------------------- MODULE FileStore ------------------------------
(***************************************************************************)
(* What the kernel's file system promises whoever reads the disk after     *)
(* ext2_write_file: the bytes of each file, no blocks and no counters.     *)
(* Appending to a file that has data is atomic, also when the power fails; *)
(* writing an empty file is not, but once the call returns the file holds  *)
(* exactly the bytes given, and no call changes another file's bytes.      *)
(***************************************************************************)
EXTENDS Integers

CONSTANTS
    File,       \* the regular files
    Value,      \* what a byte of the disk may hold
    Buffers,    \* what callers write: functions on 0..(n-1), n > 0
    Initially   \* the files' bytes at first

VARIABLES
    content,    \* file -> its bytes, indexed from 0
    pending,    \* the first write under way: [file, buf], or Nothing
    outages     \* power failures so far

vars == <<content, pending, outages>>

Nothing == [file |-> "none", buf |-> << >>]

Length(b) == IF DOMAIN b = {} THEN 0 ELSE 1 + CHOOSE n \in DOMAIN b : n + 1 \notin DOMAIN b

Cat(a, b) == [k \in 0..(Length(a) + Length(b) - 1) |->
                 IF k < Length(a) THEN a[k] ELSE b[k - Length(a)]]

Init == content = Initially /\ pending = Nothing /\ outages = 0

Append(f, b) ==
    /\ pending = Nothing
    /\ content' = [content EXCEPT ![f] = Cat(@, b)]
    /\ UNCHANGED <<pending, outages>>

(* The inode of an empty file gets its blocks, their contents still old.   *)
Create(f, b) ==
    /\ pending = Nothing /\ content[f] = << >>
    /\ pending' = [file |-> f, buf |-> b]
    /\ DOMAIN content'[f] = DOMAIN b
    /\ content'[f] \in [DOMAIN b -> Value]
    /\ content' = [content EXCEPT ![f] = content'[f]]
    /\ UNCHANGED outages

(* Part of the data arrives in the blocks. *)
Fill ==
    /\ pending # Nothing
    /\ content'[pending.file] \in [DOMAIN pending.buf -> Value]
    /\ content' = [content EXCEPT ![pending.file] = content'[pending.file]]
    /\ UNCHANGED <<pending, outages>>

(* The call returns: the file holds what was given. *)
Finish ==
    /\ pending # Nothing
    /\ content' = [content EXCEPT ![pending.file] = pending.buf]
    /\ pending' = Nothing
    /\ UNCHANGED outages

Outage ==
    /\ outages' = outages + 1
    /\ pending' = Nothing
    /\ UNCHANGED content

Next ==
    \/ \E f \in File, b \in Buffers : Append(f, b) \/ Create(f, b)
    \/ Fill \/ Finish \/ Outage

Spec == Init /\ [][Next]_vars
=============================================================================
