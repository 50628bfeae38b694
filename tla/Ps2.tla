-------------------------------- MODULE Ps2 ---------------------------------
(***************************************************************************)
(* The keyboard driver of kernel/arch/i386/ps2.c, the controller it polls  *)
(* and the person typing.                                                  *)
(*                                                                         *)
(* A key sends its make code when it is pressed, again while it is held,   *)
(* and the code plus 128 when it is released.  The bytes queue up in the   *)
(* keyboard; the controller shows one at port 0x60 and takes the next when *)
(* the port has been read.  The driver never asks whether there is a new   *)
(* one: it reads the port twice, and reads the same byte until another     *)
(* comes.  Keys with two-byte codes are left out.  The specification bears *)
(* the driver's name since DeviceProofs is about the terminal as well.     *)
(***************************************************************************)
EXTENDS Integers, Sequences

CONSTANTS
    Key,            \* the make codes of the keys in use
    Fifo,           \* bytes the keyboard holds; it drops what does not fit
    MaxPresses      \* bound

Shift == {42, 54}   \* 0x2A, 0x36
Break == 128

ASSUME Ps2Assumption ==
    /\ Key \subseteq 1..127 /\ Fifo \in Nat \ {0} /\ MaxPresses \in Nat

VARIABLES
    held,       \* the keys the typist holds down
    fifo,       \* bytes in the keyboard
    port,       \* the byte at port 0x60
    fresh,      \* it has not been read yet
    pc,         \* where the driver is: "away", "first" or "second" read
    keys_down,  \* as a set: no code is entered twice, and there are 128 slots
    shift_down,
    presses,    \* history: the keys pressed, each with the shift it was meant
    hasty,      \* history: the typist has not waited for the driver, or has
                \* held both shift keys
    typed       \* history: what ps2_key_in returned, with is_shift_down()

typist == <<held, presses, hasty>>
driver == <<pc, keys_down, shift_down, typed>>
ps2Vars == <<held, fifo, port, fresh, pc, keys_down, shift_down, presses, hasty, typed>>

(* The port holds the break code of a key pressed before the kernel ran.   *)
Ps2Init ==
    /\ held = {} /\ fifo = << >>
    /\ port \in {0} \cup { k + Break : k \in Key } /\ fresh = FALSE
    /\ pc = "away" /\ keys_down = {} /\ shift_down = FALSE
    /\ presses = << >> /\ hasty = FALSE /\ typed = << >>
-----------------------------------------------------------------------------
(* Every byte sent has been read and acted on.                             *)
Caught == fifo = << >> /\ ~fresh /\ pc # "second"

(* The typist and the keyboard. *)
Send(byte) == fifo' = IF Len(fifo) < Fifo THEN Append(fifo, byte) ELSE fifo

Press(k) ==
    /\ k \notin held /\ Len(presses) < MaxPresses
    /\ held' = held \cup {k}
    /\ presses' = Append(presses, [key |-> k, shift |-> held' \cap Shift # {}])
    /\ hasty' = (hasty \/ ~Caught \/ Shift \subseteq held')
    /\ Send(k)
    /\ UNCHANGED <<port, fresh, driver>>

(* Only the key pressed last repeats. *)
Repeat(k) ==
    /\ k \in held /\ k = presses[Len(presses)].key
    /\ hasty' = (hasty \/ ~Caught)
    /\ Send(k)
    /\ UNCHANGED <<port, fresh, held, presses, driver>>

Release(k) ==
    /\ k \in held
    /\ held' = held \ {k}
    /\ hasty' = (hasty \/ ~Caught)
    /\ Send(k + Break)
    /\ UNCHANGED <<port, fresh, presses, driver>>

(* The controller takes the next byte once the port has been read.         *)
Show ==
    /\ ~fresh /\ fifo # << >>
    /\ port' = Head(fifo) /\ fifo' = Tail(fifo) /\ fresh' = TRUE
    /\ UNCHANGED <<typist, driver>>
-----------------------------------------------------------------------------
(* The line editor calls ps2_key_in. *)
Call ==
    /\ pc = "away"
    /\ pc' = "first"
    /\ UNCHANGED <<typist, fifo, port, fresh, keys_down, shift_down, typed>>

(* get_scancode: "inb(0x60) != c", where c is 0 whenever it is compared.   *)
FirstRead ==
    /\ pc = "first"
    /\ fresh' = FALSE
    /\ pc' = IF port # 0 THEN "second" ELSE "first"
    /\ UNCHANGED <<typist, fifo, port, keys_down, shift_down, typed>>

ShiftAfter(byte) ==
    IF byte \in Shift THEN TRUE
    ELSE IF byte - Break \in Shift THEN FALSE ELSE shift_down

(* get_scancode: "c = inb(0x60)", which may be another byte by now.        *)
SecondRead ==
    /\ pc = "second"
    /\ fresh' = FALSE
    /\ shift_down' = ShiftAfter(port)

(* Variant: a code is a key whether it is down already or not. *)
KeyInRepeating ==
    /\ SecondRead
    /\ port \in 1..(Break - 1)
    /\ keys_down' = keys_down \cup {port}
    /\ typed' = Append(typed, [key |-> port, shift |-> shift_down'])
    /\ pc' = "away"
    /\ UNCHANGED <<typist, fifo, port>>

(* ps2_key_in returns a key that was not down. *)
KeyIn ==
    /\ SecondRead
    /\ port \in 1..(Break - 1) /\ port \notin keys_down
    /\ keys_down' = keys_down \cup {port}
    /\ typed' = Append(typed, [key |-> port, shift |-> shift_down'])
    /\ pc' = "away"
    /\ UNCHANGED <<typist, fifo, port>>

(* Variant: a release is read over like a repeated code. *)
KeepReadingHeld ==
    /\ SecondRead
    /\ port \in keys_down \cup {0} \/ port >= Break
    /\ pc' = "first"
    /\ UNCHANGED <<typist, fifo, port, keys_down, typed>>

(* It goes on reading after a key that is down already and after a release.*)
KeepReading ==
    /\ SecondRead
    /\ port \in keys_down \cup {0} \/ port >= Break
    /\ keys_down' = IF port >= Break THEN keys_down \ {port - Break} ELSE keys_down
    /\ pc' = "first"
    /\ UNCHANGED <<typist, fifo, port, typed>>
-----------------------------------------------------------------------------
Driver == Call \/ FirstRead \/ KeyIn \/ KeepReading

Typist(k) == Press(k) \/ Repeat(k) \/ Release(k)

Ps2Next == Driver \/ Show \/ \E k \in Key : Typist(k)

(* Each command comes to its end and calls for input again; the driver and *)
(* the controller have nothing else to do.                                 *)
Ps2Spec == Ps2Init /\ [][Ps2Next]_ps2Vars /\ WF_ps2Vars(Driver) /\ WF_ps2Vars(Show)
-----------------------------------------------------------------------------
Ps2TypeOK ==
    /\ hasty \in BOOLEAN
    /\ held \subseteq Key /\ keys_down \subseteq Key
    /\ port \in 0..255 /\ fresh \in BOOLEAN /\ shift_down \in BOOLEAN
    /\ Len(fifo) <= Fifo /\ \A n \in DOMAIN fifo : fifo[n] % Break \in Key
    /\ pc \in {"away", "first", "second"}

(* However fast the typist is and whatever bytes are lost, no key comes    *)
(* out that was not pressed, none twice for one press and none out of      *)
(* turn: reading the port again and again, and the keys' own repeating,    *)
(* add nothing.                                                            *)
NoPhantom ==
    \E pressOf \in [DOMAIN typed -> DOMAIN presses] :
        \A m, n \in DOMAIN typed :
            /\ typed[n].key = presses[pressOf[n]].key
            /\ m < n => pressOf[m] < pressOf[n]

(* The state is what it should be, and what comes out was pressed.         *)
KeysFaithful == Ps2TypeOK /\ NoPhantom

(* At a slow typist's pace nothing is lost either, each key has the shift  *)
(* it was meant with, and the keys counted as down are those held.         *)
Exact ==
    ~hasty /\ Caught =>
        /\ typed = presses
        /\ keys_down = held
        /\ shift_down = (held \cap Shift # {})

(* As long as the typist is slow a press is answered in the end. *)
Answered ==
    \A n \in 1..MaxPresses : Len(presses) = n ~> hasty \/ Len(typed) >= n
=============================================================================
