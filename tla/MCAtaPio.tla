------------------------------ MODULE MCAtaPio ------------------------------
(* Two sectors of two words, on machines with and without the drives.      *)
EXTENDS AtaPio

Machine(master, slave) == [d \in {0, 1} |-> IF d = 0 THEN master ELSE slave]

Machines ==
    { Machine("ata", "none"), Machine("none", "atapi"), Machine("atapi", "ata") }

PacketSlave == { Machine("ata", "atapi") }
=============================================================================
