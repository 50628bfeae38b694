----------------------------- MODULE MCExt2Read -----------------------------
(* A directory "a" and files "f", "x" (of three blocks, one more than are  *)
(* direct), "$" and "e" (empty), in a root directory of one block or two.  *)
(* Inodes on the disk: groups that fill their tables' blocks and groups    *)
(* that do not.                                                            *)
EXTENDS Ext2Read, Ext2Layout

Entry(name, node) == [name |-> <<name>>, inode |-> node]

Rest == [i \in {11, 12, 13, 14, 15} |->
    CASE i = 11 -> [kind |-> "dir", size |-> 2,
                    blocks |-> <<<<Entry("f", 14), Entry("x", 15), Entry("$", 12)>>>>]
      [] i = 12 -> [kind |-> "file", size |-> 1, blocks |-> <<<<1, 2>>>>]
      [] i = 13 -> [kind |-> "file", size |-> 0, blocks |-> << >>]
      [] i = 14 -> [kind |-> "file", size |-> 2, blocks |-> <<<<3, 4>>>>]
      [] i = 15 -> [kind |-> "file", size |-> 5, blocks |-> <<<<5, 6>>, <<7, 8>>, <<9, 4>>>>]]

Directory(blocks) == [kind |-> "dir", size |-> 2 * Len(blocks), blocks |-> blocks]

RootOf(blocks) ==
    [i \in DOMAIN Rest \cup {Root} |-> IF i = Root THEN Directory(blocks) ELSE Rest[i]]

Narrow == RootOf(<<<<Entry("a", 11), Entry("f", 12), Entry("e", 13)>>>>)
Wide   == RootOf(<<<<Entry("a", 11), Entry("e", 13)>>, <<Entry("f", 12)>>>>)

BothTrees == {Narrow, Wide}

Segments == { <<"a">>, <<"f">>, <<"x">>, <<"e">>, << >> }

AllPaths == { <<<< >>, s>> : s \in Segments }
            \cup { <<<< >>, s, t>> : s, t \in Segments }
            \cup { <<<<"f">>>>, <<<<"x", "a">>, <<"f">>>> }
=============================================================================
