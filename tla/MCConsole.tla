------------------------------ MODULE MCConsole ------------------------------
(* Names of one letter, 'a'; arrays that hold a line and a half.            *)
EXTENDS Console

Line(word, arg) == [word |-> word, arg |-> arg]
a == 97

MCLetters == {Slash, Percent, a}

MCLines ==
    { Line("cd ", arg) : arg \in { <<Slash>>, <<Slash, a>>, <<Slash, a, Slash>>, <<a>>,
                                   <<a, Slash>>, <<a, a, a>>, <<Dot, Dot>> } }
    \cup { Line(word, << >>) : word \in {"reboot", "hang", "ls", "!!", ""} }
    \cup { Line("write ", <<Slash, a>>), Line("read ", <<a>>), Line("read ", <<a, a, a>>) }
=============================================================================
