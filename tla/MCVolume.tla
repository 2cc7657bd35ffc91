------------------------------ MODULE MCVolume ------------------------------
\* Volume on a small tree, the sizes of cards at which the format changes, and
\* numbers of a byte
EXTENDS Volume, TLC

\* No name is treated differently from another.
NameSymmetry == Permutations(Names)

MCTexts ==
    UNION {[1 .. n -> {"-", "0", "x"}] : n \in 1 .. 2}
      \cup UNION {[1 .. n -> {"a", LF, CR}] : n \in 1 .. 2}
      \cup {<<" ", "-", "1", "2", "8">>, <<"1", "2", "8", " ">>, <<"-", "1", "2", "9">>, <<"2", "5", "5">>,
            <<"2", "5", "6">>, <<"9", "9", "9", "9">>, <<"0", "x", "f", "f">>, <<"0", "x", "x">>,
            <<"+", "0", "x", "8">>, <<"3", "7", "8">>, <<"-", " ", "1">>, <<LF, " ", "7">>,
            <<"t", "r", "u", "e", "x">>, <<" ", "f", "a", "l", "s", "e">>, <<"t", "r", "x">>,
            <<"a", " ", "a">>, <<" ", "a", CR, LF>>, <<"a", "a", LF>>, <<"a", "a", "a">>,
            <<LF, "a", "a">>, <<CR, CR, LF>>}

MCNumbers == {-128, -1, 127}
MCDelims == {LF, "a"}
=============================================================================
