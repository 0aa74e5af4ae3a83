------------------------------- MODULE MCFiles -------------------------------
EXTENDS Files

MCPath == [abs : {FALSE}, parts : {<<"a">>, <<"..">>, <<"..", "a">>, <<"long">>}]
            \cup [abs : {TRUE}, parts : {<<"prog">>}]

MCDotPath == [abs : {FALSE}, parts : {<<"a">>, <<"a", ".">>}]

MCSymmetry == Permutations(Process)
=============================================================================
