----------------------------- MODULE MCLibrary -----------------------------
(* The instance of Library for TLC: two letters, eight-bit ints, floats of *)
(* nine bits, and years around leap years and centuries.                   *)
EXTENDS Library

SomeBlocks == SeqOf(BoundedSeq(Letters, 2) \ {<<>>}, 3)
SetYears == {0, 1969, 1970, 1972, 1999, 2000, 2100, 3339, 3340}
SomeSettings == [month : 0 .. 13, day : {0, 1, 28, 29, 30, 31, 32}, hour : {0, 24},
                 min : {0, 60, 61}, sec : {0, 59, 60}]
Reg(key, skey, required, default, given) ==
    [key |-> key, skey |-> skey, required |-> required, default |-> default, given |-> given]
SomeRegistrations ==
    {Reg(<<"a">>, "x", TRUE, Null, TRUE), Reg(<<"a">>, "y", FALSE, AText(<<1>>), TRUE),
     Reg(<<"a">>, "x", FALSE, NumberText(130), TRUE), Reg(<<"a">>, "y", TRUE, AText(<<>>), TRUE),
     Reg(<<"b">>, "x", TRUE, AText(<<2>>), TRUE), Reg(<<"b">>, "y", FALSE, NumberText(-5), TRUE),
     Reg(<<"b">>, "y", TRUE, Null, TRUE), Reg(<<"b">>, "x", FALSE, Null, FALSE)}
SomeMoments == {0, 59, 789, 790}
SomeTimes == {0, 59, 60, 3599, 3600, 86399}
=============================================================================
