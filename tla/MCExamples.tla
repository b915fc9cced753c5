------------------------------ MODULE MCExamples ------------------------------
(* Values of the constants of Examples for TLC.                            *)
EXTENDS Examples

\* A text shorter than the buffer, one that fills it and one that does not fit.
SomeTexts == {<<"x">>, <<"y", "y">>, <<"z", "z", "z">>}

\* 8 is the half of the numbers of a 4-bit int: products of these wrap around.
SomeFactors == {-8, 3, 5}

SomeOrders ==
    {<<>>, <<"0">>, <<"1">>, <<"1", "nl">>, <<"1", "0">>, <<"0", "1">>, <<"x", "1">>,
     <<"1", "x">>, <<"1", "1", "0", "nl">>}
=============================================================================
