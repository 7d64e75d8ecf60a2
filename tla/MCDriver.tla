------------------------------ MODULE MCDriver ------------------------------
(* A program of two lines: a token of one character at its beginning, one    *)
(* behind it, a long one on the second line.                                 *)
EXTENDS Driver

On(line, l, r) == [line_st |-> line, line_ed |-> line, col_l |-> l, col_r |-> r]

ThreeTokens == {On(0, 0, 0), On(0, 2, 3), On(1, 0, 4)}
=============================================================================
