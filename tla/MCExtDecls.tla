----------------------------- MODULE MCExtDecls -----------------------------
EXTENDS ExtDecls

\* A struct of the outside, and one in a function that has the same name.
SameText == [t \in Types |-> "S"]

OneBuiltin == <<"puts">>

\* None, one, two in either order, and one name twice.
ShortLists == {<<>>, <<"f">>, <<"f", "g">>, <<"g", "f">>, <<"f", "f">>}
=============================================================================
