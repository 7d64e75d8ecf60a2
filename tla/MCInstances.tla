----------------------------- MODULE MCInstances -----------------------------
EXTENDS Instances

Prim(k, s, u) == [kind |-> k, siz |-> s, unsig |-> u]

\* bool, char, the types of the literals, and a longer integer.
FivePrims == << Prim(BoolKind, 8, 1), Prim(CharKind, 8, 0), Prim(IntKind, 32, 0),
                Prim(IntKind, 64, 0), Prim(FloatKind, 64, 0) >>

\* All strings are alike to the checker, and so are all characters; what is read
\* in each is evaluated in Literals.
SomeStrings == { << <<"backslash", "quote">>, <<"other">> >> }
OneUnit     == { <<"backslash", "letter">> }
=============================================================================
