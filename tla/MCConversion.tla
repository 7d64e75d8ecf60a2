---------------------------- MODULE MCConversion ----------------------------
(* The primitives of TypeContext::init, and three that differ in kind.      *)
EXTENDS Conversion

Prim(k, s, u) == [kind |-> k, siz |-> s, unsig |-> u]

AllPrims ==
    << Prim(IntKind, 8, 0),    Prim(IntKind, 8, 1),
       Prim(IntKind, 16, 0),   Prim(IntKind, 16, 1),
       Prim(IntKind, 32, 0),   Prim(IntKind, 32, 1),
       Prim(IntKind, 64, 0),   Prim(IntKind, 64, 1),
       Prim(FloatKind, 32, 0), Prim(FloatKind, 64, 0),
       Prim(BoolKind, 8, 1),   Prim(1, 8, 0) >>

ThreePrims == << Prim(BoolKind, 8, 1), Prim(IntKind, 32, 0), Prim(FloatKind, 64, 0) >>

\* Trait 1 is implemented for a struct, a primitive and an array.
Impls == {<<"Struct", 1, 1>>, <<"Prim", 1, 1>>, <<"Array", 2, 1>>}
=============================================================================
