---------------------------- MODULE MCOperators ----------------------------
(* The primitives of TypeContext::init, and a few that init would register. *)
EXTENDS OperatorGen

Prim(k, s, u) == [kind |-> k, siz |-> s, unsig |-> u]

AllPrims ==
    << Prim(IntKind, 8, 0),    Prim(IntKind, 8, 1),
       Prim(IntKind, 16, 0),   Prim(IntKind, 16, 1),
       Prim(IntKind, 32, 0),   Prim(IntKind, 32, 1),
       Prim(IntKind, 64, 0),   Prim(IntKind, 64, 1),
       Prim(FloatKind, 32, 0), Prim(FloatKind, 64, 0),
       Prim(BoolKind, 8, 1),   Prim(1, 8, 0) >>

\* The index type, a float and bool: one of each way to convert.
ThreePrims == << Prim(IntKind, 64, 0), Prim(FloatKind, 64, 0), Prim(BoolKind, 8, 1) >>

\* bool, and what a variadic bool is promoted to.
BoolAndUint == << Prim(BoolKind, 8, 1), Prim(IntKind, 32, 1) >>
=============================================================================
