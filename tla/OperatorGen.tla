---------------------------- MODULE OperatorGen ----------------------------
(***************************************************************************)
(* What gen_operator (src/llvm_ir.cpp) does with an operator node the      *)
(* checker accepted: it meets the operand types after conversion and the   *)
(* answer, and picks the instruction by their LLVM types.                  *)
(***************************************************************************)
EXTENDS Operators

\* The LLVM type of a value as the generator's case splits see it.
LlvmKind(c, t) ==
    LET k == KindOf(c, t) IN
    CASE k \in {"Ref", "Pointer"}   -> "pointer"
      [] k = "Prim"                 -> IF PrimOf(c, t).kind = FloatKind THEN "float" ELSE "int"
      [] k \in {"Trait", "Callable"} -> "pointer"
      [] OTHER                      -> k

Numeric == {"int", "float"}

\* gen_math_op: lhs, rhs and res are the LLVM kinds of operands and answer.
GenAdd(lhs, rhs, res) ==
    IF res \in Numeric THEN res
    ELSE IF {lhs, rhs} = {"pointer", "int"} THEN "pointer" ELSE "throws"

GenSub(lhs, rhs, res) ==
    IF lhs = "pointer" /\ rhs = "int" THEN "pointer"
    ELSE IF lhs = "pointer" /\ rhs = "pointer" THEN "int"
    ELSE IF res \in Numeric THEN res ELSE "throws"

GenMath(op, lhs, rhs, res) ==
    CASE op = "Add"                 -> GenAdd(lhs, rhs, res)
      [] op = "Sub"                 -> GenSub(lhs, rhs, res)
      [] op \in {"Mul", "Div"}      -> IF res \in Numeric THEN res ELSE "throws"
      [] op \in IntOps              -> IF res = "int" THEN "int" ELSE "throws"
      [] op \in LogicOps            -> rhs

\* gen_unary_op: CreateNeg and CreateNot take integers only.
GenUnary(op, val) == IF op = "Pos" \/ val = "int" THEN val ELSE "bad operand"

\* gen_cmp_op: no comparison of aggregates.
GenCmp(comm) == IF comm \in Numeric \cup {"pointer"} THEN "int" ELSE "assertion"

\* gen_access_op indexes through an address; a member access has code for the
\* members of structs only.
GenAt(base, isArray) == IF isArray /\ base # "pointer" THEN "bad operand" ELSE "pointer"

GenOperator(c, n) ==
    LET k == [i \in DOMAIN n.ch |-> LlvmKind(c, n.ch[i])]
        res == LlvmKind(c, n.ret) IN
    CASE n.op \in MathOps \cup IntOps \cup LogicOps -> GenMath(n.op, k[1], k[2], res)
      [] n.op \in UnaryOps                         -> GenUnary(n.op, k[1])
      [] n.op \in CmpOps -> GenCmp(LlvmKind(c, GreaterType(c, n.ch[1], n.ch[2])))
      [] n.op \in UpdateOps \cup {"Assign"}         -> k[1]
      [] n.op = "At"              -> GenAt(k[1], IsArray(c, Decay(c, n.ch[1])))
      [] n.op \in {"Ref", "DeRef"}                  -> k[1]
      [] n.op = "Length"                            -> "assertion"
      [] n.op = "Call"                              -> res
      [] n.op = "Convert" ->
            IF GenConvert(c, n.args[1], n.ret) = "value" THEN res ELSE "throws"

\* The operands are generated first, through their conversions.
OperandsGenerate(c, n) ==
    \A i \in DOMAIN n.ch :
        n.ch[i] # n.args[i] => GenConvert(c, n.args[i], n.ch[i]) = "value"

\* The node reaches the generator: checked, and no error in the program, neither
\* here nor before, where an operand or a parameter got its type.
Generates ==
    /\ node.pc = "done" /\ ~ node.errs /\ ~ node.oob
    /\ \A i \in DOMAIN node.ch :
          ~ IsError(ctx, node.args[i]) /\ ~ IsError(ctx, node.ch[i])

\* Where the generator has no code for what the checker accepts.
OperandGap ==
    \/ \E i \in DOMAIN node.ch : Gap(ctx, node.args[i], node.ch[i])
    \/ node.op = "Convert" /\ Gap(ctx, node.args[1], node.ret)
FloatNeg   == node.op = "Neg" /\ LlvmKind(ctx, node.ch[1]) = "float"
ArrayCmp   == node.op \in CmpOps /\ IsArray(ctx, node.ch[1])
ArrayMinus == node.op = "Sub" /\ IsArray(ctx, Decay(ctx, node.args[1]))
ArrayValueAt == node.op = "At" /\ IsArray(ctx, node.args[1])

OperatorGap ==
    OperandGap \/ FloatNeg \/ ArrayCmp \/ ArrayMinus \/ ArrayValueAt \/ node.op = "Length"

-----------------------------------------------------------------------------
(* Properties. *)

\* The checker and the generator agree on operators: an accepted operator is
\* generated, and its value has the LLVM type of the answer the rest of the
\* program was checked against.  The named gaps are the only exceptions.
OperatorGenerates ==
    Generates /\ ~ OperatorGap =>
        /\ OperandsGenerate(ctx, node)
        /\ GenOperator(ctx, node) = LlvmKind(ctx, node.ret)

\* A call that is accepted matches its function and is generated.  With too few
\* arguments the checker goes on to the missing ones, out of the list's range,
\* but only after it has reported them.
CallGenerates == CallMatches /\ OperatorGenerates /\ (node.oob => node.errs)
=============================================================================
