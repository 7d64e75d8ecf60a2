----------------------------- MODULE Conversion -----------------------------
(***************************************************************************)
(* Which conversions the checker accepts, and what the code generator does *)
(* with the ones it accepted.                                              *)
(*                                                                         *)
(* The checker asks is_convertable before it inserts an implicit           *)
(* conversion (expect_ret_type) and is_force_convertable for a cast; later *)
(* gen_convert of llvm_ir.cpp meets the same two types and has to produce  *)
(* a value.  The two sides are written apart, in different files, by       *)
(* different case splits; the properties here relate them in every type    *)
(* context a program can build.                                            *)
(***************************************************************************)
EXTENDS TypeTable

CONSTANTS
    PrimList,   \* the primitives in the order init registers them
    Impl        \* <<kind, number, trait>>: the types a trait is implemented for

\* PrimType::prim_kind: Bool, Char, Int, Float.
BoolKind  == 0
IntKind   == 2
FloatKind == 3

\* get_float makes signed ones only.
ASSUME ConversionAssumption ==
    /\ PrimList \in [1 .. NPrim -> [kind : 0 .. 3, siz : Nat, unsig : 0 .. 1]]
    /\ \A i, j \in 1 .. NPrim : PrimList[i] = PrimList[j] => i = j
    /\ \A i \in 1 .. NPrim : PrimList[i].kind = FloatKind => PrimList[i].unsig = 0
    /\ Impl \subseteq {"Prim", "Struct", "Array", "Tuple"} \X Nat \X Labels

-----------------------------------------------------------------------------
(* The checker's side. *)

\* Mutant of PrimLeq: signedness does not count.
PrimLeqUnsigned(p, q) == p.kind < q.kind \/ (p.kind = q.kind /\ p.siz <= q.siz)

\* The order of primitive types in PrimType::is_convertable.
PrimLeq(p, q) ==
    \/ p.kind < q.kind
    \/ p.kind = q.kind /\ p.siz * 2 + p.unsig <= q.siz * 2 + q.unsig

KindOf(c, t)  == c.id_ptr_table[t].kind
Sub(c, t)     == c.id_ptr_table[t].args[1]
PrimOf(c, t)  == PrimList[c.id_ptr_table[t].n]
IsPrim(c, t)  == KindOf(c, t) = "Prim"
IsRef(c, t)   == KindOf(c, t) = "Ref"
IsPtr(c, t)   == KindOf(c, t) = "Pointer"
IsArray(c, t) == KindOf(c, t) = "Array"
IsFunc(c, t)  == KindOf(c, t) = "Func"
IsVoid(c, t)  == KindOf(c, t) = "Void"
IsError(c, t) == KindOf(c, t) = "Error"
IsTrait(c, t) == KindOf(c, t) \in {"Trait", "Callable"}
IsInt(c, t)   == IsPrim(c, t) /\ PrimOf(c, t).kind = IntKind

\* with_trait: a type carries the traits implemented for it.  (Pointers and
\* void never convert by theirs; an implementation for functions is left out.)
WithTrait(c, t, trait) ==
    /\ KindOf(c, trait) = "Trait"
    /\ <<KindOf(c, t), c.id_ptr_table[t].n, c.id_ptr_table[trait].n>> \in Impl

\* is_convertable of every type that is not a reference.  Auto, generics and
\* type parameters assert instead of answering.
PrimConverts(c, a, b) == IsPrim(c, b) /\ PrimLeq(PrimOf(c, a), PrimOf(c, b))

PtrConverts(c, a, b) ==
    IsPtr(c, b) /\ (a = b \/ IsVoid(c, Sub(c, b)) \/ IsVoid(c, Sub(c, a)))

FuncConverts(c, a, b) == IsPtr(c, b) /\ (Sub(c, b) = a \/ IsVoid(c, Sub(c, b)))

ConvertsPlain(c, a, b) ==
    LET k == KindOf(c, a)
        same == a = b \/ IsError(c, b) \/ WithTrait(c, a, b) IN
    \/ k = "Error"
    \/ k = "Void" /\ IsVoid(c, b)
    \/ k \in {"Trait", "Callable"} /\ a = b
    \/ k \in {"Tuple", "Struct"} /\ same
    \/ k = "Prim" /\ (IsError(c, b) \/ WithTrait(c, a, b) \/ PrimConverts(c, a, b))
    \/ k = "Pointer" /\ (IsError(c, b) \/ PtrConverts(c, a, b))
    \/ k = "Array" /\ (same \/ (IsPtr(c, b) /\ Sub(c, a) = Sub(c, b)))
    \/ k \in {"Func", "MemFunc"} /\ (same \/ FuncConverts(c, a, b))

\* Mutant of ForcesPlain: arrays answer for the cast to an integer only.
ForcesWithoutArray(c, a, b) ==
    LET k == KindOf(c, a) IN
    \/ k \notin {"Prim", "Pointer", "Struct", "Array"} /\ ConvertsPlain(c, a, b)
    \/ k \in {"Prim", "Pointer", "Struct"} /\ IsError(c, b)
    \/ k = "Prim" /\ (IsPrim(c, b) \/ (IsInt(c, a) /\ IsPtr(c, b)))
    \/ k \in {"Pointer", "Array"} /\ IsInt(c, b)
    \/ k = "Pointer" /\ IsPtr(c, b)
    \/ k = "Struct" /\ a = b

\* is_force_convertable of every type that is not a reference.
ForcesPlain(c, a, b) ==
    LET k == KindOf(c, a) IN
    \/ k \notin {"Prim", "Pointer", "Struct"} /\ ConvertsPlain(c, a, b)
    \/ k \in {"Prim", "Pointer", "Struct"} /\ IsError(c, b)
    \/ k = "Prim" /\ (IsPrim(c, b) \/ (IsInt(c, a) /\ IsPtr(c, b)))
    \/ k \in {"Pointer", "Array"} /\ IsInt(c, b)
    \/ k = "Pointer" /\ IsPtr(c, b)
    \/ k = "Struct" /\ a = b

\* A reference answers for itself, then what it refers to answers.
IsConvertable(c, a, b) == (IsRef(c, a) /\ a = b) \/ ConvertsPlain(c, Decay(c, a), b)

IsForceConvertable(c, a, b) == (IsRef(c, a) /\ a = b) \/ ForcesPlain(c, Decay(c, a), b)

\* greater_type: the common type of two operands, void when there is none.
\* Of two equal functions it is the pointer to them, which it may register:
\* WithGreater is the context it leaves.
VoidId(c) == c.type_ptr_table[<<"Void", <<>>, 0>>]
PtrTo(t)  == Tp("Pointer", <<t>>, 0, FALSE)

SameFunc(c, x, y) == Decay(c, x) = Decay(c, y) /\ IsFunc(c, Decay(c, x))

WithGreater(c, x, y) ==
    IF SameFunc(c, x, y) THEN GetOrCreate(c, PtrTo(Decay(c, x))) ELSE c

\* Mutants of GreaterType: the lesser type is taken; one order only is tried.
LesserType(c, x, y) ==
    LET a == Decay(c, x)
        b == Decay(c, y) IN
    IF SameFunc(c, x, y) THEN Answer(c, PtrTo(a))
    ELSE IF a = b \/ IsConvertable(c, a, b) THEN a
    ELSE IF IsConvertable(c, b, a) THEN b ELSE VoidId(c)

GreaterOneWay(c, x, y) ==
    LET a == Decay(c, x)
        b == Decay(c, y) IN
    IF SameFunc(c, x, y) THEN Answer(c, PtrTo(a))
    ELSE IF a = b \/ IsConvertable(c, a, b) THEN b ELSE VoidId(c)

GreaterType(c, x, y) ==
    LET a == Decay(c, x)
        b == Decay(c, y) IN
    IF SameFunc(c, x, y) THEN Answer(c, PtrTo(a))
    ELSE IF a = b \/ IsConvertable(c, a, b) THEN b
    ELSE IF IsConvertable(c, b, a) THEN a ELSE VoidId(c)

-----------------------------------------------------------------------------
(* The generator's side: gen_convert yields a value, throws "unsupported    *)
(* type convert", fails one of its assertions, or asks the IR builder for a *)
(* GEP on an operand that is not a pointer.                                 *)

LlvmInt(c, t)   == IsPrim(c, t) /\ PrimOf(c, t).kind # FloatKind
LlvmFloat(c, t) == IsPrim(c, t) /\ PrimOf(c, t).kind = FloatKind

\* The types get_llvm_type has a case for, a reference together with what it
\* refers to.  (Another component without a case throws where it is declared.)
Lowered == {"Prim", "Void", "Func", "MemFunc", "Pointer", "Array", "Struct", "Ref",
            "Trait", "Callable"}

Lowers(c) ==
    {t \in DOMAIN c.id_ptr_table :
        KindOf(c, t) \in Lowered /\ KindOf(c, Decay(c, t)) \in Lowered}

\* Mutant of GenPlain: a function is not made a pointer.
GenPlainNoFunc(c, a, b) ==
    IF \/ a = b
       \/ IsPtr(c, a) /\ (IsPtr(c, b) \/ LlvmInt(c, b))
       \/ LlvmInt(c, a) /\ (IsPtr(c, b) \/ IsPrim(c, b))
       \/ LlvmFloat(c, a) /\ LlvmInt(c, b)
       \/ LlvmFloat(c, a) /\ LlvmFloat(c, b) /\ PrimOf(c, a).siz # PrimOf(c, b).siz
    THEN "value" ELSE "throws"

\* From a type that is not a reference, after the trait and array cases.
GenPlain(c, a, b) ==
    IF \/ a = b
       \/ IsFunc(c, a) /\ IsPtr(c, b)
       \/ IsPtr(c, a) /\ (IsPtr(c, b) \/ LlvmInt(c, b))
       \/ LlvmInt(c, a) /\ (IsPtr(c, b) \/ IsPrim(c, b))
       \/ LlvmFloat(c, a) /\ LlvmInt(c, b)
       \/ LlvmFloat(c, a) /\ LlvmFloat(c, b) /\ PrimOf(c, a).siz # PrimOf(c, b).siz
    THEN "value" ELSE "throws"

GenConvert(c, a, b) ==
    IF IsTrait(c, b) THEN IF WithTrait(c, Decay(c, a), b) THEN "value" ELSE "assertion"
    ELSE IF a = b THEN "value"
    ELSE IF IsArray(c, Decay(c, a)) /\ IsPtr(c, b)
         THEN IF IsRef(c, a) THEN "value" ELSE "bad operand"
    ELSE IF ~ IsRef(c, a) THEN GenPlain(c, a, b)
    ELSE IF IsRef(c, b) THEN "assertion"
    ELSE IF KindOf(c, b) \in {"Array", "Struct"} THEN "value"
    ELSE GenPlain(c, Decay(c, a), b)

-----------------------------------------------------------------------------
(* Where conversions come from. *)

\* expect_ret_type wraps a node whose type is not the expected one; the tail
\* of a function is converted whatever its type; a cast is always generated.
Site == {"expect", "tail", "cast"}

Accepted(c, site, a, b) ==
    \/ site = "expect" /\ a # b /\ IsConvertable(c, a, b)
    \/ site = "tail" /\ ~ IsVoid(c, a) /\ IsConvertable(c, a, b)
    \/ site = "cast" /\ IsForceConvertable(c, a, b)

\* The conversions the checker accepts and the generator has no code for.
ArrayValueToPtr(c, a, b) == IsArray(c, a) /\ IsPtr(c, b)
ArrayToInt(c, a, b)      == IsArray(c, Decay(c, a)) /\ IsInt(c, b)
TraitToItself(c, a, b)   == IsTrait(c, b) /\ Decay(c, a) = b
MethodToVoidPtr(c, a, b) == KindOf(c, Decay(c, a)) = "MemFunc" /\ IsPtr(c, b)

Gap(c, a, b) ==
    \/ ArrayValueToPtr(c, a, b)
    \/ ArrayToInt(c, a, b)
    \/ TraitToItself(c, a, b)
    \/ MethodToVoidPtr(c, a, b)

-----------------------------------------------------------------------------
(* Properties. *)

\* The checker and the generator agree: what is_convertable accepts at an
\* expected type or at the tail of a function, and what is_force_convertable
\* accepts in a cast, gen_convert turns into a value.  The four gaps are the
\* only exceptions.
AcceptedGenerates ==
    \A a, b \in Lowers(ctx), site \in Site :
        Accepted(ctx, site, a, b) /\ ~ Gap(ctx, a, b) => GenConvert(ctx, a, b) = "value"

\* A conversion that happens by itself can also be written as a cast, except
\* the one to a trait: adding a cast never turns a valid program invalid.
CastCoversImplicit ==
    \A a, b \in Lowers(ctx) :
        IsConvertable(ctx, a, b) /\ ~ IsTrait(ctx, b) => IsForceConvertable(ctx, a, b)

\* The common type of two operands is one that both of them convert to: the
\* two expect_ret_type calls that follow greater_type report nothing.
CommonTypeServesBoth ==
    \A a, b \in Lowers(ctx) :
        LET g == GreaterType(ctx, a, b)
            c == WithGreater(ctx, a, b) IN
        ~ IsVoid(c, g) => IsConvertable(c, a, g) /\ IsConvertable(c, b, g)

\* The common type does not depend on the order of the operands, unless both
\* are pointers (void* against int* answers with the second operand's type).
CommonTypeSymmetric ==
    \A a, b \in Lowers(ctx) :
        ~ (IsPtr(ctx, Decay(ctx, a)) /\ IsPtr(ctx, Decay(ctx, b))) =>
            GreaterType(ctx, a, b) = GreaterType(ctx, b, a)

\* An operator may convert both operands to their common type without asking.
CommonTypeFits == CommonTypeServesBoth /\ CommonTypeSymmetric

\* The language description: conversion upwards is implicit, downwards it
\* takes a cast.  No two primitives convert implicitly both ways, and of any
\* two one converts to the other.
PrimsOrdered ==
    \A a, b \in Ids :
        IsPrim(ctx, a) /\ IsPrim(ctx, b) /\ a # b =>
            (IsConvertable(ctx, a, b) <=> ~ IsConvertable(ctx, b, a))
=============================================================================
