------------------------------ MODULE Instances ------------------------------
(***************************************************************************)
(* Local variables with an initial value: the type the checker gives the   *)
(* value and the variable (VarDecl of build_sym_table, the literals,       *)
(* infer_array and lookup_struct in src/ast.cpp), and what the generator   *)
(* stores (gen_var_decl, gen_literal, gen_array_inst and gen_struct_inst   *)
(* in src/llvm_ir.cpp).                                                    *)
(*                                                                         *)
(* A program registers some types and then declares a variable.  A number  *)
(* is what it takes to hold it: bits of an integer, of a double's mantissa.*)
(***************************************************************************)
EXTENDS Conversion, Literals

CONSTANTS
    IntBits,        \* the integer literals, by the bits they take
    DoubleBits,     \* the double literals, by the bits they take
    Strings,        \* the string literals, as their units
    Characters      \* the character literals, as their unit

\* init registers bool, char, int and double.
CharKind == 1
LiteralPrims ==
    {[kind |-> CharKind, siz |-> 8, unsig |-> 0], [kind |-> IntKind, siz |-> 32, unsig |-> 0],
     [kind |-> FloatKind, siz |-> 64, unsig |-> 0]}

ASSUME InstancesAssumption ==
    /\ IntBits \subseteq Nat \ {0} /\ DoubleBits \subseteq Nat \ {0}
    /\ Strings \subseteq Seq(StringUnits) /\ Characters \subseteq CharUnits
    /\ \E i \in 1 .. NPrim : PrimList[i].kind = BoolKind
    /\ \A p \in LiteralPrims : \E i \in 1 .. NPrim : PrimList[i] = p

VARIABLE
    decl    \* the declaration, once there is one

-----------------------------------------------------------------------------
(* Types. *)

PrimNamed(kind, siz) == CHOOSE i \in 0 .. NPrim - 1 : PrimList[i + 1] = [kind |-> kind, siz |-> siz, unsig |-> 0]
IntId    == PrimNamed(IntKind, 32)
DoubleId == PrimNamed(FloatKind, 64)
CharId   == PrimNamed(CharKind, 8)
TruthId  == CHOOSE i \in 0 .. NPrim - 1 : PrimList[i + 1].kind = BoolKind

FailedTp == Tp("Error", <<>>, 0, FALSE)

\* The bits of a number that a primitive type keeps; get_llvm_prim makes bool
\* an i1.
Holds(c, t) ==
    LET p == PrimOf(c, t) IN
    CASE p.kind = BoolKind                    -> 1
      [] p.kind = IntKind                     -> p.siz + p.unsig - 1
      [] p.kind = CharKind                    -> p.siz
      [] p.kind = FloatKind /\ p.siz = 64     -> 53
      [] p.kind = FloatKind /\ p.siz = 32     -> 24

NoType == -1

\* What a variable or a member can be of, by the grammar of types.
Declarable == {t \in Ids : KindOf(ctx, t) \in {"Prim", "Pointer", "Array", "Struct", "Trait"}}
Functions  == {t \in Ids : IsFunc(ctx, t)}

-----------------------------------------------------------------------------
(* Values, as they are written. *)

Literal(kind, bits, units) == [kind |-> kind, bits |-> bits, of |-> NoType, units |-> units]
Value(kind, t)             == [kind |-> kind, bits |-> 0, of |-> t, units |-> <<>>]

AllLiterals == {Literal("int", b, <<>>) : b \in IntBits}
               \cup {Literal("double", b, <<>>) : b \in DoubleBits}
               \cup {Literal(kind, 1, <<>>) : kind \in {"bool", "null"}}
               \cup {Literal("char", 1, <<u>>) : u \in Characters}
               \cup {Literal("string", 1, us) : us \in Strings}

\* The negation of an integer, the name of a variable or function, a call.
Leaves == AllLiterals
          \cup {Literal("neg", b, <<>>) : b \in IntBits}
          \cup {Value("name", t) : t \in Declarable \cup Functions}
          \cup {Value("call", t) : t \in Declarable \cup {VoidId(ctx)}}

-----------------------------------------------------------------------------
(* build_sym_table: the context, the type, whether an error was reported;   *)
(* and for the generator the conversions, the constants and the types they  *)
(* end up in, and the stores into members.                                  *)

Unread == [ctx |-> ctx, ret |-> NoType, errs |-> FALSE, convs |-> {}, consts |-> {}, stores |-> {}]

Obtain(e, tp) == [e EXCEPT !.ctx = GetOrCreate(e.ctx, tp), !.ret = Answer(e.ctx, tp)]
OfType(e, t)   == [e EXCEPT !.ret = t]
Refuse(e)      == Obtain([e EXCEPT !.errs = TRUE], FailedTp)

\* RefType::get of the array a string literal is, const.
ConstRef(a)       == Obtain(a, Tp("Ref", <<a.ret>>, 0, TRUE))
ObtainString(e, v) == ConstRef(Obtain(e, Tp("Array", <<CharId>>, Len(parse_string(Text(v.units))) + 1, FALSE)))

\* The type of a value that nothing is assumed of.
Plain(e, v) ==
    CASE v.kind = "int"     -> OfType(e, IntId)
      [] v.kind = "neg"     -> OfType(e, IntId)
      [] v.kind = "double"  -> OfType(e, DoubleId)
      [] v.kind = "bool"    -> OfType(e, TruthId)
      [] v.kind = "char"    -> OfType(e, CharId)
      [] v.kind = "null"    -> Obtain(e, PtrTo(VoidId(e.ctx)))
      [] v.kind = "string"  -> ObtainString(e, v)
      [] v.kind = "name"    -> Obtain(e, Tp("Ref", <<v.of>>, 0, FALSE))
      [] v.kind = "call"    -> OfType(e, v.of)

\* Mutant of Takes: a number may be assumed of any primitive type.
TakesAnyNumber(c, v, assum) ==
    \/ v.kind \in {"int", "double"} /\ IsPrim(c, assum)
    \/ v.kind = "null" /\ IsPtr(c, assum)

\* build_sym_table_with_assum: which literals take the type they are assumed of.
Takes(c, v, assum) ==
    \/ v.kind = "int"    /\ IsPrim(c, assum) /\ PrimOf(c, assum).kind <= IntKind
    \/ v.kind = "double" /\ IsPrim(c, assum) /\ PrimOf(c, assum).kind = FloatKind
    \/ v.kind = "null"   /\ IsPtr(c, assum)

\* The value has its type, and is a constant of it.
Made(p, v) ==
    [p EXCEPT !.consts = @ \cup {[kind |-> v.kind, bits |-> v.bits, units |-> v.units,
                                  as |-> p.ret, into |-> p.ret]}]

Assumed(e, v, assum) ==
    Made(IF assum # NoType /\ Takes(e.ctx, v, assum) THEN OfType(e, assum) ELSE Plain(e, v), v)

\* A conversion of the value e has the type of; also the constants go there.
Convert(e, t) ==
    IF e.ret = t THEN e
    ELSE [e EXCEPT !.ret = t,
                   !.errs = @ \/ ~ IsConvertable(e.ctx, e.ret, t),
                   !.convs = @ \cup {<<e.ret, t>>},
                   !.consts = {[k EXCEPT !.into = t] : k \in @}]

\* expect_ret_type of a value that was not looked at before; what was found
\* before stays as it is.
Demand(e, v, t) ==
    [Convert(Assumed([e EXCEPT !.consts = {}], v, t), t) EXCEPT !.consts = @ \cup e.consts]

\* Mutant of InferredLength: the declared length.
InferredLengthDeclared(given, len) == len

\* infer_array takes the greater of the two lengths.
InferredLength(given, len) == IF given > len THEN given ELSE len

\* An array has two elements at most here.
DemandEach(e, vs, t) ==
    CASE Len(vs) = 0 -> e
      [] Len(vs) = 1 -> Demand(e, vs[1], t)
      [] Len(vs) = 2 -> Demand(Demand(e, vs[1], t), vs[2], t)

ConvertFrom(e, r, t) == Convert(OfType(e, r), t)
ConvertEach(e, rs, t) ==
    IF Len(rs) = 1 THEN ConvertFrom(e, rs[1], t) ELSE ConvertFrom(ConvertFrom(e, rs[1], t), rs[2], t)

\* infer_array with an array type that is assumed.
InferLike(e, vs, assum) ==
    LET sub == Sub(e.ctx, assum)
        arr == Obtain(e, Tp("Array", <<sub>>, InferredLength(Len(vs), e.ctx.id_ptr_table[assum].n), FALSE)) IN
    OfType(DemandEach(arr, vs, sub), arr.ret)

\* infer_array with nothing assumed: the values, found to be of types rets, go
\* to the common type that is in com.
ToCommon(com, rets) ==
    LET tp == Decay(com.ctx, com.ret) IN
    IF IsVoid(com.ctx, tp) THEN Refuse(com)
    ELSE Obtain(ConvertEach(com, rets, tp), Tp("Array", <<tp>>, Len(rets), FALSE))

Common(one, two) ==
    [two EXCEPT !.ctx = WithGreater(@, one.ret, two.ret),
                !.ret = GreaterType(two.ctx, one.ret, two.ret)]

InferTwo(one, two) == ToCommon(Common(one, two), <<one.ret, two.ret>>)
InferRest(one, vs) == IF Len(vs) = 1 THEN ToCommon(one, <<one.ret>>)
                      ELSE InferTwo(one, Assumed(one, vs[2], NoType))
InferCommon(e, vs) == InferRest(Assumed(e, vs[1], NoType), vs)

\* An array, with a type that is assumed, or none.
Array(e, vs, assum) ==
    IF assum # NoType /\ IsArray(e.ctx, assum) THEN InferLike(e, vs, assum) ELSE InferCommon(e, vs)

\* gen_struct_inst stores the value as it is.
StoredAs(e, t) == {<<e.ret, t>>}

\* lookup_struct: the value of the only member, of type t, of struct st.  The
\* members match if the values convert, but nothing converts them.
Match(r, t, st) ==
    IF IsConvertable(r.ctx, r.ret, t)
    THEN OfType([r EXCEPT !.stores = StoredAs(r, t)], st) ELSE Refuse(r)

Struct(e, v, t, st) == Match(Assumed(e, v, t), t, st)

-----------------------------------------------------------------------------
(* VarDecl. *)

NoDecl == [declared |-> NoType, type |-> NoType, given |-> 0, length |-> 0, errs |-> FALSE,
           convs |-> {}, consts |-> {}, stores |-> {}]

\* The type of a variable that is declared without: void is one, too.
AutoType(e) ==
    LET t == Decay(e.ctx, e.ret) IN
    IF IsFunc(e.ctx, t) THEN Obtain(e, PtrTo(t)) ELSE OfType(e, t)

Length(c, t) == IF IsArray(c, Decay(c, t)) THEN c.id_ptr_table[Decay(c, t)].n ELSE 0

Declared(r, given, t) ==
    /\ ctx' = r.ctx
    /\ decl' = [declared |-> t, type |-> r.ret, given |-> given, length |-> Length(r.ctx, r.ret),
                errs |-> r.errs, convs |-> r.convs, consts |-> r.consts, stores |-> r.stores]

\* e is the value; the variable is declared of type t, or of none, and a has
\* that or the one it takes.
ConvertTo(a, e)      == Convert(OfType(a, e.ret), a.ret)
VarDecl(e, given, t) == Declared(ConvertTo(IF t = NoType THEN AutoType(e) ELSE OfType(e, t), e), given, t)

\* The type is evaluated first, a reference is registered then.
DeclareOne(v, t) == VarDecl(Assumed(Unread, v, t), 0, t)

DeclareAs(e, v)   == VarDecl(Assumed(e, v, e.ret), 0, e.ret)
DeclareRef(v, t)  == DeclareAs(Obtain(Unread, Tp("Ref", <<t>>, 0, FALSE)), v)

DeclareArray(vs, t) == VarDecl(Array(Unread, vs, t), Len(vs), t)

DeclareStruct(v, m, st, t) == VarDecl(Struct(Unread, v, m, st), 0, t)

Structs == {t \in Ids : KindOf(ctx, t) = "Struct"}

\* A list without elements has no common type: infer_array uses the null
\* pointer, and the process dies, unless the type is that of an array.
DeclareVariable ==
    /\ decl = NoDecl
    /\ ctx.tp_counter <= MaxTypes
    /\ \E t \in Declarable \cup {NoType} :
        \/ \E v \in Leaves : DeclareOne(v, t)
        \/ t # NoType /\ \E v \in Leaves : DeclareRef(v, t)
        \/ t # NoType /\ IsArray(ctx, t) /\ DeclareArray(<<>>, t)
        \/ \E v \in Leaves : DeclareArray(<<v>>, t)
        \/ \E v, w \in Leaves : DeclareArray(<<v, w>>, t)
        \/ \E v \in Leaves, m \in Declarable, st \in Structs : DeclareStruct(v, m, st, t)

\* The types a program has by then.
RegisterType ==
    /\ decl = NoDecl /\ UNCHANGED decl
    /\ \/ \E t \in Declarable \cup Functions : GetPointer(t)
       \/ \E t \in Declarable, len \in Lengths : GetArray(t, len)
       \/ \E l \in Labels : CreateStruct(l)
       \/ \E t \in Declarable : GetFunc(<<>>, t, FALSE)

Done == decl # NoDecl /\ UNCHANGED <<ctx, decl>>

InstInit == Init /\ decl = NoDecl
InstNext == RegisterType \/ DeclareVariable \/ Done
InstSpec == InstInit /\ [][InstNext]_<<ctx, decl>>

-----------------------------------------------------------------------------
(* Properties. *)

\* The generator meets the declaration.
IsGenerated == decl # NoDecl /\ ~ decl.errs

\* Types are those of the context, and the constants of a declaration end up
\* where a number, a pointer or an array can.
InstancesOK ==
    /\ TypeOK
    /\ decl # NoDecl => decl.type \in Ids
    /\ \A k \in decl.consts : k.as \in Ids /\ k.into \in Ids
    /\ \A v \in decl.convs \cup decl.stores : v[1] \in Ids /\ v[2] \in Ids

\* gen_literal: each kind of literal has its kind of constant, the array of a
\* string the length of its characters and the zero behind them.
IsConstant(k) ==
    CASE k.kind \in {"int", "neg", "bool"} -> LlvmInt(ctx, k.as)
      [] k.kind = "double"                 -> LlvmFloat(ctx, k.as)
      [] k.kind = "null"                   -> IsPtr(ctx, k.as)
      [] k.kind = "char"                   -> LlvmInt(ctx, k.as) /\ CharRead(k.units[1])
      [] k.kind = "string"                 -> StringRead(k.units) /\ Length(ctx, k.as) = Len(k.units) + 1
      [] OTHER                             -> TRUE

\* A gap: parse_int throws.
TooLong(k) == k.kind \in {"int", "neg"} /\ k.bits > 63

\* What the checker accepts as initial value the generator has a value for:
\* a literal that takes the type it is assumed of becomes a constant of that
\* type, and the conversions around the value and its elements have code, but
\* for those without (Conversion); a reference is bound to a variable.
InitGenerates ==
    IsGenerated =>
        /\ \A k \in decl.consts : IsConstant(k)
        /\ \A v \in decl.convs : Gap(ctx, v[1], v[2]) \/ GenConvert(ctx, v[1], v[2]) = "value"
        /\ IsRef(ctx, decl.type) => decl.convs = {}

\* A gap: an auto variable of a call that yields nothing.
IsVoidAuto == decl.declared = NoType /\ IsVoid(ctx, decl.type)

\* A gap: one function between brackets.
IsFunctionArray == IsArray(ctx, decl.type) /\ IsFunc(ctx, Sub(ctx, decl.type))

\* gen_var_decl allocates what get_llvm_type has a value type for.
IsAllocated(t) == KindOf(ctx, t) \in {"Prim", "Pointer", "Array", "Struct", "Trait", "Ref"}

\* A variable that is accepted can be allocated: its type, which an auto
\* variable takes from the value, is neither void nor a function, but for the
\* two cases the checker lets through (gen_var_decl allocates without a test).
VarsAllocate ==
    IsGenerated => IsVoidAuto \/ IsFunctionArray \/ IsAllocated(decl.type)

\* The generator has an answer for every declaration the checker accepts.
DeclarationGenerates == InstancesOK /\ InitGenerates /\ VarsAllocate

\* The positions gen_array_inst stores an element at.
Written == 1 .. decl.given

\* No element is stored behind the array: gen_array_inst stores as many as are
\* given into an array of the length infer_array found, and that is the one of
\* the variable.
ElementsFit ==
    IsGenerated /\ IsArray(ctx, Decay(ctx, decl.type)) => \A i \in Written : i <= decl.length

\* Gaps: an integer is an int first if it is negated, if it is an element and
\* the variable has no type, or if a floating type is expected; a double is
\* rounded to single precision.
IsIntFirst(k) ==
    \/ k.kind = "neg"
    \/ k.kind = "int" /\ (decl.declared = NoType \/ PrimOf(ctx, k.into).kind = FloatKind)

IsRounded(k) == k.kind = "double" /\ k.bits > 24

\* A number that the type it is stored as can hold is stored as it is, also
\* through conversions of the elements of an array: a literal takes the type
\* it is assumed of before it is made a constant.  (parse_int refuses what
\* takes more than 63 bits.)
LiteralsKept ==
    IsGenerated => \A k \in decl.consts :
        k.kind \in {"int", "neg", "double"} /\ IsPrim(ctx, k.into) /\ k.bits <= Holds(ctx, k.into)
            => k.bits <= Holds(ctx, k.as) \/ IsIntFirst(k) \/ IsRounded(k) \/ TooLong(k)

\* What is stored is the value that was written, in the place that was made.
ValuesKept == ElementsFit /\ LiteralsKept

\* The value of a member has the type of the member when it is stored: the
\* language description has implicit conversion upwards, and its test programs
\* give variables as members.
MembersFit == IsGenerated => \A v \in decl.stores : v[1] = v[2]
=============================================================================
