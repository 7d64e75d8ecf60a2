------------------------------ MODULE TypeTable ------------------------------
(***************************************************************************)
(* The type context of the compiler (inc/sdtype.h, src/sdtype.cpp).        *)
(*                                                                         *)
(* Types are interned: every factory (RefType::get, FuncType::get, ...)    *)
(* builds a candidate object, computes its unique_type_name and hands back *)
(* the entry registered under that name, or registers the candidate.  The  *)
(* rest of the compiler compares types by pointer, so the table must give  *)
(* one entry to each type.  Structs, traits and generics are nominal: they *)
(* are always registered, under their own fresh id.                        *)
(*                                                                         *)
(* A type is a record: its kind, the ids of the types it is built from, a  *)
(* number (array length, index of a primitive, name of a parameter or of a *)
(* struct) and a flag (is_vary of a function, is_cnst of a reference).     *)
(***************************************************************************)
EXTENDS Integers, Sequences

CONSTANTS
    NPrim,      \* how many primitive types init registers (12 in the code)
    IntPrim,    \* which of them the alias "int" names
    Lengths,    \* array lengths a program uses
    Labels,     \* names of type parameters, structs, traits and generics
    MaxArity,   \* bound: longest parameter or member list
    MaxTypes    \* bound: how many types a behaviour registers

ASSUME TypeTableAssumption ==
    /\ NPrim \in Nat \ {0}
    /\ IntPrim \in 1 .. NPrim
    /\ Lengths \subseteq Nat
    /\ Labels \subseteq Nat
    /\ MaxArity \in Nat
    /\ MaxTypes \in Nat

VARIABLE
    ctx     \* the TypeContext: tp_counter, id_ptr_table, type_ptr_table

-----------------------------------------------------------------------------
(* Types and their names. *)

Leaf     == {"Void", "Auto", "Error"}
Nominal  == {"Struct", "Generic", "Trait"}
Kind     == Leaf \cup Nominal \cup
            {"Prim", "Param", "Ref", "Pointer", "Array", "Tuple",
             "Func", "MemFunc", "Callable"}

Type == [kind : Kind, args : Seq(Nat), n : Nat, flag : BOOLEAN]

Tp(kind, args, n, flag) ==
    [kind |-> kind, args |-> args, n |-> n, flag |-> flag]

\* Mutant of Shape: the dots of a variadic function are not printed.
ShapeWithoutDots(t) == t.kind

\* unique_type_name: the text shows the kind by its punctuation, the ids of
\* the components and the number.  Nominal types print their own id only.
\* The constness of a reference is not printed.
Shape(t) == IF t.kind = "Func" /\ t.flag THEN "Func..." ELSE t.kind

\* Mutant of UniqueName: nominal types are printed like the others.
NameByLabel(t, id) == <<Shape(t), t.args, t.n>>

UniqueName(t, id) ==
    IF t.kind \in Nominal THEN <<"id", <<id>>, 0>>
                          ELSE <<Shape(t), t.args, t.n>>

\* Mutant of Decay: a reference stays one.
DecayForgotten(c, id) == id

\* Type::decay: a reference decays to what it refers to.
Decay(c, id) ==
    IF c.id_ptr_table[id].kind = "Ref" THEN c.id_ptr_table[id].args[1] ELSE id

-----------------------------------------------------------------------------
(* The two tables. *)

Put(m, k, v) == [x \in DOMAIN m \cup {k} |-> IF x = k THEN v ELSE m[x]]

\* Mutant of Create: the name is bound to the counter after it is advanced.
CreateBoundLate(c, t) ==
    [tp_counter     |-> c.tp_counter + 1,
     type_ptr_table |-> Put(c.type_ptr_table, UniqueName(t, c.tp_counter), c.tp_counter + 1),
     id_ptr_table   |-> Put(c.id_ptr_table, c.tp_counter, t)]

\* TypeContext::create
Create(c, t) ==
    LET id == c.tp_counter IN
    [tp_counter     |-> id + 1,
     type_ptr_table |-> Put(c.type_ptr_table, UniqueName(t, id), id),
     id_ptr_table   |-> Put(c.id_ptr_table, id, t)]

\* TypeContext::get(std::string).  A candidate has no id yet: the name of a
\* nominal type is never looked up.
Registered(c, t) ==
    /\ t.kind \notin Nominal
    /\ UniqueName(t, 0) \in DOMAIN c.type_ptr_table

\* Mutant of GetOrCreate: the lookup is left out.
CreateAlways(c, t) == Create(c, t)

\* get_or_create: the context it leaves and the id it answers with.
GetOrCreate(c, t) == IF Registered(c, t) THEN c ELSE Create(c, t)

Answer(c, t) ==
    IF Registered(c, t) THEN c.type_ptr_table[UniqueName(t, 0)]
                        ELSE c.tp_counter

-----------------------------------------------------------------------------
Ids == DOMAIN ctx.id_ptr_table

\* Parameter, member and function lists of at most MaxArity registered types.
Lists == UNION {[1 .. k -> Ids] : k \in 0 .. MaxArity}

InitPrims == [i \in 0 .. NPrim - 1 |-> Tp("Prim", <<>>, i + 1, FALSE)]

\* TypeContext::init: the primitives in order, void, and the alias "int".
Init ==
    LET byId == Put(InitPrims, NPrim, Tp("Void", <<>>, 0, FALSE)) IN
    ctx = [tp_counter     |-> NPrim + 1,
           id_ptr_table   |-> byId,
           type_ptr_table |->
             [nm \in {UniqueName(byId[i], i) : i \in 0 .. NPrim}
                     \cup {<<"int", <<>>, 0>>} |->
                IF nm[1] = "int" THEN IntPrim - 1
                ELSE CHOOSE i \in 0 .. NPrim : UniqueName(byId[i], i) = nm]]

\* A factory call with candidate t, made in context c.
Serve(c, t) ==
    /\ Registered(c, t) \/ c.tp_counter < MaxTypes
    /\ ctx' = GetOrCreate(c, t)

GetLeaf(k) == Serve(ctx, Tp(k, <<>>, 0, FALSE))
GetPrim(p) == Serve(ctx, Tp("Prim", <<>>, p, FALSE))
GetGenericParam(l) == Serve(ctx, Tp("Param", <<>>, l, FALSE))

\* Reference, pointer and array factories decay their subtype first.
GetRef(s, cnst) == Serve(ctx, Tp("Ref", <<Decay(ctx, s)>>, 0, cnst))
GetPointer(s) == Serve(ctx, Tp("Pointer", <<Decay(ctx, s)>>, 0, FALSE))
GetArray(s, len) == Serve(ctx, Tp("Array", <<Decay(ctx, s)>>, len, FALSE))

GetTuple(ms) == Serve(ctx, Tp("Tuple", ms, 0, FALSE))

FuncTp(ps, ret, vary) == Tp("Func", Append(ps, ret), 0, vary)
GetFunc(ps, ret, vary) == Serve(ctx, FuncTp(ps, ret, vary))

\* The constructor of the candidate registers the plain function type, and
\* only then is the candidate's own name looked up.
GetMemFunc(parent, ps, ret) ==
    LET fn == FuncTp(ps, ret, FALSE) IN
    /\ Registered(ctx, fn) \/ ctx.tp_counter + 1 < MaxTypes
    /\ Serve(GetOrCreate(ctx, fn),
             Tp("MemFunc", <<parent>> \o ps \o <<ret>>, 0, FALSE))

GetCallable(fn) ==
    /\ ctx.id_ptr_table[fn].kind = "Func"
    /\ Serve(ctx, Tp("Callable", <<fn>>, 0, FALSE))

CreateStruct(l) == Serve(ctx, Tp("Struct", <<>>, l, FALSE))
CreateGeneric(l) == Serve(ctx, Tp("Generic", <<>>, l, FALSE))
CreateTrait(l, fns) ==
    /\ \A i \in DOMAIN fns : ctx.id_ptr_table[fns[i]].kind = "Func"
    /\ Serve(ctx, Tp("Trait", fns, l, FALSE))

Next ==
    \/ \E k \in Leaf : GetLeaf(k)
    \/ \E p \in 1 .. NPrim : GetPrim(p)
    \/ \E l \in Labels : GetGenericParam(l)
    \/ \E s \in Ids, cnst \in BOOLEAN : GetRef(s, cnst)
    \/ \E s \in Ids : GetPointer(s)
    \/ \E s \in Ids, len \in Lengths : GetArray(s, len)
    \/ \E ms \in Lists : GetTuple(ms)
    \/ \E ps \in Lists, ret \in Ids, vary \in BOOLEAN : GetFunc(ps, ret, vary)
    \/ \E parent \in Ids, ps \in Lists, ret \in Ids : GetMemFunc(parent, ps, ret)
    \/ \E fn \in Ids : GetCallable(fn)
    \/ \E l \in Labels : CreateStruct(l)
    \/ \E l \in Labels : CreateGeneric(l)
    \/ \E l \in Labels, fns \in Lists : CreateTrait(l, fns)

Spec == Init /\ [][Next]_ctx

-----------------------------------------------------------------------------
(* Properties. *)

\* Type invariant: the counter counts the entries, names lead to entries.
TypeOK ==
    /\ ctx.tp_counter \in Nat
    /\ ctx.id_ptr_table \in [0 .. ctx.tp_counter - 1 -> Type]
    /\ \A nm \in DOMAIN ctx.type_ptr_table : ctx.type_ptr_table[nm] \in Ids

\* The same structural type: what a programmer would call the same type,
\* except that a const and a plain reference are not told apart.
SameType(t, u) ==
    /\ t.kind = u.kind
    /\ t.args = u.args
    /\ t.n = u.n
    /\ t.kind = "Func" => t.flag = u.flag

\* Types are compared by pointer everywhere (PointerType::is_convertable,
\* greater_type): no structural type is ever registered under two ids.
Canonical ==
    \A i, j \in Ids :
        LET t == ctx.id_ptr_table[i] IN
        t.kind \notin Nominal /\ SameType(t, ctx.id_ptr_table[j]) => i = j

\* A single decay() removes every reference: decay is not recursive, and
\* is_ref / decay pairs in the checker and the code generator rely on it.
NoNestedRef ==
    \A i \in Ids :
        LET t == ctx.id_ptr_table[i] IN
        t.kind \in {"Ref", "Pointer", "Array"} =>
            ctx.id_ptr_table[t.args[1]].kind # "Ref"

\* Every type is built from types registered before it.  size(), to_string()
\* and unique_type_name() walk the components and so terminate (a struct gets
\* its members later and is the one exception, guarded by contain_loop).
ComponentsFirst ==
    \A i \in Ids : \A k \in DOMAIN ctx.id_ptr_table[i].args :
        ctx.id_ptr_table[i].args[k] < i

\* A member function is called through its plain function type: whenever a
\* MemFunc is registered, so is the Func with its parameters and result.
MemFuncHasFunc ==
    \A i \in Ids :
        LET t == ctx.id_ptr_table[i] IN
        t.kind = "MemFunc" =>
            \E j \in Ids : /\ ctx.id_ptr_table[j] = Tp("Func", Tail(t.args), 0, FALSE)
                           /\ j < i

\* What size(), decay() and the call of a member function rely on when they
\* follow the components of a type.
WellBuilt == ComponentsFirst /\ NoNestedRef /\ MemFuncHasFunc

\* The candidates the factories may be called with next.
Request ==
    {t \in [kind : Kind, args : Lists, n : {0} \cup Lengths \cup Labels, flag : BOOLEAN] :
        t.flag => t.kind \in {"Ref", "Func"}}

\* A factory answers with the type it was asked for, whatever was registered
\* before: two types that differ never share a name - but for a const and a
\* plain reference, of which the first one asked for is the answer to both.
AnswerFits ==
    \A t \in Request :
        Registered(ctx, t) => SameType(t, ctx.id_ptr_table[Answer(ctx, t)])

\* Pointers to types are kept in AST nodes for the whole compilation: a step
\* never rebinds an id or a name, and ids are handed out in order.
BindingsKept ==
    [][/\ \A i \in Ids : i \in DOMAIN ctx'.id_ptr_table
                         /\ ctx'.id_ptr_table[i] = ctx.id_ptr_table[i]
       /\ \A nm \in DOMAIN ctx.type_ptr_table :
             /\ nm \in DOMAIN ctx'.type_ptr_table
             /\ ctx'.type_ptr_table[nm] = ctx.type_ptr_table[nm]]_ctx
=============================================================================
