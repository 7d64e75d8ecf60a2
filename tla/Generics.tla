------------------------------ MODULE Generics ------------------------------
(***************************************************************************)
(* Struct declarations and the instantiation of generic structs            *)
(* (add_generic_impl, ast_to_type and build_sym_table of src/ast.cpp,      *)
(* Adaptor<StructDecl> of inc/ast.h).                                      *)
(*                                                                         *)
(* The members of a struct are evaluated one node at a time.  A node       *)
(* G<...> whose instance is not in the type table suspends the struct, and *)
(* a copy of G's declaration is built under its own binding of the type    *)
(* parameter: the stack `calls` holds the structs being built, a plain one *)
(* at the bottom and instances above it.                                   *)
(*                                                                         *)
(* A generic has one parameter.  A type is a number of stars over a        *)
(* primitive, a struct, the unbound parameter or an error; what a node     *)
(* evaluates is a chain <<leaf, "ptr" or generic, ...>>, innermost first.  *)
(***************************************************************************)
EXTENDS Integers, Sequences, FiniteSets, SequencesExt

CONSTANTS
    Generics,       \* the generic structs
    Plain,          \* the plain structs, one per scope and name
    Label,          \* the name a plain struct is written with
    Leaves,         \* the names of leaves, Plain among them
    Void, Trait,    \* the leaves that name void and a trait type
    Programs,       \* programs: the member lists the structs are declared with
    SubLimit,       \* nested instantiations allowed before the last (20 in the code)
    MaxDecl,        \* bound: how many plain declarations a program has
    MaxStructs      \* bound on structs made; SubLimit keeps programs below it

\* A node of a member's type description: a leaf, with stars and generics
\* around it.  The parser knows a parameter inside its own generic only.
LeafNode   == [kind : {"param", "prim"}, name : Leaves] \cup [kind : {"plain"}, name : Plain]
AroundNode == [kind : {"ptr"}, name : Leaves] \cup [kind : {"generic"}, name : Generics]
ChainNode  == LeafNode \cup AroundNode

ASSUME GenericsAssumption ==
    /\ Generics \cap Plain = {}
    /\ DOMAIN Label = Plain
    /\ \A b \in Programs :
        /\ DOMAIN b = Generics \cup Plain
        /\ \A d \in DOMAIN b : b[d] \in Seq([name : STRING, type : Seq(ChainNode)])
        /\ \A d \in DOMAIN b : \A i \in DOMAIN b[d] : LET chain == b[d][i].type IN
            chain # <<>> /\ \A k \in DOMAIN chain : chain[k] \in LeafNode <=> k = 1
        /\ \A p \in Plain : \A i \in DOMAIN b[p] : \A k \in DOMAIN b[p][i].type :
            b[p][i].type[k].kind # "param"
    /\ SubLimit \in Nat
    /\ MaxDecl \in Nat
    /\ MaxStructs \in Nat

VARIABLES
    body,           \* the program: the member list of each declaration
    binding,        \* type_table of each GenericBlock: what its parameter is bound to
    types,          \* type_table of the enclosing block: name or signature to struct
    structs,        \* every StructType made, with its members so far
    calls,          \* the structs being built, the innermost last
    generic_sub_cnt,
    errors,         \* an error was reported
    aborted,        \* the compiler dereferenced a null pointer
    decls           \* the declarations processed, in order

vars == <<body, binding, types, structs, calls, generic_sub_cnt, errors, aborted, decls>>

-----------------------------------------------------------------------------
(* Types. *)

Tp(head, name) == [ptrs |-> 0, of |-> <<head, name>>]

Error       == Tp("error", 0)
Unbound     == Tp("param", 0)
StructTp(s) == Tp("struct", s)

Pointer(t) == IF t = Error THEN Error ELSE [t EXCEPT !.ptrs = @ + 1]

IsStruct(t) == t.of[1] = "struct"
StructOf(t) == t.of[2]

\* to_string of a type: a struct prints its name, which two structs may share.
TypeText(t) == IF IsStruct(t) THEN [t EXCEPT !.of[2] = structs[@].text] ELSE t

\* The names of the type table: a plain struct has its own in its scope, an
\* instance has the generic's name and the text of its argument.
PlainName(p)     == [of |-> p, args |-> <<>>]
Signature(g, t)  == [of |-> g, args |-> <<TypeText(t)>>]

-----------------------------------------------------------------------------
(* The innermost struct. *)

Top     == Last(calls)
Current == structs[Top.struct]
Member  == body[Current.of][Top.member]

Busy == calls # <<>> /\ ~aborted

\* The innermost struct has a node left to evaluate; its leaf; the rest.
AtNode == Busy /\ Top.member <= Len(body[Current.of]) /\ Top.node <= Len(Member.type)
Node   == Member.type[Top.node]

\* One more node is evaluated, to t.
Evaluated(f, t) == [f EXCEPT !.node = @ + 1, !.val = t]

Yield(t) == calls' = [calls EXCEPT ![Len(calls)] = Evaluated(@, t)]

\* A call that builds struct s; saved is add_generic_impl's buffer.
Call(s, saved) == [struct |-> s, member |-> 1, node |-> 1, val |-> Error, saved |-> saved]

\* StructType::create and set_type under the struct's name.
NewStruct(of, arg, text) ==
    [of |-> of, arg |-> arg, text |-> text, members |-> <<>>, whole |-> FALSE]

\* Mutant of Register: the name leads to the struct after the new one.
RegisterLate(name, st) ==
    /\ structs' = Append(structs, st)
    /\ types' = [n \in DOMAIN types \cup {name} |->
                    IF n = name THEN Len(structs) + 2 ELSE types[n]]

Register(name, st) ==
    /\ structs' = Append(structs, st)
    /\ types' = [n \in DOMAIN types \cup {name} |->
                    IF n = name THEN Len(structs) + 1 ELSE types[n]]

NameOf(st) == IF st.of \in Plain THEN PlainName(st.of) ELSE st.text

Deleted(name) == [n \in DOMAIN types \ {name} |-> types[n]]

-----------------------------------------------------------------------------
(* ast_to_type. *)

\* get_type: the parameter is found in the GenericBlock, a plain struct in
\* the block around it, unless it failed and was deleted.
GetType(leaf) ==
    CASE leaf.kind = "param" -> binding[Current.of]
      [] leaf.kind = "prim"  -> Tp("prim", leaf.name)
      [] leaf.kind = "plain" -> IF PlainName(leaf.name) \in DOMAIN types
                                THEN StructTp(types[PlainName(leaf.name)])
                                ELSE Error

Identifier ==
    /\ AtNode /\ Node.kind \in {"param", "prim", "plain"}
    /\ Yield(GetType(Node))
    /\ UNCHANGED <<body, binding, types, structs, generic_sub_cnt, errors, aborted, decls>>

PointerDesc ==
    /\ AtNode /\ Node.kind = "ptr"
    /\ Yield(Pointer(Top.val))
    /\ UNCHANGED <<body, binding, types, structs, generic_sub_cnt, errors, aborted, decls>>

AtGeneric == AtNode /\ Node.kind = "generic"

\* An argument that is an error makes the type one.
GenericOfError ==
    /\ AtGeneric /\ Top.val = Error
    /\ Yield(Error)
    /\ UNCHANGED <<body, binding, types, structs, generic_sub_cnt, errors, aborted, decls>>

\* The instance is in the type table, perhaps not yet whole.
GenericKnown ==
    /\ AtGeneric /\ Top.val # Error
    /\ Signature(Node.name, Top.val) \in DOMAIN types
    /\ Yield(StructTp(types[Signature(Node.name, Top.val)]))
    /\ UNCHANGED <<body, binding, types, structs, generic_sub_cnt, errors, aborted, decls>>

AtUnknownGeneric ==
    /\ AtGeneric /\ Top.val # Error
    /\ Signature(Node.name, Top.val) \notin DOMAIN types

\* Mutant of OverLimit: there is no limit.
OverNoLimit == FALSE

OverLimit == generic_sub_cnt > SubLimit

GenericRefused ==
    /\ AtUnknownGeneric /\ OverLimit
    /\ errors' = TRUE
    /\ Yield(Error)
    /\ UNCHANGED <<body, binding, types, structs, generic_sub_cnt, aborted, decls>>

\* Mutant of Bound: a parameter that was bound once keeps its type.
BoundOnce(g, t) == [binding EXCEPT ![g] = IF @ = Unbound THEN t ELSE @]

\* The parameter is bound in the GenericBlock all instances share.
Bound(g, t) == [binding EXCEPT ![g] = t]

\* add_generic_impl up to the members of the copy.
GenericImpl ==
    /\ AtUnknownGeneric /\ ~OverLimit /\ Len(structs) < MaxStructs
    /\ LET sig == Signature(Node.name, Top.val) IN
        /\ Register(sig, NewStruct(Node.name, Top.val, sig))
        /\ binding' = Bound(Node.name, Top.val)
        /\ calls' = Append(calls, Call(Len(structs) + 1, binding'[Node.name]))
    /\ generic_sub_cnt' = generic_sub_cnt + 1
    /\ UNCHANGED <<body, errors, aborted, decls>>

-----------------------------------------------------------------------------
(* StructDecl. *)

\* The structs that a declaration names.
Named(d) ==
    {n \in Generics \cup Plain : \E i \in DOMAIN body[d] : \E node \in ToSet(body[d][i].type) :
        node.kind \in {"plain", "generic"} /\ node.name = n}

\* A declaration comes next.  Its members name structs declared before it, or
\* itself: the parser knows no others.
Declares(d) ==
    /\ calls = <<>> /\ ~aborted
    /\ Named(d) \subseteq Range(decls) \cup {d}
    /\ decls' = Append(decls, d)

\* The GenericBlock is entered with its parameter unbound; its members are
\* looked at when an instance is made.
GenericDecl(g) ==
    /\ Declares(g) /\ g \notin Range(decls)
    /\ binding' = [binding EXCEPT ![g] = Unbound]
    /\ UNCHANGED <<body, types, structs, calls, generic_sub_cnt, errors, aborted>>

\* A plain declaration.  A second one of a name in one scope is an error.
StructDecl(p) ==
    /\ Declares(p) /\ Cardinality({i \in DOMAIN decls : decls[i] \in Plain}) < MaxDecl
    /\ IF PlainName(p) \in DOMAIN types
       THEN /\ errors' = TRUE
            /\ UNCHANGED <<types, structs, calls>>
       ELSE /\ Register(PlainName(p), NewStruct(p, Error, [of |-> Label[p], args |-> <<>>]))
            /\ calls' = <<Call(Len(structs) + 1, Error)>>
            /\ UNCHANGED errors
    /\ UNCHANGED <<body, binding, generic_sub_cnt, aborted>>

NextMember(f) == [f EXCEPT !.member = @ + 1, !.node = 1]

\* build_type: the member is appended when its type is known.
BuildMember ==
    /\ Busy /\ Top.member <= Len(body[Current.of]) /\ Top.node > Len(Member.type)
    /\ structs' = [structs EXCEPT ![Top.struct].members = Append(@, Top.val)]
    /\ calls' = [calls EXCEPT ![Len(calls)] = NextMember(@)]
    /\ UNCHANGED <<body, binding, types, generic_sub_cnt, errors, aborted, decls>>

AtEnd == Busy /\ Top.member > Len(body[Current.of])

IsBad(t) == t = Error \/ t = Tp("prim", Void)

\* check_type: the first member that is an error, or of void.
HasBadMember   == \E i \in DOMAIN Current.members : IsBad(Current.members[i])
FirstBadMember == SelectInSeq(Current.members, IsBad)

HasDuplicate ==
    LET names == body[Current.of] IN
    \E i, j \in DOMAIN names : i < j /\ names[i].name = names[j].name

\* The structs a struct holds by value, as far as it is built.
Holds(s) == {StructOf(t) : t \in {t \in Range(structs[s].members) : IsStruct(t) /\ t.ptrs = 0}}

HoldsTrait(s) == Tp("prim", Trait) \in Range(structs[s].members)

\* Mutant of ContainLoop: the struct itself only is looked for.
ContainItself(s) == s \in Holds(s)

\* contain_loop: there is a walk from s that comes back to a struct on it, or
\* ends at a trait.
ContainLoop(s) ==
    \E walk \in SUBSET {r \in DOMAIN structs : HoldsTrait(r) \/ Holds(r) # {}} :
        /\ s \in walk
        /\ \A r \in walk : HoldsTrait(r) \/ Holds(r) \cap walk # {}

IsWhole == ~HasBadMember /\ ~HasDuplicate /\ ~ContainLoop(Top.struct)

\* The caller of the innermost struct, which goes on with t.
Returned(t) ==
    IF Len(calls) = 1 THEN <<>>
    ELSE [Front(calls) EXCEPT ![Len(calls) - 1] = Evaluated(@, t)]

IsInstance == Current.of \in Generics

\* The end of add_generic_impl, after a success and after an exception.
Leave ==
    IF IsInstance
    THEN /\ binding' = [binding EXCEPT ![Current.of] = Top.saved]
         /\ generic_sub_cnt' = generic_sub_cnt - 1
    ELSE UNCHANGED <<binding, generic_sub_cnt>>

\* Mutant of LeaveFailed: the exception skips the end of add_generic_impl.
LeaveNot == UNCHANGED <<binding, generic_sub_cnt>>

LeaveFailed == Leave

StructWhole ==
    /\ AtEnd /\ IsWhole
    /\ structs' = [structs EXCEPT ![Top.struct].whole = TRUE]
    /\ calls' = Returned(StructTp(Top.struct))
    /\ Leave
    /\ UNCHANGED <<body, types, errors, aborted, decls>>

\* Mutants of WithoutFailed and IsReported: the name stays; the check of a
\* void member says nothing.
WithFailed == types

WithoutFailed == Deleted(NameOf(Current))

NotReported == IsInstance

\* An error member was reported before; an instance is reported once more.
IsReported ==
    \/ IsInstance
    \/ ~HasBadMember
    \/ Current.members[FirstBadMember] # Error

\* del_type, and for an instance generic_exception, which its
\* add_generic_impl catches.
StructFails ==
    /\ AtEnd /\ ~IsWhole /\ (HasBadMember \/ ~HasDuplicate)
    /\ types' = WithoutFailed
    /\ calls' = Returned(Error)
    /\ LeaveFailed
    /\ errors' = (errors \/ IsReported)
    /\ UNCHANGED <<body, structs, aborted, decls>>

\* After a duplicate type_info is null, and contain_loop is called on it.
StructAborts ==
    /\ AtEnd /\ ~HasBadMember /\ HasDuplicate
    /\ errors' = TRUE
    /\ aborted' = TRUE
    /\ UNCHANGED <<body, binding, types, structs, calls, generic_sub_cnt, decls>>

-----------------------------------------------------------------------------

Init ==
    /\ body \in Programs
    /\ binding = [g \in Generics |-> Unbound]
    /\ types = <<>>
    /\ structs = <<>>
    /\ calls = <<>>
    /\ generic_sub_cnt = 0
    /\ errors = FALSE
    /\ aborted = FALSE
    /\ decls = <<>>

\* What the compiler does by itself.
Evaluate ==
    \/ Identifier \/ PointerDesc
    \/ GenericOfError \/ GenericKnown \/ GenericRefused \/ GenericImpl
    \/ BuildMember \/ StructWhole \/ StructFails \/ StructAborts

\* The program ends, the compiler crashed, or the bound on structs is reached.
Stop == (aborted \/ calls = <<>> \/ Len(structs) = MaxStructs) /\ UNCHANGED vars

Next == Evaluate \/ (\E g \in Generics : GenericDecl(g)) \/ (\E p \in Plain : StructDecl(p)) \/ Stop

\* The compiler is one sequential process: it goes on while it can.
Spec == Init /\ [][Next]_vars /\ WF_vars(Evaluate)

-----------------------------------------------------------------------------
(* Properties. *)

Quiet == calls = <<>>

Registered == {types[n] : n \in DOMAIN types}

\* Names, calls and members lead to structs that exist, and the binding of a
\* parameter is a type (the tables of src/ast.cpp and inc/ast.h).
GenericsOK ==
    LET Exists(t) == IsStruct(t) => StructOf(t) \in DOMAIN structs IN
    /\ Registered \subseteq DOMAIN structs
    /\ \A n \in DOMAIN types : NameOf(structs[types[n]]) = n
    /\ \A i \in DOMAIN calls : calls[i].struct \in DOMAIN structs
    /\ \A s \in DOMAIN structs : \A i \in DOMAIN structs[s].members : Exists(structs[s].members[i])
    /\ \A g \in Generics : Exists(binding[g])
    /\ generic_sub_cnt \in Nat
    /\ <<errors, aborted>> \in BOOLEAN \X BOOLEAN

\* Between declarations the depth of instantiation is back at zero, however
\* many of them failed: a later one is not refused for an earlier one's depth
\* (generic_sub_cnt in add_generic_impl).
DepthRestored ==
    generic_sub_cnt = Cardinality({i \in DOMAIN calls : structs[calls[i].struct].of \in Generics})

\* What is registered between declarations was built to its end: nothing that
\* failed, and nothing half-built, can be named (del_type, the exception).
RegisteredWhole == Quiet => \A s \in Registered : structs[s].whole

\* A declaration that did not make it into the table was reported, and so was
\* a crash (append_* in check_type and ast_to_type).
FailureReported ==
    aborted \/ (Quiet /\ \E s \in DOMAIN structs : ~structs[s].whole) => errors

\* No struct the generator may see holds itself by value, directly or through
\* others, though each was checked when those around it were half-built
\* (contain_loop).
SizesFinite ==
    Quiet /\ ~errors =>
        ~\E circle \in SUBSET {s \in Registered : Holds(s) # {}} :
            circle # {} /\ \A s \in circle : Holds(s) \cap circle # {}

\* The type a chain of nodes means when its parameter is arg: the reference
\* the members are compared with.  Instances are told apart by what their
\* argument is, not by its text.
Instance(g, t) ==
    {s \in Registered : structs[s].of = g /\ structs[s].arg = t}

Applied(t, node, arg) ==
    CASE node.kind = "param"   -> arg
      [] node.kind = "prim"    -> Tp("prim", node.name)
      [] node.kind = "plain"   -> StructTp(types[PlainName(node.name)])
      [] node.kind = "ptr"     -> Pointer(t)
      [] node.kind = "generic" -> IF Instance(node.name, t) = {} THEN Error
                                  ELSE StructTp(CHOOSE s \in Instance(node.name, t) : TRUE)

Values(chain, arg) ==
    LET value[k \in 0 .. Len(chain)] ==
            IF k = 0 THEN Error ELSE Applied(value[k - 1], chain[k], arg)
    IN  value

Meaning(chain, arg) == Values(chain, arg)[Len(chain)]

Substituted(s) ==
    \A i \in DOMAIN structs[s].members :
        structs[s].members[i] = Meaning(body[structs[s].of][i].type, structs[s].arg)

\* A gap: the declaration of g names g itself with another argument.  That
\* instance is built in the middle of this one and leaves the parameter bound
\* to its own argument: the buffer is filled after the binding was made.
NamesItselfOtherwise(g) ==
    \E i \in DOMAIN body[g] : LET chain == body[g][i].type IN
        \E k \in DOMAIN chain :
            chain[k].kind = "generic" /\ chain[k].name = g /\ ~(k = 2 /\ chain[1].kind = "param")

\* A gap: a member or the argument names a struct that prints the same name as
\* another one, as structs of one name in two functions do.  Instances are
\* remembered by the names of their arguments: it may be handed the other's.
Namesake(s) == \E r \in Registered \ {s} : structs[r].text = structs[s].text

NamesNamesake(s) ==
    \/ IsStruct(structs[s].arg) /\ Namesake(StructOf(structs[s].arg))
    \/ \E i \in DOMAIN body[structs[s].of] : \E node \in ToSet(body[structs[s].of][i].type) :
           node.kind = "plain" /\ Namesake(types[PlainName(node.name)])

\* Every struct the generator may see has the members its declaration lists,
\* the parameter replaced by the argument the instance was asked for: the
\* bindings all instances of a generic share do not leak from one to another
\* (binding in add_generic_impl, the signature in ast_to_type).
FieldsSubstituted ==
    Quiet /\ ~errors =>
        \A s \in Registered :
            /\ DOMAIN structs[s].members = DOMAIN body[structs[s].of]
            /\ \/ Substituted(s)
               \/ structs[s].of \in Generics /\ NamesItselfOtherwise(structs[s].of)
               \/ NamesNamesake(s)

\* Building a declaration comes to an end, though instances nest in instances
\* without end in the program (the limit on generic_sub_cnt).
Answered == Busy ~> (Quiet \/ aborted)
=============================================================================
