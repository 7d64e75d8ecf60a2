------------------------------ MODULE ExtDecls ------------------------------
(***************************************************************************)
(* Declarations from the checker to the running program: functions, global *)
(* variables, member functions, traits and their implementations           *)
(* (build_sym_table in src/ast.cpp, gen_ext_decl_list in src/llvm_ir.cpp). *)
(*                                                                         *)
(* A program is declared, one declaration after the other; if no error was *)
(* found the declarations are generated in the same order; then it runs.   *)
(* The body of a function, and an initial value, use one other declaration *)
(* at most, and may leave it out when they run.  Bodies of functions hold  *)
(* declarations, but for member functions.                                 *)
(***************************************************************************)
EXTENDS Naturals, SequencesExt

CONSTANTS
    Names,      \* of functions and global variables; "main" is one
    Builtins,   \* the names inject_builtin_func declares, one after the other
    Types,      \* struct and primitive types
    Inner,      \* the structs that are declared in functions
    Text,       \* to_string of a type; a struct's is its name only, so that
                \* only the types outside of functions are told apart by it
    Traits,     \* names of traits
    Funs,       \* names of member functions
    Lists,      \* lists of member functions, for traits and implementations
    MaxDecl,    \* bound: declarations
    MaxDepth,   \* bound: functions in functions
    MaxWork     \* bound: what a running program has begun

ASSUME ExtAssumption ==
    /\ Builtins \in Seq(Names) /\ Inner \subseteq Types
    /\ \A i, j \in DOMAIN Builtins : Builtins[i] = Builtins[j] => i = j
    /\ \A s, t \in Types \ Inner : Text[s] = Text[t] => s = t
    /\ Lists \subseteq Seq(Funs)
    /\ MaxDecl \in Nat /\ MaxDepth \in Nat /\ MaxWork \in Nat

VARIABLES
    prog,       \* the declarations, in order
    walk,       \* the order in which they are opened, and their uses met
    ids,        \* the var_tables: in which block a key is declared, by what
    scope,      \* the functions around, innermost last
    traits,     \* Type::traits: which trait is implemented for which type, by what
    errs,       \* an error was reported
    at,         \* how much of walk is generated
    module,     \* llvm_mod: functions and variables by their symbols
    tables,     \* impl_trait_table: the implementation, and its functions
    inits,      \* global.var.init: what it initialises, in order
    main_fn,    \* main_fn
    failed,     \* the generator throws, asserts, or goes on with null
    work,       \* what the running program has to do next, and then
    ready,      \* what has been initialised
    early       \* the variables that were read before that

declared  == <<prog, walk, ids, scope, traits, errs>>
generated == <<at, module, tables, inits, main_fn, failed>>
running   == <<work, ready, early>>
vars      == <<prog, walk, ids, scope, traits, errs, at, module, tables, inits,
               main_fn, failed, work, ready, early>>

-----------------------------------------------------------------------------
(* Blocks and keys.  The block of a function has its number, the outermost *)
(* block has 0, so that an inner block has the larger number.              *)

Kinds == {"fn", "var", "struct", "method", "trait", "impl", "refused"}
Uses  == {"none", "name", "method", "trait"}

Use(what, key, of, type) == [what |-> what, key |-> key, of |-> of, type |-> type]
NoUse == Use("none", <<>>, 0, "none")

Declaration(kind, name, type, slots, use) ==
    [kind |-> kind, name |-> name, type |-> type, slots |-> slots, use |-> use, path |-> scope,
     init_val |-> FALSE]

\* decl.init_val: whether the variable has an initial value.
Variable(n, use, init_val) ==
    [Declaration("var", n, "none", <<>>, use) EXCEPT !.init_val = init_val]

New           == Len(prog) + 1          \* the declaration that is being made
Blocks(path)  == {0} \cup Range(path)
Innermost(path) == IF path = <<>> THEN 0 ELSE Last(path)
IsKind(k, kind) == k \in DOMAIN prog /\ prog[k].kind = kind

\* The innermost declaration of key in the blocks, 0 if there is none.
LookUp(key, blocks) ==
    LET found == {e \in ids : e.key = key /\ e.block \in blocks} IN
    IF found = {} THEN 0
    ELSE (CHOOSE e \in found : \A d \in found : d.block <= e.block).of

\* AstNode::get_id skips the functions around the innermost one, but
\* AstNode::get_info does not.
get_id(key)         == LookUp(key, {0, Innermost(scope)})
get_info(key, path) == LookUp(key, Blocks(path))

\* AstNode::set_id answers whether the key was free in the innermost block.
Taken(key)    == \E e \in ids : e.block = Innermost(scope) /\ e.key = key
Ids(keys, of) == {[block |-> Innermost(scope), key |-> key, of |-> of] : key \in {k \in keys : ~ Taken(k)}}

\* AstNode::get_type looks at all blocks around, and finds the innermost type.
Around        == Blocks(scope)
TypeSeen(t)   == t \notin Inner \/ \E k \in DOMAIN prog :
                    IsKind(k, "struct") /\ prog[k].type = t /\ Innermost(prog[k].path) \in Around
TraitsSeen(t) == {k \in DOMAIN prog : /\ IsKind(k, "trait") /\ prog[k].name = t
                                      /\ Innermost(prog[k].path) \in Around}
get_type(t)   == CHOOSE k \in TraitsSeen(t) : \A j \in TraitsSeen(t) : j <= k

SeenTypes  == {t \in Types : TypeSeen(t)}
SeenTraits == {t \in Traits : TraitsSeen(t) # {}}

-----------------------------------------------------------------------------
(* What an expression uses, as the checker finds it. *)

NameUse(n) == Use("name", <<n>>, get_id(<<n>>), "none")

\* Access: the key of a member function is made of the text of the type.
MethodUse(type, f) == Use("method", <<Text[type], f>>, get_id(<<Text[type], f>>), type)

\* A conversion to a trait asks the type (with_trait), not the blocks.
TraitUse(t, type) ==
    LET by == {i \in traits : i.trait = get_type(t) /\ i.type = type} IN
    Use("trait", <<get_type(t), Text[type]>>, IF by = {} THEN 0 ELSE (CHOOSE i \in by : TRUE).by, type)

Expressions == {NoUse} \cup {NameUse(n) : n \in Names}
                       \cup {MethodUse(type, f) : type \in SeenTypes, f \in Funs}
                       \cup {TraitUse(t, type) : t \in SeenTraits, type \in SeenTypes}

\* Not declared, no such member, or no conversion.
IsError(use) == use.what # "none" /\ use.of = 0

-----------------------------------------------------------------------------
(* build_sym_table. *)

Declares(d) ==
    /\ at = 0
    /\ Len(prog) < Len(Builtins) + MaxDecl
    /\ prog' = Append(prog, d)
    /\ UNCHANGED <<generated, running>>

Opens(k) == <<"open", k>>
Meets(k) == <<"use", k>>

\* The name of a function is declared before its body is checked.
FuncDecl(n) ==
    /\ Declares(Declaration("fn", n, "none", <<>>, NoUse))
    /\ Len(scope) < MaxDepth
    /\ ids' = ids \cup Ids({<<n>>}, New)
    /\ errs' = (errs \/ Taken(<<n>>))
    /\ scope' = Append(scope, New)
    /\ walk' = Append(walk, Opens(New))
    /\ UNCHANGED traits

EndBody(use) ==
    /\ at = 0 /\ scope # <<>>
    /\ prog' = [prog EXCEPT ![Last(scope)] = [@ EXCEPT !.use = use]]
    /\ errs' = (errs \/ IsError(use))
    /\ scope' = Front(scope)
    /\ walk' = Append(walk, Meets(Last(scope)))
    /\ UNCHANGED <<ids, traits, generated, running>>

\* A global variable is declared after its initial value is checked.
VarDecl(n, use) ==
    /\ scope = <<>>
    /\ Declares(Variable(n, use, TRUE))
    /\ ids' = ids \cup Ids({<<n>>}, New)
    /\ errs' = (errs \/ IsError(use) \/ Taken(<<n>>))
    /\ walk' = walk \o <<Opens(New), Meets(New)>>
    /\ UNCHANGED <<scope, traits>>

\* let a: int; has no initial value; without a type it is not declared.
VarDeclNoValue(n, typed) ==
    /\ scope = <<>>
    /\ Declares(Variable(n, NoUse, FALSE))
    /\ ids' = IF typed THEN ids \cup Ids({<<n>>}, New) ELSE ids
    /\ errs' = (errs \/ ~ typed \/ Taken(<<n>>))
    /\ walk' = Append(walk, Opens(New))
    /\ UNCHANGED <<scope, traits>>

StructDecl(t) ==
    /\ scope # <<>> /\ t \in Inner
    /\ \A k \in DOMAIN prog : ~ (IsKind(k, "struct") /\ prog[k].type = t)
    /\ Declares(Declaration("struct", "none", t, <<>>, NoUse))
    /\ UNCHANGED <<walk, ids, scope, traits, errs>>

\* The key is declared before the body is checked, which may use it.
StructImpl(type, f, use) ==
    LET key   == <<Text[type], f>>
        found == IF use.what = "method" /\ use.key = key /\ ~ Taken(key)
                 THEN [use EXCEPT !.of = New] ELSE use
    IN  /\ TypeSeen(type)
        /\ Declares(Declaration("method", f, type, <<>>, found))
        /\ ids' = ids \cup Ids({key}, New)
        /\ errs' = (errs \/ IsError(found) \/ Taken(key))
        /\ walk' = walk \o <<Opens(New), Meets(New)>>
        /\ UNCHANGED <<scope, traits>>

\* Mutant of IsRepeated: the answer of set_id is not looked at.
IsRepeatedNever(fs) == FALSE

\* Two functions of a trait have the same name: set_id answers no for the
\* second, in the trait and in each implementation of it.
IsRepeated(fs) == \E i, j \in DOMAIN fs : i # j /\ fs[i] = fs[j]

\* A name that is a type of the block already is reported, and that is all.
TraitDecl(t, fs) ==
    /\ LET again == \E k \in TraitsSeen(t) : prog[k].path = scope IN
       /\ Declares(Declaration(IF again THEN "refused" ELSE "trait", t, "none", fs, NoUse))
       /\ ids' = IF again THEN ids ELSE ids \cup Ids({<<"trait", t, f, New>> : f \in Range(fs)}, New)
       /\ errs' = (errs \/ again \/ IsRepeated(fs))
    /\ walk' = Append(walk, Opens(New))
    /\ UNCHANGED <<scope, traits>>

\* There is the trait, it is not implemented yet, the lists have one length,
\* and no function of the trait is missing.
IsImpl(t, type, fs) ==
    /\ t \in SeenTraits
    /\ ~ \E i \in traits : i.trait = get_type(t) /\ i.type = type
    /\ Len(fs) = Len(prog[get_type(t)].slots)
    /\ Range(prog[get_type(t)].slots) \subseteq Range(fs)

\* Nothing is stored before the functions are known to be there.
TraitImpl(t, type, fs) ==
    /\ TypeSeen(type)
    /\ Declares(Declaration("impl", t, type, fs, NoUse))
    /\ IF IsImpl(t, type, fs)
       THEN LET keys == {<<Text[type], t, f>> : f \in Range(prog[get_type(t)].slots)} IN
            /\ ids' = ids \cup Ids(keys, New)
            /\ errs' = (errs \/ IsRepeated(prog[get_type(t)].slots) \/ \E key \in keys : Taken(key))
            /\ traits' = traits \cup {[trait |-> get_type(t), type |-> type, by |-> New]}
       ELSE errs' = TRUE /\ UNCHANGED <<ids, traits>>
    /\ walk' = Append(walk, Opens(New))
    /\ UNCHANGED scope

-----------------------------------------------------------------------------
(* gen_ext_decl_list, and the bodies in it. *)

\* Mutant of Symbol: the number of the variable is left out.
SymbolPlain(k) == <<prog[k].name>>

\* id_name of the variable.
Symbol(k) == IF prog[k].path = <<>> THEN <<prog[k].name>> ELSE <<prog[k].name, k>>

\* get_prefix is made of the number of the type.
MethodSymbol(type, f) == <<"type", type, f>>

\* Function::Create; LLVM gives a function another name if its own is taken.
Created(symbol, k) ==
    IF symbol \in DOMAIN module THEN module
    ELSE [s \in DOMAIN module \cup {symbol} |-> IF s = symbol THEN k ELSE module[s]]

\* The trait an implementation at the outside is for.
TraitOf(k) == (CHOOSE i \in traits : i.by = k).trait

\* The last function of the trait that has the name.
Position(f, slots) == CHOOSE i \in DOMAIN slots : slots[i] = f /\ \A j \in DOMAIN slots : slots[j] = f => j <= i

\* The functions an implementation stores, "none" for null.
Table(k) ==
    LET slots == prog[TraitOf(k)].slots IN
    [i \in DOMAIN prog[k].slots |->
        IF \E f \in Range(prog[k].slots) \cap Range(slots) : Position(f, slots) = i
        THEN slots[i] ELSE "none"]

\* Each function has a place, or there is an assertion; a null is cast.
IsFilled(k) == /\ Range(prog[k].slots) \subseteq Range(prog[TraitOf(k)].slots)
               /\ "none" \notin Range(Table(k))

Key(k) == <<TraitOf(k), Text[prog[k].type]>>

\* The call is put before the return of global.var.init.
Initialises(k) == Append(inits, k)

\* gen_llvm_ir makes nothing of a declaration in a function, but of a function.
IsGenerated(k) == prog[k].path = <<>> \/ IsKind(k, "fn")

GenFunction(k) ==
    /\ IsKind(k, "fn")
    /\ module' = Created(Symbol(k), k)
    /\ main_fn' = IF prog[k].name = "main" THEN k ELSE main_fn
    /\ UNCHANGED <<tables, inits>>

\* The variable is undef; only an initial value is stored by global.var.init.
GenVariable(k) ==
    /\ IsKind(k, "var")
    /\ module' = Created(Symbol(k), k)
    /\ inits' = IF prog[k].init_val THEN Initialises(k) ELSE inits
    /\ UNCHANGED <<tables, main_fn>>

GenMethod(k) ==
    /\ IsKind(k, "method") /\ IsGenerated(k)
    /\ module' = Created(MethodSymbol(prog[k].type, prog[k].name), k)
    /\ UNCHANGED <<tables, inits, main_fn>>

\* The functions have symbols of their own, which nothing looks up.
GenImpl(k) ==
    /\ IsKind(k, "impl") /\ IsGenerated(k)
    /\ tables' = [key \in DOMAIN tables \cup {Key(k)} |->
                     IF key = Key(k) THEN [by |-> k, funs |-> Table(k)] ELSE tables[key]]
    /\ inits' = Initialises(k)
    /\ UNCHANGED <<module, main_fn>>

GenNothing(k) ==
    /\ IsKind(k, "trait") \/ ~ IsGenerated(k)
    /\ UNCHANGED <<module, tables, inits, main_fn>>

InModule(symbol) == IF symbol \in DOMAIN module THEN module[symbol] ELSE 0

\* A name is looked up again; a member function is found by the type of what
\* it is called of, the table of an implementation by the texts of the types.
NameTarget(key, path) == InModule(Symbol(get_info(key, path)))
MethodTarget(type, f) == InModule(MethodSymbol(type, f))
TableTarget(key)      == IF key \in DOMAIN tables THEN tables[key].by ELSE 0

\* What the generator finds for the use of k, 0 if nothing: a declaration.
Target(k) ==
    LET use == prog[k].use IN
    CASE use.what = "none"   -> 0
      [] use.what = "name"   -> NameTarget(use.key, Append(prog[k].path, k))
      [] use.what = "method" -> MethodTarget(use.type, use.key[2])
      [] use.what = "trait"  -> TableTarget(use.key)

\* The function a call of a trait looks at: the first one with the name.
CalledAt(f, slots) == CHOOSE i \in DOMAIN slots : slots[i] = f /\ \A j \in DOMAIN slots : slots[j] = f => i <= j

UsesNow(k) == prog[k].use # NoUse /\ IsGenerated(k)

IsProgram == scope = <<>> /\ ~ errs /\ ~ failed

Generate ==
    /\ IsProgram /\ at < Len(walk)
    /\ at' = at + 1
    /\ LET event == walk[at + 1]
           k     == event[2] IN
       \/ /\ event = Opens(k)
          /\ GenFunction(k) \/ GenVariable(k) \/ GenMethod(k) \/ GenImpl(k) \/ GenNothing(k)
          /\ failed' = (IsKind(k, "impl") /\ IsGenerated(k) /\ ~ IsFilled(k))
       \/ /\ event = Meets(k)
          /\ failed' = (UsesNow(k) /\ Target(k) = 0)
          /\ UNCHANGED <<module, tables, inits, main_fn>>
    /\ UNCHANGED <<declared, running>>

-----------------------------------------------------------------------------
(* The program runs: gen_module puts a call of global.var.init at the entry *)
(* of main_fn, and the function with the symbol main is started.            *)

Enters(k) == <<"enter", k>>
Inits(k)  == <<"init", k>>
Stores(k) == <<"store", k>>

Entry == <<"main">>

\* No main_fn: an exception.  No symbol main: the linker fails.
Start ==
    /\ IsProgram /\ walk # <<>> /\ at = Len(walk)
    /\ at' = at + 1
    /\ failed' = ~ (main_fn # 0 /\ Entry \in DOMAIN module /\ IsKind(module[Entry], "fn"))
    /\ work' = IF failed' THEN <<>> ELSE <<Enters(module[Entry])>>
    /\ UNCHANGED <<declared, module, tables, inits, main_fn, ready, early>>

\* The next thing to do is replaced by what it does.
Runs(what, does) ==
    /\ work # <<>> /\ Len(work) < MaxWork
    /\ work[1][1] = what
    /\ work' = does \o Tail(work)
    /\ UNCHANGED <<declared, generated>>

Now == work[1][2]

CallsInit(k) == k = main_fn

\* Mutant of Body: the call is put at the end of the entry block.
BodyEnd(k, first) == <<Meets(k)>> \o first

\* The call is put at the beginning of the entry block.
Body(k, first) == first \o <<Meets(k)>>

EnterFunction ==
    /\ Runs("enter", Body(Now, IF CallsInit(Now) THEN [i \in DOMAIN inits |-> Inits(inits[i])] ELSE <<>>))
    /\ UNCHANGED <<ready, early>>

CallInit ==
    /\ Runs("init", <<Meets(Now), Stores(Now)>>)
    /\ UNCHANGED <<ready, early>>

StoreInit ==
    /\ Runs("store", <<>>)
    /\ ready' = ready \cup {Now}
    /\ UNCHANGED early

\* A function of the program is called; builtin ones return.
IsCall(k) == /\ prog[k].use.what \in {"name", "method"}
             /\ Target(k) > Len(Builtins) /\ ~ IsKind(Target(k), "var")

UseOf ==
    /\ Runs("use", IF IsCall(Now) THEN <<Enters(Target(Now))>> ELSE <<>>)
    /\ early' = early \cup {v \in {Target(Now)} \ ready : IsKind(v, "var")}
    /\ UNCHANGED ready

LeaveOut ==
    /\ Runs("use", <<>>)
    /\ UNCHANGED <<ready, early>>

-----------------------------------------------------------------------------

\* inject_builtin_func of the checker
BuiltinIds == {[block |-> 0, key |-> <<Builtins[i]>>, of |-> i] : i \in DOMAIN Builtins}

\* inject_builtin_func of the generator
BuiltinModule == [s \in {Symbol(i) : i \in DOMAIN Builtins} |->
                     CHOOSE i \in DOMAIN Builtins : Symbol(i) = s]

Init ==
    /\ scope = <<>>
    /\ prog = [i \in DOMAIN Builtins |-> Declaration("fn", Builtins[i], "none", <<>>, NoUse)]
    /\ ids = BuiltinIds
    /\ walk = <<>> /\ traits = {} /\ errs = FALSE
    /\ at = 0 /\ tables = <<>> /\ inits = <<>> /\ main_fn = 0 /\ failed = FALSE
    /\ module = BuiltinModule
    /\ work = <<>> /\ ready = {} /\ early = {}

Declare ==
    \/ \E n \in Names : FuncDecl(n)
    \/ \E use \in Expressions : EndBody(use)
    \/ \E n \in Names, use \in Expressions : VarDecl(n, use)
    \/ \E n \in Names, typed \in BOOLEAN : VarDeclNoValue(n, typed)
    \/ \E t \in Types : StructDecl(t)
    \/ \E t \in Types, f \in Funs, use \in Expressions : StructImpl(t, f, use)
    \/ \E t \in Traits, fs \in Lists : TraitDecl(t, fs)
    \/ \E t \in Traits, type \in Types, fs \in Lists : TraitImpl(t, type, fs)

Next == \/ Declare \/ Generate \/ Start
        \/ EnterFunction \/ CallInit \/ StoreInit \/ UseOf \/ LeaveOut

Spec == Init /\ [][Next]_vars

-----------------------------------------------------------------------------
(* Properties. *)

\* A declaration is generated from what it is, and at most once: symbols stand
\* for functions and variables that are there, the initialisers of an outermost
\* variable or implementation are called once, and what runs was generated.
ExtOK ==
    /\ \A k \in DOMAIN prog : prog[k].kind \in Kinds /\ prog[k].use.what \in Uses
    /\ \A e \in ids : e.block \in 0 .. Len(prog) /\ e.of \in DOMAIN prog
    /\ \A d, e \in ids : d.block = e.block /\ d.key = e.key => d = e
    /\ \A s \in DOMAIN module : module[s] \in DOMAIN prog /\ IsGenerated(module[s])
    /\ \A r, s \in DOMAIN module : module[r] = module[s] => r = s
    /\ \A i, j \in DOMAIN inits : i < j => inits[i] < inits[j]
    /\ main_fn \in 0 .. Len(prog)
    /\ \A i \in DOMAIN work : work[i][2] \in DOMAIN prog /\ IsGenerated(work[i][2])

\* Every slot of the table of an implementation holds the function of the
\* trait with that name, at the position a call looks at.
TableFilled ==
    \A key \in DOMAIN tables :
        LET slots == prog[key[1]].slots
            funs  == tables[key].funs IN
        /\ Len(funs) = Len(slots)
        /\ \A f \in Range(slots) : funs[CalledAt(f, slots)] = f

\* A gap: the declaration is in a function and is no function.
IsLocal(k) == ~ IsGenerated(k)

\* A gap: the member function is of another type with the same text.
OtherType(use) == use.what = "method" /\ prog[use.of].type # use.type

\* A gap: a function around declares the name, and get_info finds that.
FoundAround(k) == get_info(prog[k].use.key, Append(prog[k].path, k)) # prog[k].use.of

\* When a body is generated, what it uses has been: the generator finds the
\* declaration the checker found, the function by its symbol, the member
\* function by the number of its type, the table of the implementation by the
\* texts of trait and type; but for member functions and implementations that
\* are declared in functions, types of the same text, and names of functions
\* around.  (gen_llvm_ir, gen_access_op and gen_convert go on without a test,
\* or with an assertion.)
UsesGenerate ==
    IsProgram /\ at < Len(walk) =>
        LET event == walk[at + 1]
            k     == event[2] IN
        event = Meets(k) /\ UsesNow(k) =>
            \/ Target(k) = prog[k].use.of
            \/ IsLocal(prog[k].use.of)
            \/ OtherType(prog[k].use)
            \/ prog[k].use.what = "name" /\ FoundAround(k)

\* What is declared is generated once, and what is used is what was declared.
DeclarationsMeet == ExtOK /\ UsesGenerate

\* A gap: the variable has no initial value, and stays undef until the
\* program assigns to it.
IsUndefined(v) == ~ prog[v].init_val

\* A gap: the last function that is called main is one in a function, and
\* global.var.init is called from there.
NestedMain == main_fn # 0 /\ prog[main_fn].path # <<>>

\* A gap: main_fn is called by the program, too.
MainUsed == \E k \in DOMAIN prog : IsCall(k) /\ Target(k) = main_fn

\* No global variable is read before its initial value was stored (the
\* variable itself begins as undef, gen_ext_var_decl), also not by the
\* functions that initial values call, if it has an initial value, and unless
\* a function in a function is main_fn.
InitBeforeUse == \A v \in early : IsUndefined(v) \/ NestedMain

\* An initial value is stored once, if main_fn is not called by the program.
InitOnce == work # <<>> /\ work[1] = Stores(Now) => Now \notin ready \/ MainUsed

\* Global variables get their initial values before they are read, and only once.
VariablesInitialised == InitBeforeUse /\ InitOnce
=============================================================================
