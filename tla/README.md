# Verification of the Stardust compiler

Stardust is a small statically typed language. Its compiler (`src/main.cpp`)
reads one source file, parses it with flex and bison, checks it and fills its
symbol tables (`src/ast.cpp`, `src/operator.cpp`, `src/sdtype.cpp`), builds LLVM
IR from the checked tree (`src/llvm_ir.cpp`) and has LLVM and clang make an
object file and a program. This directory holds TLA+ models of the compiler's
core, the TLC runs that check them, and proofs of the properties that matter
most. Paths below are relative to the repository.

## Inventory

The compiler is one sequential process. What is hard in it is not concurrency
but state that grows over a long sequence of calls (the table of types, the
symbol tables, the stack of loops), results that depend on the order in which
things were registered, work that goes on after an error was reported, and two
passes, the checker and the generator, that decide the same question in two
files and have to agree.

| component | state | operations | what makes it correct |
|---|---|---|---|
| type context (`inc/sdtype.h`, `src/sdtype.cpp`) | `tp_counter`, `id_ptr_table`, `type_ptr_table` | the factories `RefType::get`, `FuncType::get`, ..., `StructType::create`, `TraitType::create` | one entry per structural type (types are compared by pointer), an answer has the structure asked for, entries are never rebound, components precede the types built from them |
| type conversion (`inc/sdtype.h`, `src/sdtype.cpp`, `gen_convert`) | none of its own | `is_convertable`, `is_force_convertable`, `greater_type`, `gen_convert` | what the checker accepts the generator converts; the common type of two operands serves both; the primitives are ordered |
| operator resolution (`src/operator.cpp`, `expect_ret_type`) | the locals of `op_type_eval`, the types of the operand nodes | the scan over `op_impl_list`, `sp_op_eval` | the best implementation is picked, ties are seen, stores and calls fit, no error is silent |
| operator generation (`gen_operator`) | the LLVM builder | `gen_math_op`, `gen_cmp_op`, `gen_unary_op`, `gen_assign_op`, `gen_access_op`, `gen_call_op` | every accepted operator is generated, with the type the checker answered |
| symbol tables and name resolution (`src/ast.cpp`) | one table of names and one of types per block | `set_id`, `get_id`, `get_info`, `set_type`, `get_type` | the checker and the generator find the same declaration |
| generic instantiation (`add_generic_impl`) | parameter bindings of a `GenericBlock`, its instances, `generic_sub_cnt` | `ast_to_type` of `G<...>` | one instance per list of arguments, built under the right bindings, termination at the limit |
| struct declarations (`inc/ast.h`, `contain_loop`) | member lists | `build_type`, `check_type` | no duplicate member, no struct of infinite size |
| declarations, traits and member functions (`src/ast.cpp`, `src/llvm_ir.cpp`) | `var_table`, `type_table`, `traits` of a type; `llvm_mod`, `impl_trait_table`, `init_fn`, `main_fn` | `FuncDecl`, `VarDecl`, `StructImpl`, `TraitDecl`, `TraitImpl`, `gen_ext_decl_list`, `gen_module` | what a body uses was generated, every slot of an implementation's table is filled, global variables are initialised once and before they are read |
| initial values (`src/ast.cpp`, `src/llvm_ir.cpp`, `src/literal.cpp`) | types of the nodes | `build_sym_table_with_assum`, `infer_array`, `lookup_struct`, `gen_var_decl`, `gen_literal` | a variable can be allocated, its value fits and keeps its number |
| control flow generation (`src/llvm_ir.cpp`) | blocks, insertion points, `loop_stack` | `gen_func_def`, `gen_if_stmt`, `gen_while_stmt`, `gen_for_stmt`, jumps | every block ends in one terminator, jumps lead to the loop they name, code is reached as the source says |
| driver (`src/main.cpp`, `src/error.cpp`, `src/context.cpp`, `inc/parse.h`) | the error list, `raw_code`, stdout, the output and object files | the phases of `main`, `Locator::merge` | nothing is generated from a program with errors, no stale file is linked, errors are shown in order and where they are |
| lexer and parser (`src/lex`, `inc/context.h`) | the parser's scopes of type names | the grammar's actions | the lexer sees the type names that are in scope |
| tree printing, command line, runtime library | none | | |

How they interact: the parser's actions build the tree; `build_sym_table` walks
it, asks the symbol tables for names, the type context for types and the
operator resolution for the types of expressions, and reports into the error
list; `main` starts the generator only when that list is empty; the generator
walks the tree again, asks the symbol tables once more and the operand types
the checker left in the nodes.

## Modules

`TypeTable` models the type context. A type is a record (kind, ids of its
components, a number, a flag); `UniqueName` stands for `unique_type_name`: the
kind shows in the punctuation of the text, the rest in its numbers, and a
nominal type prints its own id only. `Create`, `Registered`, `GetOrCreate` are
the functions of the code, and there is one action per factory; `GetMemFunc`
makes two registrations, since the constructor of the candidate makes one.

`Conversion` extends it with the two sides of type conversion:
`ConvertsPlain`/`IsConvertable`, `ForcesPlain`/`IsForceConvertable` and
`GreaterType` as the checker has them, and `GenConvert`, which says whether
`gen_convert` yields a value, throws, fails an assertion or builds an
instruction on a wrong operand. `Accepted` lists the sites that insert
conversions. Trait implementations are a constant, `Impl`. The model has no
actions of its own: its properties are asked in every context the factories
can produce.

`Operators` adds the evaluation of one operator node at a time (`node`):
`Begin` takes operand types, `Scan` is one round of the loop over
`op_impl_list`, `Propagate` the early return for error operands, `Choose` and
`Special` its outcomes. `Special` runs `sp_op_eval`, an operator per case, over a
record that threads the context, the operand nodes' types and the error flag
through the calls in the order of the code. `Declare` lets a program register
types between expressions. `OperatorGen` is the generator's counterpart: the
LLVM kind of each operand and of the answer decide the instruction.

`Generics` models struct declarations and the instances of generic structs. The
recursion of `build_sym_table`, `check_type`, `ast_to_type` and
`add_generic_impl` is a stack, `calls`: a plain declaration at the bottom, the
instances it needs above it, each with the member and the node of the member's
type it is at, the value so far, and the binding it saved. One action evaluates
one node; `GenericKnown`, `GenericRefused` and `GenericImpl` are the outcomes of
a node `G<...>`: the memo, the limit, a new instance. `StructWhole` and
`StructFails` end a struct; a failing instance raises the exception its
`add_generic_impl` catches. What a program is, the member lists of its structs,
is chosen at the start from `Programs`; the order of its declarations is not:
`GenericDecl` and `StructDecl` take any that names only what was declared before
it, or itself, which is what the parser lets through.

`Scopes` models names of variables and functions. A program arrives as the
checker meets it: blocks, functions, declarations and uses, in any order within
the bounds. `Identifier`, `VarDecl`, `FuncDecl` and `Block` are the cases of
`build_sym_table`; `Found` is `get_id`, with the barrier of functions, `Declared`
and `NextId` are `set_id`, `Assumed` is the entry `get_id` leaves behind a name it
did not find. Each use is recorded with the variable the checker found, to be
compared with what `get_info` answers when the tables are complete.

`FlowGen` models the generation of control flow. The generator walks the tree;
in the model the program arrives as it is walked. `open` is the stack of
constructs being generated, each at a phase of its code, and there is an action
for each piece of code between two calls of `gen_llvm_ir`: `ForStmt`, `ForBody`,
`ForStep`, `ForCond`, `ForEnd`, and so on. Blocks are records with their
function, the terminators put into them and the blocks their phi names; the
operators of LLVM's builder are external. Statements leave a mark (the block
they are in, and whether the source can come there), which `ReachesAlike`
compares with the branches.

`Driver` models `main`, one compilation after another on the same output path.
What the phases find is chosen; the error list, its copy, the sorting, the
redirection of stdout, and what each write leaves in which file is the code's.
Failures (a file that cannot be opened, a generator that throws, a file that
was opened and cannot be written, a process that dies, a byte 0xFF that ends
`read_raw_code` early) are choices of the actions
they can happen in. `Locator` with `merge`, `operator <` and `get_next_locator`
is modelled as it is. `Compilation` is the abstract compiler: a call may refuse
its program, clear the product or make it, and ends. `Driver` implements it, with
the map `busy <- pc # "idle"`, `job <- run`, `refused <- faulty` and
`product <- Made`, the calls whose code is in the output file.

`ExtDecls` models declarations through the checker, the generator and the
running program. The checker's actions (`FuncDecl` to `TraitImpl`, `EndBody` when
a body is left) fill `ids`, the tables of names, and `traits`; `walk` keeps the
order in which the generator meets the declarations again. A global variable
comes with a value (`VarDecl`) or without one (`VarDeclNoValue`). `Generate` does
one declaration and fills the module, the tables of implementations and the
list of initialisers, which has the variables with a value (`GenVariable`). `Start` and what follows run the program: the call of
`global.var.init` in `main_fn`, initialisers in order, calls and reads.

`Instances` extends `Conversion` with a local variable and its initial value:
`Takes` and `Assumed` are `build_sym_table_with_assum`, `Demand` is
`expect_ret_type`, `InferLike` and `InferCommon` are the halves of `infer_array`,
`Struct` is `lookup_struct`. The record they thread collects the conversions, the
constants and the stores the generator makes. A number is what it takes to hold
it. `Literals`, which it extends, has the patterns of `src/lex/lex.l` for strings
and characters and the loops of `parse_string` and `parse_char`, which have to
agree on where a character ends; TLC evaluates `LiteralsRead`, that they do, for
all strings of up to four characters as they are written.

The modules beginning with `MC` give TLC the lists of primitives, the programs,
the tokens and the parameter lists. The modules ending in `_proofs` hold the
theorems, `SequenceLemmas` what they share. An operator whose comment calls it a
mutant is the definition below it with a plausible bug; nothing uses it, it is
kept to show that the properties notice. Properties with several parts
(`CodeVerifies`, `OutcomeTold`, ...) are conjunctions of named ones, each with a
comment of its own.

## Runs and bounds

Every passing run is exhaustive within its bounds: `MaxTypes` limits how many
types a behaviour registers, `MaxArity` the length of parameter and member
lists. The counters of the scan are bounded by the list of implementations.
Deadlock is checked in every run but `ext_decls`, whose programs end in many ways;
where a program may end elsewhere, a step says so (`Stop`, `Done`, `Finished`).

Fairness: `Generics` has weak fairness of `Evaluate` and `Driver` of `Step`: what
the compiler does by itself goes on, since it is one sequential process that
waits for nothing. What the program declares next (`StructDecl`) and when the
compiler is called (`Start`) is not fair. `Compilation` has weak fairness of
`End`, which `Driver` is checked to imply: each compilation ends. In the other
specifications the next step is always the program's choice or the next round of
a bounded loop, and their properties are safety properties.

| run | bounds | what it shows |
|---|---|---|
| `type_table` | one primitive, five types, lists of at most one | the table is well typed, canonical and well founded, answers fit, nothing is rebound. Five types are enough for a type of every kind over a composed type, for two types that differ in one part only, and for both registrations of `GetMemFunc` |
| `conversion` | three primitives of different kinds, seven types | the checker and the generator agree on every pair of types, outside the gaps named below; casts cover implicit conversions; common types serve both operands and, pointers apart, do not depend on their order. A conversion looks at two types and at most one component of each: two composed types over four basic ones cover the cases |
| `overload` | the twelve primitives, no other type | the scan finds the best implementation and counts its ties; a tie of two, which the test `cnt > 1` would let pass, never happens; the operands end up with a common type; the primitives are totally ordered |
| `operator_gen` | three primitives, six types, thirteen operators | assignments store what fits, no error is silent, every accepted operator is generated with its type, outside the gaps |
| `call` | two primitives, five types, at most one parameter | accepted calls match their parameters, variadic ones too, and are generated; the list of arguments is indexed out of its range only after the number was reported as wrong |
| `generics` | two generics, three structs of which two share a name, three declarations, a limit of two nested instances where the code has 20, 26 structs, which no program reaches | what is left after a declaration is whole and its parameter substituted, failures are reported, sizes are finite, the depth counter comes back, and every declaration is answered, also for generics that nest in themselves without end. The limit is reached by programs that need one level more, and two levels are enough for an instance in the middle of another one of the same generic, in the middle of a third |
| `scopes` | three blocks, three declarations, two uses, functions of at most two parameters | every name the generator meets is declared and means what the checker took it for, the gaps apart; an undeclared name is reported once; entries are kept. Three blocks are a function in a function, with the outermost block around |
| `flow` | four statements | LLVM's verifier would pass what is generated (nobody runs it), the stack of loops mirrors the loops around, and a statement can be reached in the code exactly if it can in the source. Four statements are a jump in an `if` in a loop with a statement behind, two loops in each other with a jump and a nested function in a loop with a jump |
| `driver` | two compilations, two errors in each, a text of two lines with three tokens (one character at the very beginning, one token behind it, one on the next line) | the output file has the code of this compilation or none, whatever fails; nothing is silent; errors are all listed, in order, with lines that were read; the abstract compiler is implemented, and each compilation ends. Two compilations are enough, since only the two files are left from one to the next |
| `ext_decls` | three declarations besides a builtin one, three names, two structs that print alike of which one is local, one trait, functions in functions once, running programs with at most six things to do | uses meet their declarations, tables are filled, variables with an initial value are initialised before they are read and once |
| `instances` | five primitives (bool, char, int, a longer integer, double), eight types, numbers of 1 and 33 bits and of 24 and 53 bits, a string and a character, arrays of one and lists of up to two elements | accepted variables can be allocated and initialised, lists fit their arrays, numbers keep their values. Two types are registered before the declaration: a pointer to an array, an array of structs or a function that yields a pointer |
| `struct_member` | the same with arrays of two lengths and one type less | violated: see below |

### What the code does not keep

The run `struct_member` checks what the language description and a test program
say, and TLC finds a behaviour of the code against it: the value of a struct's
member need only convert to the member's type (`lookup_struct`), but nothing
converts it, and `gen_struct_inst` stores what it gets, the address of a variable
in place of its value.

The other disagreements are named as gaps. Each is a disjunct of `Gap`,
`OperatorGap` or of a property, or a condition on it, and each is necessary for
the passing runs:

- a const and a plain reference to a type share one table entry, so that the
  first one asked for decides whether either may be assigned to (`SameType` in
  `AnswerFits` leaves the flag out);
- a call with too few arguments is reported, then its missing arguments are
  indexed (`CallGenerates`);
- an array forced to an integer and a method converted to `void*` throw; an
  array that is not in memory cannot become a pointer; a trait value converted to
  its own trait fails an assertion;
- two arrays of one type may be compared and reach an assertion, and so does
  `a.length`; the negation of a float uses the integer instruction; an array
  minus an integer answers with an array and yields a pointer; an array value
  cannot be indexed;
- `NamesItselfOtherwise`: a generic that names itself with another argument. The
  buffer that restores the parameter is filled after the parameter was bound
  (`ast.cpp` 322 to 326), so an instance in the middle of another one of the same
  generic leaves the outer parameter bound to the inner argument;
- `NamesNamesake`: two structs of one name in two functions are told apart, but
  instances are remembered by the names of their arguments: the one made for
  the first struct is handed out for the second;
- a struct with a duplicate member has no type any more when it is asked for a
  loop: the process ends after the report (`FailureReported`);
- `DeclaredLater`: the block, or one around it in the function, declares the
  name after its use, so that the checker means the outer variable and the
  generator the inner one; `BehindBarrier`, and `FoundAround` in `ExtDecls`: a
  function around declares it, which the checker skips and the generator does
  not;
- `lax` in `FlowGen`: a break in a function that stands in a loop leaves the
  function; a return without a value, or with one of type void, passes the
  checker; the condition of a `for` is never converted to bool, since the
  checker takes the node for a block; the last value of a method is not
  converted to the type it returns. A function without a result whose body ends
  in a value makes the generator throw;
- `early` in `FlowGen`: a jump in the condition or the first part of a loop, which
  the language allows, decides about code that was generated before it;
- `IsLocal`: member functions and implementations that are declared in
  functions are accepted and never generated; `OtherType`: a member function of
  another struct of the same name is taken for one's own;
- `IsUndefined`: a global variable that is declared without an initial value
  (`let a: int;`) has no initialiser and begins as undef, and nothing keeps the
  program from reading it before it assigns to it; `NestedMain`: the last
  function called `main` is one in a function, and gets the call of the
  initialisers; `MainUsed`: a program that calls this function runs them again;
- a list without elements of a variable that is not declared as an array: the
  common type of its elements is used before it is tested, and the process ends
  (`infer_array`, `ast.cpp` 294). `InferCommon` has no step for it;
- `IsVoidAuto`, `IsFunctionArray`: an auto variable of a call that yields nothing,
  and a list with one function in it, are accepted and cannot be allocated;
- `TooLong`, `IsIntFirst`, `IsRounded`: an integer of more than 63 bits is an
  exception of the generator; an integer that is negated, an element of an
  untyped list or expected to be a float is an `int` first, and cut to 32 bits; a
  double is rounded to single precision;
- `lost` in `Driver`: of an output or object file that cannot be opened nobody
  hears in the end, and the old program stays or is linked again; a process
  that dies takes its errors with it; a byte 0xFF ends the lines that are shown.

Some oddities are modelled as they are and harm no property: `is_callable`
compares each argument with itself, so only the number counts (the types are
checked right after); `upper_type` of an array asks for the pointer type and
answers with the array; a condition need not be a bool, the generator compares
it with zero; a struct with a member of a trait type is always of infinite size
(`sdtype.h` 731); of two parameters with one name the second one stays, without
an error; `-q` is read and ignored, and a warning keeps the generator from running
like an error.

## Proofs

TLAPS proves, for any constants that satisfy the named assumptions
(`TypeTableAssumption`, `ConversionAssumption`, `OperatorsAssumption`,
`GenericsAssumption`, `ScopesAssumption`, `FlowAssumption`, `DriverAssumption`,
`TokenAssumption`, `ExtAssumption`, `InstancesAssumption`), whatever the bounds:

- `Expressions_proofs`, on the type context: all five properties of the run
  `type_table`, `WellBuilt` from
  its three parts. None is
  inductive alone. The invariant `IInv` (`GoodContext`) says that the tables are
  well typed, that every entry is found under its own name (`Findable`), that
  every name but the alias `int` is that of the entry it leads to (`Sound`), that
  every entry's components support it (`WellFounded`), and that references,
  pointers and arrays have a component (`AllHaveSubtype`). `NameInjective` is the heart:
  two types with one name have one structure. From it a lookup that hits answers
  with the right entry and a lookup that misses makes a new structure.
- `Expressions_proofs`, on conversions: all four properties of them, for every context of
  types that can be built. Of two primitives exactly one converts to the other, for
  any list of distinct primitives; it rests on `PrimsListed`, that a primitive
  entry is one of the list, and on `PrimOrder`, that size and signedness folded
  into one number still order them. What the checker accepts the generator
  converts, and a cast covers what converts by itself: by cases on the kinds of
  the two types after one decay, which is all it takes because the table has no
  reference to a reference (`WellBuilt`). A common type
  serves both operands (`ServesBoth`) also where `greater_type` registers a new
  type for it, and does not depend on their order (`Symmetric`), for which the
  table must be canonical: two types that convert to each other, and are not both
  pointers, are one type and so have one number.
- `Expressions_proofs`, on operators: all properties of the runs `overload`, `operator_gen` and
  `call`, for any primitives, operands and types a program declares. The loop
  invariant of `op_type_eval` (`ScanFindsLeast`) holds for any list, with
  `TiesCounted` for the count of ties; `StoreFits` follows from `StoreInv`, which
  adds that an assignment has two registered operands and no implementation.
  The others need to know what an evaluation leaves. The invariant `OpIInv` says
  that the context is good and canonical (`CtxOK`), that the operands are as many
  as the operator takes and registered (`OperandsFit`), and that an evaluation that
  is done was either skipped for an operand of the error type (`Skipped`) or ended
  in an `Outcome`: as many operands as before, all registered, and, if nothing was
  reported, each operand unchanged or converted to something it converts to, and
  the answer one of a built-in implementation (`BuiltIn`), one of `sp_op_eval`
  (`Answers`) or that of a function whose parameters got their types (`Passes`).
  Evaluations register types as they go, so every step of one leads to a context
  that has `Grown`: old ids keep their types and old conversions stay accepted.
  One lemma per case of `sp_op_eval` (`AtEnds`, `AddEnds`, ... `CallEnds`) shows
  that it `Ends` so. From `Outcome` and the agreement of conversions
  (`AcceptedHasCode`) the code of each operator follows by cases on it.
  `NoSilentTie` is about weights: operands that fit an implementation are
  primitives, and the greater of two primitives fits them better than any other
  (`GreaterWins`). Where an operator takes integers and neither operand is one (two
  of `bool` or `char`), all integers fit alike (`IntegersTie`), which the test
  cnt > 1 sees only if there are three (`ThreeTied`). So `OperatorsAssumption` asks
  for three integer types where an operator takes integers only (`init` registers
  eight), and for the primitives the operators answer with.
- `Expressions_proofs`, on initial values: both properties of the run `instances`,
  for any types, any literals of any length and any list with the primitives the
  literals are of (`InstancesAssumption`: `init` registers `bool`, `char`, `int` and
  `double`); an array has at most two elements in the model, a struct one member.
  The checker evaluates a declaration in one go, so the work is in what it threads
  through (`Evaluates`): the context has only grown, every constant is one of its
  literal's kind (`ConstantIn`), and without an error every conversion is between
  values that convert (`Converts`). One lemma per operation keeps that (`PlainKnown`,
  `AssumedKnown`, `Demanding`, `InferringLike`, `InferringCommon`, `Finishing`), and
  one per form of declaration says how it `Finishes`. The invariant `InstInv` is that
  of the declaration then. `AcceptedHasCode` gives the conversions their code. A
  number is kept because it was made of the type it is assumed of before it became
  a constant (`AllKept`), or because the elements of an array without a declared
  type are stored as what they were found to be (`Doubles`). `StringsRead` is by
  induction from behind: what `parse_string` answers at the beginning of a unit is
  what the units from there on mean, so it reads every string the lexer lets pass,
  one character for each unit, and neither throws nor runs over the end.
- `Generics_proofs`: all six safety properties of the run `generics`, for any
  program and any limit. The invariant `IInv` describes the stack: a
  plain struct at the bottom and instances above it, one level of
  `generic_sub_cnt` for each; and a registered struct is whole or on the stack, so
  that deleting the name of a struct that fails leaves nothing half-built.
  No struct holds itself (`SizesIInv`): structs on the stack are still open and on
  it once, so what is whole never changes, and a circle would have been seen
  by the last of its structs to become whole, whose check met all the others. No
  failure is silent (`FailuresIInv`): as long as nothing was reported nothing
  anywhere is the error type, so a struct that fails has a member of void, a
  duplicate or a circle, and says so. Substitution (`FieldsIInv`) is the longest
  proof. A type is related to the nodes it was made of by a path, a step for each
  node (`Reaches`), and steps stay steps when structs are added. What the code
  may get wrong is the shared binding: the invariant says that a suspended
  instance waits at the node that asked for the one above it (`Waiting`), that
  along the stack no declaration is later than the one below it (`StackOrder`),
  and from it that the parameter of every generic on the stack is bound to the
  argument of its one instance there (`Bindings`), unless the generic names itself
  otherwise. Between declarations the paths are what `Values` computes, where a name tells
  a struct. So the two gaps of `FieldsSubstituted` are all there are.
- `Scopes_proofs`: all five properties of the run `scopes`. Every step only adds
  (`Keeps`): old entries keep their id, and their type once it is known, and
  the ids of new entries are not below the counter before the step. The invariant
  has no error entry in a program without an error, an entry for every report,
  and for every use an entry it finds: either the checker's variable still is
  what `get_info` answers, or an entry came between, and then its id or its place
  makes it one of the two gaps (`UseKept`). So the two gaps are all there are.
- `FlowGen_proofs`: what is generated passes LLVM's verifier (`CodeVerifies`), and the
  stack of loops mirrors the loops around (`LoopsMirrored`), for programs of any
  size and nesting. Neither is inductive: that no code follows a terminator is
  only true because nobody else still writes in the block. So the invariant
  `FlowInv` says who will: a construct owns the blocks its code may branch to, and
  waits for those it has not come to yet (`Owns`, `WaitsFor`). A block that is
  still empty or not yet in its function is the insertion point of a builder or
  waited for by exactly one construct (`OwnedFit`, `NoneLost`), and that construct
  waits in the function of the builder of its own level (`Home`), also when
  functions nest in loops and loops in functions. When a function is done nobody
  waits for its blocks, so each of them ends in one terminator. For the phis the
  invariant knows where the branch that is done already came from (`PhisFit`); the
  loops are counted up to each construct (`LoopsFit`). TLC checked `FlowInv` on the
  run `flow` before it was proved.
- `FlowReach_proofs`, on top of it, proves `ReachesAlike`. The
  recursive function that counts the paths is first done away with: the entry
  leads to a block exactly if each set of blocks that has the entry and no branch
  out of it has the block (`Leads`, `ReachedMeans`). In a function that is still
  open that is not yet true of its loops: the branch into the body of a `while` or
  `for` is the last thing generated. So `LiveInv` puts the blocks control may come to into
  sections, one of the function and one of each loop whose body is being generated:
  the first block of a section leads to all of it (`JustFit`), what a block in a
  section branches to is in one (`OnwardFit`), the insertion point is in one
  exactly if `lives` says so (`StandsFit`), a statement exactly if its mark says so
  (`MarksFit`), and what a construct noted for the code behind it is what its
  blocks are (`NotesFit`, `DeadFit`). When a loop ends, its section joins the one
  around it. Functions that are done keep what they have (`Settled`), since jumps
  only lead to functions further out (`Upward`, `Rising`). `LiveInv` speaks of functions from
  all numbers to sections, which TLC cannot enumerate; the property itself it checks on
  the run `flow`.
- `Driver_proofs`: every step of `main` is a step of `Compilation` or none of its
  (`Implements`), for any program and number of compilations. The invariant
  follows the list of errors: up to the test in `Checked` it is empty exactly if
  this compilation found no error (`ListOK`), behind the test the compilation is
  not faulty, so neither is what it puts into the two files (`FilesOK`), and
  stdout leads to a file that was emptied (`StdoutOK`). On it rests `OutcomeIsTold`:
  that the output is fresh is only stated at the end, so `Told` follows it from the
  moment the output file is opened (`Fresh`), through the object file (`Linked`),
  with the reasons a stream can be closed for (`StdoutKnown`). `ErrorsShownHolds`
  adds the sorted list: the number of times an error occurs in `errors` is that in
  what was listed and what is still to be listed together; what was listed is in
  order, and nothing of it comes behind anything still to be listed, because the
  comparison is a strict weak order. The lines shown were read because each
  error's location lies in the text, and a node's location covers its tokens by
  cases on which of the two is further out.

- `ExtDecls_proofs`: all three properties of the run `ext_decls`, for programs of
  any length and functions nested to any depth. The invariant has a part for each
  phase. `DeclInv`, of the checker: in a program without an error every
  declaration has its entry (`AllEntered`); what an expression uses is an entry of
  a block around it, a member function or an implementation that says so
  (`UsesOK`); and what is used is opened before the use on the walk the generator
  takes again, with every variable that comes before it (`OrderOK`). `GenInv`, of
  the generator: a symbol stands for one declaration that is done, and every one
  that is done is found under its symbol (`ModuleOK`, `TablesOK`), which needs that
  no two declarations of a program without an error have one symbol
  (`SymbolUnique`) or one key (`KeyUnique`); what a use led to when it was
  generated was open then (`TargetsOK`). `DeclarationsMeet` and `TableFilled` follow
  from these two: a slot of a table is filled because a trait whose functions
  repeat a name was reported. `RunInv`, of the running program, is about what is
  still to be done: whatever may read a variable finds it among those that have
  their values, or behind something to be done earlier that stores it (`ReadsOK`), the variables without an initial value apart;
  and nothing to be done, nor anything done, stores a value twice (`OnceOK`). A call
  keeps that, because what it leads to precedes no variable its caller does not
  (`Precedes`): so it holds however deep functions call each other.
  `ExtAssumption` asks that the text of a type tells the types outside of functions
  apart, which the names of the outermost block do, and that no builtin function
  is declared twice. TLC checked the invariant on the run `ext_decls` before it was
  proved; that showed that a member function's use of itself was missing from the
  model.

Only model-checked: `Answered` and the end of every compilation, which are
liveness properties the prover does not handle. Every invariant the passing runs
check is proved.

## Plan

Done: `TypeTable`, `Conversion`, `Operators` with `OperatorGen`, `Generics`,
`Scopes`, `FlowGen`, `Driver` with `Compilation`, `ExtDecls` and `Instances`. What
would come next, in this order:

1. Arrays of more elements, nested ones and structs of several members in
   `Instances`, with the lemmas for one element taken through a list.
2. Bodies of implementations and calls through trait values, when the code of
   them is finished.
3. `ParserScopes`: the parser's scopes of type names, as the lexer reads them.

## Not modelled

The digits of numbers, printing, the parsing of the command line (`inc/clipp.h` is
vendored), the runtime library, LLVM itself and the grammar; they keep no state a
property here could be about. The parser's scopes of type names are state, but
what reads them is generated by bison and flex. The comma operator answers with
its last operand. Within modelled components: calls through a trait value (the
generator stores the function into the value's table and answers with memory it
never wrote, and the initialiser of an implementation returns a pointer where a
struct is expected: the readme marks traits as ongoing), the bodies of
implementations, generics of several parameters and of members that are
functions or references, a generic whose name is taken (the code drops it without
an error), nested arrays and structs as initial values, structs of several
members in `Instances`, type aliases. Assignments of a running program to its
global variables are left out in `ExtDecls`, where only initial values are
stored. Printing the symbols (`--print-sym`, `print` in `main.cpp`) evaluates types again
after `main` copied the list of errors; what it finds wrong a second time is not
listed, and `Driver` does not add it. The wording of errors is left out; that one
was reported, and where, is kept.
