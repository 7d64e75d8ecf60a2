------------------------------- MODULE Scopes -------------------------------
(***************************************************************************)
(* Names of variables and functions: the checker looks them up while it    *)
(* fills the tables of the blocks (get_id, set_id and build_sym_table of   *)
(* src/ast.cpp), the generator once more in the tables as the checker left *)
(* them (get_info, gen_func_def and gen_llvm_ir of src/llvm_ir.cpp).       *)
(*                                                                         *)
(* The program is what the checker meets: a tree of blocks, entered and    *)
(* left in order, with the declarations and the names used in each.  An    *)
(* initialiser is met before its variable is declared.                     *)
(***************************************************************************)
EXTENDS Integers, Sequences, FiniteSets, SequencesExt

CONSTANTS
    Ids,            \* the names of variables and functions
    Params,         \* the parameter lists of functions: names, and whether their types are known
    MaxBlocks,      \* bound: blocks in a program
    MaxVars,        \* bound: declarations in a program
    MaxUses         \* bound: names used in a program

Types == {"error", "known"}

ASSUME ScopesAssumption ==
    /\ Params \subseteq Seq([name : Ids, type : Types])
    /\ MaxBlocks \in Nat \ {0}
    /\ MaxVars \in Nat
    /\ MaxUses \in Nat

VARIABLES
    blocks,         \* each block: its kind and the path from the outermost block to it
    tables,         \* var_table of each block
    at,             \* the block being checked, 0 when the checker is done
    var_id,
    errors,         \* an error was reported
    uses,           \* the names met: where, when, and the variable the checker found
    undeclared      \* the reports of an undeclared name: where

vars == <<blocks, tables, at, var_id, errors, uses, undeclared>>

Kinds == {"ext", "func", "plain"}

\* VarInfo; its type is an error or not.
Var == [id : Nat, type : Types]

None == [id |-> -1, type |-> "error"]

-----------------------------------------------------------------------------
(* The tables. *)

Path(b) == blocks[b].path

\* The innermost block on the path of b among those at the positions in P.
Innermost(b, P) == Path(b)[CHOOSE i \in P : \A j \in P : j <= i]

\* The positions on the path of b where a block has the name.
Having(b, x) == {i \in DOMAIN Path(b) : x \in DOMAIN tables[Path(b)[i]]}

\* The positions of function bodies: what is outside the innermost is skipped.
Barrier(b) == {i \in DOMAIN Path(b) : blocks[Path(b)[i]].kind = "func"}

\* The positions get_id looks at.
Seen(b) ==
    {i \in DOMAIN Path(b) :
        blocks[Path(b)[i]].kind = "ext" \/ \A j \in Barrier(b) : j <= i}

LookUp(b, x, P) == IF P = {} THEN None ELSE tables[Innermost(b, P)][x]

\* The variable the checker finds, and the one the generator finds.
Found(b, x) == LookUp(b, x, Having(b, x) \cap Seen(b))

\* Mutant of get_info: the walk starts at the other end.
get_infoInward(b, x) == LookUp(b, x, {i \in Having(b, x) : \A j \in Having(b, x) : i <= j})

get_info(b, x) == LookUp(b, x, Having(b, x))

Insert(t, x, v) == [y \in DOMAIN t \cup {x} |-> IF y = x THEN v ELSE t[y]]

\* Mutant of Refused: a second declaration takes the place of the first.
RefusedNever(b, x) == FALSE

\* set_id: an entry that is an error gets the type, and keeps its id.
Refused(b, x) == x \in DOMAIN tables[b] /\ tables[b][x].type # "error"

Entry(t, x, type) ==
    IF x \in DOMAIN t THEN [t[x] EXCEPT !.type = type] ELSE [id |-> var_id, type |-> type]

\* The table of b and the counter after set_id was accepted.
Declared(b, x, type) == Insert(tables[b], x, Entry(tables[b], x, type))

\* Mutant of NextId: the counter stays.
NextIdSame(b, x) == var_id

NextId(b, x) == IF x \in DOMAIN tables[b] THEN var_id ELSE var_id + 1

-----------------------------------------------------------------------------
(* build_sym_table. *)

Checking == at # 0

\* Mutant of Assumed: the next use in the block is reported again.
AssumedNot(b, x) == tables[b]

\* The assumption get_id leaves behind a name it did not find.
Assumed(b, x) == Declared(b, x, "error")

\* Mutant of IsMissing: get_id answers with the assumption it made.
IsMissingNever(v) == FALSE

IsMissing(v) == v = None

\* A name is used.
Identifier(x) ==
    /\ Checking
    /\ LET v == Found(at, x) IN
        /\ uses' = uses \cup {[block |-> at, name |-> x, clock |-> var_id, var |-> v]}
        /\ IF v = None
           THEN /\ tables' = [tables EXCEPT ![at] = Assumed(at, x)]
                /\ var_id' = var_id + 1
           ELSE UNCHANGED <<tables, var_id>>
        /\ IF IsMissing(v)
           THEN /\ errors' = TRUE
                /\ undeclared' = Append(undeclared, <<at, x>>)
           ELSE UNCHANGED <<errors, undeclared>>
    /\ Cardinality(uses') <= MaxUses
    /\ UNCHANGED <<blocks, at>>

\* A variable is declared; an error type was reported by check_type.
VarDecl(x, type) ==
    /\ Checking
    /\ errors' = (errors \/ type = "error" \/ Refused(at, x))
    /\ IF Refused(at, x)
       THEN UNCHANGED <<tables, var_id>>
       ELSE /\ NextId(at, x) <= MaxVars
            /\ tables' = [tables EXCEPT ![at] = Declared(at, x, type)]
            /\ var_id' = NextId(at, x)
    /\ UNCHANGED <<blocks, at, uses, undeclared>>

NewBlock(kind) == [kind |-> kind, path |-> Append(Path(at), Len(blocks) + 1)]

\* A block statement, or a for statement with its header.
Block ==
    /\ Checking /\ Len(blocks) < MaxBlocks
    /\ blocks' = Append(blocks, NewBlock("plain"))
    /\ tables' = Append(tables, <<>>)
    /\ at' = Len(blocks) + 1
    /\ UNCHANGED <<var_id, errors, uses, undeclared>>

\* The parameters enter the table of the body directly: of two with one name
\* the second one stays, and a self that is injected comes last.
KnownAt(ps) == {i \in DOMAIN ps : ps[i].type = "known"}

LastOf(ps, x) ==
    CHOOSE i \in KnownAt(ps) :
        ps[i].name = x /\ \A j \in KnownAt(ps) : ps[j].name = x => j <= i

UpTo(ps, i) == Cardinality({j \in KnownAt(ps) : j <= i})

ParamTable(ps, first) ==
    [x \in {ps[i].name : i \in KnownAt(ps)} |->
        [id |-> first + UpTo(ps, LastOf(ps, x)) - 1, type |-> "known"]]

\* A function, named in the block it is declared in; that the name was taken
\* is reported after the body, which matters to nothing in between.
FuncDecl(f, ps) ==
    /\ Checking /\ Len(blocks) < MaxBlocks
    /\ LET first == IF Refused(at, f) THEN var_id ELSE NextId(at, f)
           here  == IF Refused(at, f) THEN tables ELSE [tables EXCEPT ![at] = Declared(at, f, "known")]
       IN
        /\ var_id' = first + Cardinality(KnownAt(ps))
        /\ tables' = Append(here, ParamTable(ps, first))
    /\ var_id' <= MaxVars
    /\ errors' = (errors \/ Refused(at, f) \/ \E i \in DOMAIN ps : ps[i].type = "error")
    /\ blocks' = Append(blocks, NewBlock("func"))
    /\ at' = Len(blocks) + 1
    /\ UNCHANGED <<uses, undeclared>>

\* The end of a block; the outermost one ends the checker.
Leave ==
    /\ Checking
    /\ at' = IF at = 1 THEN 0 ELSE Path(at)[Len(Path(at)) - 1]
    /\ UNCHANGED <<blocks, tables, var_id, errors, uses, undeclared>>

Done == ~Checking /\ UNCHANGED vars

Init ==
    /\ blocks = <<[kind |-> "ext", path |-> <<1>>]>>
    /\ tables = << <<>> >>
    /\ at = 1
    /\ var_id = 0
    /\ errors = FALSE
    /\ uses = {}
    /\ undeclared = <<>>

Next ==
    \/ \E x \in Ids : Identifier(x)
    \/ \E x \in Ids, type \in Types : VarDecl(x, type)
    \/ Block
    \/ \E f \in Ids, ps \in Params : FuncDecl(f, ps)
    \/ Leave
    \/ Done

Spec == Init /\ [][Next]_vars

-----------------------------------------------------------------------------
(* Properties. *)

\* main starts the generator.
Generated == ~Checking /\ ~errors

\* The blocks make a tree, entered from the outside in, and each has a table;
\* the id of a variable is its own (var_id in set_id).
ScopesOK ==
    /\ Len(tables) = Len(blocks)
    /\ at \in 0 .. Len(blocks)
    /\ \A b \in DOMAIN blocks :
        /\ blocks[b].kind \in Kinds
        /\ Path(b) \in Seq(1 .. b) /\ Path(b) # <<>> /\ Last(Path(b)) = b
        /\ \A i, j \in DOMAIN Path(b) : i < j => Path(b)[i] < Path(b)[j]
        /\ \A x \in DOMAIN tables[b] : tables[b][x] \in Var /\ tables[b][x].id < var_id
    /\ \A b, c \in DOMAIN blocks : \A x \in DOMAIN tables[b], y \in DOMAIN tables[c] :
        tables[b][x].id = tables[c][y].id => b = c /\ x = y
    /\ errors \in BOOLEAN

\* The generator finds a declared variable for every name of a program it is
\* given: it follows what get_info answers without a test.
AlwaysFound == Generated => \A u \in uses : get_info(u.block, u.name).type = "known"

\* An undeclared name is reported once in a block, the comment "add
\* assumption" in get_id is about that, even if it is declared there later.
ReportedOnce == IsInjective(undeclared)

\* A variable that was declared is never replaced: its id stays, and its type
\* once it is known, so what was checked with it stays checked (set_id).
EntriesKept ==
    [][\A b \in DOMAIN tables : \A x \in DOMAIN tables[b] :
        /\ x \in DOMAIN tables'[b]
        /\ tables'[b][x].id = tables[b][x].id
        /\ tables[b][x].type = "known" => tables'[b][x] = tables[b][x]]_vars

\* A gap: the block, or one around it inside the function, declares the name
\* after it was used.
DeclaredLater(u) ==
    \E i \in Seen(u.block) : LET t == tables[Path(u.block)[i]] IN
        u.name \in DOMAIN t /\ t[u.name].id >= u.clock

\* A gap: a function around the one the name is used in declares the name.
BehindBarrier(u) ==
    \E i \in DOMAIN Path(u.block) \ Seen(u.block) : u.name \in DOMAIN tables[Path(u.block)[i]]

\* The checker and the generator mean the same variable by a name, but for a
\* name that is declared after its use or in a function around.
ResolvesAlike ==
    Generated => \A u \in uses :
        \/ get_info(u.block, u.name) = u.var
        \/ DeclaredLater(u)
        \/ BehindBarrier(u)
=============================================================================
