------------------------------ MODULE FlowGen ------------------------------
(***************************************************************************)
(* Control flow generation (src/llvm_ir.cpp): the basic blocks made for    *)
(* if, while, for, break, continue, return and (nested) functions.         *)
(*                                                                         *)
(* The generator walks the tree; here the program arrives as it is walked. *)
(* open is the stack of constructs being generated, each at a phase of its *)
(* code; any phase may hold statements, since a block is an expression.    *)
(* Only programs the checker accepts arrive: its tests are guards.         *)
(***************************************************************************)
EXTENDS Naturals, SequencesExt

CONSTANT MaxStmts   \* bound: how many statements a program has

ASSUME FlowAssumption == MaxStmts \in Nat

VARIABLES
    blocks,      \* the basic blocks: their function, whether they are in it,
                 \* the terminators in them, the blocks their phi names
    builders,    \* the insertion point of every open function's builder
    open,        \* the constructs being generated
    loop_stack,  \* loop_stack: where continue and break lead
    failed,      \* the generator has thrown
    left,        \* how many statements may still arrive
    \* For the properties only:
    lives,       \* may control come here, by the meaning of the source?
    marks,       \* statements: the block they are in, and whether they are live
    early,       \* functions where code decides about code generated before it
    lax          \* blocks that end in what the checker should have refused, or
                 \* the generator should have converted

code == <<blocks, builders, open, loop_stack, failed>>
vars == <<blocks, builders, open, loop_stack, failed, left, lives, marks, early, lax>>

WithLast(s, x) == [s EXCEPT ![Len(s)] = x]

-----------------------------------------------------------------------------
(* Blocks.  A function is named by its entry block. *)

\* BasicBlock::Create, with or without a parent
NewBlock(fn, type, placed) ==
    [fn |-> fn, type |-> type, placed |-> placed, term |-> <<>>, phi |-> {}]

\* Terminators: CreateBr, CreateCondBr with the type of its test, CreateRet.
Br(to)             == [to |-> {to}, test |-> "no", ret |-> "no"]
CondBr(to, alt, t) == [to |-> {to, alt}, test |-> t, ret |-> "no"]
Ret(val)           == [to |-> {}, test |-> "no", ret |-> val]

Ended(b, t)          == [b EXCEPT !.term = Append(@, t)]
InFunction(b)        == [b EXCEPT !.placed = TRUE]
WithPhi(b, from)     == [b EXCEPT !.phi = from]
Terminate(bs, at, t) == [bs EXCEPT ![at] = Ended(@, t)]
Place(bs, at)        == [bs EXCEPT ![at] = InFunction(@)]

Here == Last(builders)           \* builder.GetInsertBlock()
Fn   == blocks[Here].fn          \* its parent
InFn(placed) == NewBlock(Fn, blocks[Here].type, placed)
Top  == Last(open)
Live == Last(lives)
Next1 == Len(blocks) + 1         \* the next blocks that are created
Next2 == Len(blocks) + 2
Next3 == Len(blocks) + 3
Next4 == Len(blocks) + 4

Loops == {"while", "for"}

\* get_loop_parent: the walk to the root does not stop at a function.
get_loop_parent == \E i \in DOMAIN open : open[i].kind \in Loops

\* The loop a jump of the innermost function is in, 0 if there is none.
OwnLoops == {i \in DOMAIN open : /\ open[i].kind \in Loops
                                 /\ \A j \in i..Len(open) : open[j].kind # "func"}
OwnLoop  == IF OwnLoops = {} THEN 0 ELSE CHOOSE i \in OwnLoops : \A j \in OwnLoops : j <= i

-----------------------------------------------------------------------------
(* Constructs *)

Construct(kind, phase) ==
    [kind |-> kind, phase |-> phase, begin |-> 0, nxt |-> 0, end |-> 0, thenEnd |-> 0,
     has |-> TRUE, val |-> FALSE, ret |-> "void", tail |-> FALSE, method |-> FALSE,
     entry |-> FALSE, brk |-> FALSE, cont |-> FALSE]

\* A statement arrives: the last one of a function's body matters later.
Noted(isReturn) == IF Top.kind = "func" THEN WithLast(open, [Top EXCEPT !.tail = isReturn])
                   ELSE open

Statement ==
    /\ ~ failed
    /\ left > 0
    /\ left' = left - 1
    /\ UNCHANGED failed

Marked == marks' = marks \cup {<<Here, Live>>} /\ UNCHANGED <<early, lax>>

\* A construct goes on to its next phase.
Enters(kind, phase) ==
    /\ ~ failed
    /\ open # <<>>
    /\ Top.kind = kind /\ Top.phase = phase
    /\ early' = IF phase = "cond" /\ kind \in Loops /\ Top.entry /\ ~ Live
                THEN early \cup {Fn} ELSE early
    /\ UNCHANGED <<left, failed, marks>>

Phase(kind, phase) == Enters(kind, phase) /\ UNCHANGED lax

\* gen_func_def: a builder of its own, the stack of loops is the same one.
\* gen_ext_mem_func_def does the same for methods; those that are declared in
\* functions never come to it.
FuncDecl(ret, method) ==
    /\ Statement
    /\ method => open = <<>>
    /\ blocks' = Append(blocks, NewBlock(Next1, ret, TRUE))
    /\ builders' = Append(builders, Next1)
    /\ LET def == [Construct("func", "body") EXCEPT !.ret = ret, !.method = method] IN
       IF open = <<>> THEN open' = <<def>> /\ UNCHANGED <<marks, early, lax>>
                      ELSE open' = Append(Noted(FALSE), def) /\ Marked
    /\ lives' = Append(lives, TRUE)
    /\ UNCHANGED loop_stack

\* The end of gen_func_def.  value is the body's last expression: "none" for a
\* body without one, "other" for one of a type that converts to the function's.
\* build_funcbody wants a value, or a return as last statement, of a function
\* that returns something, and does not look at the others: then there is no
\* conversion to void, and gen_convert throws.
DefaultRet(ret) == Ret(IF ret = "void" THEN "none" ELSE "value")

Accepted(value) == CASE value = "none"  -> Top.ret = "void" \/ Top.tail
                     [] value = "void"  -> Top.ret = "void"
                     [] value \in {"value", "other"} -> TRUE

ConvertFails(value) == value \in {"value", "other"} /\ Top.ret = "void" /\ ~ Top.method

\* gen_ext_mem_func_def does not convert.
IsUnconverted(value) == value = "other" /\ Top.ret = "value" /\ Top.method

TailRet(value) == IF IsUnconverted(value) THEN Ret("other") ELSE DefaultRet(Top.ret)

\* The outer builder is where it was: n_builder is a copy.
OuterBuilder == Front(builders)

FuncEnd(value) ==
    /\ ~ failed
    /\ open # <<>>
    /\ Top.kind = "func"
    /\ Accepted(value)
    /\ IF ConvertFails(value)
       THEN failed' = TRUE /\ UNCHANGED <<blocks, builders, open, lives, marks, early, lax>>
       ELSE /\ blocks' = Terminate(blocks, Here, TailRet(value))
            /\ builders' = OuterBuilder
            /\ open' = Front(open)
            /\ lives' = Front(lives)
            /\ marks' = marks \cup {<<Here, Live>>}
            /\ lax' = IF IsUnconverted(value) THEN lax \cup {Here} ELSE lax
            /\ UNCHANGED <<failed, early>>
    /\ UNCHANGED <<loop_stack, left>>

\* gen_if_stmt (without else) and gen_if_ret_stmt
IfStmt(hasElse, val) ==
    /\ open # <<>>
    /\ Statement /\ Marked
    /\ open' = Append(Noted(FALSE), [Construct("if", "cond") EXCEPT !.has = hasElse, !.val = val])
    /\ UNCHANGED <<blocks, builders, loop_stack, lives>>

IfThen ==
    /\ Phase("if", "cond")
    /\ LET b_else == IF Top.has THEN Next2 ELSE Next3
           made == <<InFn(TRUE), InFn(FALSE)>>
                   \o (IF Top.has THEN <<InFn(FALSE)>> ELSE <<>>)
           b_end == IF Top.has THEN Next3 ELSE Next2 IN
       /\ blocks' = Terminate(blocks, Here, CondBr(Next1, Next2, "bool")) \o made
       /\ open' = WithLast(open, [Top EXCEPT !.phase = "then", !.begin = b_else,
                                             !.end = b_end, !.entry = Live])
    /\ builders' = WithLast(builders, Next1)
    /\ UNCHANGED <<loop_stack, lives>>

\* The block the then branch ends in, which the phi names.
ThenEnd == Here

IfElse ==
    /\ Phase("if", "then") /\ Top.has
    /\ blocks' = Place(Terminate(blocks, Here, Br(Top.end)), Top.begin)
    /\ builders' = WithLast(builders, Top.begin)
    /\ open' = WithLast(open, [Top EXCEPT !.phase = "else", !.thenEnd = ThenEnd, !.brk = Live])
    /\ lives' = WithLast(lives, Top.entry)
    /\ UNCHANGED loop_stack

IfEnd ==
    /\ Phase("if", IF Top.has THEN "else" ELSE "then")
    /\ LET joined == Place(Terminate(blocks, Here, Br(Top.end)), Top.end) IN
       blocks' = IF Top.val
                 THEN [joined EXCEPT ![Top.end] = WithPhi(@, {Top.thenEnd, Here})]
                 ELSE joined
    /\ builders' = WithLast(builders, Top.end)
    /\ open' = Front(open)
    /\ lives' = WithLast(lives, Live \/ (IF Top.has THEN Top.brk ELSE Top.entry))
    /\ UNCHANGED loop_stack

\* gen_while_stmt: loop_env_guard lives as long as the construct.
Enter(nxt, end) == Append(loop_stack, <<nxt, end>>)
LeaveNot        == loop_stack        \* mutant of Leave: the guard does not pop
Leave           == Front(loop_stack)

WhileStmt ==
    /\ open # <<>>
    /\ Statement /\ Marked
    /\ blocks' = Terminate(blocks, Here, Br(Next2))
                 \o <<InFn(TRUE), InFn(FALSE), InFn(FALSE)>>
    /\ loop_stack' = Enter(Next2, Next3)
    /\ builders' = WithLast(builders, Next1)
    /\ open' = Append(Noted(FALSE), [Construct("while", "body") EXCEPT
                        !.begin = Next1, !.nxt = Next2, !.end = Next3, !.entry = Live])
    /\ UNCHANGED lives

WhileCond ==
    /\ Phase("while", "body")
    /\ blocks' = Place(Terminate(blocks, Here, Br(Top.nxt)), Top.nxt)
    /\ builders' = WithLast(builders, Top.nxt)
    /\ open' = WithLast(open, [Top EXCEPT !.phase = "cond"])
    /\ lives' = WithLast(lives, Top.entry)
    /\ UNCHANGED loop_stack

WhileEnd ==
    /\ Phase("while", "cond")
    /\ blocks' = Place(Terminate(blocks, Here, CondBr(Top.begin, Top.end, "bool")), Top.end)
    /\ builders' = WithLast(builders, Top.end)
    /\ open' = Front(open)
    /\ loop_stack' = Leave
    /\ lives' = WithLast(lives, Live \/ Top.brk)

\* gen_for_stmt: the guard is made before the first part is generated.
ForStmt(hasCond) ==
    /\ open # <<>>
    /\ Statement /\ Marked
    /\ blocks' = blocks \o <<InFn(TRUE), InFn(FALSE),
                             InFn(FALSE), InFn(FALSE)>>
    /\ loop_stack' = Enter(Next2, Next4)
    /\ open' = Append(Noted(FALSE), [Construct("for", "init") EXCEPT
                        !.begin = Next1, !.nxt = Next2, !.end = Next4, !.has = hasCond])
    /\ UNCHANGED <<builders, lives>>

ForCondBlock(loop) == loop.nxt + 1

ForBody ==
    /\ Phase("for", "init")
    /\ blocks' = Terminate(blocks, Here, Br(ForCondBlock(Top)))
    /\ builders' = WithLast(builders, Top.begin)
    /\ open' = WithLast(open, [Top EXCEPT !.phase = "body", !.entry = Live])
    /\ UNCHANGED <<loop_stack, lives>>

ForStep ==
    /\ Phase("for", "body")
    /\ blocks' = Place(Terminate(blocks, Here, Br(Top.nxt)), Top.nxt)
    /\ builders' = WithLast(builders, Top.nxt)
    /\ open' = WithLast(open, [Top EXCEPT !.phase = "step"])
    /\ lives' = WithLast(lives, Live \/ Top.cont)
    /\ UNCHANGED loop_stack

ForCond ==
    /\ Phase("for", "step")
    /\ blocks' = Place(Terminate(blocks, Here, Br(ForCondBlock(Top))), ForCondBlock(Top))
    /\ builders' = WithLast(builders, ForCondBlock(Top))
    /\ open' = WithLast(open, [Top EXCEPT !.phase = "cond"])
    /\ lives' = WithLast(lives, Top.entry)
    /\ UNCHANGED loop_stack

\* A ForStmt node is a block, and build_sym_table takes the case of blocks before
\* the one that would convert the condition: its value is tested as it is.
ForEnd(test) ==
    /\ Enters("for", "cond")
    /\ lax' = IF test = "bool" THEN lax ELSE lax \cup {Here}
    /\ test = IF Top.has THEN test ELSE "bool"
    /\ blocks' = Place(Terminate(blocks, Here,
                           IF Top.has THEN CondBr(Top.begin, Top.end, test) ELSE Br(Top.begin)),
                       Top.end)
    /\ builders' = WithLast(builders, Top.end)
    /\ open' = Front(open)
    /\ loop_stack' = Leave
    /\ lives' = WithLast(lives, (Top.has /\ Live) \/ Top.brk)

\* The type a function around returns: get_func_parent.
FuncParent == LET fs == {i \in DOMAIN open : open[i].kind = "func"} IN
              open[CHOOSE i \in fs : \A j \in fs : j <= i]

\* What get_loop_parent and the comparison of types let pass: the loop of the
\* function around, a return without a value, a value of type void.
Lax(t) == \/ t.to # {} /\ OwnLoop = 0
          \/ t.ret = "none" /\ FuncParent.ret = "value"
          \/ t.ret = "void"

\* A jump is early if the source meets it before code generated earlier.
Early == \E i \in OwnLoops : open[i].phase \in {"cond", "init"}

\* Mutant of never: made without a parent, as the blocks of loops are.
neverLoose == InFn(FALSE)

\* What follows a jump goes into a block of its own that nothing leads to.
never == InFn(TRUE)

Jump(t) ==
    /\ Statement
    /\ blocks' = Append(Terminate(blocks, Here, t), never)
    /\ builders' = WithLast(builders, Next1)
    /\ lives' = WithLast(lives, FALSE)
    /\ marks' = marks \cup {<<Here, Live>>}
    /\ early' = IF Early THEN early \cup {Fn} ELSE early
    /\ lax' = IF Lax(t) THEN lax \cup {Here} ELSE lax
    /\ UNCHANGED loop_stack

\* The loop that is left or gone on with, as the source means it.
Taken(isBreak) ==
    IF OwnLoop = 0 \/ ~ Live THEN Noted(FALSE)
    ELSE [Noted(FALSE) EXCEPT ![OwnLoop] = IF isBreak THEN [@ EXCEPT !.brk = TRUE]
                                           ELSE [@ EXCEPT !.cont = TRUE]]

\* Mutant of BreakTo: the pair taken apart the wrong way.
BreakToNext == Last(loop_stack)[1]

BreakTo    == Last(loop_stack)[2]
ContinueTo == Last(loop_stack)[1]

Break ==
    /\ get_loop_parent
    /\ Jump(Br(BreakTo))
    /\ open' = Taken(TRUE)

Continue ==
    /\ get_loop_parent
    /\ Jump(Br(ContinueTo))
    /\ open' = Taken(FALSE)

\* return: only a value is compared with the type of the function; a value of
\* type void is returned as if it were one.
Return(val) ==
    /\ open # <<>>
    /\ val # "none" => (val = "void") = (FuncParent.ret = "void")
    /\ Jump(Ret(val))
    /\ open' = Noted(TRUE)

-----------------------------------------------------------------------------

Init ==
    /\ blocks = <<>> /\ builders = <<>> /\ open = <<>> /\ loop_stack = <<>>
    /\ failed = FALSE
    /\ left = MaxStmts
    /\ lives = <<>> /\ marks = {} /\ early = {} /\ lax = {}

Rets  == {"void", "value"}
Vals  == {"none", "void", "value"}
Tests == {"bool", "other"}

\* An if has a value only if it has an else: nothing and a value have no
\* common type but void.
MayYield(hasElse, val) == val => hasElse

\* The program is at its end, or the generator has thrown.
Done == (open = <<>> \/ failed) /\ UNCHANGED vars

Next ==
    \/ \E r \in Rets, method \in BOOLEAN : FuncDecl(r, method)
    \/ \E v \in Vals \cup {"other"} : FuncEnd(v)
    \/ \E e, v \in BOOLEAN : MayYield(e, v) /\ IfStmt(e, v)
    \/ IfThen \/ IfElse \/ IfEnd
    \/ WhileStmt \/ WhileCond \/ WhileEnd
    \/ \E c \in BOOLEAN : ForStmt(c)
    \/ ForBody \/ ForStep \/ ForCond
    \/ \E t \in Tests : ForEnd(t)
    \/ Break \/ Continue
    \/ \E v \in Vals : Return(v)
    \/ Done

Spec == Init /\ [][Next]_vars

-----------------------------------------------------------------------------
(* Properties. *)

Block == DOMAIN blocks
Successors(b) == UNION {blocks[b].term[i].to : i \in DOMAIN blocks[b].term}
Predecessors(b) == {p \in Block : b \in Successors(p)}

\* The functions whose code is complete.
Entries == {b \in Block : blocks[b].fn = b}
Closed  == {f \in Entries : \A i \in DOMAIN builders : blocks[builders[i]].fn # f}

\* Type invariant: builders, jumps and loops name blocks that exist.
FlowOK ==
    /\ \A b \in Block : /\ blocks[b].fn \in Entries
                        /\ Successors(b) \cup blocks[b].phi \subseteq Block
    /\ \A i \in DOMAIN builders : builders[i] \in Block
    /\ Len(lives) = Len(builders)
    /\ Len(builders) = Cardinality({i \in DOMAIN open : open[i].kind = "func"})
    /\ \A i \in DOMAIN loop_stack : loop_stack[i][1] \in Block /\ loop_stack[i][2] \in Block

\* The generator writes in blocks that are open: no code follows a terminator,
\* also when statements follow a jump, and when a function is done each of its
\* blocks is in it and ends in exactly one terminator.
FunctionsWhole ==
    /\ \A i \in DOMAIN builders : blocks[builders[i]].term = <<>> /\ blocks[builders[i]].placed
    /\ \A b \in Block :
          /\ Len(blocks[b].term) <= 1
          /\ blocks[b].fn \in Closed => blocks[b].placed /\ Len(blocks[b].term) = 1

\* A branch stays in its function, but for a break or continue in a function
\* that stands in a loop: get_loop_parent accepts it, loop_stack has the loop.
JumpsStay ==
    \A b \in Block \ lax : \A to \in Successors(b) : blocks[to].fn = blocks[b].fn

\* loop_stack, global in the generator and shared by nested functions, lists
\* the loops around the place that is generated, innermost last.
LoopsMirrored ==
    LET loops == {i \in DOMAIN open : open[i].kind \in Loops} IN
    /\ Len(loop_stack) = Cardinality(loops)
    /\ \A i \in loops :
          loop_stack[Cardinality({j \in loops : j <= i})] = <<open[i].nxt, open[i].end>>

\* What n branches lead to from the entry of f.
Reached(f) ==
    LET within[n \in 0 .. Len(blocks)] ==
            IF n = 0 THEN {f}
            ELSE LET before == within[n - 1] IN
                 before \cup UNION {Successors(b) : b \in before}
    IN within[Len(blocks)]

\* The blocks say what the source says: a statement is in a block the entry of
\* its function leads to exactly if control may come to it in the source.  A
\* jump in the condition or the first part of a loop, or a condition without an
\* end, decides about code that was generated before it, and is left aside.
ReachesAlike ==
    \A f \in Closed \ early : \A m \in marks :
        blocks[m[1]].fn = f => (m[1] \in Reached(f)) = m[2]

\* A phi has one value for each block that branches to it, also when a branch
\* of the if ends in another block than it began with.
PhisMatch ==
    \A b \in Block : blocks[b].phi # {} => blocks[b].phi = Predecessors(b)

\* A function returns what its type says, on every path, but for what the
\* checker lets pass, and the last value of a method, which is not converted.
RetMatches ==
    \A b \in Block \ lax : \A i \in DOMAIN blocks[b].term :
        blocks[b].term[i].ret \in
            {"no", IF blocks[b].type = "void" THEN "none" ELSE "value"}

\* A condition is tested as a bool, that of a for as it was written.
TestsAreBool ==
    \A b \in Block \ lax : \A i \in DOMAIN blocks[b].term : blocks[b].term[i].test \in {"no", "bool"}

\* The generator never runs LLVM's verifier.  What it leaves would pass: no code
\* behind a terminator, blocks that are in their function and end once, branches
\* that stay there, phis that fit the branches, returns of the function's type
\* and tests of one bit - but for what the checker should have refused and the
\* generator should have converted.
CodeVerifies ==
    FlowOK /\ FunctionsWhole /\ JumpsStay /\ PhisMatch /\ RetMatches /\ TestsAreBool
=============================================================================
