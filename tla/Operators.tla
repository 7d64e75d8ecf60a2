----------------------------- MODULE Operators -----------------------------
(***************************************************************************)
(* Operator resolution (op_type_eval, src/operator.cpp) and the code the   *)
(* generator has for the outcome (gen_operator, src/llvm_ir.cpp).          *)
(*                                                                         *)
(* The checker looks for the best of the built-in implementations of an    *)
(* operator, one candidate at a time; when none fits, sp_op_eval handles   *)
(* the pointers, arrays, calls, casts and assignments.  Either way it      *)
(* wraps the operands in implicit conversions and answers with a type.     *)
(* The evaluation registers types as it goes.  The generator sees only the *)
(* operand types and the answer.                                           *)
(***************************************************************************)
EXTENDS Conversion, FiniteSets, SequencesExt

CONSTANT Ops    \* the operators a behaviour uses

VARIABLE node   \* the operator node under evaluation, and the scan's locals

vars == <<ctx, node>>

MathOps   == {"Add", "Sub", "Mul", "Div"}
IntOps    == {"Mod", "BitAnd", "BitOr", "Xor"}
LogicOps  == {"And", "Or"}
CmpOps    == {"Eq", "Neq", "Le", "Ge", "Lt", "Gt"}
UnaryOps  == {"Pos", "Neg", "Not"}
UpdateOps == {"AddEq", "SubEq", "MulEq", "DivEq"}
Binary    == MathOps \cup IntOps \cup LogicOps \cup CmpOps \cup UpdateOps
                \cup {"Assign", "At", "Convert"}
Unary     == UnaryOps \cup {"Ref", "DeRef", "Length"}

\* init registers the primitives that the operators answer with, index by and
\* promote to, and eight integer types.
Listing(kind, siz, unsig) ==
    \E i \in 1 .. NPrim : PrimList[i] = [kind |-> kind, siz |-> siz, unsig |-> unsig]

\* upper_type of a primitive: integers have 32 bits at least, other numbers 64.
Promoted(p) ==
    LET lim == IF p.kind = FloatKind THEN 64 ELSE 32 IN
    [kind  |-> IF p.kind > IntKind THEN p.kind ELSE IntKind,
     siz   |-> IF p.siz > lim THEN p.siz ELSE lim,
     unsig |-> p.unsig]

IntPrims == {i \in 1 .. NPrim : PrimList[i].kind = IntKind}

ASSUME OperatorsAssumption ==
    /\ Ops \subseteq Binary \cup Unary \cup {"Call"}
    /\ Ops \cap (CmpOps \cup LogicOps \cup {"Not"}) # {} => Listing(BoolKind, 8, 1)
    /\ Ops \cap {"At", "Add", "Sub"} # {} => Listing(IntKind, 64, 0)
    /\ "Length" \in Ops => Listing(IntKind, 32, 0)
    /\ "Call" \in Ops => \A i \in 1 .. NPrim :
          LET p == Promoted(PrimList[i]) IN Listing(p.kind, p.siz, p.unsig)
    /\ Ops \cap IntOps # {} => \E i, j, k \in IntPrims : i < j /\ j < k

-----------------------------------------------------------------------------
(* op_impl_list, as op_impl_init fills it. *)

\* init registers the primitives first: the i-th has id i - 1.
PrimId(kind, siz, unsig) ==
    (CHOOSE i \in 1 .. NPrim : PrimList[i] = [kind |-> kind, siz |-> siz, unsig |-> unsig]) - 1
BoolId  == PrimId(BoolKind, 8, 1)
Int64Id == PrimId(IntKind, 64, 0)

PrimIds == [i \in 1 .. NPrim |-> i - 1]

\* The integer types among the first primitives.
IntsBefore[i \in 0 .. NPrim] ==
    IF i = 0 THEN <<>>
    ELSE IF i \in IntPrims THEN Append(IntsBefore[i - 1], i - 1) ELSE IntsBefore[i - 1]

IntIds == IntsBefore[NPrim]

\* The operand types of the implementations, in the order they are tried.
Conds(op) ==
    CASE op \in MathOps \cup CmpOps \cup {"Pos", "Neg"} -> PrimIds
      [] op \in IntOps                                   -> IntIds
      [] op \in LogicOps \cup {"Not"}                    -> <<BoolId>>
      [] OTHER                                           -> <<>>

ImplRet(op, cond) == IF op \in CmpOps THEN BoolId ELSE cond

Reject == 114514

\* Mutants of ArgWeight: an exact fit weighs as much as a conversion; the
\* conversion is asked for the other way round.
WeightExactAsConverted(c, arg, cond) ==
    IF IsConvertable(c, Decay(c, arg), cond) THEN 1 ELSE Reject

WeightBackwards(c, arg, cond) ==
    IF Decay(c, arg) = cond THEN 0
    ELSE IF IsConvertable(c, cond, Decay(c, arg)) THEN 1 ELSE Reject

\* How well an implementation with operands of type cond fits args.
ArgWeight(c, arg, cond) ==
    IF Decay(c, arg) = cond THEN 0
    ELSE IF IsConvertable(c, Decay(c, arg), cond) THEN 1 ELSE Reject

\* Every implementation in the list takes one operand or two.
Weight(c, args, cond) ==
    ArgWeight(c, args[1], cond)
        + (IF Len(args) = 2 THEN ArgWeight(c, args[2], cond) ELSE 0)

-----------------------------------------------------------------------------
(* Evaluation: the context, the operand nodes' types, whether an error was  *)
(* reported, the answer, and whether an operand was indexed that is absent. *)

ErrorTp == Tp("Error", <<>>, 0, FALSE)
RefTo(t) == Tp("Ref", <<t>>, 0, FALSE)

\* Mutant of Yield: the type is not registered.
YieldUnregistered(e, tp) == [e EXCEPT !.ret = Answer(e.ctx, tp)]

\* Register a type, or answer with one that is registered already.
Yield(e, tp)  == [e EXCEPT !.ctx = GetOrCreate(e.ctx, tp), !.ret = Answer(e.ctx, tp)]
Give(e, t)    == [e EXCEPT !.ret = t]
Report(e)     == [e EXCEPT !.errs = TRUE]
\* Mutant of Fail: nothing is reported.
FailSilently(e) == Yield(e, ErrorTp)

Fail(e)       == Yield(Report(e), ErrorTp)

\* expect_ret_type: the i-th operand is wrapped in a conversion to t.
Expect(e, i, t) ==
    IF i \notin DOMAIN e.ch THEN [e EXCEPT !.oob = TRUE]
    ELSE [e EXCEPT !.ch[i] = t,
                   !.errs = @ \/ (e.ch[i] # t /\ ~ IsConvertable(e.ctx, e.ch[i], t))]

\* as_ptr_type of a pointer or an array.
AsPtr(e, t) ==
    LET d == Decay(e.ctx, t) IN
    IF IsPtr(e.ctx, d) THEN Give(e, d) ELSE Yield(e, PtrTo(Sub(e.ctx, d)))

ExpectPtr(e, i, t) == LET p == AsPtr(e, t) IN Expect(p, i, p.ret)

\* expect_ret_type for several operands: ts[i] is expected of the i-th.
ExpectEach(e, ts) ==
    [e EXCEPT !.oob = @ \/ ~ DOMAIN ts \subseteq DOMAIN e.ch,
              !.ch = [i \in DOMAIN e.ch |-> IF i \in DOMAIN ts THEN ts[i] ELSE e.ch[i]],
              !.errs = @ \/ \E i \in DOMAIN ts \cap DOMAIN e.ch :
                          e.ch[i] # ts[i] /\ ~ IsConvertable(e.ctx, e.ch[i], ts[i])]

\* What a variadic argument is passed as.
UpperType(c, t) ==
    LET d == Decay(c, t)
        p == Promoted(PrimOf(c, d)) IN
    IF IsPrim(c, d) THEN PrimId(p.kind, p.siz, p.unsig) ELSE d

\* An array stays one, though upper_type asks for the pointer to its elements:
\* the context after the variadic arguments, the n-th on.
WithUpper(c, args, n) ==
    LET after[i \in 0 .. Len(args)] ==
            IF i < n THEN c
            ELSE IF IsArray(c, Decay(c, args[i]))
                 THEN GetOrCreate(after[i - 1], PtrTo(Sub(c, Decay(c, args[i]))))
                 ELSE after[i - 1]
    IN after[Len(args)]

Address(e, t) == IsPtr(e.ctx, Decay(e.ctx, t)) \/ IsArray(e.ctx, Decay(e.ctx, t))
Indexes(e, t) == IsConvertable(e.ctx, Decay(e.ctx, t), Int64Id)

EvalAt(e, l) ==
    LET d == Decay(e.ctx, l)
        f == IF IsPtr(e.ctx, d) THEN Expect(e, 1, d) ELSE e IN
    IF Address(e, l) THEN Yield(Expect(f, 2, Int64Id), RefTo(Decay(e.ctx, Sub(e.ctx, d))))
                     ELSE Fail(e)

\* Mutant of EvalAssign: any value may be assigned to.
AssignToValue(e, l) ==
    LET f == Expect(e, 2, Decay(e.ctx, l)) IN
    IF IsFunc(e.ctx, Decay(e.ctx, l)) \/ e.ctx.id_ptr_table[l].flag
    THEN Fail(f) ELSE Give(f, l)

\* Assignments convert the right operand before they look at the left one.
EvalAssign(e, l) ==
    LET f == Expect(e, 2, Decay(e.ctx, l)) IN
    IF ~ IsRef(e.ctx, l) \/ IsFunc(e.ctx, Decay(e.ctx, l)) \/ e.ctx.id_ptr_table[l].flag
    THEN Fail(f) ELSE Give(f, l)

EvalUpdate(e, l) ==
    LET f == Expect(e, 2, Decay(e.ctx, l)) IN
    IF ~ IsRef(e.ctx, l) THEN Give(Report(f), l)
    ELSE IF ~ IsPrim(e.ctx, Decay(e.ctx, l)) THEN Fail(f) ELSE Give(f, l)

EvalAdd(e, l, r) ==
    IF Address(e, l)
    THEN IF Indexes(e, r) THEN ExpectPtr(Expect(e, 2, Decay(e.ctx, r)), 1, l) ELSE Fail(e)
    ELSE IF Address(e, r) /\ Indexes(e, l)
    THEN ExpectPtr(Expect(e, 1, Decay(e.ctx, l)), 2, r) ELSE Fail(e)

\* A difference with an integer answers with the left operand's own type.
EvalSub(e, l, r) ==
    LET a == Decay(e.ctx, l)
        b == Decay(e.ctx, r)
        f == AsPtr(e, GreaterType(e.ctx, a, b)) IN
    IF ~ Address(e, l) THEN Fail(e)
    ELSE IF Indexes(e, r) THEN Give(Expect(ExpectPtr(e, 1, a), 2, b), a)
    ELSE IF IsConvertable(e.ctx, b, a) \/ IsConvertable(e.ctx, a, b)
    THEN Give(Expect(Expect(f, 1, f.ret), 2, f.ret), Int64Id)
    ELSE Fail(e)

EvalRef(e, x) ==
    IF IsRef(e.ctx, x) THEN Yield(e, PtrTo(Decay(e.ctx, x))) ELSE Fail(e)

EvalDeRef(e, x) ==
    LET d == Decay(e.ctx, x) IN
    IF IsPtr(e.ctx, d) /\ ~ IsVoid(e.ctx, Sub(e.ctx, d))
    THEN Yield(Expect(e, 1, d), RefTo(Sub(e.ctx, d))) ELSE Fail(e)

\* Mutant of EvalCmp: the answer is the common type.
CmpGivesCommon(e, l, r) ==
    LET g == GreaterType(e.ctx, l, r) IN
    IF Address(e, l) /\ Address(e, r) /\ ~ IsVoid(e.ctx, g)
    THEN Give(Expect(Expect(e, 1, g), 2, g), g) ELSE Fail(e)

EvalCmp(e, l, r) ==
    LET g == GreaterType(e.ctx, l, r) IN
    IF Address(e, l) /\ Address(e, r) /\ ~ IsVoid(e.ctx, g)
    THEN Give(Expect(Expect(e, 1, g), 2, g), BoolId) ELSE Fail(e)

EvalCast(e, x, t) == Give(IF IsForceConvertable(e.ctx, x, t) THEN e ELSE Report(e), t)

\* The member access of an array: its length.
EvalLength(e, x) ==
    IF IsArray(e.ctx, Decay(e.ctx, x)) THEN Give(e, PrimId(IntKind, 32, 0)) ELSE Fail(e)

\* A call: operand 1 is the callee, the arguments follow.  is_callable compares
\* each argument with itself, so only their number counts.  The parameters
\* are expected also after the number was found wrong.
Callee(c, x) ==
    LET d == Decay(c, x) IN IF IsPtr(c, d) /\ IsFunc(c, Sub(c, d)) THEN Sub(c, d) ELSE d

Params(c, fn) ==
    LET t == c.id_ptr_table[fn] IN
    IF t.kind = "Func" THEN Front(t.args) ELSE Front(Tail(t.args))

\* Mutant of IsCallable: every function takes more arguments.
AnyMoreArguments(c, fn, nargs) == nargs >= Len(Params(c, fn))

IsCallable(c, fn, nargs) ==
    LET n == Len(Params(c, fn)) IN
    nargs = n \/ (nargs > n /\ c.id_ptr_table[fn].flag)

\* args are the callee and the arguments.
EvalCall(e, args) ==
    LET x  == Decay(e.ctx, args[1])
        fn == Callee(e.ctx, args[1])
        ps == Params(e.ctx, fn)
        f  == IF fn # x THEN Expect(e, 1, x) ELSE e
        g  == IF IsCallable(e.ctx, fn, Len(args) - 1) THEN f ELSE Report(f)
        n  == Len(ps) + 1
        ts == [i \in 2 .. (IF Len(args) > n THEN Len(args) ELSE n) |->
                  IF i <= n THEN ps[i - 1] ELSE UpperType(e.ctx, args[i])]
    IN IF KindOf(e.ctx, fn) \notin {"Func", "MemFunc"} THEN Fail(f)
       ELSE Give([ExpectEach(g, ts) EXCEPT !.ctx = WithUpper(e.ctx, args, n + 1)],
                 Last(e.ctx.id_ptr_table[fn].args))

\* sp_op_eval.
SpecialEval(e, op, args) ==
    CASE op = "Assign"          -> EvalAssign(e, args[1])
      [] op \in UpdateOps       -> EvalUpdate(e, args[1])
      [] op = "At"              -> EvalAt(e, args[1])
      [] op = "Add"             -> EvalAdd(e, args[1], args[2])
      [] op = "Sub"             -> EvalSub(e, args[1], args[2])
      [] op = "Ref"             -> EvalRef(e, args[1])
      [] op = "DeRef"           -> EvalDeRef(e, args[1])
      [] op \in CmpOps          -> EvalCmp(e, args[1], args[2])
      [] op = "Convert"         -> EvalCast(e, args[1], args[2])
      [] op = "Call"            -> EvalCall(e, args)
      [] op = "Length"          -> EvalLength(e, args[1])
      [] OTHER                  -> Fail(e)

-----------------------------------------------------------------------------
(* Steps. *)

Idle == [pc |-> "idle", op |-> "", args |-> <<>>, cur |-> 0, cnt |-> 0, weight |-> Reject,
         id |-> -1, ch |-> <<>>, ret |-> -1, errs |-> FALSE, oob |-> FALSE]

OpInit == Init /\ node = Idle

\* A program declares types and writes expressions; the two alternate.
Declare ==
    /\ node = Idle
    /\ UNCHANGED node
    /\ \/ \E p \in 1 .. NPrim : GetPrim(p)
       \/ \E s \in Lowers(ctx), cnst \in BOOLEAN : GetRef(s, cnst)
       \/ \E s \in Lowers(ctx) : GetPointer(s)
       \/ \E s \in Lowers(ctx), len \in Lengths : GetArray(s, len)
       \/ \E ps \in Lists, ret \in Lowers(ctx), vary \in BOOLEAN : GetFunc(ps, ret, vary)
       \/ \E parent, ret \in Lowers(ctx), ps \in Lists : GetMemFunc(parent, ps, ret)

\* The operands were evaluated to values of types args.  The arguments of a
\* call also make a tuple type.
Begin(op, args) ==
    /\ node = Idle
    /\ ctx.tp_counter <= MaxTypes
    /\ ctx' = IF op = "Call" THEN GetOrCreate(ctx, Tp("Tuple", Tail(args), 0, FALSE)) ELSE ctx
    /\ node' = [Idle EXCEPT !.pc = "scan", !.op = op, !.args = args, !.ch = args]

\* An operand of the error type: the answer is error, nothing is reported.
Poisoned == \E i \in DOMAIN node.args : IsError(ctx, node.args[i]) /\ (node.op = "Call" => i = 1)

Propagate ==
    /\ node.pc = "scan" /\ Poisoned
    /\ ctx' = GetOrCreate(ctx, ErrorTp)
    /\ node' = [node EXCEPT !.pc = "done", !.ret = Answer(ctx, ErrorTp)]

\* Mutant of Scan: a better candidate keeps the count of the ties before it.
ScanKeepsTies ==
    /\ node.pc = "scan" /\ ~ Poisoned
    /\ node.cur < Len(Conds(node.op))
    /\ LET nw == Weight(ctx, node.args, Conds(node.op)[node.cur + 1])
           better == nw < node.weight IN
       node' = [node EXCEPT !.cur = @ + 1,
                            !.id = IF better THEN node.cur ELSE @,
                            !.weight = IF better THEN nw ELSE @,
                            !.cnt = IF nw = node.weight THEN @ + 1 ELSE @]
    /\ UNCHANGED ctx

\* One round of the loop over impl_list.
Scan ==
    /\ node.pc = "scan" /\ ~ Poisoned
    /\ node.cur < Len(Conds(node.op))
    /\ LET nw == Weight(ctx, node.args, Conds(node.op)[node.cur + 1])
           better == nw < node.weight IN
       node' = [node EXCEPT !.cur = @ + 1,
                            !.id = IF better THEN node.cur ELSE @,
                            !.weight = IF better THEN nw ELSE @,
                            !.cnt = CASE better -> 0
                                      [] nw = node.weight -> @ + 1
                                      [] OTHER -> @]
    /\ UNCHANGED ctx

Start == [ctx |-> ctx, ch |-> node.ch, errs |-> FALSE, ret |-> -1, oob |-> FALSE]

Close(e) ==
    /\ ctx' = e.ctx
    /\ node' = [node EXCEPT !.pc = "done", !.ch = e.ch, !.errs = e.errs,
                            !.ret = e.ret, !.oob = e.oob]

Scanned == node.pc = "scan" /\ ~ Poisoned /\ node.cur = Len(Conds(node.op))

ExpectAll(e, t) == ExpectEach(e, [i \in DOMAIN e.ch |-> t])

Choose ==
    /\ Scanned /\ node.id # -1
    /\ LET cond == Conds(node.op)[node.id + 1] IN
       Close(IF node.cnt > 1 THEN Fail(Start)
             ELSE Give(ExpectAll(Start, cond), ImplRet(node.op, cond)))

Special ==
    /\ Scanned /\ node.id = -1
    /\ Close(SpecialEval(Start, node.op, node.args))

Finish ==
    /\ node.pc = "done"
    /\ node' = Idle
    /\ UNCHANGED ctx

\* What an expression can be of: no type parameter, tuple or generic.
Values == Lowers(ctx) \cup {t \in Ids : IsError(ctx, t)}

OpNext ==
    \/ Declare
    \/ \E op \in Ops \cap Binary, a, b \in Values : Begin(op, <<a, b>>)
    \/ \E op \in Ops \cap Unary, a \in Values : Begin(op, <<a>>)
    \/ \E op \in Ops \cap {"Call"}, f \in Values, xs \in Lists :
          (\A i \in DOMAIN xs : xs[i] \in Values) /\ Begin(op, <<f>> \o xs)
    \/ Propagate
    \/ Scan
    \/ Choose
    \/ Special
    \/ Finish

OpSpec == OpInit /\ [][OpNext]_vars

-----------------------------------------------------------------------------
(* Properties. *)

\* Type invariant of the node under evaluation.
NodeOK ==
    /\ node.pc \in {"idle", "scan", "done"}
    /\ node.cur \in 0 .. Len(Conds(node.op))
    /\ node.id \in -1 .. node.cur - 1
    /\ node.weight \in 0 .. Reject
    /\ node.cnt \in 0 .. node.cur
    /\ Len(node.ch) = Len(node.args)
    /\ node.ret \in -1 .. ctx.tp_counter - 1

Seen == 1 .. node.cur
WeightAt(i) == Weight(ctx, node.args, Conds(node.op)[i])

\* The loop invariant of op_type_eval: id is the first of the candidates seen
\* with the least weight, and cnt how many others weigh the same.
ScanFindsLeast ==
    node.pc = "scan" =>
        /\ \A i \in Seen : node.weight <= WeightAt(i)
        /\ node.id = -1 => node.weight = Reject
        /\ node.id # -1 =>
              /\ node.weight < Reject
              /\ WeightAt(node.id + 1) = node.weight
              /\ \A i \in Seen : i <= node.id => node.weight < WeightAt(i)
              /\ node.cnt = Cardinality({i \in Seen : WeightAt(i) = node.weight}) - 1

\* The ambiguity test is cnt > 1, which lets a tie of two pass.  No operands
\* make exactly two implementations tie: a silent pick never happens.
NoSilentTie == Scanned /\ node.id # -1 => node.cnt # 1

Chosen == node.pc = "done" /\ node.id # -1 /\ ~ IsError(ctx, node.ret)

\* A built-in implementation that is picked fits: the conversions it inserts
\* are all accepted, and both operands end up with the same type, which for
\* operands that are all primitive is the common one wherever the operator
\* takes it.
ChosenFits ==
    Chosen =>
        /\ ~ node.errs
        /\ \A i, j \in DOMAIN node.ch : node.ch[i] = node.ch[j]
        /\ node.op \in MathOps \cup CmpOps \cup IntOps =>
              node.ch[1] = GreaterType(ctx, node.args[1], node.args[2])

\* An assignment goes through only to a place, and what is stored there has
\* the type of the place.
StoreFits ==
    /\ node.pc = "done" /\ ~ node.errs /\ ~ Poisoned
    /\ node.op \in UpdateOps \cup {"Assign"}
    => /\ IsRef(ctx, node.ch[1])
       /\ node.ch[2] = Decay(ctx, node.ch[1])
       /\ ~ IsFunc(ctx, node.ch[2])

\* A call goes through only with an argument for every parameter and no more,
\* unless the function is variadic; each argument arrives with the type of its
\* parameter, and a variadic number is at least as wide as C promotes it.
CallMatches ==
    /\ node.pc = "done" /\ ~ node.errs /\ ~ Poisoned
    /\ node.op = "Call"
    => LET fn   == Callee(ctx, node.args[1])
           ps   == Params(ctx, fn)
           args == Tail(node.ch) IN
       /\ KindOf(ctx, fn) \in {"Func", "MemFunc"}
       /\ Len(args) >= Len(ps)
       /\ Len(args) > Len(ps) => ctx.id_ptr_table[fn].flag
       /\ \A i \in DOMAIN args :
             IF i <= Len(ps) THEN args[i] = ps[i]
             ELSE IsPrim(ctx, args[i]) => PrimOf(ctx, args[i]).siz >= 32

\* An answer of the error type is never silent: an error was reported, now or
\* for the operand it came from.  The driver starts the generator only when no
\* error was reported, so no error type reaches it.
ErrorsReported ==
    node.pc = "done" /\ IsError(ctx, node.ret) =>
        node.errs \/ \E i \in DOMAIN node.args : IsError(ctx, node.args[i])
=============================================================================
