-------------------------- MODULE Generics_proofs --------------------------
(***************************************************************************)
(* Proofs about struct declarations and instantiation: whatever a program  *)
(* declares and however instances nest and fail, the depth counter comes   *)
(* back, what is registered between declarations is whole and finite and   *)
(* has the members its declaration lists, and every failure is reported.   *)
(*                                                                         *)
(* The inductive invariant says what the stack of suspended structs looks  *)
(* like: a plain struct at the bottom, instances above it, one level of    *)
(* generic_sub_cnt for each; and that a registered struct is whole or on   *)
(* the stack, so that its failure, which deletes its name, leaves nothing. *)
(***************************************************************************)
EXTENDS Generics, SequenceLemmas, FiniteSetTheorems, TLAPS

\* A type that names only structs among the first n.
TypeUpTo(t, n) ==
    /\ t = [ptrs |-> t.ptrs, of |-> <<t.of[1], t.of[2]>>]
    /\ IsStruct(t) => StructOf(t) \in 1 .. n

StructOK(st, n) ==
    /\ DOMAIN st = {"of", "arg", "text", "members", "whole"}
    /\ st.of \in Generics \cup Plain
    /\ IsSeq(st.members)
    /\ \A i \in 1 .. Len(st.members) : TypeUpTo(st.members[i], n)

CallOK(f, n) ==
    /\ DOMAIN f = {"struct", "member", "node", "val", "saved"}
    /\ f.struct \in 1 .. n
    /\ f.member \in Nat \ {0}
    /\ f.node \in Nat \ {0}
    /\ TypeUpTo(f.val, n)
    /\ TypeUpTo(f.saved, n)

StructsOK ==
    /\ IsSeq(structs)
    /\ \A s \in 1 .. Len(structs) : StructOK(structs[s], Len(structs))

CallsOK ==
    /\ IsSeq(calls)
    /\ \A i \in 1 .. Len(calls) :
        /\ CallOK(calls[i], Len(structs))
        /\ structs[calls[i].struct].of \in (IF i = 1 THEN Plain ELSE Generics)

BindingOK ==
    /\ binding = [g \in Generics |-> binding[g]]
    /\ \A g \in Generics : TypeUpTo(binding[g], Len(structs))

DepthOK == generic_sub_cnt = IF Len(calls) = 0 THEN 0 ELSE Len(calls) - 1

NamesOK ==
    \A n \in DOMAIN types :
        /\ types[n] \in 1 .. Len(structs)
        /\ NameOf(structs[types[n]]) = n
        /\ structs[types[n]].whole \/ \E i \in 1 .. Len(calls) : calls[i].struct = types[n]

FlagsOK == <<errors, aborted>> \in BOOLEAN \X BOOLEAN

IInv ==
    /\ body \in Programs
    /\ StructsOK
    /\ CallsOK
    /\ BindingOK
    /\ DepthOK
    /\ NamesOK
    /\ FlagsOK

-----------------------------------------------------------------------------
(* The innermost struct. *)

\* A type still names known structs when more are made.
LEMMA TypeMonotonic ==
    ASSUME NEW t, NEW m \in Nat, NEW n \in Nat, m <= n, TypeUpTo(t, m)
    PROVE  TypeUpTo(t, n)
BY DEF TypeUpTo

\* The types that name no struct, and the type of a known one.
LEMMA ConstantTypes ==
    ASSUME NEW n \in Nat
    PROVE  /\ TypeUpTo(Error, n)
           /\ TypeUpTo(Unbound, n)
           /\ \A x : TypeUpTo(Tp("prim", x), n)
           /\ \A s \in 1 .. n : TypeUpTo(StructTp(s), n)
BY DEF TypeUpTo, Error, Unbound, StructTp, Tp, IsStruct, StructOf

\* A pointer names the struct its target names.
LEMMA PointerType ==
    ASSUME NEW t, NEW n, TypeUpTo(t, n)
    PROVE  TypeUpTo(Pointer(t), n)
BY DEF TypeUpTo, Pointer, IsStruct, StructOf

\* The innermost call and its struct; it is plain at the bottom only.
LEMMA TopShape ==
    ASSUME IInv, calls # <<>>
    PROVE  /\ Len(calls) \in Nat \ {0}
           /\ Len(structs) \in Nat
           /\ DOMAIN structs = 1 .. Len(structs)
           /\ Top = calls[Len(calls)]
           /\ CallOK(Top, Len(structs))
           /\ StructOK(Current, Len(structs))
           /\ Current.of \in (IF Len(calls) = 1 THEN Plain ELSE Generics)
<1>1. Len(calls) \in Nat \ {0}
    BY SeqShape DEF IInv, CallsOK
<1>2. Len(structs) \in Nat /\ DOMAIN structs = 1 .. Len(structs)
    BY SeqShape DEF IInv, StructsOK
<1>3. Top = calls[Len(calls)] /\ Len(calls) \in 1 .. Len(calls)
    BY <1>1 DEF Top, Last
<1>4. /\ CallOK(Top, Len(structs))
      /\ structs[Top.struct].of \in (IF Len(calls) = 1 THEN Plain ELSE Generics)
    BY <1>3 DEF IInv, CallsOK
<1>5. StructOK(Current, Len(structs))
    BY <1>4 DEF IInv, StructsOK, CallOK, Current
<1>6. QED  BY <1>1, <1>2, <1>3, <1>4, <1>5 DEF Current

\* The node to evaluate; a parameter is met in an instance only.
LEMMA NodeShape ==
    ASSUME IInv, AtNode
    PROVE  /\ Node \in ChainNode
           /\ Node.kind = "param" => Current.of \in Generics
<1> USE GenericsAssumption
<1>1. Current.of \in Generics \cup Plain /\ CallOK(Top, Len(structs))
    BY TopShape DEF AtNode, Busy, StructOK
<1> DEFINE list == body[Current.of]
<1>2. list \in Seq([name : STRING, type : Seq(ChainNode)])
    BY <1>1 DEF IInv
<1> HIDE DEF list
<1>3. Top.member \in 1 .. Len(list) /\ DOMAIN list = 1 .. Len(list)
    BY <1>1, <1>2, LenProperties DEF AtNode, CallOK, list
<1>4. list[Top.member] \in [name : STRING, type : Seq(ChainNode)]
    BY <1>2, <1>3, ElementOfSeq
<1>5. Member.type \in Seq(ChainNode)
    BY <1>4 DEF Member, list
<1>6. Top.node \in 1 .. Len(Member.type) /\ DOMAIN Member.type = 1 .. Len(Member.type)
    BY <1>1, <1>5, LenProperties DEF AtNode, CallOK
<1>7. Node \in ChainNode
    BY <1>5, <1>6, ElementOfSeq DEF Node
<1>8. ASSUME Current.of \in Plain
      PROVE  Node.kind # "param"
    BY <1>3, <1>6, <1>8 DEF IInv, Node, Member, list
<1>9. QED  BY <1>1, <1>7, <1>8

-----------------------------------------------------------------------------
(* One lemma for each kind of step. *)

\* The call below the top, or the top itself, goes on with the type t.
LEMMA EvaluatedCall ==
    ASSUME NEW n \in Nat, NEW f, CallOK(f, n), NEW t, TypeUpTo(t, n)
    PROVE  CallOK(Evaluated(f, t), n) /\ Evaluated(f, t).struct = f.struct
<1> DEFINE g == Evaluated(f, t)
<1>1. /\ DOMAIN g = DOMAIN f
      /\ g.struct = f.struct /\ g.member = f.member /\ g.node = f.node + 1
      /\ g.val = t /\ g.saved = f.saved
    BY DEF Evaluated, CallOK
<1>2. f.node + 1 \in Nat \ {0}
    BY DEF CallOK
<1> HIDE DEF g
<1>3. CallOK(g, n)
    BY <1>1, <1>2 DEF CallOK
<1>4. QED  BY <1>1, <1>3 DEF g

\* A node is evaluated, to a type of a known struct or none.
LEMMA YieldKeeps ==
    ASSUME IInv, calls # <<>>, NEW t, TypeUpTo(t, Len(structs)), Yield(t),
           UNCHANGED <<body, binding, types, structs, generic_sub_cnt, aborted>>,
           errors' \in BOOLEAN
    PROVE  IInv'
<1> DEFINE L == Len(calls)
           f == Evaluated(calls[L], t)
<1>1. L \in Nat \ {0} /\ CallOK(calls[L], Len(structs)) /\ Len(structs) \in Nat
    BY TopShape
<1>2. CallOK(f, Len(structs)) /\ f.struct = calls[L].struct
    BY <1>1, EvaluatedCall
<1>3. IsSeq(calls) /\ L = Len(calls) /\ L \in 1 .. Len(calls)
    BY <1>1 DEF CallsOK, IInv
<1>4. calls' = [calls EXCEPT ![L] = f]
    BY DEF Yield
<1> HIDE DEF f, L
<1>5. /\ IsSeq(calls')
      /\ Len(calls') = L
      /\ \A j \in 1 .. L : calls'[j] = IF j = L THEN f ELSE calls[j]
  <2>1. Len(calls) \in Nat /\ DOMAIN calls = 1 .. L
    BY <1>3, SeqShape
  <2>2. /\ calls' = [i \in 1 .. L |-> calls'[i]]
        /\ \A j \in 1 .. L : calls'[j] = IF j = L THEN f ELSE calls[j]
    BY <1>4, <2>1
  <2>3. IsSeq(calls') /\ Len(calls') = L
    BY <1>1, <2>2, FunctionShape
  <2>4. QED  BY <2>2, <2>3
<1>6. ASSUME NEW j \in 1 .. L
      PROVE  /\ CallOK(calls'[j], Len(structs))
             /\ structs[calls'[j].struct].of \in (IF j = 1 THEN Plain ELSE Generics)
  <2>1. /\ CallOK(calls[j], Len(structs))
        /\ structs[calls[j].struct].of \in (IF j = 1 THEN Plain ELSE Generics)
    BY DEF IInv, CallsOK, L
  <2>2. CallOK(calls'[j], Len(structs)) /\ calls'[j].struct = calls[j].struct
    BY <1>2, <1>5, <2>1
  <2>3. QED  BY <2>1, <2>2
<1>7. CallsOK'
    BY <1>5, <1>6 DEF CallsOK
<1>8. NamesOK'
    BY <1>1, <1>2, <1>5 DEF IInv, NamesOK, NameOf, L
<1>9. DepthOK'
    BY <1>5 DEF IInv, DepthOK, L
<1>10. QED
    BY <1>7, <1>8, <1>9 DEF IInv, StructsOK, BindingOK, FlagsOK

\* A leaf is a type that is bound, declared, or an error.
LEMMA IdentifierKeeps ==
    ASSUME IInv, Identifier
    PROVE  IInv'
<1> USE GenericsAssumption
<1>1. calls # <<>> /\ Len(structs) \in Nat /\ Current.of \in Generics \cup Plain
    BY TopShape DEF Identifier, AtNode, Busy, StructOK
<1>2. CASE Node.kind = "prim"
  <2>1. TypeUpTo(GetType(Node), Len(structs))
    BY <1>1, <1>2, ConstantTypes DEF GetType
  <2>2. QED  BY <1>1, <2>1, YieldKeeps DEF Identifier, IInv, FlagsOK
<1>3. CASE Node.kind = "plain"
  <2>1. PlainName(Node.name) \in DOMAIN types => types[PlainName(Node.name)] \in 1 .. Len(structs)
    BY DEF IInv, NamesOK
  <2>2. TypeUpTo(GetType(Node), Len(structs))
    BY <1>1, <1>3, <2>1, ConstantTypes DEF GetType
  <2>3. QED  BY <1>1, <2>2, YieldKeeps DEF Identifier, IInv, FlagsOK
<1>4. CASE Node.kind = "param"
  <2>1. Current.of \in Generics
    BY <1>4, NodeShape DEF Identifier
  <2>2. TypeUpTo(GetType(Node), Len(structs))
    BY <1>4, <2>1 DEF GetType, IInv, BindingOK
  <2>3. QED  BY <1>1, <2>2, YieldKeeps DEF Identifier, IInv, FlagsOK
<1>5. QED  BY <1>2, <1>3, <1>4 DEF Identifier

\* A star is put on the type below it.
LEMMA PointerKeeps ==
    ASSUME IInv, PointerDesc
    PROVE  IInv'
<1>1. calls # <<>> /\ TypeUpTo(Top.val, Len(structs))
    BY TopShape DEF PointerDesc, AtNode, Busy, CallOK
<1>2. TypeUpTo(Pointer(Top.val), Len(structs))
    BY <1>1, PointerType
<1>3. QED  BY <1>1, <1>2, YieldKeeps DEF PointerDesc, IInv, FlagsOK

\* A generic node that makes no instance.
LEMMA GenericNodeKeeps ==
    ASSUME IInv, GenericOfError \/ GenericKnown \/ GenericRefused
    PROVE  IInv'
<1>1. calls # <<>> /\ Len(structs) \in Nat
    BY TopShape DEF GenericOfError, GenericKnown, GenericRefused, AtUnknownGeneric, AtGeneric,
                    AtNode, Busy
<1>2. CASE GenericOfError \/ GenericRefused
  <2>1. TypeUpTo(Error, Len(structs))
    BY <1>1, ConstantTypes
  <2>2. QED  BY <1>1, <1>2, <2>1, YieldKeeps DEF GenericOfError, GenericRefused, IInv, FlagsOK
<1>3. CASE GenericKnown
  <2> DEFINE n == Signature(Node.name, Top.val)
  <2>1. types[n] \in 1 .. Len(structs)
    BY <1>3 DEF GenericKnown, IInv, NamesOK
  <2>2. TypeUpTo(StructTp(types[n]), Len(structs))
    BY <1>1, <2>1, ConstantTypes
  <2>3. QED  BY <1>1, <1>3, <2>2, YieldKeeps DEF GenericKnown, IInv, FlagsOK
<1>4. QED  BY <1>2, <1>3

-----------------------------------------------------------------------------
(* Structs are made, filled and finished. *)

\* A struct is made: it is the last one.
LEMMA StructAdded ==
    ASSUME StructsOK, NEW st, structs' = Append(structs, st),
           StructOK(st, Len(structs) + 1)
    PROVE  /\ Len(structs) \in Nat
           /\ Len(structs') = Len(structs) + 1
           /\ \A s \in 1 .. Len(structs) : structs'[s] = structs[s]
           /\ structs'[Len(structs) + 1] = st
           /\ StructsOK'
<1>1. IsSeq(structs) /\ Len(structs) \in Nat
    BY SeqShape DEF StructsOK
<1>2. /\ IsSeq(structs')
      /\ Len(structs') = Len(structs) + 1
      /\ \A s \in 1 .. Len(structs) : structs'[s] = structs[s]
      /\ structs'[Len(structs) + 1] = st
    BY <1>1, AppendShape
<1>3. ASSUME NEW s \in 1 .. Len(structs)
      PROVE  StructOK(structs[s], Len(structs) + 1)
  <2>1. StructOK(structs[s], Len(structs))
    BY DEF StructsOK
  <2>2. QED  BY <1>1, <2>1, TypeMonotonic, Len(structs) <= Len(structs) + 1 DEF StructOK
<1>4. \A s \in 1 .. Len(structs') : StructOK(structs'[s], Len(structs'))
    BY <1>1, <1>2, <1>3
<1>5. QED  BY <1>1, <1>2, <1>4 DEF StructsOK

\* A struct changes, but for its name.
LEMMA StructChanged ==
    ASSUME StructsOK, NEW k \in 1 .. Len(structs), NEW st,
           structs' = [s \in 1 .. Len(structs) |-> IF s = k THEN st ELSE structs[s]],
           StructOK(st, Len(structs)),
           st.of = structs[k].of, st.text = structs[k].text,
           structs[k].whole => st.whole
    PROVE  /\ Len(structs') = Len(structs)
           /\ \A s \in 1 .. Len(structs) :
                /\ structs'[s].of = structs[s].of
                /\ NameOf(structs'[s]) = NameOf(structs[s])
                /\ structs[s].whole => structs'[s].whole
           /\ structs'[k] = st
           /\ StructsOK'
<1>1. Len(structs) \in Nat
    BY SeqShape DEF StructsOK
<1>2. /\ structs' = [s \in 1 .. Len(structs) |-> structs'[s]]
      /\ \A s \in 1 .. Len(structs) : structs'[s] = IF s = k THEN st ELSE structs[s]
    OBVIOUS
<1>3. IsSeq(structs') /\ Len(structs') = Len(structs)
    BY <1>1, <1>2, FunctionShape
<1>4. \A s \in 1 .. Len(structs) : StructOK(structs'[s], Len(structs))
    BY <1>2 DEF StructsOK
<1>5. StructsOK'
    BY <1>3, <1>4 DEF StructsOK
<1>6. QED  BY <1>2, <1>3, <1>5 DEF NameOf

\* The member just evaluated is appended.
LEMMA BuildMemberKeeps ==
    ASSUME IInv, BuildMember
    PROVE  IInv'
<1> DEFINE L == Len(calls)
           n == Len(structs)
           k == Top.struct
           f == NextMember(calls[L])
           st == [Current EXCEPT !.members = Append(@, Top.val)]
<1>1. /\ L \in Nat \ {0} /\ n \in Nat /\ DOMAIN structs = 1 .. n
      /\ Top = calls[L] /\ CallOK(Top, n) /\ StructOK(Current, n)
    BY TopShape DEF BuildMember, Busy
<1>2. k \in 1 .. n /\ Current = structs[k]
    BY <1>1 DEF CallOK, Current
<1>3. /\ DOMAIN f = DOMAIN Top
      /\ f.struct = k /\ f.member = Top.member + 1 /\ f.node = 1
      /\ f.val = Top.val /\ f.saved = Top.saved
    BY <1>1 DEF CallOK, NextMember
<1>4. /\ DOMAIN st = DOMAIN Current
      /\ st.of = Current.of /\ st.text = Current.text /\ st.whole = Current.whole
      /\ st.members = Append(Current.members, Top.val)
    BY <1>1 DEF StructOK
<1>5. structs' = [s \in 1 .. n |-> IF s = k THEN st ELSE structs[s]]
    BY <1>1, <1>2 DEF BuildMember
<1>6. calls' = [calls EXCEPT ![L] = f]
    BY DEF BuildMember
<1> HIDE DEF f, st
<1>7. CallOK(f, n)
  <2>1. Top.member + 1 \in Nat \ {0}
    BY <1>1 DEF CallOK
  <2>2. QED  BY <1>1, <1>3, <2>1 DEF CallOK
<1>8. StructOK(st, n)
  <2>1. IsSeq(Current.members) /\ TypeUpTo(Top.val, n)
    BY <1>1 DEF StructOK, CallOK
  <2>2. /\ IsSeq(st.members)
        /\ Len(st.members) = Len(Current.members) + 1
        /\ \A i \in 1 .. Len(Current.members) : st.members[i] = Current.members[i]
        /\ st.members[Len(Current.members) + 1] = Top.val
    BY <1>4, <2>1, AppendShape
  <2>3. Len(Current.members) \in Nat
    BY <2>1, SeqShape
  <2>4. \A i \in 1 .. Len(st.members) : TypeUpTo(st.members[i], n)
    BY <1>1, <2>1, <2>2, <2>3 DEF StructOK
  <2>5. QED  BY <1>1, <1>4, <2>2, <2>4 DEF StructOK
<1>9. /\ Len(structs') = n
      /\ \A s \in 1 .. n : /\ structs'[s].of = structs[s].of
                           /\ NameOf(structs'[s]) = NameOf(structs[s])
                           /\ structs[s].whole => structs'[s].whole
      /\ StructsOK'
    BY <1>2, <1>4, <1>5, <1>8, StructChanged DEF IInv
<1>10. /\ IsSeq(calls')
       /\ Len(calls') = L
       /\ \A j \in 1 .. L : calls'[j] = IF j = L THEN f ELSE calls[j]
  <2>1. DOMAIN calls = 1 .. L
    BY SeqShape DEF IInv, CallsOK
  <2>2. /\ calls' = [i \in 1 .. L |-> calls'[i]]
        /\ \A j \in 1 .. L : calls'[j] = IF j = L THEN f ELSE calls[j]
    BY <1>6, <2>1
  <2>3. IsSeq(calls') /\ Len(calls') = L
    BY <1>1, <2>2, FunctionShape
  <2>4. QED  BY <2>2, <2>3
<1> HIDE DEF L, n, k
<1>11. \A j \in 1 .. L : CallOK(calls'[j], n) /\ calls'[j].struct = calls[j].struct
    BY <1>1, <1>3, <1>7, <1>10 DEF IInv, CallsOK, L, n, k
<1>12. CallsOK'
  <2>1. \A j \in 1 .. L :
            structs'[calls'[j].struct].of \in (IF j = 1 THEN Plain ELSE Generics)
    BY <1>9, <1>11 DEF IInv, CallsOK, CallOK, L, n
  <2>2. \A j \in 1 .. Len(calls') :
            /\ CallOK(calls'[j], Len(structs'))
            /\ structs'[calls'[j].struct].of \in (IF j = 1 THEN Plain ELSE Generics)
    BY <1>9, <1>10, <1>11, <2>1
  <2>3. QED  BY <1>10, <2>2 DEF CallsOK
<1>13. ASSUME NEW x \in DOMAIN types
       PROVE  /\ types[x] \in 1 .. n
              /\ NameOf(structs'[types[x]]) = x
              /\ structs'[types[x]].whole \/ \E j \in 1 .. L : calls'[j].struct = types[x]
  <2>1. /\ types[x] \in 1 .. n
        /\ NameOf(structs[types[x]]) = x
        /\ structs[types[x]].whole \/ \E j \in 1 .. L : calls[j].struct = types[x]
    BY DEF IInv, NamesOK, L, n
  <2>2. QED  BY <1>9, <1>11, <2>1
<1>14. NamesOK'
  <2>1. types' = types
    BY DEF BuildMember
  <2>2. QED  BY <1>9, <1>10, <1>13, <2>1 DEF NamesOK
<1>15. DepthOK' /\ BindingOK'
    BY <1>9, <1>10 DEF BuildMember, IInv, DepthOK, BindingOK, L, n
<1>16. QED
    BY <1>9, <1>12, <1>14, <1>15 DEF BuildMember, IInv, FlagsOK

\* The innermost struct is left: the ones around it stay on the stack, and
\* an instance takes its level of generic_sub_cnt along.
LEMMA ReturnedShape ==
    ASSUME IInv, calls # <<>>, NEW t, TypeUpTo(t, Len(structs)), calls' = Returned(t), Leave
    PROVE  /\ IsSeq(calls')
           /\ Len(calls') = Len(calls) - 1
           /\ \A j \in 1 .. Len(calls) - 1 :
                CallOK(calls'[j], Len(structs)) /\ calls'[j].struct = calls[j].struct
           /\ DepthOK'
           /\ binding' = [g \in Generics |-> binding'[g]]
           /\ \A g \in Generics : TypeUpTo(binding'[g], Len(structs))
<1> DEFINE L == Len(calls)
           front == Front(calls)
           f == Evaluated(front[L - 1], t)
<1> USE GenericsAssumption
<1>1. /\ L \in Nat \ {0} /\ Len(structs) \in Nat /\ IsSeq(calls)
      /\ CallOK(Top, Len(structs))
      /\ Current.of \in (IF L = 1 THEN Plain ELSE Generics)
    BY TopShape DEF IInv, CallsOK
<1>2. /\ IsSeq(front) /\ Len(front) = L - 1
      /\ \A j \in 1 .. L - 1 : front[j] = calls[j]
    BY <1>1, FrontShape
<1> HIDE DEF front, L
<1>3. \A j \in 1 .. L - 1 : CallOK(front[j], Len(structs))
    BY <1>1, <1>2 DEF IInv, CallsOK, L
<1>4. /\ IsSeq(calls')
      /\ Len(calls') = L - 1
      /\ \A j \in 1 .. L - 1 : CallOK(calls'[j], Len(structs)) /\ calls'[j].struct = calls[j].struct
  <2>1. CASE L = 1
    <3>1. calls' = <<>>
      BY <2>1 DEF Returned, L
    <3>2. calls' \in Seq({}) /\ Len(calls') = 0
      BY <3>1, EmptySeq
    <3>3. IsSeq(calls')
      BY <3>2, SeqIsSeq
    <3>4. QED  BY <2>1, <3>2, <3>3
  <2>2. CASE L # 1
    <3>1. calls' = [front EXCEPT ![L - 1] = f]
      BY <2>2 DEF Returned, L, front
    <3>2. L - 1 \in 1 .. L - 1 /\ L - 1 \in Nat
      BY <1>1, <2>2
    <3>3. CallOK(f, Len(structs)) /\ f.struct = front[L - 1].struct
      BY <1>1, <1>3, <3>2, EvaluatedCall
    <3>4. DOMAIN front = 1 .. L - 1
      BY <1>2, SeqShape
    <3> HIDE DEF f
    <3>5. /\ calls' = [i \in 1 .. L - 1 |-> calls'[i]]
          /\ \A j \in 1 .. L - 1 : calls'[j] = IF j = L - 1 THEN f ELSE front[j]
      BY <3>1, <3>4
    <3>6. IsSeq(calls') /\ Len(calls') = L - 1
      BY <3>2, <3>5, FunctionShape
    <3>7. QED  BY <1>2, <1>3, <3>3, <3>5, <3>6
  <2>3. QED  BY <2>1, <2>2
<1>5. DepthOK'
  <2>1. CASE IsInstance
    <3>1. L # 1 /\ generic_sub_cnt' = generic_sub_cnt - 1
      BY <1>1, <2>1 DEF IsInstance, Leave
    <3>2. QED  BY <1>1, <1>4, <3>1 DEF IInv, DepthOK, L
  <2>2. CASE ~IsInstance
    <3>1. L = 1 /\ generic_sub_cnt' = generic_sub_cnt
      BY <1>1, <2>2 DEF IsInstance, Leave
    <3>2. QED  BY <1>1, <1>4, <3>1 DEF IInv, DepthOK, L
  <2>3. QED  BY <2>1, <2>2
<1>6. /\ binding' = [g \in Generics |-> binding'[g]]
      /\ \A g \in Generics : TypeUpTo(binding'[g], Len(structs))
  <2>1. TypeUpTo(Top.saved, Len(structs))
    BY <1>1 DEF CallOK
  <2>2. CASE IsInstance
    <3>1. binding' = [binding EXCEPT ![Current.of] = Top.saved]
      BY <2>2 DEF Leave
    <3>2. DOMAIN binding = Generics /\ \A g \in Generics : TypeUpTo(binding[g], Len(structs))
      BY DEF IInv, BindingOK
    <3>3. QED  BY <2>1, <3>1, <3>2
  <2>3. CASE ~IsInstance
    <3>1. binding' = binding
      BY <2>3 DEF Leave
    <3>2. QED  BY <3>1 DEF IInv, BindingOK
  <2>4. QED  BY <2>2, <2>3
<1>7. QED  BY <1>4, <1>5, <1>6 DEF L

\* The innermost struct is whole: it may stay in the table.
LEMMA StructWholeKeeps ==
    ASSUME IInv, StructWhole
    PROVE  IInv'
<1> DEFINE L == Len(calls)
           n == Len(structs)
           k == Top.struct
           st == [Current EXCEPT !.whole = TRUE]
<1>1. /\ calls # <<>> /\ L \in Nat \ {0} /\ n \in Nat /\ DOMAIN structs = 1 .. n
      /\ Top = calls[L] /\ CallOK(Top, n) /\ StructOK(Current, n)
    BY TopShape DEF StructWhole, AtEnd, Busy
<1>2. k \in 1 .. n /\ Current = structs[k]
    BY <1>1 DEF CallOK, Current
<1>3. /\ DOMAIN st = DOMAIN Current
      /\ st.of = Current.of /\ st.text = Current.text /\ st.whole = TRUE
      /\ st.members = Current.members
    BY <1>1 DEF StructOK
<1>4. structs' = [s \in 1 .. n |-> IF s = k THEN st ELSE structs[s]]
    BY <1>1, <1>2 DEF StructWhole
<1>5. TypeUpTo(StructTp(k), n)
    BY <1>1, <1>2, ConstantTypes
<1> HIDE DEF st
<1>6. StructOK(st, n)
    BY <1>1, <1>3 DEF StructOK
<1>7. /\ Len(structs') = n
      /\ \A s \in 1 .. n : /\ structs'[s].of = structs[s].of
                           /\ NameOf(structs'[s]) = NameOf(structs[s])
                           /\ structs[s].whole => structs'[s].whole
      /\ structs'[k] = st
      /\ StructsOK'
    BY <1>2, <1>3, <1>4, <1>6, StructChanged DEF IInv
<1>8. calls' = Returned(StructTp(k)) /\ Leave /\ types' = types
    BY DEF StructWhole
<1>9. /\ IsSeq(calls')
      /\ Len(calls') = L - 1
      /\ \A j \in 1 .. L - 1 : CallOK(calls'[j], n) /\ calls'[j].struct = calls[j].struct
      /\ DepthOK'
      /\ binding' = [g \in Generics |-> binding'[g]]
      /\ \A g \in Generics : TypeUpTo(binding'[g], n)
    BY <1>1, <1>5, <1>8, ReturnedShape
<1>10. BindingOK'
    BY <1>7, <1>9 DEF BindingOK
<1> HIDE DEF L, n, k
<1>11. CallsOK'
  <2>1. ASSUME NEW j \in 1 .. L - 1
        PROVE  structs'[calls'[j].struct].of \in (IF j = 1 THEN Plain ELSE Generics)
    <3>1. /\ CallOK(calls[j], n)
          /\ structs[calls[j].struct].of \in (IF j = 1 THEN Plain ELSE Generics)
      BY <1>1 DEF IInv, CallsOK, L, n
    <3>2. calls[j].struct \in 1 .. n
      BY <3>1 DEF CallOK
    <3>3. QED  BY <1>7, <1>9, <3>1, <3>2
  <2>2. \A j \in 1 .. Len(calls') :
            /\ CallOK(calls'[j], Len(structs'))
            /\ structs'[calls'[j].struct].of \in (IF j = 1 THEN Plain ELSE Generics)
    BY <1>7, <1>9, <2>1
  <2>3. QED  BY <1>9, <2>2 DEF CallsOK
<1>12. ASSUME NEW x \in DOMAIN types
       PROVE  /\ types[x] \in 1 .. n
              /\ NameOf(structs'[types[x]]) = x
              /\ structs'[types[x]].whole \/ \E j \in 1 .. L - 1 : calls'[j].struct = types[x]
  <2>1. /\ types[x] \in 1 .. n
        /\ NameOf(structs[types[x]]) = x
        /\ structs[types[x]].whole \/ \E j \in 1 .. L : calls[j].struct = types[x]
    BY DEF IInv, NamesOK, L, n
  <2>2. CASE types[x] = k
    BY <1>3, <1>7, <2>1, <2>2
  <2>3. CASE types[x] # k
    <3>1. \A j \in 1 .. L : calls[j].struct = types[x] => j \in 1 .. L - 1
      BY <1>1, <2>3 DEF k
    <3>2. QED  BY <1>7, <1>9, <2>1, <3>1
  <2>4. QED  BY <2>2, <2>3
<1>13. NamesOK'
    BY <1>7, <1>8, <1>9, <1>12 DEF NamesOK
<1>14. QED
    BY <1>7, <1>9, <1>10, <1>11, <1>13 DEF StructWhole, IInv, FlagsOK

\* The innermost struct fails: its name is gone with it.
LEMMA StructFailsKeeps ==
    ASSUME IInv, StructFails
    PROVE  IInv'
<1> DEFINE L == Len(calls)
           n == Len(structs)
           k == Top.struct
<1>1. /\ calls # <<>> /\ L \in Nat \ {0} /\ n \in Nat /\ Top = calls[L]
    BY TopShape DEF StructFails, AtEnd, Busy
<1>2. /\ calls' = Returned(Error) /\ Leave /\ structs' = structs
      /\ types' = Deleted(NameOf(Current))
    BY DEF StructFails, LeaveFailed, WithoutFailed
<1>3. TypeUpTo(Error, n)
    BY <1>1, ConstantTypes
<1>4. /\ IsSeq(calls')
      /\ Len(calls') = L - 1
      /\ \A j \in 1 .. L - 1 : CallOK(calls'[j], n) /\ calls'[j].struct = calls[j].struct
      /\ DepthOK'
      /\ binding' = [g \in Generics |-> binding'[g]]
      /\ \A g \in Generics : TypeUpTo(binding'[g], n)
    BY <1>1, <1>2, <1>3, ReturnedShape
<1>5. StructsOK' /\ BindingOK'
    BY <1>2, <1>4 DEF BindingOK, StructsOK, IInv
<1> HIDE DEF L, n, k
<1>6. CallsOK'
  <2>1. \A j \in 1 .. Len(calls') :
            /\ CallOK(calls'[j], n)
            /\ structs[calls'[j].struct].of \in (IF j = 1 THEN Plain ELSE Generics)
    BY <1>1, <1>4 DEF IInv, CallsOK, CallOK, L, n
  <2>2. QED  BY <1>2, <1>4, <2>1 DEF CallsOK, n
<1>7. ASSUME NEW x \in DOMAIN types'
      PROVE  /\ types'[x] \in 1 .. n
             /\ NameOf(structs[types'[x]]) = x
             /\ structs[types'[x]].whole \/ \E j \in 1 .. L - 1 : calls'[j].struct = types'[x]
  <2>1. x \in DOMAIN types /\ types'[x] = types[x] /\ x # NameOf(Current)
    BY <1>2 DEF Deleted
  <2>2. /\ types[x] \in 1 .. n
        /\ NameOf(structs[types[x]]) = x
        /\ structs[types[x]].whole \/ \E j \in 1 .. L : calls[j].struct = types[x]
    BY <2>1 DEF IInv, NamesOK, L, n
  <2>3. types[x] # k
    BY <2>1, <2>2 DEF Current, k
  <2>4. \A j \in 1 .. L : calls[j].struct = types[x] => j \in 1 .. L - 1
    BY <1>1, <2>3 DEF k
  <2>5. QED  BY <1>4, <2>1, <2>2, <2>4
<1>8. NamesOK'
    BY <1>2, <1>4, <1>7 DEF NamesOK, n
<1>9. FlagsOK'
    BY DEF StructFails, IInv, FlagsOK
<1>10. QED
    BY <1>4, <1>5, <1>6, <1>8, <1>9 DEF StructFails, IInv

\* A new struct has no members and is what its name is looked up for.
LEMMA NewStructShape ==
    ASSUME NEW of \in Generics \cup Plain, NEW arg, NEW text, NEW n
    PROVE  StructOK(NewStruct(of, arg, text), n)
<1> DEFINE st == NewStruct(of, arg, text)
<1>1. /\ DOMAIN st = {"of", "arg", "text", "members", "whole"}
      /\ st.of = of /\ st.members = <<>>
    BY DEF NewStruct
<1>2. st.members \in Seq({}) /\ Len(st.members) = 0
    BY <1>1, EmptySeq
<1>3. IsSeq(st.members)
    BY <1>2, SeqIsSeq
<1> HIDE DEF st
<1>4. StructOK(st, n)
    BY <1>1, <1>2, <1>3 DEF StructOK
<1>5. QED  BY <1>4 DEF st

\* A new call starts at the first node of the first member.
LEMMA NewCallShape ==
    ASSUME NEW n \in Nat, NEW s \in 1 .. n, NEW t, TypeUpTo(t, n)
    PROVE  CallOK(Call(s, t), n) /\ Call(s, t).struct = s
<1>1. TypeUpTo(Error, n)
    BY ConstantTypes
<1>2. QED  BY <1>1 DEF Call, CallOK

\* A struct under a name of its own is registered and called: what was there
\* stays, and the new name leads to the new call.
LEMMA PushKeeps ==
    ASSUME IInv, NEW name, NEW of \in Generics \cup Plain, NEW arg, NEW text, NEW saved,
           Register(name, NewStruct(of, arg, text)),
           NameOf(NewStruct(of, arg, text)) = name,
           calls' = Append(calls, Call(Len(structs) + 1, saved)),
           of \in (IF Len(calls) = 0 THEN Plain ELSE Generics),
           TypeUpTo(saved, Len(structs))
    PROVE  /\ StructsOK' /\ CallsOK' /\ NamesOK'
           /\ Len(structs) \in Nat /\ Len(structs') = Len(structs) + 1
           /\ Len(calls) \in Nat /\ Len(calls') = Len(calls) + 1
<1> DEFINE n == Len(structs)
           L == Len(calls)
           st == NewStruct(of, arg, text)
           f == Call(n + 1, saved)
<1>1. n \in Nat /\ IsSeq(calls) /\ L \in Nat
    BY SeqShape DEF IInv, StructsOK, CallsOK
<1>2. /\ Len(structs') = n + 1
      /\ \A s \in 1 .. n : structs'[s] = structs[s]
      /\ structs'[n + 1] = st
      /\ StructsOK'
  <2>1. structs' = Append(structs, st) /\ StructsOK
    BY DEF Register, IInv
  <2>2. StructOK(st, n + 1)
    BY NewStructShape
  <2> HIDE DEF st
  <2>3. QED  BY <2>1, <2>2, StructAdded
<1>3. /\ IsSeq(calls') /\ Len(calls') = L + 1
      /\ \A j \in 1 .. L : calls'[j] = calls[j]
      /\ calls'[L + 1] = f
    BY <1>1, AppendShape
<1>4. CallOK(f, n + 1) /\ f.struct = n + 1
  <2>1. TypeUpTo(saved, n + 1)
    BY <1>1, TypeMonotonic
  <2>2. n + 1 \in Nat /\ n + 1 \in 1 .. n + 1
    BY <1>1
  <2>3. QED  BY <2>1, <2>2, NewCallShape
<1>5. st.of = of /\ NameOf(st) = name
    BY DEF NewStruct
<1>6. types' = [x \in DOMAIN types \cup {name} |-> IF x = name THEN n + 1 ELSE types[x]]
    BY DEF Register
<1> HIDE DEF n, L, st, f
<1>7. ASSUME NEW j \in 1 .. L
      PROVE  /\ CallOK(calls[j], n + 1) /\ calls[j].struct \in 1 .. n
             /\ structs[calls[j].struct].of \in (IF j = 1 THEN Plain ELSE Generics)
  <2>1. /\ CallOK(calls[j], n)
        /\ structs[calls[j].struct].of \in (IF j = 1 THEN Plain ELSE Generics)
    BY DEF IInv, CallsOK, L, n
  <2>2. n + 1 \in Nat /\ n <= n + 1 /\ \A i \in 1 .. n : i \in 1 .. n + 1
    BY <1>1
  <2>3. TypeUpTo(calls[j].val, n + 1) /\ TypeUpTo(calls[j].saved, n + 1)
    BY <1>1, <2>1, <2>2, TypeMonotonic DEF CallOK
  <2>4. QED  BY <2>1, <2>2, <2>3 DEF CallOK
<1>8. CallsOK'
  <2>1. ASSUME NEW j \in 1 .. L + 1
        PROVE  /\ CallOK(calls'[j], n + 1)
               /\ structs'[calls'[j].struct].of \in (IF j = 1 THEN Plain ELSE Generics)
    <3>1. CASE j = L + 1
      <4>1. of \in (IF j = 1 THEN Plain ELSE Generics)
        BY <1>1, <3>1 DEF L
      <4>2. QED  BY <1>2, <1>3, <1>4, <1>5, <3>1, <4>1
    <3>2. CASE j \in 1 .. L
      BY <1>2, <1>3, <1>7, <3>2
    <3>3. j = L + 1 \/ j \in 1 .. L
      BY <1>1
    <3>4. QED  BY <3>1, <3>2, <3>3
  <2>2. QED  BY <1>2, <1>3, <2>1 DEF CallsOK
<1>9. ASSUME NEW x \in DOMAIN types'
      PROVE  /\ types'[x] \in 1 .. n + 1
             /\ NameOf(structs'[types'[x]]) = x
             /\ structs'[types'[x]].whole \/ \E j \in 1 .. L + 1 : calls'[j].struct = types'[x]
  <2>1. CASE x = name
    <3>1. types'[x] = n + 1 /\ L + 1 \in 1 .. L + 1 /\ n + 1 \in 1 .. n + 1
      BY <1>1, <1>6, <2>1
    <3>2. QED  BY <1>2, <1>3, <1>4, <1>5, <2>1, <3>1
  <2>2. CASE x # name
    <3>1. x \in DOMAIN types /\ types'[x] = types[x]
      BY <1>6, <2>2
    <3>2. /\ types[x] \in 1 .. n
          /\ NameOf(structs[types[x]]) = x
          /\ structs[types[x]].whole \/ \E j \in 1 .. L : calls[j].struct = types[x]
      BY <3>1 DEF IInv, NamesOK, L, n
    <3>3. \A j \in 1 .. L : calls[j].struct = types[x] => calls'[j].struct = types[x]
      BY <1>3
    <3>4. types[x] \in 1 .. n + 1 /\ \A j \in 1 .. L : j \in 1 .. L + 1
      BY <1>1, <3>2
    <3>5. structs'[types[x]] = structs[types[x]]
      BY <1>2, <3>2
    <3>6. structs[types[x]].whole \/ \E j \in 1 .. L + 1 : calls'[j].struct = types[x]
      BY <3>2, <3>3, <3>4
    <3>7. QED  BY <3>1, <3>2, <3>4, <3>5, <3>6
  <2>3. QED  BY <2>1, <2>2
<1>10. NamesOK'
    BY <1>2, <1>3, <1>9 DEF NamesOK
<1>11. QED  BY <1>1, <1>2, <1>3, <1>8, <1>10 DEF n, L

\* An instance is asked for that is not there: its argument is bound, and it
\* is built one level further down.
LEMMA GenericImplKeeps ==
    ASSUME IInv, GenericImpl
    PROVE  IInv'
<1> DEFINE n == Len(structs)
           L == Len(calls)
           g == Node.name
           sig == Signature(g, Top.val)
<1> USE GenericsAssumption
<1>1. /\ calls # <<>> /\ L \in Nat \ {0} /\ n \in Nat
      /\ CallOK(Top, n)
    BY TopShape DEF GenericImpl, AtUnknownGeneric, AtGeneric, AtNode, Busy
<1>2. g \in Generics
    BY NodeShape DEF GenericImpl, AtUnknownGeneric, AtGeneric, ChainNode, AroundNode, LeafNode
<1>3. TypeUpTo(Top.val, n)
    BY <1>1 DEF CallOK
<1>4. /\ Register(sig, NewStruct(g, Top.val, sig))
      /\ binding' = [binding EXCEPT ![g] = Top.val]
      /\ calls' = Append(calls, Call(n + 1, binding'[g]))
      /\ generic_sub_cnt' = generic_sub_cnt + 1
    BY DEF GenericImpl, Bound
<1>5. NameOf(NewStruct(g, Top.val, sig)) = sig
    BY <1>2 DEF NameOf, NewStruct
<1>6. DOMAIN binding = Generics /\ \A h \in Generics : TypeUpTo(binding[h], n)
    BY DEF IInv, BindingOK
<1>7. /\ binding' = [h \in Generics |-> binding'[h]]
      /\ \A h \in Generics : TypeUpTo(binding'[h], n)
    BY <1>2, <1>3, <1>4, <1>6
<1> HIDE DEF g, sig
<1>8. /\ StructsOK' /\ CallsOK' /\ NamesOK'
      /\ Len(structs') = n + 1 /\ Len(calls') = L + 1
  <2>1. TypeUpTo(binding'[g], n)
    BY <1>2, <1>7
  <2>2. g \in Generics \cup Plain /\ g \in (IF L = 0 THEN Plain ELSE Generics)
    BY <1>1, <1>2
  <2>3. QED  BY <1>4, <1>5, <2>1, <2>2, PushKeeps
<1>9. BindingOK'
  <2>1. n <= n + 1 /\ n + 1 \in Nat
    BY <1>1
  <2>2. \A h \in Generics : TypeUpTo(binding'[h], n + 1)
    BY <1>1, <1>7, <2>1, TypeMonotonic
  <2>3. QED  BY <1>7, <1>8, <2>2 DEF BindingOK
<1>10. DepthOK'
    BY <1>1, <1>4, <1>8 DEF IInv, DepthOK
<1>11. QED
    BY <1>8, <1>9, <1>10 DEF GenericImpl, IInv, FlagsOK

\* Nothing but the flags changes.
LEMMA FlagsKeep ==
    ASSUME IInv, UNCHANGED <<body, binding, types, structs, calls, generic_sub_cnt>>, FlagsOK'
    PROVE  IInv'
<1>1. StructsOK' /\ CallsOK'
    BY DEF IInv, StructsOK, CallsOK
<1>2. BindingOK' /\ DepthOK'
    BY DEF IInv, BindingOK, DepthOK
<1>3. NamesOK'
    BY DEF IInv, NamesOK, NameOf
<1>4. QED  BY <1>1, <1>2, <1>3 DEF IInv

\* The parameter of a generic that is declared is unbound.
LEMMA GenericDeclKeeps ==
    ASSUME IInv, NEW g \in Generics, GenericDecl(g)
    PROVE  IInv'
<1>1. UNCHANGED <<body, types, structs, calls, generic_sub_cnt, errors, aborted>>
    BY DEF GenericDecl
<1>2. StructsOK' /\ CallsOK' /\ DepthOK' /\ FlagsOK'
    BY <1>1 DEF IInv, StructsOK, CallsOK, DepthOK, FlagsOK
<1>3. NamesOK'
    BY <1>1 DEF IInv, NamesOK, NameOf
<1>4. BindingOK'
  <2>1. Len(structs) \in Nat /\ TypeUpTo(Unbound, Len(structs))
    BY SeqShape, ConstantTypes DEF IInv, StructsOK
  <2>2. binding' = [binding EXCEPT ![g] = Unbound]
    BY DEF GenericDecl
  <2>3. QED  BY <1>1, <2>1, <2>2 DEF IInv, BindingOK
<1>5. QED  BY <1>1, <1>2, <1>3, <1>4 DEF IInv

\* A plain declaration is at the bottom of the stack, or refused.
LEMMA StructDeclKeeps ==
    ASSUME IInv, NEW p \in Plain, StructDecl(p)
    PROVE  IInv'
<1> DEFINE n == Len(structs)
           text == [of |-> Label[p], args |-> <<>>]
<1>1. CASE PlainName(p) \in DOMAIN types
  <2>1. UNCHANGED <<body, binding, types, structs, calls, generic_sub_cnt>> /\ FlagsOK'
    BY <1>1 DEF StructDecl, Declares, IInv, FlagsOK
  <2>2. QED  BY <2>1, FlagsKeep
<1>2. CASE PlainName(p) \notin DOMAIN types
  <2>1. /\ Register(PlainName(p), NewStruct(p, Error, text))
        /\ calls = <<>> /\ calls' = <<Call(n + 1, Error)>>
        /\ UNCHANGED <<body, binding, generic_sub_cnt, errors, aborted>>
    BY <1>2 DEF StructDecl, Declares
  <2>2. Len(calls) = 0
    BY <2>1, EmptySeq
  <2>3. calls' = Append(calls, Call(n + 1, Error))
    BY <2>1
  <2>4. NameOf(NewStruct(p, Error, text)) = PlainName(p)
    BY DEF NameOf, NewStruct
  <2>5. n \in Nat
    BY SeqShape DEF IInv, StructsOK
  <2>6. TypeUpTo(Error, n)
    BY <2>5, ConstantTypes
  <2> HIDE DEF text
  <2>7. /\ StructsOK' /\ CallsOK' /\ NamesOK'
        /\ Len(structs') = n + 1 /\ Len(calls') = 1
    BY <2>1, <2>2, <2>3, <2>4, <2>6, PushKeeps
  <2>8. BindingOK'
    <3>1. n <= n + 1 /\ n + 1 \in Nat
      BY <2>5
    <3>2. \A h \in Generics : TypeUpTo(binding[h], n + 1)
      BY <2>5, <3>1, TypeMonotonic DEF IInv, BindingOK
    <3>3. QED  BY <2>1, <2>7, <3>2 DEF BindingOK, IInv
  <2>9. DepthOK'
    BY <2>1, <2>2, <2>7 DEF IInv, DepthOK
  <2>10. QED  BY <2>1, <2>7, <2>8, <2>9 DEF IInv, FlagsOK
<1>3. QED  BY <1>1, <1>2

\* A crash, the end of the program and a stutter change no table.
LEMMA IdleKeeps ==
    ASSUME IInv, StructAborts \/ Stop \/ UNCHANGED vars
    PROVE  IInv'
<1>1. UNCHANGED <<body, binding, types, structs, calls, generic_sub_cnt>> /\ FlagsOK'
    BY DEF StructAborts, Stop, vars, IInv, FlagsOK
<1>2. QED  BY <1>1, FlagsKeep

-----------------------------------------------------------------------------
(* The theorems. *)

\* The tables start empty.
LEMMA InitIInv == Init => IInv
<1> SUFFICES ASSUME Init PROVE IInv
    OBVIOUS
<1>1. <<>> \in Seq({}) /\ Len(<<>>) = 0
    BY EmptySeq
<1>2. IsSeq(<<>>)
    BY <1>1, SeqIsSeq
<1>3. StructsOK /\ CallsOK /\ DepthOK
    BY <1>1, <1>2 DEF Init, StructsOK, CallsOK, DepthOK
<1>4. DOMAIN types = {}
    BY <1>1, <1>2, SeqShape DEF Init
<1>5. NamesOK /\ FlagsOK
    BY <1>4 DEF Init, NamesOK, FlagsOK
<1>6. BindingOK
    BY <1>1, ConstantTypes DEF Init, BindingOK
<1>7. QED  BY <1>3, <1>5, <1>6 DEF Init, IInv

\* No step leaves the inductive invariant.
LEMMA NextIInv == IInv /\ [Next]_vars => IInv'
<1> SUFFICES ASSUME IInv, [Next]_vars PROVE IInv'
    OBVIOUS
<1>1. CASE Identifier
    BY <1>1, IdentifierKeeps
<1>2. CASE PointerDesc
    BY <1>2, PointerKeeps
<1>3. CASE GenericOfError \/ GenericKnown \/ GenericRefused
    BY <1>3, GenericNodeKeeps
<1>4. CASE GenericImpl
    BY <1>4, GenericImplKeeps
<1>5. CASE BuildMember
    BY <1>5, BuildMemberKeeps
<1>6. CASE StructWhole
    BY <1>6, StructWholeKeeps
<1>7. CASE StructFails
    BY <1>7, StructFailsKeeps
<1>8. CASE StructAborts \/ Stop \/ UNCHANGED vars
    BY <1>8, IdleKeeps
<1>9. CASE \E p \in Plain : StructDecl(p)
    BY <1>9, StructDeclKeeps
<1>10. CASE \E g \in Generics : GenericDecl(g)
    BY <1>10, GenericDeclKeeps
<1>11. QED
    BY <1>1, <1>2, <1>3, <1>4, <1>5, <1>6, <1>7, <1>8, <1>9, <1>10 DEF Next, Evaluate

\* The depth as two equations.
LEMMA DepthIs ==
    ASSUME DepthOK, Len(calls) \in Nat
    PROVE  /\ Len(calls) = 0 => generic_sub_cnt = 0
           /\ Len(calls) # 0 => generic_sub_cnt = Len(calls) - 1
           /\ generic_sub_cnt \in Nat
<1>1. CASE Len(calls) = 0
    BY <1>1 DEF DepthOK
<1>2. CASE Len(calls) # 0
  <2>1. generic_sub_cnt = Len(calls) - 1 /\ Len(calls) - 1 \in Nat
    BY <1>2 DEF DepthOK
  <2>2. QED  BY <1>2, <2>1
<1>3. QED  BY <1>1, <1>2

\* The inductive invariant holds of every behaviour.
THEOREM Invariant == Spec => []IInv
<1>1. Init => IInv
    BY InitIInv
<1>2. IInv /\ [Next]_vars => IInv'
    BY NextIInv
<1>3. QED  BY <1>1, <1>2, PTL DEF Spec

\* Names, calls, members and bindings lead to structs that exist, and a name
\* leads to the struct that has it (the tables of src/ast.cpp).
THEOREM TablesOK == Spec => []GenericsOK
<1>1. IInv => GenericsOK
  <2> SUFFICES ASSUME IInv PROVE GenericsOK
    OBVIOUS
  <2>1. /\ Len(structs) \in Nat /\ DOMAIN structs = 1 .. Len(structs)
        /\ DOMAIN calls = 1 .. Len(calls) /\ Len(calls) \in Nat
    BY SeqShape DEF IInv, StructsOK, CallsOK
  <2>2. /\ Registered \subseteq DOMAIN structs
        /\ \A n \in DOMAIN types : NameOf(structs[types[n]]) = n
    BY <2>1 DEF Registered, IInv, NamesOK
  <2>3. \A i \in DOMAIN calls : calls[i].struct \in DOMAIN structs
    BY <2>1 DEF IInv, CallsOK, CallOK
  <2>4. ASSUME NEW s \in DOMAIN structs, NEW i \in DOMAIN structs[s].members
        PROVE  IsStruct(structs[s].members[i]) => StructOf(structs[s].members[i]) \in DOMAIN structs
    <3>1. StructOK(structs[s], Len(structs))
      BY <2>1 DEF IInv, StructsOK
    <3>2. DOMAIN structs[s].members = 1 .. Len(structs[s].members)
      BY <3>1, SeqShape DEF StructOK
    <3>3. TypeUpTo(structs[s].members[i], Len(structs))
      BY <3>1, <3>2 DEF StructOK
    <3>4. QED  BY <2>1, <3>3 DEF TypeUpTo
  <2>5. \A g \in Generics : IsStruct(binding[g]) => StructOf(binding[g]) \in DOMAIN structs
    BY <2>1 DEF IInv, BindingOK, TypeUpTo
  <2>6. generic_sub_cnt \in Nat
    BY <2>1, DepthIs DEF IInv
  <2>7. <<errors, aborted>> \in BOOLEAN \X BOOLEAN
    BY DEF IInv, FlagsOK
  <2>8. QED  BY <2>2, <2>3, <2>4, <2>5, <2>6, <2>7 DEF GenericsOK
<1>2. QED  BY <1>1, Invariant, PTL

\* What is registered between declarations was built to its end (del_type and
\* generic_exception of src/ast.cpp).
THEOREM NothingHalfBuilt == Spec => []RegisteredWhole
<1>1. IInv => RegisteredWhole
  <2> SUFFICES ASSUME IInv, calls = <<>>, NEW x \in DOMAIN types
               PROVE  structs[types[x]].whole
    BY DEF RegisteredWhole, Registered, Quiet
  <2>1. Len(calls) = 0
    BY EmptySeq
  <2>2. QED  BY <2>1 DEF IInv, NamesOK
<1>2. QED  BY <1>1, Invariant, PTL

\* The depth of instantiation is the number of instances being built, so it
\* is back at zero between declarations (generic_sub_cnt of src/ast.cpp).
THEOREM DepthComesBack == Spec => []DepthRestored
<1>1. IInv => DepthRestored
  <2> SUFFICES ASSUME IInv PROVE DepthRestored
    OBVIOUS
  <2> DEFINE L == Len(calls)
             I == {i \in DOMAIN calls : structs[calls[i].struct].of \in Generics}
  <2>1. L \in Nat /\ DOMAIN calls = 1 .. L
    BY SeqShape DEF IInv, CallsOK
  <2>2. \A i \in 1 .. L : structs[calls[i].struct].of \in Generics <=> i # 1
    BY GenericsAssumption DEF IInv, CallsOK
  <2>3. I = 2 .. L
    BY <2>1, <2>2
  <2>4. Cardinality(2 .. L) = IF 2 > L THEN 0 ELSE L - 2 + 1
    <3>1. 2 \in Int /\ L \in Int
      BY <2>1
    <3> HIDE DEF L
    <3>2. QED  BY <3>1, FS_Interval
  <2>5. generic_sub_cnt = Cardinality(2 .. L)
    BY <2>1, <2>4, DepthIs DEF IInv
  <2>6. QED  BY <2>3, <2>5 DEF DepthRestored
<1>2. QED  BY <1>1, Invariant, PTL

-----------------------------------------------------------------------------
(* No struct holds itself by value.                                        *)
(*                                                                         *)
(* A struct on the stack is still open, and on it once, so that only a     *)
(* struct that is not whole gets members.  What is whole has no circle:    *)
(* the last struct of one to become whole was checked with all the others  *)
(* already there.                                                          *)

StackOpen ==
    \A i \in 1 .. Len(calls) :
        /\ ~structs[calls[i].struct].whole
        /\ \A j \in 1 .. Len(calls) : calls[i].struct = calls[j].struct => i = j

\* Structs that are whole and each hold another of them, or themselves.
Circle(c) ==
    /\ c # {}
    /\ \A s \in c : s \in DOMAIN structs /\ structs[s].whole /\ Holds(s) \cap c # {}

NoCircle == \A c \in SUBSET DOMAIN structs : ~Circle(c)

SizesIInv == IInv /\ StackOpen /\ NoCircle

\* What a struct holds is told by its members.
LEMMA SameHolds ==
    ASSUME NEW s, structs'[s].members = structs[s].members
    PROVE  Holds(s)' = Holds(s)
BY DEF Holds, StructOf, IsStruct

\* Nothing becomes whole, and what is whole keeps its members: there is no
\* circle as there was none.
LEMMA NoCircleStays ==
    ASSUME IInv, NoCircle,
           \A s \in DOMAIN structs' : structs'[s].whole =>
              /\ s \in DOMAIN structs
              /\ structs[s].whole
              /\ structs'[s].members = structs[s].members
    PROVE  NoCircle'
<1>1. SUFFICES ASSUME NEW c \in SUBSET DOMAIN structs', Circle(c)'
               PROVE  FALSE
    BY DEF NoCircle
<1>2. ASSUME NEW s \in c
      PROVE  s \in DOMAIN structs /\ structs[s].whole /\ Holds(s) \cap c # {}
  <2>1. s \in DOMAIN structs' /\ structs'[s].whole /\ Holds(s)' \cap c # {}
    BY <1>1 DEF Circle
  <2>2. s \in DOMAIN structs /\ structs[s].whole /\ Holds(s)' = Holds(s)
    BY <2>1, SameHolds
  <2>3. QED  BY <2>1, <2>2
<1>3. c # {}
    BY <1>1 DEF Circle
<1>4. Circle(c) /\ c \in SUBSET DOMAIN structs
    BY <1>2, <1>3 DEF Circle
<1>5. QED  BY <1>4 DEF NoCircle

\* The calls are of the same structs, and no struct changes.
LEMMA SameStack ==
    ASSUME SizesIInv, structs' = structs, Len(calls') \in Nat, Len(calls') <= Len(calls),
           \A j \in 1 .. Len(calls') : calls'[j].struct = calls[j].struct
    PROVE  StackOpen' /\ NoCircle'
<1>1. Len(calls) \in Nat
    BY SeqShape DEF SizesIInv, IInv, CallsOK
<1>2. \A j \in 1 .. Len(calls') : j \in 1 .. Len(calls)
    BY <1>1
<1>3. StackOpen'
    BY <1>2 DEF SizesIInv, StackOpen
<1>4. NoCircle'
    BY NoCircleStays DEF SizesIInv
<1>5. QED  BY <1>3, <1>4

-----------------------------------------------------------------------------
(* What the steps do to the stack and to the structs, field by field.      *)

\* Call f goes on as g, with the type t.
GoesOn(f, g, t) ==
    /\ g.struct = f.struct /\ g.member = f.member /\ g.saved = f.saved
    /\ g.node = f.node + 1
    /\ g.val = t

\* The innermost call goes on.
Went(t) ==
    /\ Len(calls') = Len(calls)
    /\ \A j \in 1 .. Len(calls) - 1 : calls'[j] = calls[j]
    /\ GoesOn(Top, calls'[Len(calls)], t)

\* The innermost call ended; the one below goes on.
CameBack(t) ==
    /\ Len(calls') = Len(calls) - 1
    /\ \A j \in 1 .. Len(calls) - 2 : calls'[j] = calls[j]
    /\ Len(calls) # 1 => GoesOn(calls[Len(calls) - 1], calls'[Len(calls) - 1], t)

\* Another struct is on top.
Pushed(of, arg, text, saved) ==
    /\ Len(calls') = Len(calls) + 1
    /\ \A j \in 1 .. Len(calls) : calls'[j] = calls[j]
    /\ LET f == calls'[Len(calls) + 1] IN
        /\ f.struct = Len(structs) + 1 /\ f.member = 1 /\ f.node = 1
        /\ f.saved = saved
    /\ Len(structs') = Len(structs) + 1
    /\ \A s \in 1 .. Len(structs) : structs'[s] = structs[s]
    /\ LET st == structs'[Len(structs) + 1] IN
        /\ st.of = of /\ st.arg = arg /\ st.text = text
        /\ Len(st.members) = 0 /\ ~st.whole

\* Only the innermost struct changes, and neither its origin nor its name.
OthersSame ==
    /\ Len(structs') = Len(structs)
    /\ \A s \in 1 .. Len(structs) : s # Top.struct => structs'[s] = structs[s]
    /\ LET st == structs'[Top.struct] IN
        st.of = Current.of /\ st.arg = Current.arg /\ st.text = Current.text

\* The innermost struct has one more member, and its call goes on with the next.
GotMember ==
    /\ OthersSame
    /\ structs'[Top.struct].whole = Current.whole
    /\ LET members == structs'[Top.struct].members IN
        /\ Len(members) = Len(Current.members) + 1
        /\ \A i \in 1 .. Len(Current.members) : members[i] = Current.members[i]
        /\ members[Len(Current.members) + 1] = Top.val
    /\ Len(calls') = Len(calls)
    /\ \A j \in 1 .. Len(calls) - 1 : calls'[j] = calls[j]
    /\ LET f == calls'[Len(calls)] IN
        /\ f.struct = Top.struct /\ f.saved = Top.saved
        /\ f.member = Top.member + 1 /\ f.node = 1

\* The innermost struct became whole.
BecameWhole ==
    /\ OthersSame
    /\ structs'[Top.struct].whole
    /\ structs'[Top.struct].members = Current.members

\* What a call is that goes on.
LEMMA EvaluatedGoesOn ==
    ASSUME NEW n, NEW f, CallOK(f, n), NEW t
    PROVE  GoesOn(f, Evaluated(f, t), t)
BY DEF CallOK, Evaluated, GoesOn

\* Yield, field by field.
LEMMA YieldShape ==
    ASSUME IInv, calls # <<>>, NEW t, Yield(t)
    PROVE  Went(t)
<1> DEFINE L == Len(calls)
           f == Evaluated(calls[L], t)
<1>1. L \in Nat \ {0} /\ CallOK(Top, Len(structs)) /\ Top = calls[L]
    BY TopShape
<1>2. GoesOn(Top, f, t)
    BY <1>1, EvaluatedGoesOn
<1>3. DOMAIN calls = 1 .. L
    BY SeqShape DEF IInv, CallsOK
<1>4. calls' = [calls EXCEPT ![L] = f]
    BY DEF Yield
<1> HIDE DEF f, L
<1>5. /\ calls' = [i \in 1 .. L |-> calls'[i]]
      /\ \A j \in 1 .. L : calls'[j] = IF j = L THEN f ELSE calls[j]
    BY <1>3, <1>4
<1>6. Len(calls') = L
    BY <1>1, <1>5, FunctionShape
<1>7. /\ \A j \in 1 .. L - 1 : calls'[j] = calls[j]
      /\ calls'[L] = f
    BY <1>1, <1>5
<1>8. QED  BY <1>2, <1>6, <1>7 DEF Went, L

\* Returned, field by field.
LEMMA BackShape ==
    ASSUME IInv, calls # <<>>, NEW t, calls' = Returned(t)
    PROVE  CameBack(t)
<1> DEFINE L == Len(calls)
           front == Front(calls)
           f == Evaluated(front[L - 1], t)
<1>1. L \in Nat \ {0} /\ IsSeq(calls)
    BY TopShape DEF IInv, CallsOK
<1>2. /\ IsSeq(front) /\ Len(front) = L - 1
      /\ \A j \in 1 .. L - 1 : front[j] = calls[j]
    BY <1>1, FrontShape
<1> HIDE DEF front
<1>3. CASE L = 1
  <2>1. calls' = <<>>
    BY <1>3 DEF Returned
  <2>2. Len(calls') = 0
    BY <2>1, EmptySeq
  <2>3. QED  BY <1>3, <2>2 DEF CameBack
<1>4. CASE L # 1
  <2>1. calls' = [front EXCEPT ![L - 1] = f]
    BY <1>4 DEF Returned, front
  <2>2. L - 1 \in 1 .. L - 1 /\ L - 1 \in Nat
    BY <1>1, <1>4
  <2>3. CallOK(calls[L - 1], Len(structs)) /\ front[L - 1] = calls[L - 1]
    BY <1>1, <1>2, <2>2 DEF IInv, CallsOK
  <2>4. GoesOn(calls[L - 1], f, t)
    BY <2>3, EvaluatedGoesOn
  <2>5. DOMAIN front = 1 .. L - 1
    BY <1>2, SeqShape
  <2> HIDE DEF f, L
  <2>6. /\ calls' = [i \in 1 .. L - 1 |-> calls'[i]]
        /\ \A j \in 1 .. L - 1 : calls'[j] = IF j = L - 1 THEN f ELSE front[j]
    BY <2>1, <2>5
  <2>7. Len(calls') = L - 1
    BY <2>2, <2>6, FunctionShape
  <2>8. calls'[L - 1] = f /\ \A j \in 1 .. L - 2 : calls'[j] = calls[j]
    BY <1>1, <1>2, <2>2, <2>6
  <2>9. QED  BY <2>4, <2>7, <2>8 DEF CameBack, L
<1>5. QED  BY <1>3, <1>4

\* A struct that is made and called, field by field.
LEMMA PushShape ==
    ASSUME IInv, NEW name, NEW of, NEW arg, NEW text, NEW saved,
           Register(name, NewStruct(of, arg, text)),
           calls' = Append(calls, Call(Len(structs) + 1, saved))
    PROVE  Pushed(of, arg, text, saved)
<1> DEFINE n == Len(structs)
           L == Len(calls)
           st == NewStruct(of, arg, text)
           f == Call(n + 1, saved)
<1>1. IsSeq(structs) /\ IsSeq(calls)
    BY DEF IInv, StructsOK, CallsOK
<1>2. /\ Len(calls') = L + 1
      /\ \A j \in 1 .. L : calls'[j] = calls[j]
      /\ calls'[L + 1] = f
    BY <1>1, AppendShape
<1>3. /\ Len(structs') = n + 1
      /\ \A s \in 1 .. n : structs'[s] = structs[s]
      /\ structs'[n + 1] = st
    BY <1>1, AppendShape DEF Register
<1>4. f.struct = n + 1 /\ f.member = 1 /\ f.node = 1 /\ f.saved = saved
    BY DEF Call
<1>5. st.of = of /\ st.arg = arg /\ st.text = text /\ st.members = <<>> /\ ~st.whole
    BY DEF NewStruct
<1>6. Len(st.members) = 0
    BY <1>5, EmptySeq
<1> HIDE DEF st, f, n, L
<1>7. QED  BY <1>2, <1>3, <1>4, <1>5, <1>6 DEF Pushed, n, L

\* BuildMember, field by field.
LEMMA BuildMemberShape ==
    ASSUME IInv, BuildMember
    PROVE  GotMember
<1> DEFINE L == Len(calls)
           n == Len(structs)
           k == Top.struct
           f == NextMember(calls[L])
           st == [Current EXCEPT !.members = Append(@, Top.val)]
<1>1. /\ L \in Nat \ {0} /\ n \in Nat /\ DOMAIN structs = 1 .. n
      /\ Top = calls[L] /\ CallOK(Top, n) /\ StructOK(Current, n)
    BY TopShape DEF BuildMember, Busy
<1>2. k \in 1 .. n /\ Current = structs[k]
    BY <1>1 DEF CallOK, Current
<1>3. f.struct = k /\ f.member = Top.member + 1 /\ f.node = 1 /\ f.saved = Top.saved
    BY <1>1 DEF CallOK, NextMember
<1>4. /\ st.of = Current.of /\ st.arg = Current.arg /\ st.text = Current.text
      /\ st.whole = Current.whole
      /\ st.members = Append(Current.members, Top.val)
    BY <1>1 DEF StructOK
<1>5. structs' = [s \in 1 .. n |-> IF s = k THEN st ELSE structs[s]]
    BY <1>1, <1>2 DEF BuildMember
<1>6. calls' = [calls EXCEPT ![L] = f]
    BY DEF BuildMember
<1>7. IsSeq(Current.members) /\ IsSeq(calls)
    BY <1>1 DEF StructOK, IInv, CallsOK
<1> HIDE DEF f, st, L, n, k
<1>8. /\ structs' = [s \in 1 .. n |-> structs'[s]]
      /\ \A s \in 1 .. n : structs'[s] = IF s = k THEN st ELSE structs[s]
    BY <1>5
<1>9. Len(structs') = n
    BY <1>1, <1>8, FunctionShape
<1>10. /\ calls' = [i \in 1 .. L |-> calls'[i]]
       /\ \A j \in 1 .. L : calls'[j] = IF j = L THEN f ELSE calls[j]
  <2>1. DOMAIN calls = 1 .. L
    BY <1>7, SeqShape DEF L
  <2>2. QED  BY <1>6, <2>1
<1>11. Len(calls') = L /\ calls'[L] = f /\ \A j \in 1 .. L - 1 : calls'[j] = calls[j]
    BY <1>1, <1>10, FunctionShape
<1>12. /\ Len(st.members) = Len(Current.members) + 1
       /\ \A i \in 1 .. Len(Current.members) : st.members[i] = Current.members[i]
       /\ st.members[Len(Current.members) + 1] = Top.val
    BY <1>4, <1>7, AppendShape
<1>13. structs'[k] = st /\ \A s \in 1 .. n : s # k => structs'[s] = structs[s]
    BY <1>2, <1>8
<1>14. OthersSame
    BY <1>4, <1>9, <1>13 DEF OthersSame, k, n
<1>15. QED  BY <1>3, <1>4, <1>11, <1>12, <1>13, <1>14 DEF GotMember, k, L

\* StructWhole, field by field.
LEMMA StructWholeShape ==
    ASSUME IInv, StructWhole
    PROVE  BecameWhole /\ CameBack(StructTp(Top.struct))
<1> DEFINE n == Len(structs)
           k == Top.struct
           st == [Current EXCEPT !.whole = TRUE]
<1>1. /\ calls # <<>> /\ n \in Nat /\ DOMAIN structs = 1 .. n
      /\ CallOK(Top, n) /\ StructOK(Current, n)
    BY TopShape DEF StructWhole, AtEnd, Busy
<1>2. k \in 1 .. n /\ Current = structs[k]
    BY <1>1 DEF CallOK, Current
<1>3. /\ st.of = Current.of /\ st.arg = Current.arg /\ st.text = Current.text
      /\ st.whole /\ st.members = Current.members
    BY <1>1 DEF StructOK
<1>4. structs' = [s \in 1 .. n |-> IF s = k THEN st ELSE structs[s]]
    BY <1>1, <1>2 DEF StructWhole
<1> HIDE DEF st, n, k
<1>5. /\ structs' = [s \in 1 .. n |-> structs'[s]]
      /\ \A s \in 1 .. n : structs'[s] = IF s = k THEN st ELSE structs[s]
    BY <1>4
<1>6. Len(structs') = n
    BY <1>1, <1>5, FunctionShape
<1>7. structs'[k] = st /\ \A s \in 1 .. n : s # k => structs'[s] = structs[s]
    BY <1>2, <1>5
<1>8. OthersSame
    BY <1>3, <1>6, <1>7 DEF OthersSame, k, n
<1>9. BecameWhole
    BY <1>3, <1>7, <1>8 DEF BecameWhole, k
<1>10. CameBack(StructTp(Top.struct))
    BY <1>1, BackShape DEF StructWhole
<1>11. QED  BY <1>9, <1>10

-----------------------------------------------------------------------------
(* Sizes, step by step. *)

\* Calls that go on stay calls of the same structs.
LEMMA WentSizes ==
    ASSUME SizesIInv, calls # <<>>, NEW t, Went(t), structs' = structs
    PROVE  StackOpen' /\ NoCircle'
<1>1. Len(calls) \in Nat \ {0} /\ Top = calls[Len(calls)]
    BY TopShape DEF SizesIInv
<1>2. \A j \in 1 .. Len(calls) : j = Len(calls) \/ j \in 1 .. Len(calls) - 1
    BY <1>1
<1>3. \A j \in 1 .. Len(calls) : calls'[j].struct = calls[j].struct
    BY <1>1, <1>2 DEF Went, GoesOn
<1>4. Len(calls') = Len(calls)
    BY DEF Went
<1>5. QED  BY <1>1, <1>3, <1>4, SameStack

\* The struct on top is left.
LEMMA CameBackStructs ==
    ASSUME IInv, calls # <<>>, NEW t, CameBack(t)
    PROVE  /\ Len(calls) \in Nat \ {0} /\ Len(calls') = Len(calls) - 1
           /\ \A j \in 1 .. Len(calls') : calls'[j].struct = calls[j].struct
<1>1. Len(calls) \in Nat \ {0}
    BY TopShape
<1>2. Len(calls') = Len(calls) - 1
    BY DEF CameBack
<1>3. ASSUME NEW j \in 1 .. Len(calls')
      PROVE  calls'[j].struct = calls[j].struct
  <2>1. Len(calls) # 1 /\ (j = Len(calls) - 1 \/ j \in 1 .. Len(calls) - 2)
    BY <1>1, <1>2
  <2>2. QED  BY <2>1 DEF CameBack, GoesOn
<1>4. QED  BY <1>1, <1>2, <1>3

\* The innermost struct gets a member: it is open, and stays open.
LEMMA BuildMemberSizes ==
    ASSUME SizesIInv, BuildMember
    PROVE  StackOpen' /\ NoCircle'
<1> DEFINE L == Len(calls)
           n == Len(structs)
           k == Top.struct
<1>1. /\ L \in Nat \ {0} /\ n \in Nat /\ DOMAIN structs = 1 .. n /\ Top = calls[L]
      /\ CallOK(Top, n) /\ IInv
    BY TopShape DEF BuildMember, Busy, SizesIInv
<1>2. GotMember
    BY <1>1, BuildMemberShape
<1>3. k \in 1 .. n /\ L \in 1 .. L /\ Current = structs[k]
    BY <1>1 DEF CallOK, Current
<1>4. ~structs[k].whole
    BY <1>1, <1>3 DEF SizesIInv, StackOpen
<1>5. /\ Len(structs') = n
      /\ \A s \in 1 .. n : s # k => structs'[s] = structs[s]
      /\ structs'[k].whole = structs[k].whole
      /\ Len(calls') = L
      /\ \A j \in 1 .. L - 1 : calls'[j] = calls[j]
      /\ calls'[L].struct = k
    BY <1>2, <1>3 DEF GotMember, OthersSame
<1>6. DOMAIN structs' = 1 .. n
  <2>1. IInv'
    BY <1>1, BuildMemberKeeps
  <2>2. IsSeq(structs')
    BY <2>1 DEF IInv, StructsOK
  <2>3. QED  BY <1>5, <2>2, SeqShape
<1> HIDE DEF L, n, k
<1>7. \A j \in 1 .. L : calls'[j].struct = calls[j].struct
  <2>1. \A j \in 1 .. L : j = L \/ j \in 1 .. L - 1
    BY <1>1
  <2>2. QED  BY <1>1, <1>5, <2>1 DEF k
<1>8. \A j \in 1 .. L : calls[j].struct \in 1 .. n
    BY <1>1 DEF IInv, CallsOK, CallOK, L, n
<1>9. \A s \in 1 .. n : structs'[s].whole = structs[s].whole
    BY <1>5
<1>10. StackOpen'
  <2>1. ASSUME NEW i \in 1 .. L
        PROVE  /\ ~structs'[calls'[i].struct].whole
               /\ \A j \in 1 .. L : calls'[i].struct = calls'[j].struct => i = j
    <3>1. /\ ~structs[calls[i].struct].whole
          /\ \A j \in 1 .. L : calls[i].struct = calls[j].struct => i = j
      BY DEF SizesIInv, StackOpen, L
    <3>2. QED  BY <1>7, <1>8, <1>9, <3>1
  <2>2. QED  BY <1>5, <2>1 DEF StackOpen
<1>11. NoCircle'
  <2>1. ASSUME NEW s \in 1 .. n, structs'[s].whole
        PROVE  structs[s].whole /\ structs'[s].members = structs[s].members
    <3>1. s # k
      BY <1>4, <1>9, <2>1
    <3>2. QED  BY <1>5, <2>1, <3>1
  <2>2. QED  BY <1>1, <1>6, <2>1, NoCircleStays DEF SizesIInv
<1>12. QED  BY <1>10, <1>11

\* A struct on the stack is below the one that is left.
LEMMA BackStack ==
    ASSUME SizesIInv, calls # <<>>, NEW t, CameBack(t)
    PROVE  \A i \in 1 .. Len(calls') :
              /\ calls'[i].struct # Top.struct
              /\ calls'[i].struct \in 1 .. Len(structs)
              /\ ~structs[calls'[i].struct].whole
              /\ \A j \in 1 .. Len(calls') : calls'[i].struct = calls'[j].struct => i = j
<1> DEFINE L == Len(calls)
<1>1. L \in Nat \ {0} /\ Top = calls[L] /\ IInv
    BY TopShape DEF SizesIInv
<1>2. Len(calls') = L - 1 /\ \A j \in 1 .. L - 1 : calls'[j].struct = calls[j].struct
    BY <1>1, CameBackStructs
<1>3. \A i \in 1 .. L : /\ ~structs[calls[i].struct].whole
                        /\ calls[i].struct \in 1 .. Len(structs)
                        /\ \A j \in 1 .. L : calls[i].struct = calls[j].struct => i = j
    BY <1>1 DEF SizesIInv, StackOpen, IInv, CallsOK, CallOK
<1> HIDE DEF L
<1>4. L \in 1 .. L /\ \A i \in 1 .. L - 1 : i \in 1 .. L /\ i # L
    BY <1>1
<1>5. \A i \in 1 .. L - 1 : calls[i].struct # Top.struct
    BY <1>1, <1>3, <1>4
<1>6. QED  BY <1>2, <1>3, <1>4, <1>5

\* The innermost struct becomes whole: a circle through it is a walk that
\* contain_loop would have found.
LEMMA StructWholeSizes ==
    ASSUME SizesIInv, StructWhole
    PROVE  StackOpen' /\ NoCircle'
<1> DEFINE n == Len(structs)
           k == Top.struct
<1>1. /\ calls # <<>> /\ n \in Nat /\ DOMAIN structs = 1 .. n /\ CallOK(Top, n) /\ IInv
    BY TopShape DEF StructWhole, AtEnd, Busy, SizesIInv
<1>2. BecameWhole /\ CameBack(StructTp(k))
    BY <1>1, StructWholeShape
<1>3. k \in 1 .. n /\ Current = structs[k]
    BY <1>1 DEF CallOK, Current
<1>4. /\ Len(structs') = n
      /\ \A s \in 1 .. n : s # k => structs'[s] = structs[s]
      /\ \A s \in 1 .. n : structs'[s].members = structs[s].members
    BY <1>2, <1>3 DEF BecameWhole, OthersSame
<1>5. DOMAIN structs' = 1 .. n
  <2>1. IInv'
    BY <1>1, StructWholeKeeps
  <2>2. IsSeq(structs')
    BY <2>1 DEF IInv, StructsOK
  <2>3. QED  BY <1>4, <2>2, SeqShape
<1>6. StackOpen'
  <2>1. \A i \in 1 .. Len(calls') :
            /\ calls'[i].struct # k /\ calls'[i].struct \in 1 .. n
            /\ ~structs[calls'[i].struct].whole
            /\ \A j \in 1 .. Len(calls') : calls'[i].struct = calls'[j].struct => i = j
    BY <1>1, <1>2, BackStack
  <2> HIDE DEF n, k
  <2>2. \A i \in 1 .. Len(calls') : structs'[calls'[i].struct] = structs[calls'[i].struct]
    BY <1>4, <2>1
  <2>3. QED  BY <2>1, <2>2 DEF StackOpen
<1>7. ~ContainLoop(k)
    BY DEF StructWhole, IsWhole
<1> HIDE DEF n, k
<1>8. NoCircle'
  <2>1. SUFFICES ASSUME NEW c \in SUBSET (1 .. n), Circle(c)'
                 PROVE  FALSE
    BY <1>5 DEF NoCircle
  <2>2. ASSUME NEW s \in c
        PROVE  /\ s \in 1 .. n /\ structs'[s].whole
               /\ Holds(s) \cap c # {}
    <3>1. s \in 1 .. n /\ structs'[s].whole /\ Holds(s)' \cap c # {}
      BY <2>1 DEF Circle
    <3>2. Holds(s)' = Holds(s)
      BY <1>4, <3>1, SameHolds
    <3>3. QED  BY <3>1, <3>2
  <2>3. CASE k \in c
    <3>1. c \in SUBSET {r \in DOMAIN structs : HoldsTrait(r) \/ Holds(r) # {}}
      BY <1>1, <2>2 DEF n
    <3>2. \A r \in c : HoldsTrait(r) \/ Holds(r) \cap c # {}
      BY <2>2
    <3>3. ContainLoop(k)
      BY <2>3, <3>1, <3>2 DEF ContainLoop
    <3>4. QED  BY <1>7, <3>3
  <2>4. CASE k \notin c
    <3>1. \A s \in c : structs[s].whole
      BY <1>4, <2>2, <2>4
    <3>2. c # {}
      BY <2>1 DEF Circle
    <3>3. Circle(c) /\ c \in SUBSET DOMAIN structs
      BY <1>1, <2>2, <3>1, <3>2 DEF Circle, n
    <3>4. QED  BY <3>3 DEF SizesIInv, NoCircle
  <2>5. QED  BY <2>3, <2>4
<1>9. QED  BY <1>6, <1>8

\* A new struct is open, and on the stack once.
LEMMA PushSizes ==
    ASSUME SizesIInv, NEW of, NEW arg, NEW text, NEW saved,
           Pushed(of, arg, text, saved), IInv'
    PROVE  StackOpen' /\ NoCircle'
<1> DEFINE L == Len(calls)
           n == Len(structs)
<1>1. /\ L \in Nat /\ n \in Nat /\ DOMAIN structs = 1 .. n /\ IInv
      /\ DOMAIN structs' = 1 .. Len(structs')
    BY SeqShape DEF SizesIInv, IInv, StructsOK, CallsOK
<1>2. /\ Len(calls') = L + 1
      /\ \A j \in 1 .. L : calls'[j] = calls[j]
      /\ calls'[L + 1].struct = n + 1
      /\ Len(structs') = n + 1
      /\ \A s \in 1 .. n : structs'[s] = structs[s]
      /\ ~structs'[n + 1].whole
    BY DEF Pushed
<1>3. \A i \in 1 .. L : /\ ~structs[calls[i].struct].whole
                        /\ calls[i].struct \in 1 .. n
                        /\ \A j \in 1 .. L : calls[i].struct = calls[j].struct => i = j
    BY <1>1 DEF SizesIInv, StackOpen, IInv, CallsOK, CallOK
<1> HIDE DEF L, n
<1>4. \A i \in 1 .. L + 1 : i = L + 1 \/ i \in 1 .. L
    BY <1>1
<1>5. n + 1 \notin 1 .. n /\ \A s \in 1 .. n + 1 : s = n + 1 \/ s \in 1 .. n
    BY <1>1
<1>6. StackOpen'
  <2>1. ASSUME NEW i \in 1 .. L + 1
        PROVE  /\ ~structs'[calls'[i].struct].whole
               /\ \A j \in 1 .. L + 1 : calls'[i].struct = calls'[j].struct => i = j
    <3>1. CASE i = L + 1
      BY <1>2, <1>3, <1>4, <1>5, <3>1
    <3>2. CASE i \in 1 .. L
      BY <1>2, <1>3, <1>4, <1>5, <3>2
    <3>3. QED  BY <1>4, <3>1, <3>2
  <2>2. QED  BY <1>2, <2>1 DEF StackOpen
<1>7. NoCircle'
  <2>1. ASSUME NEW s \in 1 .. n + 1, structs'[s].whole
        PROVE  /\ s \in 1 .. n /\ structs[s].whole
               /\ structs'[s].members = structs[s].members
    BY <1>2, <1>5, <2>1
  <2>2. QED  BY <1>1, <1>2, <2>1, NoCircleStays DEF SizesIInv
<1>8. QED  BY <1>6, <1>7

\* The steps that make a struct, as one.
LEMMA PushSteps ==
    ASSUME IInv
    PROVE  /\ GenericImpl =>
                LET sig == Signature(Node.name, Top.val) IN
                Pushed(Node.name, Top.val, sig, binding'[Node.name])
           /\ \A p \in Plain : StructDecl(p) /\ PlainName(p) \notin DOMAIN types =>
                Pushed(p, Error, [of |-> Label[p], args |-> <<>>], Error)
<1>1. ASSUME GenericImpl
      PROVE  LET sig == Signature(Node.name, Top.val) IN
             Pushed(Node.name, Top.val, sig, binding'[Node.name])
  <2> DEFINE sig == Signature(Node.name, Top.val)
  <2>1. /\ Register(sig, NewStruct(Node.name, Top.val, sig))
        /\ calls' = Append(calls, Call(Len(structs) + 1, binding'[Node.name]))
    BY <1>1 DEF GenericImpl
  <2> HIDE DEF sig
  <2>2. Pushed(Node.name, Top.val, sig, binding'[Node.name])
    BY <2>1, PushShape
  <2>3. QED  BY <2>2 DEF sig
<1>2. ASSUME NEW p \in Plain, StructDecl(p), PlainName(p) \notin DOMAIN types
      PROVE  Pushed(p, Error, [of |-> Label[p], args |-> <<>>], Error)
  <2> DEFINE text == [of |-> Label[p], args |-> <<>>]
  <2>1. /\ Register(PlainName(p), NewStruct(p, Error, text))
        /\ calls = <<>> /\ calls' = <<Call(Len(structs) + 1, Error)>>
    BY <1>2 DEF StructDecl, Declares
  <2>2. calls' = Append(calls, Call(Len(structs) + 1, Error))
    BY <2>1
  <2> HIDE DEF text
  <2>3. Pushed(p, Error, text, Error)
    BY <2>1, <2>2, PushShape
  <2>4. QED  BY <2>3 DEF text
<1>3. QED  BY <1>1, <1>2

\* A node is evaluated, and the stack stays.
LEMMA YieldSteps ==
    ASSUME IInv, Identifier \/ PointerDesc \/ GenericOfError \/ GenericKnown \/ GenericRefused
    PROVE  /\ calls # <<>>
           /\ UNCHANGED <<body, binding, types, structs, aborted, decls>>
           /\ Went(IF Identifier THEN GetType(Node)
                   ELSE IF PointerDesc THEN Pointer(Top.val)
                   ELSE IF GenericKnown THEN StructTp(types[Signature(Node.name, Top.val)])
                   ELSE Error)
<1>1. calls # <<>>
    BY DEF Identifier, PointerDesc, GenericOfError, GenericKnown, GenericRefused,
           AtUnknownGeneric, AtGeneric, AtNode, Busy
<1>2. CASE Identifier
    BY <1>1, <1>2, YieldShape DEF Identifier
<1>3. CASE ~Identifier /\ PointerDesc
    BY <1>1, <1>3, YieldShape DEF PointerDesc
<1>4. CASE ~Identifier /\ ~PointerDesc /\ GenericKnown
    BY <1>1, <1>4, YieldShape DEF GenericKnown
<1>5. CASE ~Identifier /\ ~PointerDesc /\ ~GenericKnown
    BY <1>1, <1>5, YieldShape DEF GenericOfError, GenericRefused
<1>6. QED  BY <1>2, <1>3, <1>4, <1>5

\* No step leaves the invariant.
LEMMA NextSizes == SizesIInv /\ [Next]_vars => SizesIInv'
<1> SUFFICES ASSUME SizesIInv, [Next]_vars PROVE SizesIInv'
    OBVIOUS
<1>1. IInv /\ IInv'
    BY NextIInv DEF SizesIInv
<1> SUFFICES StackOpen' /\ NoCircle'
    BY <1>1 DEF SizesIInv
<1>2. CASE Identifier \/ PointerDesc \/ GenericOfError \/ GenericKnown \/ GenericRefused
  <2>1. PICK t : calls # <<>> /\ structs' = structs /\ Went(t)
    BY <1>1, <1>2, YieldSteps
  <2>2. QED  BY <2>1, WentSizes
<1>3. CASE GenericImpl
  <2>1. PICK of, arg, text, saved : Pushed(of, arg, text, saved)
    BY <1>1, <1>3, PushSteps
  <2>2. QED  BY <1>1, <2>1, PushSizes
<1>4. CASE BuildMember
    BY <1>4, BuildMemberSizes
<1>5. CASE StructWhole
    BY <1>5, StructWholeSizes
<1>6. CASE StructFails
  <2>1. calls # <<>> /\ structs' = structs /\ CameBack(Error)
    BY <1>1, <1>6, BackShape DEF StructFails, AtEnd, Busy
  <2>2. /\ Len(calls) \in Nat \ {0} /\ Len(calls') = Len(calls) - 1
        /\ \A j \in 1 .. Len(calls') : calls'[j].struct = calls[j].struct
    BY <1>1, <2>1, CameBackStructs
  <2>3. Len(calls') \in Nat /\ Len(calls') <= Len(calls)
    BY <2>2
  <2>4. QED  BY <2>1, <2>2, <2>3, SameStack
<1>7. CASE StructAborts \/ Stop \/ UNCHANGED vars \/ \E g \in Generics : GenericDecl(g)
  <2>1. structs' = structs /\ calls' = calls
    BY <1>7 DEF StructAborts, Stop, vars, GenericDecl
  <2>2. Len(calls) \in Nat
    BY <1>1, SeqShape DEF IInv, CallsOK
  <2>3. QED  BY <2>1, <2>2, SameStack
<1>8. CASE \E p \in Plain : StructDecl(p)
  <2>1. PICK p \in Plain : StructDecl(p)
    BY <1>8
  <2>2. CASE PlainName(p) \in DOMAIN types
    <3>1. structs' = structs /\ calls' = calls
      BY <2>1, <2>2 DEF StructDecl
    <3>2. Len(calls) \in Nat
      BY <1>1, SeqShape DEF IInv, CallsOK
    <3>3. QED  BY <3>1, <3>2, SameStack
  <2>3. CASE PlainName(p) \notin DOMAIN types
    <3>1. PICK of, arg, text, saved : Pushed(of, arg, text, saved)
      BY <1>1, <2>1, <2>3, PushSteps
    <3>2. QED  BY <1>1, <3>1, PushSizes
  <2>4. QED  BY <2>2, <2>3
<1>9. QED
    BY <1>2, <1>3, <1>4, <1>5, <1>6, <1>7, <1>8 DEF Next, Evaluate

\* The invariant holds from the start.
LEMMA InitSizes == Init => SizesIInv
<1> SUFFICES ASSUME Init PROVE SizesIInv
    OBVIOUS
<1>1. IInv /\ structs = <<>> /\ calls = <<>>
    BY InitIInv DEF Init
<1>2. Len(calls) = 0 /\ DOMAIN structs = {}
    BY <1>1, EmptySeq, SeqShape DEF IInv, StructsOK
<1>3. StackOpen /\ NoCircle
    BY <1>2 DEF StackOpen, NoCircle, Circle
<1>4. QED  BY <1>1, <1>3 DEF SizesIInv

\* No struct that can be named between declarations holds itself by value,
\* directly or through others, though each was checked when those around it
\* were half-built (contain_loop of inc/sdtype.h).
THEOREM NoStructHoldsItself == Spec => []SizesFinite
<1>1. SizesIInv => SizesFinite
  <2> SUFFICES ASSUME SizesIInv, Quiet,
                      NEW circle \in SUBSET {s \in Registered : Holds(s) # {}}, circle # {},
                      \A s \in circle : Holds(s) \cap circle # {}
               PROVE  FALSE
    BY DEF SizesFinite
  <2>1. Len(calls) = 0
    BY EmptySeq DEF Quiet
  <2>2. \A s \in Registered : s \in 1 .. Len(structs) /\ structs[s].whole
    BY <2>1 DEF Registered, SizesIInv, IInv, NamesOK
  <2>3. DOMAIN structs = 1 .. Len(structs)
    BY SeqShape DEF SizesIInv, IInv, StructsOK
  <2>4. Circle(circle) /\ circle \in SUBSET DOMAIN structs
    BY <2>2, <2>3 DEF Circle
  <2>5. QED  BY <2>4 DEF SizesIInv, NoCircle
<1>2. QED  BY <1>1, InitSizes, NextSizes, PTL DEF Spec

-----------------------------------------------------------------------------
(* What fails is reported.                                                 *)
(*                                                                         *)
(* As long as no error was reported no type is one: what the declarations  *)
(* name was declared and is in the table, the parameters are bound to      *)
(* types, and so are the members.  A struct that fails then has a member   *)
(* of void, a duplicate or a circle, and says so.                          *)

GoodType(t) == t.of[1] # "error"

DeclsOK ==
    /\ IsSeq(decls)
    /\ \A d \in Range(decls) : d \in Generics \cup Plain /\ Named(d) \subseteq Range(decls)

StructsTold ==
    \A s \in 1 .. Len(structs) :
        /\ structs[s].of \in Range(decls)
        /\ structs[s].whole \/ \E i \in 1 .. Len(calls) : calls[i].struct = s
        /\ \A i \in 1 .. Len(structs[s].members) : GoodType(structs[s].members[i])

CallsTold ==
    \A i \in 1 .. Len(calls) :
        /\ calls[i].node # 1 => GoodType(calls[i].val)
        /\ i # 1 => GoodType(calls[i].saved)

TablesTold ==
    /\ \A g \in Generics : GoodType(binding[g])
    /\ \A p \in Plain \cap Range(decls) : PlainName(p) \in DOMAIN types

NoErrors == StructsTold /\ CallsTold /\ TablesTold

FailuresIInv ==
    /\ IInv
    /\ DeclsOK
    /\ aborted => errors
    /\ ~errors => NoErrors

\* The types that are no errors.
LEMMA GoodTypes ==
    /\ GoodType(Unbound) /\ ~GoodType(Error)
    /\ \A x : GoodType(Tp("prim", x))
    /\ \A s : GoodType(StructTp(s))
    /\ \A t : GoodType(t) => GoodType(Pointer(t)) /\ t # Error
<1>1. Unbound.of[1] = "param" /\ Error.of[1] = "error"
    BY DEF Unbound, Error, Tp
<1>2. \A x : Tp("prim", x).of[1] = "prim"
    BY DEF Tp
<1>3. \A s : StructTp(s).of[1] = "struct"
    BY DEF StructTp, Tp
<1>4. ASSUME NEW t, t.of[1] # "error"
      PROVE  t # Error /\ Pointer(t).of[1] # "error"
  <2>1. t # Error
    BY <1>1, <1>4
  <2>2. Pointer(t).of[1] = t.of[1]
    BY <2>1 DEF Pointer
  <2>3. QED  BY <1>4, <2>1, <2>2
<1>5. QED  BY <1>1, <1>2, <1>3, <1>4 DEF GoodType

\* The member that is evaluated: a chain of nodes, a leaf first, and what
\* they name is what the declaration names.
LEMMA MemberShape ==
    ASSUME IInv, Busy, Top.member <= Len(body[Current.of])
    PROVE  /\ Member.type \in Seq(ChainNode)
           /\ Len(Member.type) \in Nat \ {0}
           /\ \A k \in 1 .. Len(Member.type) : Member.type[k] \in LeafNode <=> k = 1
           /\ \A k \in 1 .. Len(Member.type) :
                Member.type[k].kind \in {"plain", "generic"}
                    => Member.type[k].name \in Named(Current.of)
           /\ Top.member \in DOMAIN body[Current.of]
<1> USE GenericsAssumption
<1>1. Current.of \in Generics \cup Plain /\ CallOK(Top, Len(structs)) /\ body \in Programs
    BY TopShape DEF Busy, StructOK, IInv
<1> DEFINE list == body[Current.of]
<1>2. /\ list \in Seq([name : STRING, type : Seq(ChainNode)])
      /\ \A i \in DOMAIN list :
            /\ list[i].type # <<>>
            /\ \A k \in DOMAIN list[i].type : list[i].type[k] \in LeafNode <=> k = 1
    BY <1>1
<1> HIDE DEF list
<1>3. Top.member \in 1 .. Len(list) /\ DOMAIN list = 1 .. Len(list)
    BY <1>1, <1>2, LenProperties DEF CallOK, list
<1>4. list[Top.member] \in [name : STRING, type : Seq(ChainNode)]
    BY <1>2, <1>3, ElementOfSeq
<1>5. Member.type \in Seq(ChainNode) /\ Member = list[Top.member]
    BY <1>4 DEF Member, list
<1>6. Len(Member.type) \in Nat /\ DOMAIN Member.type = 1 .. Len(Member.type)
    BY <1>5, LenProperties
<1>7. Len(Member.type) # 0
  <2>1. Member.type # <<>>
    BY <1>2, <1>3, <1>5
  <2>2. QED  BY <1>5, <2>1, EmptySeq
<1>8. \A k \in 1 .. Len(Member.type) : Member.type[k] \in LeafNode <=> k = 1
    BY <1>2, <1>3, <1>5, <1>6
<1>9. ASSUME NEW k \in 1 .. Len(Member.type), Member.type[k].kind \in {"plain", "generic"}
      PROVE  Member.type[k].name \in Named(Current.of)
  <2>1. Member.type[k] \in ChainNode
    BY <1>5, <1>9, ElementOfSeq
  <2>2. Member.type[k].name \in Generics \cup Plain
    BY <1>9, <2>1 DEF ChainNode, LeafNode, AroundNode
  <2>3. Member.type[k] \in ToSet(body[Current.of][Top.member].type)
    BY <1>6 DEF ToSet, Member
  <2>4. Top.member \in DOMAIN body[Current.of]
    BY <1>3 DEF list
  <2>5. QED  BY <1>9, <2>2, <2>3, <2>4 DEF Named
<1>10. QED  BY <1>3, <1>5, <1>6, <1>7, <1>8, <1>9 DEF list

\* The node that is evaluated: the first is a leaf, and no other.
LEMMA NodeAt ==
    ASSUME IInv, AtNode
    PROVE  /\ Top.node \in 1 .. Len(Member.type)
           /\ Node = Member.type[Top.node]
           /\ Node \in ChainNode
           /\ Node.kind \in {"param", "prim", "plain"} <=> Top.node = 1
           /\ Node.kind = "plain" => Node.name \in Plain \cap Named(Current.of)
           /\ Node.kind = "generic" => Node.name \in Generics \cap Named(Current.of)
           /\ Node.kind = "param" => Current.of \in Generics
<1>1. /\ Member.type \in Seq(ChainNode)
      /\ Len(Member.type) \in Nat \ {0}
      /\ \A k \in 1 .. Len(Member.type) : Member.type[k] \in LeafNode <=> k = 1
      /\ \A k \in 1 .. Len(Member.type) :
            Member.type[k].kind \in {"plain", "generic"}
                => Member.type[k].name \in Named(Current.of)
    BY MemberShape DEF AtNode
<1>2. Top.node \in 1 .. Len(Member.type)
    BY <1>1, TopShape DEF AtNode, Busy, CallOK
<1>3. Node \in ChainNode /\ (Node.kind = "param" => Current.of \in Generics)
    BY NodeShape
<1>4. Node \in LeafNode <=> Top.node = 1
    BY <1>1, <1>2 DEF Node
<1>5. Node.kind \in {"param", "prim", "plain"} <=> Node \in LeafNode
    BY <1>3 DEF ChainNode, LeafNode, AroundNode
<1>6. /\ Node.kind = "plain" => Node.name \in Plain
      /\ Node.kind = "generic" => Node.name \in Generics
    BY <1>3 DEF ChainNode, LeafNode, AroundNode
<1>7. Node.kind \in {"plain", "generic"} => Node.name \in Named(Current.of)
    BY <1>1, <1>2 DEF Node
<1>8. QED  BY <1>2, <1>3, <1>4, <1>5, <1>6, <1>7 DEF Node

\* The declarations stay when the program and its order do.
LEMMA SameDecls ==
    ASSUME DeclsOK, body' = body, decls' = decls
    PROVE  DeclsOK'
BY DEF DeclsOK, Named

\* A node that is evaluated to a type, or reported.
LEMMA WentFailures ==
    ASSUME FailuresIInv, IInv', calls # <<>>, NEW t, Went(t),
           UNCHANGED <<body, binding, types, structs, aborted, decls>>,
           errors => errors', errors' \/ GoodType(t)
    PROVE  FailuresIInv'
<1>1. DeclsOK' /\ (aborted' => errors')
    BY SameDecls DEF FailuresIInv
<1>2. ASSUME ~errors'
      PROVE  NoErrors'
  <2>1. StructsTold /\ CallsTold /\ TablesTold /\ GoodType(t)
    BY <1>2 DEF FailuresIInv, NoErrors
  <2>2. Len(calls) \in Nat \ {0} /\ Top = calls[Len(calls)]
    BY TopShape DEF FailuresIInv
  <2>3. \A j \in 1 .. Len(calls) : j = Len(calls) \/ j \in 1 .. Len(calls) - 1
    BY <2>2
  <2>4. \A j \in 1 .. Len(calls) :
            /\ calls'[j].struct = calls[j].struct
            /\ calls'[j].saved = calls[j].saved
            /\ calls'[j].node # 1 => GoodType(calls'[j].val)
    BY <2>1, <2>2, <2>3 DEF Went, GoesOn, CallsTold
  <2>5. Len(calls') = Len(calls)
    BY DEF Went
  <2>6. CallsTold'
    BY <2>1, <2>4, <2>5 DEF CallsTold
  <2>7. StructsTold'
    BY <2>1, <2>4, <2>5 DEF StructsTold
  <2>8. TablesTold'
    BY <2>1 DEF TablesTold, PlainName
  <2>9. QED  BY <2>6, <2>7, <2>8 DEF NoErrors
<1>3. QED  BY <1>1, <1>2 DEF FailuresIInv

\* The node that is evaluated is a type, or was reported.
LEMMA YieldFailures ==
    ASSUME FailuresIInv, IInv',
           Identifier \/ PointerDesc \/ GenericOfError \/ GenericKnown \/ GenericRefused
    PROVE  FailuresIInv'
<1>1. IInv /\ calls # <<>> /\ UNCHANGED <<body, binding, types, structs, aborted, decls>> /\ AtNode
    BY YieldSteps DEF FailuresIInv, Identifier, PointerDesc, GenericOfError, GenericKnown,
                      GenericRefused, AtUnknownGeneric, AtGeneric
<1>2. /\ Node.kind \in {"param", "prim", "plain"} <=> Top.node = 1
      /\ Node.kind = "plain" => Node.name \in Plain \cap Named(Current.of)
      /\ Node.kind = "param" => Current.of \in Generics
      /\ Node \in ChainNode
    BY <1>1, NodeAt
<1>3. CASE errors \/ GenericRefused
  <2>1. errors'
    BY <1>3 DEF Identifier, PointerDesc, GenericOfError, GenericKnown, GenericRefused
  <2>2. PICK t : Went(t)
    BY <1>1, YieldSteps
  <2>3. QED  BY <1>1, <2>1, <2>2, WentFailures
<1>4. CASE ~errors /\ ~GenericRefused
  <2>1. StructsTold /\ CallsTold /\ TablesTold
    BY <1>4 DEF FailuresIInv, NoErrors
  <2>2. Len(calls) \in 1 .. Len(calls) /\ Top = calls[Len(calls)] /\ Current = structs[Top.struct]
        /\ Top.struct \in 1 .. Len(structs)
    BY <1>1, TopShape DEF CallOK, Current
  <2>3. Top.node # 1 => GoodType(Top.val)
    BY <2>1, <2>2 DEF CallsTold
  <2>4. Named(Current.of) \subseteq Range(decls)
    BY <2>1, <2>2 DEF StructsTold, FailuresIInv, DeclsOK
  <2>5. CASE Identifier
    <3>1. CASE Node.kind = "param"
      <4>1. GetType(Node) = binding[Current.of]
        BY <3>1 DEF GetType
      <4>2. GoodType(GetType(Node))
        BY <1>2, <2>1, <3>1, <4>1 DEF TablesTold
      <4>3. QED  BY <1>1, <2>5, <4>2, YieldSteps, WentFailures DEF Identifier
    <3>2. CASE Node.kind = "prim"
      <4>1. GetType(Node) = Tp("prim", Node.name)
        BY <3>2 DEF GetType
      <4>2. GoodType(GetType(Node))
        BY <4>1, GoodTypes
      <4>3. QED  BY <1>1, <2>5, <4>2, YieldSteps, WentFailures DEF Identifier
    <3>3. CASE Node.kind = "plain"
      <4>1. PlainName(Node.name) \in DOMAIN types
        BY <1>2, <2>1, <2>4, <3>3 DEF TablesTold
      <4>2. GetType(Node) = StructTp(types[PlainName(Node.name)])
        BY <3>3, <4>1 DEF GetType
      <4>3. GoodType(GetType(Node))
        BY <4>2, GoodTypes
      <4>4. QED  BY <1>1, <2>5, <4>3, YieldSteps, WentFailures DEF Identifier
    <3>4. QED  BY <2>5, <3>1, <3>2, <3>3 DEF Identifier
  <2>6. CASE ~Identifier
    <3>1. Top.node # 1 /\ GoodType(Top.val) /\ Top.val # Error
      <4>1. Node.kind \notin {"param", "prim", "plain"}
        BY <1>1, <2>6 DEF Identifier, PointerDesc, GenericOfError, GenericKnown,
                          GenericRefused, AtUnknownGeneric, AtGeneric
      <4>2. Top.node # 1
        BY <1>2, <4>1
      <4>3. QED  BY <2>3, <4>2, GoodTypes
    <3>2. ~GenericOfError
      BY <3>1 DEF GenericOfError
    <3>3. CASE PointerDesc
      <4>1. Went(Pointer(Top.val)) /\ GoodType(Pointer(Top.val))
        BY <1>1, <2>6, <3>1, <3>3, YieldSteps, GoodTypes
      <4>2. QED  BY <1>1, <3>3, <4>1, WentFailures DEF PointerDesc
    <3>4. CASE ~PointerDesc /\ GenericKnown
      <4> DEFINE t == StructTp(types[Signature(Node.name, Top.val)])
      <4>1. Went(t) /\ GoodType(t)
        BY <1>1, <2>6, <3>4, YieldSteps, GoodTypes
      <4> HIDE DEF t
      <4>2. QED  BY <1>1, <3>4, <4>1, WentFailures DEF GenericKnown
    <3>5. QED  BY <1>4, <2>6, <3>2, <3>3, <3>4
  <2>7. QED  BY <2>5, <2>6
<1>5. QED  BY <1>3, <1>4

\* A member is appended: it is the type its nodes were evaluated to.
LEMMA BuildMemberFailures ==
    ASSUME FailuresIInv, IInv', BuildMember
    PROVE  FailuresIInv'
<1>1. IInv /\ Busy /\ calls # <<>> /\ GotMember
    BY BuildMemberShape DEF FailuresIInv, BuildMember, Busy
<1>2. UNCHANGED <<body, binding, types, errors, aborted, decls>>
    BY DEF BuildMember
<1>3. DeclsOK' /\ (aborted' => errors')
    BY <1>2, SameDecls DEF FailuresIInv
<1>4. ASSUME ~errors'
      PROVE  NoErrors'
  <2> DEFINE L == Len(calls)
             n == Len(structs)
             k == Top.struct
  <2>1. StructsTold /\ CallsTold /\ TablesTold
    BY <1>2, <1>4 DEF FailuresIInv, NoErrors
  <2>2. /\ L \in Nat \ {0} /\ L \in 1 .. L /\ Top = calls[L]
        /\ Current = structs[k] /\ k \in 1 .. n /\ StructOK(Current, n)
        /\ Top.node \in Nat
    BY <1>1, TopShape DEF CallOK, Current
  <2>3. Top.node # 1
    <3>1. Len(Member.type) \in Nat \ {0} /\ Top.node > Len(Member.type)
      BY <1>1, MemberShape DEF BuildMember
    <3>2. QED  BY <2>2, <3>1
  <2>4. GoodType(Top.val)
    BY <2>1, <2>2, <2>3 DEF CallsTold
  <2>5. Len(Current.members) \in Nat
    BY <2>2, SeqShape DEF StructOK
  <2>6. /\ Len(structs') = n
        /\ \A s \in 1 .. n : s # k => structs'[s] = structs[s]
        /\ structs'[k].of = structs[k].of
        /\ structs'[k].whole = structs[k].whole
        /\ Len(structs'[k].members) = Len(Current.members) + 1
        /\ \A i \in 1 .. Len(Current.members) : structs'[k].members[i] = Current.members[i]
        /\ structs'[k].members[Len(Current.members) + 1] = Top.val
        /\ Len(calls') = L
        /\ \A j \in 1 .. L - 1 : calls'[j] = calls[j]
        /\ calls'[L].struct = k /\ calls'[L].saved = Top.saved /\ calls'[L].node = 1
    BY <1>1, <2>2 DEF GotMember, OthersSame
  <2> HIDE DEF L, n, k
  <2>7. \A j \in 1 .. L : j = L \/ j \in 1 .. L - 1
    BY <2>2
  <2>8. \A j \in 1 .. L : /\ calls'[j].struct = calls[j].struct
                          /\ calls'[j].saved = calls[j].saved
                          /\ calls'[j].node # 1 => calls'[j] = calls[j]
    BY <2>2, <2>6, <2>7 DEF k
  <2>9. CallsTold'
    BY <2>1, <2>6, <2>8 DEF CallsTold, L
  <2>10. ASSUME NEW s \in 1 .. n
         PROVE  /\ structs'[s].of \in Range(decls)
                /\ structs'[s].whole \/ \E i \in 1 .. L : calls'[i].struct = s
                /\ \A i \in 1 .. Len(structs'[s].members) : GoodType(structs'[s].members[i])
    <3>1. /\ structs[s].of \in Range(decls)
          /\ structs[s].whole \/ \E i \in 1 .. L : calls[i].struct = s
          /\ \A i \in 1 .. Len(structs[s].members) : GoodType(structs[s].members[i])
      BY <2>1 DEF StructsTold, n, L
    <3>2. structs'[s].whole \/ \E i \in 1 .. L : calls'[i].struct = s
      BY <2>6, <2>8, <3>1
    <3>3. CASE s = k
      <4>1. \A i \in 1 .. Len(Current.members) + 1 :
                i = Len(Current.members) + 1 \/ i \in 1 .. Len(Current.members)
        BY <2>5
      <4>2. \A i \in 1 .. Len(structs'[s].members) : GoodType(structs'[s].members[i])
        BY <2>2, <2>4, <2>6, <3>1, <3>3, <4>1
      <4>3. structs'[s].of = structs[s].of
        BY <2>2, <2>6, <3>3
      <4>4. QED  BY <3>1, <3>2, <4>2, <4>3
    <3>4. CASE s # k
      BY <2>6, <3>1, <3>2, <3>4
    <3>5. QED  BY <3>3, <3>4
  <2>11. StructsTold'
    BY <1>2, <2>6, <2>10 DEF StructsTold
  <2>12. TablesTold'
    BY <1>2, <2>1 DEF TablesTold, PlainName
  <2>13. QED  BY <2>9, <2>11, <2>12 DEF NoErrors
<1>5. QED  BY <1>1, <1>3, <1>4 DEF FailuresIInv

\* The first bad member is one of the members.
LEMMA FirstBadIs ==
    ASSUME IsSeq(Current.members), HasBadMember
    PROVE  FirstBadMember \in 1 .. Len(Current.members)
<1> DEFINE I == {i \in 1 .. Len(Current.members) : IsBad(Current.members[i])}
<1>1. DOMAIN Current.members = 1 .. Len(Current.members)
    BY SeqShape
<1>2. I # {} /\ I \subseteq Nat
    BY <1>1 DEF HasBadMember
<1>3. FirstBadMember = Min(I)
    BY <1>2 DEF FirstBadMember, SelectInSeq
<1>4. I \subseteq 1 .. Len(Current.members)
    OBVIOUS
<1> HIDE DEF I
<1>5. \E m \in I : \A k \in I : m <= k
    BY <1>2, LeastNumber
<1>6. Min(I) \in I
    BY <1>5 DEF Min
<1>7. QED  BY <1>3, <1>4, <1>6

\* A struct that fails is reported.
LEMMA StructFailsReports ==
    ASSUME FailuresIInv, StructFails
    PROVE  errors'
<1>1. SUFFICES ASSUME ~errors, ~IsReported PROVE FALSE
    BY DEF StructFails, FailuresIInv, IInv, FlagsOK
<1>2. HasBadMember /\ Current.members[FirstBadMember] = Error
    BY <1>1 DEF IsReported
<1>3. /\ CallOK(Top, Len(structs)) /\ Current = structs[Top.struct]
      /\ IsSeq(Current.members)
    BY TopShape DEF FailuresIInv, StructFails, AtEnd, Busy, StructOK, Current
<1>4. FirstBadMember \in 1 .. Len(Current.members)
    BY <1>2, <1>3, FirstBadIs
<1>5. GoodType(Current.members[FirstBadMember])
    BY <1>1, <1>3, <1>4 DEF FailuresIInv, NoErrors, StructsTold, CallOK
<1>6. QED  BY <1>2, <1>5, GoodTypes

\* The innermost struct is whole, and the one below goes on with it.
LEMMA StructWholeFailures ==
    ASSUME FailuresIInv, IInv', StructWhole
    PROVE  FailuresIInv'
<1> USE GenericsAssumption
<1> DEFINE L == Len(calls)
           n == Len(structs)
           k == Top.struct
<1>1. IInv /\ calls # <<>> /\ BecameWhole /\ CameBack(StructTp(k))
    BY StructWholeShape DEF FailuresIInv, StructWhole, AtEnd, Busy
<1>2. UNCHANGED <<body, types, errors, aborted, decls>> /\ Leave
    BY DEF StructWhole
<1>3. DeclsOK' /\ (aborted' => errors')
    BY <1>2, SameDecls DEF FailuresIInv
<1>4. ASSUME ~errors'
      PROVE  NoErrors'
  <2>1. StructsTold /\ CallsTold /\ TablesTold
    BY <1>2, <1>4 DEF FailuresIInv, NoErrors
  <2>2. /\ L \in Nat \ {0} /\ L \in 1 .. L /\ Top = calls[L]
        /\ Current = structs[k] /\ k \in 1 .. n
        /\ Current.of \in (IF L = 1 THEN Plain ELSE Generics)
    BY <1>1, TopShape DEF CallOK, Current
  <2>3. /\ Len(calls') = L - 1
        /\ \A j \in 1 .. L - 1 : calls'[j].struct = calls[j].struct
    BY <1>1, CameBackStructs
  <2>4. /\ Len(structs') = n
        /\ \A s \in 1 .. n : s # k => structs'[s] = structs[s]
        /\ structs'[k].of = structs[k].of /\ structs'[k].members = structs[k].members
        /\ structs'[k].whole
    BY <1>1, <2>2 DEF BecameWhole, OthersSame
  <2>5. \A j \in 1 .. L - 1 : /\ calls'[j].saved = calls[j].saved
                              /\ calls'[j].node # 1 => GoodType(calls'[j].val)
    <3>1. \A j \in 1 .. L - 1 : L # 1 /\ (j = L - 1 \/ j \in 1 .. L - 2)
      BY <2>2
    <3>2. \A j \in 1 .. L - 1 : j \in 1 .. L
      BY <2>2
    <3>3. GoodType(StructTp(k))
      BY GoodTypes
    <3>4. QED  BY <1>1, <2>1, <3>1, <3>2, <3>3 DEF CameBack, GoesOn, CallsTold
  <2>6. ASSUME NEW g \in Generics
        PROVE  GoodType(binding'[g])
    <3>1. CASE IsInstance
      <4>1. L # 1
        BY <2>2, <3>1 DEF IsInstance
      <4>2. GoodType(Top.saved)
        BY <2>1, <2>2, <4>1 DEF CallsTold
      <4>3. binding' = [binding EXCEPT ![Current.of] = Top.saved]
        BY <1>2, <3>1 DEF Leave
      <4>4. DOMAIN binding = Generics
        BY <1>1 DEF IInv, BindingOK
      <4>5. QED  BY <2>1, <4>2, <4>3, <4>4 DEF TablesTold
    <3>2. CASE ~IsInstance
      BY <1>2, <2>1, <3>2 DEF Leave, TablesTold
    <3>3. QED  BY <3>1, <3>2
  <2>7. TablesTold'
    BY <1>2, <2>1, <2>6 DEF TablesTold, PlainName
  <2> HIDE DEF L, n, k
  <2>8. CallsTold'
    <3>1. \A j \in 1 .. L - 1 : j \in 1 .. L
      BY <2>2
    <3>2. QED  BY <2>1, <2>3, <2>5, <3>1 DEF CallsTold, L
  <2>9. ASSUME NEW s \in 1 .. n
        PROVE  /\ structs'[s].of \in Range(decls)
               /\ structs'[s].whole \/ \E i \in 1 .. L - 1 : calls'[i].struct = s
               /\ \A i \in 1 .. Len(structs'[s].members) : GoodType(structs'[s].members[i])
    <3>1. /\ structs[s].of \in Range(decls)
          /\ structs[s].whole \/ \E i \in 1 .. L : calls[i].struct = s
          /\ \A i \in 1 .. Len(structs[s].members) : GoodType(structs[s].members[i])
      BY <2>1 DEF StructsTold, n, L
    <3>2. CASE s = k
      BY <2>4, <3>1, <3>2
    <3>3. CASE s # k
      <4>1. \A i \in 1 .. L : calls[i].struct = s => i \in 1 .. L - 1
        BY <2>2, <3>3 DEF k
      <4>2. QED  BY <2>3, <2>4, <3>1, <3>3, <4>1
    <3>4. QED  BY <3>2, <3>3
  <2>10. StructsTold'
    BY <1>2, <2>3, <2>4, <2>9 DEF StructsTold
  <2>11. QED  BY <2>7, <2>8, <2>10 DEF NoErrors
<1>5. QED  BY <1>3, <1>4 DEF FailuresIInv

\* A struct is made: its declaration was processed, and it has no members yet.
LEMMA PushFailures ==
    ASSUME IInv, IInv', NoErrors, NEW of \in Range(decls'), NEW arg, NEW text, NEW saved,
           Pushed(of, arg, text, saved), Len(calls) # 0 => GoodType(saved),
           Range(decls) \subseteq Range(decls'), TablesTold'
    PROVE  NoErrors'
<1> DEFINE L == Len(calls)
           n == Len(structs)
<1>1. L \in Nat /\ n \in Nat
    BY SeqShape DEF IInv, StructsOK, CallsOK
<1>2. /\ Len(calls') = L + 1
      /\ \A j \in 1 .. L : calls'[j] = calls[j]
      /\ calls'[L + 1].struct = n + 1 /\ calls'[L + 1].node = 1 /\ calls'[L + 1].saved = saved
      /\ Len(structs') = n + 1
      /\ \A s \in 1 .. n : structs'[s] = structs[s]
      /\ structs'[n + 1].of = of /\ Len(structs'[n + 1].members) = 0
    BY DEF Pushed
<1>3. L # 0 => GoodType(saved)
    OBVIOUS
<1> HIDE DEF L, n
<1>4. /\ \A i \in 1 .. L + 1 : i = L + 1 \/ i \in 1 .. L
      /\ \A s \in 1 .. n + 1 : s = n + 1 \/ s \in 1 .. n
      /\ L + 1 \in 1 .. L + 1 /\ \A i \in 1 .. L : i \in 1 .. L + 1
    BY <1>1
<1>5. ASSUME NEW i \in 1 .. L + 1
      PROVE  /\ calls'[i].node # 1 => GoodType(calls'[i].val)
             /\ i # 1 => GoodType(calls'[i].saved)
  <2>1. CASE i = L + 1
    BY <1>1, <1>2, <1>3, <2>1
  <2>2. CASE i \in 1 .. L
    BY <1>2, <2>2 DEF NoErrors, CallsTold, L
  <2>3. QED  BY <1>4, <2>1, <2>2
<1>6. CallsTold'
    BY <1>2, <1>5 DEF CallsTold
<1>7. ASSUME NEW s \in 1 .. n + 1
      PROVE  /\ structs'[s].of \in Range(decls')
             /\ structs'[s].whole \/ \E i \in 1 .. L + 1 : calls'[i].struct = s
             /\ \A i \in 1 .. Len(structs'[s].members) : GoodType(structs'[s].members[i])
  <2>1. CASE s = n + 1
    BY <1>2, <1>4, <2>1
  <2>2. CASE s \in 1 .. n
    <3>1. /\ structs[s].of \in Range(decls)
          /\ structs[s].whole \/ \E i \in 1 .. L : calls[i].struct = s
          /\ \A i \in 1 .. Len(structs[s].members) : GoodType(structs[s].members[i])
      BY <2>2 DEF NoErrors, StructsTold, n, L
    <3>2. structs'[s].whole \/ \E i \in 1 .. L + 1 : calls'[i].struct = s
      BY <1>2, <1>4, <2>2, <3>1
    <3>3. QED  BY <1>2, <2>2, <3>1, <3>2
  <2>3. QED  BY <1>4, <2>1, <2>2
<1>8. StructsTold'
    BY <1>2, <1>7 DEF StructsTold
<1>9. QED  BY <1>6, <1>8 DEF NoErrors

\* An instance is made of a generic that the declaration names.
LEMMA GenericImplFailures ==
    ASSUME FailuresIInv, IInv', GenericImpl
    PROVE  FailuresIInv'
<1> DEFINE g == Node.name
           sig == Signature(g, Top.val)
<1>1. IInv /\ AtNode /\ calls # <<>> /\ Node.kind = "generic" /\ Top.val # Error
    BY DEF FailuresIInv, GenericImpl, AtUnknownGeneric, AtGeneric, AtNode, Busy
<1>2. UNCHANGED <<body, errors, aborted, decls>> /\ binding' = [binding EXCEPT ![g] = Top.val]
    BY DEF GenericImpl, Bound
<1>3. DeclsOK' /\ (aborted' => errors')
    BY <1>2, SameDecls DEF FailuresIInv
<1>4. g \in Generics /\ g \in Named(Current.of) /\ Top.node # 1
    BY <1>1, NodeAt
<1>5. ASSUME ~errors'
      PROVE  NoErrors'
  <2>1. NoErrors /\ StructsTold /\ CallsTold /\ TablesTold
    BY <1>2, <1>5 DEF FailuresIInv, NoErrors
  <2>2. /\ Len(calls) \in 1 .. Len(calls) /\ Top = calls[Len(calls)]
        /\ Current = structs[Top.struct] /\ Top.struct \in 1 .. Len(structs)
    BY <1>1, TopShape DEF CallOK, Current
  <2>3. GoodType(Top.val)
    BY <1>4, <2>1, <2>2 DEF CallsTold
  <2>4. Named(Current.of) \subseteq Range(decls)
    BY <2>1, <2>2 DEF StructsTold, FailuresIInv, DeclsOK
  <2>5. DOMAIN binding = Generics
    BY <1>1 DEF IInv, BindingOK
  <2>6. binding'[g] = Top.val /\ \A h \in Generics : h # g => binding'[h] = binding[h]
    BY <1>2, <1>4, <2>5
  <2>7. Pushed(g, Top.val, sig, binding'[g])
    BY <1>1, PushSteps
  <2>8. types' = [x \in DOMAIN types \cup {sig} |-> IF x = sig THEN Len(structs) + 1 ELSE types[x]]
    BY DEF GenericImpl, Register
  <2> HIDE DEF g, sig
  <2>9. TablesTold'
    <3>1. \A h \in Generics : GoodType(binding'[h])
      BY <2>1, <2>3, <2>6 DEF TablesTold
    <3>2. \A p \in Plain \cap Range(decls) : PlainName(p) \in DOMAIN types'
      BY <2>1, <2>8 DEF TablesTold
    <3>3. QED  BY <1>2, <3>1, <3>2 DEF TablesTold, PlainName
  <2>10. g \in Range(decls')
    BY <1>2, <1>4, <2>4
  <2>11. GoodType(binding'[g]) /\ Range(decls) \subseteq Range(decls')
    BY <1>2, <2>3, <2>6
  <2>12. QED  BY <1>1, <2>1, <2>7, <2>9, <2>10, <2>11, PushFailures
<1>6. QED  BY <1>3, <1>5 DEF FailuresIInv

\* One more declaration: it names what was declared, or itself.
LEMMA DeclaresKeeps ==
    ASSUME FailuresIInv, NEW d \in Generics \cup Plain, Declares(d), body' = body
    PROVE  DeclsOK' /\ Range(decls') = Range(decls) \cup {d}
<1>1. IsSeq(decls) /\ decls' = Append(decls, d) /\ Len(decls) \in Nat
    BY SeqShape DEF FailuresIInv, DeclsOK, Declares
<1>2. /\ IsSeq(decls') /\ Len(decls') = Len(decls) + 1
      /\ \A i \in 1 .. Len(decls) : decls'[i] = decls[i]
      /\ decls'[Len(decls) + 1] = d
    BY <1>1, AppendShape
<1>3. DOMAIN decls = 1 .. Len(decls) /\ DOMAIN decls' = 1 .. Len(decls) + 1
    BY <1>1, <1>2, SeqShape
<1>4. Range(decls') = Range(decls) \cup {d}
  <2>1. /\ \A i \in 1 .. Len(decls) + 1 : i = Len(decls) + 1 \/ i \in 1 .. Len(decls)
        /\ Len(decls) + 1 \in 1 .. Len(decls) + 1
        /\ \A i \in 1 .. Len(decls) : i \in 1 .. Len(decls) + 1
    BY <1>1
  <2>2. QED  BY <1>2, <1>3, <2>1 DEF Range
<1>5. \A e \in Generics \cup Plain : Named(e)' = Named(e)
    BY DEF Named
<1>6. \A e \in Range(decls') : e \in Generics \cup Plain /\ Named(e) \subseteq Range(decls')
    BY <1>4 DEF FailuresIInv, DeclsOK, Declares
<1>7. DeclsOK'
    BY <1>2, <1>5, <1>6 DEF DeclsOK
<1>8. QED  BY <1>4, <1>7

\* A plain struct is declared: it is in the table, or the error is reported.
LEMMA StructDeclFailures ==
    ASSUME FailuresIInv, IInv', NEW p \in Plain, StructDecl(p)
    PROVE  FailuresIInv'
<1> USE GenericsAssumption
<1>1. Declares(p) /\ UNCHANGED <<body, binding, generic_sub_cnt, aborted>> /\ IInv /\ calls = <<>>
    BY DEF StructDecl, FailuresIInv, Declares
<1>2. DeclsOK' /\ Range(decls') = Range(decls) \cup {p}
    BY <1>1, DeclaresKeeps
<1>3. CASE PlainName(p) \in DOMAIN types
  <2>1. errors'
    BY <1>3 DEF StructDecl
  <2>2. QED  BY <1>2, <2>1 DEF FailuresIInv
<1>4. CASE PlainName(p) \notin DOMAIN types
  <2>1. errors' = errors /\ (aborted' => errors')
    BY <1>1, <1>4 DEF StructDecl, FailuresIInv
  <2>2. ASSUME ~errors'
        PROVE  NoErrors'
    <3>1. NoErrors /\ TablesTold
      BY <2>1, <2>2 DEF FailuresIInv, NoErrors
    <3>2. DOMAIN types' = DOMAIN types \cup {PlainName(p)}
      BY <1>4 DEF StructDecl, Register
    <3>3. \A q \in Plain \cap Range(decls') : PlainName(q) \in DOMAIN types'
      BY <1>2, <3>1, <3>2 DEF TablesTold
    <3>4. TablesTold'
      BY <1>1, <3>1, <3>3 DEF TablesTold, PlainName
    <3>5. PICK text : Pushed(p, Error, text, Error)
      BY <1>1, <1>4, PushSteps
    <3>6. Len(calls) = 0
      BY <1>1, EmptySeq
    <3>7. p \in Range(decls') /\ Range(decls) \subseteq Range(decls')
      BY <1>2
    <3>8. QED  BY <1>1, <3>1, <3>4, <3>5, <3>6, <3>7, PushFailures
  <2>3. QED  BY <1>2, <2>1, <2>2 DEF FailuresIInv
<1>5. QED  BY <1>3, <1>4

\* A generic is declared.
LEMMA GenericDeclFailures ==
    ASSUME FailuresIInv, IInv', NEW g \in Generics, GenericDecl(g)
    PROVE  FailuresIInv'
<1> USE GenericsAssumption
<1>1. /\ Declares(g) /\ binding' = [binding EXCEPT ![g] = Unbound]
      /\ UNCHANGED <<body, types, structs, calls, generic_sub_cnt, errors, aborted>>
    BY DEF GenericDecl
<1>2. DeclsOK' /\ Range(decls') = Range(decls) \cup {g}
    BY <1>1, DeclaresKeeps
<1>3. ASSUME ~errors'
      PROVE  NoErrors'
  <2>1. StructsTold /\ CallsTold /\ TablesTold
    BY <1>1, <1>3 DEF FailuresIInv, NoErrors
  <2>2. DOMAIN binding = Generics
    BY DEF FailuresIInv, IInv, BindingOK
  <2>3. \A h \in Generics : GoodType(binding'[h])
    BY <1>1, <2>1, <2>2, GoodTypes DEF TablesTold
  <2>4. \A q \in Plain \cap Range(decls') : PlainName(q) \in DOMAIN types
    BY <1>2, <2>1 DEF TablesTold
  <2>5. TablesTold'
    BY <1>1, <2>3, <2>4 DEF TablesTold, PlainName
  <2>6. StructsTold' /\ CallsTold'
    BY <1>1, <1>2, <2>1 DEF StructsTold, CallsTold
  <2>7. QED  BY <2>5, <2>6 DEF NoErrors
<1>4. QED  BY <1>1, <1>2, <1>3 DEF FailuresIInv

\* A step that only sets flags, or none.
LEMMA IdleFailures ==
    ASSUME FailuresIInv, IInv', StructAborts \/ Stop \/ UNCHANGED vars
    PROVE  FailuresIInv'
<1>1. UNCHANGED <<body, binding, types, structs, calls, decls>>
    BY DEF StructAborts, Stop, vars
<1>2. (aborted' => errors') /\ (~errors' => ~errors)
    BY DEF StructAborts, Stop, vars, FailuresIInv
<1>3. DeclsOK'
    BY <1>1, SameDecls DEF FailuresIInv
<1>4. NoErrors => NoErrors'
    BY <1>1 DEF NoErrors, StructsTold, CallsTold, TablesTold, PlainName
<1>5. QED  BY <1>2, <1>3, <1>4 DEF FailuresIInv

\* No step leaves the invariant.
LEMMA NextFailures == FailuresIInv /\ [Next]_vars => FailuresIInv'
<1> SUFFICES ASSUME FailuresIInv, [Next]_vars PROVE FailuresIInv'
    OBVIOUS
<1>1. IInv /\ IInv'
    BY NextIInv DEF FailuresIInv
<1>2. CASE Identifier \/ PointerDesc \/ GenericOfError \/ GenericKnown \/ GenericRefused
    BY <1>1, <1>2, YieldFailures
<1>3. CASE GenericImpl
    BY <1>1, <1>3, GenericImplFailures
<1>4. CASE BuildMember
    BY <1>1, <1>4, BuildMemberFailures
<1>5. CASE StructWhole
    BY <1>1, <1>5, StructWholeFailures
<1>6. CASE StructFails
  <2>1. errors'
    BY <1>6, StructFailsReports
  <2>2. UNCHANGED <<body, decls>>
    BY <1>6 DEF StructFails
  <2>3. QED  BY <1>1, <2>1, <2>2, SameDecls DEF FailuresIInv
<1>7. CASE StructAborts \/ Stop \/ UNCHANGED vars
    BY <1>1, <1>7, IdleFailures
<1>8. CASE \E p \in Plain : StructDecl(p)
    BY <1>1, <1>8, StructDeclFailures
<1>9. CASE \E g \in Generics : GenericDecl(g)
    BY <1>1, <1>9, GenericDeclFailures
<1>10. QED
    BY <1>2, <1>3, <1>4, <1>5, <1>6, <1>7, <1>8, <1>9 DEF Next, Evaluate

\* The invariant holds from the start.
LEMMA InitFailures == Init => FailuresIInv
<1> SUFFICES ASSUME Init PROVE FailuresIInv
    OBVIOUS
<1>1. IInv
    BY InitIInv
<1>2. <<>> \in Seq({}) /\ Len(<<>>) = 0
    BY EmptySeq
<1>3. IsSeq(decls) /\ Len(decls) = 0 /\ Len(structs) = 0 /\ Len(calls) = 0
    BY <1>2, SeqIsSeq DEF Init
<1>4. Range(decls) = {}
    BY <1>3, SeqShape DEF Range
<1>5. DeclsOK
    BY <1>3, <1>4 DEF DeclsOK
<1>6. \A g \in Generics : GoodType(binding[g])
    BY GoodTypes DEF Init
<1>7. NoErrors
    BY <1>3, <1>4, <1>6 DEF NoErrors, StructsTold, CallsTold, TablesTold
<1>8. QED  BY <1>1, <1>5, <1>7 DEF Init, FailuresIInv

\* Whatever did not make it into the table was reported, and so was a crash
\* (the append_* calls of check_type in inc/ast.h and of src/ast.cpp).
THEOREM NoSilentFailure == Spec => []FailureReported
<1>1. FailuresIInv => FailureReported
  <2> SUFFICES ASSUME FailuresIInv, ~aborted, ~errors, Quiet, NEW s \in DOMAIN structs
               PROVE  structs[s].whole
    BY DEF FailureReported, FailuresIInv, IInv, FlagsOK
  <2>1. Len(calls) = 0
    BY EmptySeq DEF Quiet
  <2>2. s \in 1 .. Len(structs)
    BY SeqShape DEF FailuresIInv, IInv, StructsOK
  <2>3. QED  BY <2>1, <2>2 DEF FailuresIInv, NoErrors, StructsTold
<1>2. QED  BY <1>1, InitFailures, NextFailures, PTL DEF Spec

-----------------------------------------------------------------------------
(* Members are what the declarations list.                                 *)
(*                                                                         *)
(* A type that was reached by way of a chain of nodes is told by a path    *)
(* of types, one step for each node.  A step stays one when more structs   *)
(* are made, so the paths of suspended calls and of finished members need  *)
(* no second look; between declarations a path is what Values computes.    *)

\* Node makes u of t, when the parameter is arg.
Leads(t, node, arg, u) ==
    \/ node.kind = "param" /\ u = arg
    \/ node.kind = "prim" /\ u = Tp("prim", node.name)
    \/ /\ node.kind = "plain" /\ PlainName(node.name) \in DOMAIN types
       /\ u = StructTp(types[PlainName(node.name)])
    \/ node.kind = "ptr" /\ u = Pointer(t)
    \/ /\ node.kind = "generic"
       /\ \E s \in 1 .. Len(structs) :
            structs[s].of = node.name /\ structs[s].arg = t /\ u = StructTp(s)

IsPath(w, chain, arg, m) ==
    w[0] = Error /\ \A k \in 1 .. m : Leads(w[k - 1], chain[k], arg, w[k])

\* The first m nodes of a chain make the type v.
Reaches(chain, arg, m, v) == \E w : w[m] = v /\ IsPath(w, chain, arg, m)

\* The two gaps of FieldsSubstituted.
NamesItself(s) == structs[s].of \in Generics /\ NamesItselfOtherwise(structs[s].of)

Exempt(s) == NamesItself(s) \/ NamesNamesake(s)

\* The declaration a call builds, its argument and the chain it is at.
OfCall(f)    == structs[f.struct].of
ArgCall(f)   == structs[f.struct].arg
ChainCall(f) == body[OfCall(f)][f.member].type

\* Nothing is deleted, and a name leads to the struct that has it.
AllNamed ==
    \A s \in 1 .. Len(structs) :
        NameOf(structs[s]) \in DOMAIN types /\ types[NameOf(structs[s])] = s

\* An instance prints its generic and its argument, a plain struct none.
ArgKnown(s) ==
    /\ TypeUpTo(structs[s].arg, Len(structs))
    /\ structs[s].of \in Generics => structs[s].text = Signature(structs[s].of, structs[s].arg)
    /\ structs[s].of \in Plain => structs[s].text.args = <<>> /\ ~IsStruct(structs[s].arg)

ArgsKnown == \A s \in 1 .. Len(structs) : ArgKnown(s)

\* A generic is declared once, and names what was declared before, or itself.
DeclOrder ==
    \A i \in 1 .. Len(decls) : \A g \in Generics : g = decls[i] =>
        /\ \A n \in Named(g) : n = g \/ \E j \in 1 .. i - 1 : decls[j] = n
        /\ \A j \in 1 .. Len(decls) : decls[j] = g => j = i

\* What g builds is declared no later than what f builds.
NotLater(g, f) ==
    \A x, y \in 1 .. Len(decls) : decls[x] = OfCall(g) /\ decls[y] = OfCall(f) => x <= y

StackOrder ==
    \A a, b \in 2 .. Len(calls) : a < b =>
        \A f, g : f = calls[a] /\ g = calls[b] => NotLater(g, f)

\* Call f waits for call g: at a node that names it, with its argument.
WaitsFor(f, g) ==
    /\ f.member <= Len(body[OfCall(f)])
    /\ f.node \in 2 .. Len(ChainCall(f))
    /\ ChainCall(f)[f.node].kind = "generic"
    /\ ChainCall(f)[f.node].name = OfCall(g)
    /\ ArgCall(g) = f.val

Waiting ==
    \A a \in 1 .. Len(calls) - 1 :
        \A f, g : f = calls[a] /\ g = calls[a + 1] => WaitsFor(f, g)

\* While an instance is built its parameter is bound to its argument, and no
\* other instance of its generic is.
BoundFor(f) == NamesItself(f.struct) \/ binding[OfCall(f)] = ArgCall(f)

Bindings ==
    \A a \in 2 .. Len(calls) : \A f : f = calls[a] =>
        /\ BoundFor(f)
        /\ \A b \in 2 .. Len(calls) : \A g :
             g = calls[b] /\ OfCall(g) = OfCall(f) /\ ~NamesItself(f.struct) => b = a

\* A call past a parameter has its argument.
HasArgument(f) ==
    f.node = 2 /\ ChainCall(f)[1].kind = "param" => NamesItself(f.struct) \/ f.val = ArgCall(f)

\* The members of the struct so far, and where the call is in the next.
Position(f) ==
    /\ Len(structs[f.struct].members) = f.member - 1
    /\ f.member <= Len(body[OfCall(f)]) + 1
    /\ f.node # 1 => f.member <= Len(body[OfCall(f)]) /\ f.node <= Len(ChainCall(f)) + 1

Means(f) ==
    f.node # 1 => Exempt(f.struct) \/
        \A chain, arg : chain = ChainCall(f) /\ arg = ArgCall(f)
            => Reaches(chain, arg, f.node - 1, f.val)

CallMeans(f) == HasArgument(f) /\ Position(f) /\ Means(f)

CallsMean == \A a \in 1 .. Len(calls) : \A f : f = calls[a] => CallMeans(f)

MemberMeans(s, i) ==
    \A chain, arg, v :
        /\ chain = body[structs[s].of][i].type
        /\ arg = structs[s].arg
        /\ v = structs[s].members[i]
        => Reaches(chain, arg, Len(chain), v)

StructMeans(s) ==
    /\ structs[s].whole => Len(structs[s].members) = Len(body[structs[s].of])
    /\ Exempt(s) \/ \A i \in 1 .. Len(structs[s].members) : MemberMeans(s, i)

StructsMean == \A s \in 1 .. Len(structs) : StructMeans(s)

FieldsKnown ==
    /\ AllNamed /\ ArgsKnown /\ DeclOrder
    /\ StackOrder /\ Waiting /\ Bindings
    /\ CallsMean /\ StructsMean

FieldsIInv ==
    /\ FailuresIInv
    /\ SizesIInv
    /\ ~errors => FieldsKnown

-----------------------------------------------------------------------------
(* Names and instances. *)

\* Two types that print the same are the same, or of two structs that do.
LEMMA TextTells ==
    ASSUME NEW n, NEW t, NEW u, TypeUpTo(t, n), TypeUpTo(u, n), TypeText(t) = TypeText(u)
    PROVE  \/ t = u
           \/ /\ IsStruct(t) /\ IsStruct(u) /\ StructOf(t) # StructOf(u)
              /\ structs[StructOf(t)].text = structs[StructOf(u)].text
<1>1. /\ t = [ptrs |-> t.ptrs, of |-> <<t.of[1], t.of[2]>>]
      /\ u = [ptrs |-> u.ptrs, of |-> <<u.of[1], u.of[2]>>]
    BY DEF TypeUpTo
<1>2. ASSUME NEW x, x = [ptrs |-> x.ptrs, of |-> <<x.of[1], x.of[2]>>]
      PROVE  /\ TypeText(x).ptrs = x.ptrs /\ TypeText(x).of[1] = x.of[1]
             /\ TypeText(x).of[2] = IF IsStruct(x) THEN structs[StructOf(x)].text ELSE x.of[2]
    BY <1>2 DEF TypeText, StructOf, IsStruct
<1>3. t.ptrs = u.ptrs /\ t.of[1] = u.of[1] /\ (IsStruct(t) <=> IsStruct(u))
    BY <1>1, <1>2 DEF IsStruct
<1>4. CASE ~IsStruct(t)
  <2>1. t.of[2] = u.of[2]
    BY <1>1, <1>2, <1>3, <1>4
  <2>2. QED  BY <1>1, <1>3, <2>1
<1>5. CASE IsStruct(t)
  <2>1. structs[StructOf(t)].text = structs[StructOf(u)].text
    BY <1>1, <1>2, <1>3, <1>5
  <2>2. StructOf(t) = StructOf(u) => t = u
    BY <1>1, <1>3 DEF StructOf
  <2>3. QED  BY <1>3, <1>5, <2>1, <2>2
<1>6. QED  BY <1>4, <1>5

\* No other struct prints what an instance does.
LEMMA InstanceAlone ==
    ASSUME IInv, AllNamed, ArgsKnown, NEW s \in 1 .. Len(structs), NEW r \in 1 .. Len(structs),
           structs[s].of \in Generics, structs[r].text = structs[s].text
    PROVE  r = s
<1> USE GenericsAssumption
<1>1. /\ structs[s].text = Signature(structs[s].of, structs[s].arg)
      /\ structs[r].of \in Plain => structs[r].text.args = <<>>
    BY DEF ArgsKnown, ArgKnown
<1>2. structs[s].text.args # <<>>
  <2>1. structs[s].text.args = <<TypeText(structs[s].arg)>>
    BY <1>1 DEF Signature
  <2>2. QED  BY <2>1
<1>3. structs[r].of \notin Plain
    BY <1>1, <1>2
<1>4. structs[s].of \notin Plain
    OBVIOUS
<1>5. NameOf(structs[r]) = NameOf(structs[s])
    BY <1>3, <1>4 DEF NameOf
<1>6. QED  BY <1>5 DEF AllNamed

\* A generic has one instance for each argument.
LEMMA OneInstance ==
    ASSUME IInv, AllNamed, ArgsKnown, NEW s \in 1 .. Len(structs), NEW r \in 1 .. Len(structs),
           structs[s].of \in Generics, structs[r].of = structs[s].of,
           structs[r].arg = structs[s].arg
    PROVE  r = s
<1>1. structs[r].text = structs[s].text
    BY DEF ArgsKnown, ArgKnown
<1>2. QED  BY <1>1, InstanceAlone

\* What is registered is all there is.
LEMMA RegisteredAll ==
    ASSUME IInv, AllNamed
    PROVE  Registered = 1 .. Len(structs)
<1>1. Registered \subseteq 1 .. Len(structs)
    BY DEF Registered, IInv, NamesOK
<1>2. \A s \in 1 .. Len(structs) : s \in Registered
    BY DEF Registered, AllNamed
<1>3. QED  BY <1>1, <1>2

-----------------------------------------------------------------------------
(* Paths. *)

\* A path goes on by a step.
LEMMA PathStep ==
    ASSUME NEW chain, NEW arg, NEW m \in Nat, NEW t, NEW u,
           Reaches(chain, arg, m, t), Leads(t, chain[m + 1], arg, u)
    PROVE  Reaches(chain, arg, m + 1, u)
<1>1. PICK w : w[m] = t /\ IsPath(w, chain, arg, m)
    BY DEF Reaches
<1> DEFINE v == [k \in 0 .. m + 1 |-> IF k = m + 1 THEN u ELSE w[k]]
<1>2. v[m + 1] = u /\ \A k \in 0 .. m : v[k] = w[k]
    OBVIOUS
<1> HIDE DEF v
<1>3. v[0] = Error
    BY <1>1, <1>2 DEF IsPath
<1>4. ASSUME NEW k \in 1 .. m + 1
      PROVE  Leads(v[k - 1], chain[k], arg, v[k])
  <2>1. CASE k = m + 1
    <3>1. k - 1 = m /\ v[m] = t
      BY <1>1, <1>2, <2>1
    <3>2. QED  BY <1>2, <2>1, <3>1
  <2>2. CASE k # m + 1
    <3>1. k \in 1 .. m /\ k \in 0 .. m /\ k - 1 \in 0 .. m
      BY <2>2
    <3>2. v[k - 1] = w[k - 1] /\ v[k] = w[k]
      BY <1>2, <3>1
    <3>3. QED  BY <1>1, <3>1, <3>2 DEF IsPath
  <2>3. QED  BY <2>1, <2>2
<1>5. IsPath(v, chain, arg, m + 1)
    BY <1>3, <1>4 DEF IsPath
<1>6. QED  BY <1>2, <1>5 DEF Reaches

\* The leaf is the start of a path, whatever was there before.
LEMMA PathStart ==
    ASSUME NEW chain, NEW arg, NEW t, NEW u, Leads(t, chain[1], arg, u),
           chain[1].kind \in {"param", "prim", "plain"}
    PROVE  Reaches(chain, arg, 1, u)
<1>1. Leads(Error, chain[1], arg, u)
    BY DEF Leads
<1> DEFINE w == [k \in 0 .. 0 |-> Error]
<1>2. w[0] = Error /\ \A k \in 1 .. 0 : Leads(w[k - 1], chain[k], arg, w[k])
    OBVIOUS
<1>3. Reaches(chain, arg, 0, Error)
    BY <1>2 DEF Reaches, IsPath
<1>4. Reaches(chain, arg, 0 + 1, u)
  <2>1. 0 \in Nat /\ 0 + 1 = 1
    OBVIOUS
  <2>2. Leads(Error, chain[0 + 1], arg, u)
    BY <1>1, <2>1
  <2>3. QED  BY <1>3, <2>1, <2>2, PathStep
<1>5. QED  BY <1>4

\* Where a plain struct at the end of a path comes from.
FromNames(x, chain, arg, m) ==
    \/ IsStruct(arg) /\ x = StructOf(arg)
    \/ \E k \in 1 .. m : chain[k].kind = "plain" /\ x = types[PlainName(chain[k].name)]

\* A plain struct on a path is the argument's, or one that a leaf names.
LEMMA PathOrigin ==
    ASSUME NEW chain, NEW arg, NEW m \in Nat, NEW v, Reaches(chain, arg, m, v),
           \A k \in 1 .. m : chain[k] \in ChainNode,
           IsStruct(v), structs[StructOf(v)].of \in Plain
    PROVE  FromNames(StructOf(v), chain, arg, m)
<1> USE GenericsAssumption
<1>1. PICK w : w[m] = v /\ IsPath(w, chain, arg, m)
    BY DEF Reaches
<1> DEFINE Tells(k) == k <= m /\ IsStruct(w[k]) /\ structs[StructOf(w[k])].of \in Plain
                          => FromNames(StructOf(w[k]), chain, arg, m)
           T == {k \in Nat : Tells(k)}
<1>2. 0 \in T
  <2>1. ~IsStruct(w[0])
    BY <1>1 DEF IsPath, IsStruct, Error, Tp
  <2>2. QED  BY <2>1
<1>3. ASSUME NEW k \in Nat, k \in T
      PROVE  k + 1 \in T
  <2> SUFFICES ASSUME k + 1 <= m, IsStruct(w[k + 1]), structs[StructOf(w[k + 1])].of \in Plain
               PROVE  FromNames(StructOf(w[k + 1]), chain, arg, m)
    OBVIOUS
  <2>1. Tells(k) /\ k <= m /\ k + 1 \in 1 .. m /\ (k + 1) - 1 = k
    BY <1>3
  <2>2. PICK t, u, node : t = w[k] /\ u = w[k + 1] /\ node = chain[k + 1]
    OBVIOUS
  <2>3. Leads(t, node, arg, u) /\ node \in ChainNode
    BY <1>1, <2>1, <2>2 DEF IsPath
  <2>4. IsStruct(u) /\ structs[StructOf(u)].of \in Plain
    BY <2>2
  <2>5. IsStruct(t) /\ structs[StructOf(t)].of \in Plain => FromNames(StructOf(t), chain, arg, m)
    BY <2>1, <2>2
  <2> HIDE DEF T, Tells
  <2>6. CASE node.kind = "param" /\ u = arg
    BY <2>4, <2>6, <2>2 DEF FromNames
  <2>7. CASE node.kind = "prim" /\ u = Tp("prim", node.name)
    BY <2>4, <2>7 DEF IsStruct, Tp
  <2>8. CASE node.kind = "plain" /\ u = StructTp(types[PlainName(node.name)])
    <3>1. StructOf(u) = types[PlainName(node.name)]
      BY <2>8 DEF StructOf, StructTp, Tp
    <3>2. FromNames(StructOf(u), chain, arg, m)
      BY <2>1, <2>2, <2>8, <3>1 DEF FromNames
    <3>3. QED  BY <2>2, <3>2
  <2>9. CASE node.kind = "ptr" /\ u = Pointer(t)
    <3>1. IsStruct(t) /\ StructOf(t) = StructOf(u)
      BY <2>4, <2>9 DEF Pointer, IsStruct, StructOf
    <3>2. QED  BY <2>2, <2>4, <2>5, <3>1
  <2>10. CASE /\ node.kind = "generic"
              /\ \E s \in 1 .. Len(structs) : structs[s].of = node.name /\ u = StructTp(s)
    <3>1. node.name \in Generics
      BY <2>3, <2>10 DEF ChainNode, LeafNode, AroundNode
    <3>2. PICK s : structs[s].of = node.name /\ u = StructTp(s)
      BY <2>10
    <3>3. StructOf(u) = s
      BY <3>2 DEF StructOf, StructTp, Tp
    <3>4. QED  BY <2>4, <3>1, <3>2, <3>3
  <2>11. QED  BY <2>3, <2>6, <2>7, <2>8, <2>9, <2>10 DEF Leads
<1>4. m \in T
  <2> HIDE DEF T
  <2>1. QED  BY <1>2, <1>3, Inductive
<1>5. QED  BY <1>1, <1>4

\* What Values computes, node by node.
LEMMA ValuesShape ==
    ASSUME NEW chain, NEW arg, Len(chain) \in Nat
    PROVE  /\ Values(chain, arg)[0] = Error
           /\ \A k \in 1 .. Len(chain) :
                Values(chain, arg)[k] = Applied(Values(chain, arg)[k - 1], chain[k], arg)
<1> DEFINE Is(f, n) ==
             f = [k \in 0 .. n |-> IF k = 0 THEN Error ELSE Applied(f[k - 1], chain[k], arg)]
           T == {n \in Nat : \E f : Is(f, n)}
<1>1. 0 \in T
  <2> DEFINE f == [k \in 0 .. 0 |-> Error]
  <2>1. f = [k \in 0 .. 0 |-> IF k = 0 THEN Error ELSE Applied(f[k - 1], chain[k], arg)]
    OBVIOUS
  <2> HIDE DEF f
  <2>2. Is(f, 0)
    BY <2>1
  <2>3. QED  BY <2>2
<1>2. ASSUME NEW n \in Nat, n \in T
      PROVE  n + 1 \in T
  <2>1. PICK f : Is(f, n)
    BY <1>2
  <2> DEFINE g == [k \in 0 .. n + 1 |-> IF k = n + 1 THEN Applied(f[n], chain[n + 1], arg) ELSE f[k]]
  <2>2. /\ g[n + 1] = Applied(f[n], chain[n + 1], arg)
        /\ \A k \in 0 .. n : g[k] = f[k]
        /\ g = [k \in 0 .. n + 1 |-> g[k]]
    OBVIOUS
  <2> HIDE DEF g
  <2>3. ASSUME NEW k \in 0 .. n + 1
        PROVE  g[k] = IF k = 0 THEN Error ELSE Applied(g[k - 1], chain[k], arg)
    <3>1. CASE k = n + 1
      <4>1. k # 0 /\ k - 1 = n
        BY <3>1
      <4>2. n \in 0 .. n
        OBVIOUS
      <4>3. g[n] = f[n]
        BY <2>2, <4>2
      <4>4. QED  BY <2>2, <3>1, <4>1, <4>3
    <3>2. CASE k # n + 1
      <4>1. k \in 0 .. n /\ (k # 0 => k - 1 \in 0 .. n)
        BY <3>2
      <4>2. f[k] = IF k = 0 THEN Error ELSE Applied(f[k - 1], chain[k], arg)
        BY <2>1, <4>1
      <4>3. QED  BY <2>2, <4>1, <4>2
    <3>3. QED  BY <3>1, <3>2
  <2>4. Is(g, n + 1)
    BY <2>2, <2>3
  <2>5. QED  BY <2>4
<1>3. Len(chain) \in T
  <2> HIDE DEF T
  <2>1. QED  BY <1>1, <1>2, Inductive
<1>4. PICK f : Is(f, Len(chain))
    BY <1>3
<1>5. Is(Values(chain, arg), Len(chain))
    BY <1>4 DEF Values
<1>6. PICK v : v = Values(chain, arg)
    OBVIOUS
<1>7. v = [k \in 0 .. Len(chain) |-> IF k = 0 THEN Error ELSE Applied(v[k - 1], chain[k], arg)]
    BY <1>5, <1>6
<1>8. v[0] = Error /\ \A k \in 1 .. Len(chain) : v[k] = Applied(v[k - 1], chain[k], arg)
    BY <1>7
<1>9. QED  BY <1>6, <1>8

\* A step of a path is what the node is applied to.
LEMMA LeadsApplied ==
    ASSUME IInv, AllNamed, ArgsKnown, NEW t, NEW node \in ChainNode, NEW arg, NEW u,
           Leads(t, node, arg, u)
    PROVE  Applied(t, node, arg) = u
<1>1. CASE node.kind = "param"
    BY <1>1 DEF Leads, Applied
<1>2. CASE node.kind = "prim"
    BY <1>2 DEF Leads, Applied
<1>3. CASE node.kind = "plain"
    BY <1>3 DEF Leads, Applied
<1>4. CASE node.kind = "ptr"
    BY <1>4 DEF Leads, Applied
<1>5. CASE node.kind = "generic"
  <2>1. node.name \in Generics
    BY <1>5 DEF ChainNode, LeafNode, AroundNode
  <2>2. PICK s \in 1 .. Len(structs) :
            structs[s].of = node.name /\ structs[s].arg = t /\ u = StructTp(s)
    BY <1>5 DEF Leads
  <2>3. Registered = 1 .. Len(structs)
    BY RegisteredAll
  <2>4. \A r \in Registered : structs[r].of = node.name /\ structs[r].arg = t => r = s
    BY <2>1, <2>2, <2>3, OneInstance
  <2>5. Instance(node.name, t) = {s}
    BY <2>2, <2>3, <2>4 DEF Instance
  <2>6. Applied(t, node, arg) = StructTp(CHOOSE r \in {s} : TRUE)
    BY <1>5, <2>5 DEF Applied
  <2>7. (CHOOSE r \in {s} : TRUE) = s
    OBVIOUS
  <2>8. QED  BY <2>2, <2>6, <2>7
<1>6. node.kind \in {"param", "prim", "plain", "ptr", "generic"}
    BY DEF ChainNode, LeafNode, AroundNode
<1>7. QED  BY <1>1, <1>2, <1>3, <1>4, <1>5, <1>6

\* A path along the whole chain ends at what the chain means.
LEMMA PathMeaning ==
    ASSUME IInv, AllNamed, ArgsKnown, NEW chain \in Seq(ChainNode), NEW arg, NEW v,
           Reaches(chain, arg, Len(chain), v)
    PROVE  Meaning(chain, arg) = v
<1>1. Len(chain) \in Nat /\ \A k \in 1 .. Len(chain) : chain[k] \in ChainNode
    BY LenProperties, ElementOfSeq
<1>2. PICK w : w[Len(chain)] = v /\ IsPath(w, chain, arg, Len(chain))
    BY DEF Reaches
<1>3. PICK val : val = Values(chain, arg)
    OBVIOUS
<1>4. /\ val[0] = Error
      /\ \A k \in 1 .. Len(chain) : val[k] = Applied(val[k - 1], chain[k], arg)
    BY <1>1, <1>3, ValuesShape
<1> DEFINE T == {k \in Nat : k <= Len(chain) => val[k] = w[k]}
<1>5. 0 \in T
    BY <1>2, <1>4 DEF IsPath
<1>6. ASSUME NEW k \in Nat, k \in T
      PROVE  k + 1 \in T
  <2> SUFFICES ASSUME k + 1 <= Len(chain) PROVE val[k + 1] = w[k + 1]
    OBVIOUS
  <2>1. k + 1 \in 1 .. Len(chain) /\ (k + 1) - 1 = k /\ val[k] = w[k]
    BY <1>1, <1>6
  <2>2. Leads(w[k], chain[k + 1], arg, w[k + 1]) /\ chain[k + 1] \in ChainNode
    BY <1>1, <1>2, <2>1 DEF IsPath
  <2>3. Applied(w[k], chain[k + 1], arg) = w[k + 1]
    BY <2>2, LeadsApplied
  <2>4. val[k + 1] = Applied(val[k], chain[k + 1], arg)
    BY <1>4, <2>1
  <2>5. QED  BY <2>1, <2>3, <2>4
<1>7. Len(chain) \in T
  <2> HIDE DEF T
  <2>1. QED  BY <1>1, <1>5, <1>6, Inductive
<1>8. val[Len(chain)] = w[Len(chain)]
    BY <1>1, <1>7
<1>9. QED  BY <1>2, <1>3, <1>8 DEF Meaning

-----------------------------------------------------------------------------
(* More structs and names: what was known stays. *)

Grows ==
    /\ body' = body
    /\ \A s \in 1 .. Len(structs) :
        /\ s \in 1 .. Len(structs')
        /\ structs'[s].of = structs[s].of
        /\ structs'[s].arg = structs[s].arg
        /\ structs'[s].text = structs[s].text
    /\ \A x \in DOMAIN types : x \in DOMAIN types' /\ types'[x] = types[x]

\* A step of a path stays one.
LEMMA LeadsStays ==
    ASSUME Grows, NEW t, NEW node, NEW arg, NEW u, Leads(t, node, arg, u)
    PROVE  Leads(t, node, arg, u)'
<1>1. CASE node.kind = "generic" /\ \E s \in 1 .. Len(structs) :
            structs[s].of = node.name /\ structs[s].arg = t /\ u = StructTp(s)
  <2>1. \E s \in 1 .. Len(structs') :
            structs'[s].of = node.name /\ structs'[s].arg = t /\ u = StructTp(s)
    BY <1>1 DEF Grows
  <2>2. QED  BY <1>1, <2>1 DEF Leads
<1>2. CASE /\ node.kind = "plain" /\ PlainName(node.name) \in DOMAIN types
           /\ u = StructTp(types[PlainName(node.name)])
  <2>1. PlainName(node.name) \in DOMAIN types'
        /\ types'[PlainName(node.name)] = types[PlainName(node.name)]
    BY <1>2 DEF Grows
  <2>2. QED  BY <1>2, <2>1 DEF Leads, PlainName
<1>3. CASE \/ node.kind = "param" /\ u = arg
           \/ node.kind = "prim" /\ u = Tp("prim", node.name)
           \/ node.kind = "ptr" /\ u = Pointer(t)
    BY <1>3 DEF Leads
<1>4. QED  BY <1>1, <1>2, <1>3 DEF Leads

\* A path stays one.
LEMMA ReachesStays ==
    ASSUME Grows, NEW chain, NEW arg, NEW m, NEW v, Reaches(chain, arg, m, v)
    PROVE  Reaches(chain, arg, m, v)'
<1>1. PICK w : w[m] = v /\ IsPath(w, chain, arg, m)
    BY DEF Reaches
<1>2. w[0] = Error /\ \A k \in 1 .. m : Leads(w[k - 1], chain[k], arg, w[k])
    BY <1>1 DEF IsPath
<1>3. ASSUME NEW k \in 1 .. m
      PROVE  Leads(w[k - 1], chain[k], arg, w[k])'
    BY <1>2, LeadsStays
<1>4. IsPath(w, chain, arg, m)'
    BY <1>2, <1>3 DEF IsPath
<1>5. QED  BY <1>1, <1>4 DEF Reaches

\* What a declaration names plainly is in the table.
LEMMA PlainNamed ==
    ASSUME FailuresIInv, ~errors, NEW s \in 1 .. Len(structs),
           NEW i \in DOMAIN body[structs[s].of],
           NEW node \in ToSet(body[structs[s].of][i].type), node.kind = "plain"
    PROVE  /\ PlainName(node.name) \in DOMAIN types
           /\ types[PlainName(node.name)] \in 1 .. Len(structs)
<1> USE GenericsAssumption
<1>1. body \in Programs /\ structs[s].of \in Generics \cup Plain
    BY DEF FailuresIInv, IInv, StructsOK, StructOK
<1> DEFINE list == body[structs[s].of]
<1>2. list \in Seq([name : STRING, type : Seq(ChainNode)])
    BY <1>1
<1> HIDE DEF list
<1>3. i \in 1 .. Len(list)
    BY <1>2, LenProperties DEF list
<1>4. list[i] \in [name : STRING, type : Seq(ChainNode)]
    BY <1>2, <1>3, ElementOfSeq
<1>5. list[i].type \in Seq(ChainNode)
    BY <1>4
<1>6. node \in ChainNode
  <2>1. PICK k \in DOMAIN list[i].type : node = list[i].type[k]
    BY DEF ToSet, list
  <2>2. QED  BY <1>5, <2>1, LenProperties, ElementOfSeq
<1>7. node.name \in Plain
    BY <1>6 DEF ChainNode, LeafNode, AroundNode
<1>8. node.name \in Named(structs[s].of)
    BY <1>7 DEF Named
<1>9. node.name \in Range(decls)
    BY <1>8 DEF FailuresIInv, NoErrors, StructsTold, DeclsOK
<1>10. PlainName(node.name) \in DOMAIN types
    BY <1>7, <1>9 DEF FailuresIInv, NoErrors, TablesTold
<1>11. QED  BY <1>10 DEF FailuresIInv, IInv, NamesOK

\* A struct that a gap exempts stays exempt.
LEMMA ExemptStays ==
    ASSUME FailuresIInv, ~errors, ArgsKnown, Grows, NEW s \in 1 .. Len(structs), Exempt(s)
    PROVE  Exempt(s)'
<1>1. /\ structs'[s].of = structs[s].of /\ structs'[s].arg = structs[s].arg
      /\ body' = body /\ Registered \subseteq 1 .. Len(structs)
    BY DEF Grows, Registered, FailuresIInv, IInv, NamesOK
<1>2. CASE NamesItself(s)
    BY <1>1, <1>2 DEF NamesItself, NamesItselfOtherwise, Exempt
<1>3. ASSUME NEW x \in 1 .. Len(structs), Namesake(x)
      PROVE  Namesake(x)'
  <2>1. PICK r \in Registered \ {x} : structs[r].text = structs[x].text
    BY <1>3 DEF Namesake
  <2>2. r \in 1 .. Len(structs) /\ structs'[r].text = structs[r].text
        /\ structs'[x].text = structs[x].text
    BY <1>1, <2>1 DEF Grows
  <2>3. r \in Registered'
    BY <2>1 DEF Registered, Grows
  <2>4. QED  BY <2>1, <2>2, <2>3 DEF Namesake
<1>4. CASE IsStruct(structs[s].arg) /\ Namesake(StructOf(structs[s].arg))
  <2>1. PICK x : x = StructOf(structs[s].arg)
    OBVIOUS
  <2>2. x \in 1 .. Len(structs)
    BY <1>4, <2>1 DEF ArgsKnown, ArgKnown, TypeUpTo
  <2>3. Namesake(x)'
    BY <1>3, <1>4, <2>1, <2>2
  <2>4. IsStruct(structs'[s].arg) /\ StructOf(structs'[s].arg) = x
    BY <1>1, <1>4, <2>1
  <2>5. Namesake(StructOf(structs[s].arg))'
    BY <2>3, <2>4 DEF Namesake, StructOf
  <2>6. QED  BY <2>4, <2>5 DEF Exempt, NamesNamesake, IsStruct
<1>5. CASE \E i \in DOMAIN body[structs[s].of] : \E node \in ToSet(body[structs[s].of][i].type) :
             node.kind = "plain" /\ Namesake(types[PlainName(node.name)])
  <2>1. PICK i \in DOMAIN body[structs[s].of] :
            \E node \in ToSet(body[structs[s].of][i].type) :
                node.kind = "plain" /\ Namesake(types[PlainName(node.name)])
    BY <1>5
  <2>2. PICK node \in ToSet(body[structs[s].of][i].type) :
            node.kind = "plain" /\ Namesake(types[PlainName(node.name)])
    BY <2>1
  <2>3. PICK x : x = types[PlainName(node.name)]
    OBVIOUS
  <2>4. x \in 1 .. Len(structs) /\ PlainName(node.name) \in DOMAIN types
    BY <2>2, <2>3, PlainNamed
  <2>5. Namesake(x)'
    BY <1>3, <2>2, <2>3, <2>4
  <2>6. types'[PlainName(node.name)] = x
    BY <2>3, <2>4 DEF Grows
  <2>7. Namesake(types[PlainName(node.name)])'
    BY <2>5, <2>6 DEF Namesake, PlainName
  <2>8. QED  BY <1>1, <2>1, <2>2, <2>7 DEF Exempt, NamesNamesake
<1>6. QED  BY <1>2, <1>4, <1>5 DEF Exempt, NamesNamesake

\* What an instance prints stays.
LEMMA ArgKnownStays ==
    ASSUME IInv, Grows, NEW s \in 1 .. Len(structs), ArgKnown(s)
    PROVE  ArgKnown(s)'
<1>1. /\ structs'[s].of = structs[s].of /\ structs'[s].arg = structs[s].arg
      /\ structs'[s].text = structs[s].text
    BY DEF Grows
<1>2. PICK t, g : t = structs[s].arg /\ g = structs[s].of
    OBVIOUS
<1>3. TypeUpTo(t, Len(structs))
    BY <1>2 DEF ArgKnown
<1>4. TypeUpTo(t, Len(structs'))
    BY <1>3 DEF TypeUpTo, Grows
<1>5. (TypeText(t))' = TypeText(t)
  <2>1. IsStruct(t) => structs'[t.of[2]].text = structs[t.of[2]].text
    BY <1>3 DEF TypeUpTo, StructOf, Grows
  <2>2. QED  BY <2>1 DEF TypeText, IsStruct
<1>6. (Signature(g, t))' = Signature(g, t)
    BY <1>5 DEF Signature
<1>7. TypeUpTo(structs'[s].arg, Len(structs'))
    BY <1>1, <1>2, <1>4
<1>8. structs'[s].of \in Generics => structs'[s].text = [of |-> g, args |-> <<(TypeText(t))'>>]
    BY <1>1, <1>2, <1>5 DEF ArgKnown, Signature
<1>9. structs'[s].of \in Generics => structs'[s].text = Signature(structs[s].of, structs[s].arg)'
    BY <1>1, <1>2, <1>8 DEF Signature, TypeText, IsStruct
<1>10. structs'[s].of \in Plain => structs'[s].text.args = <<>> /\ ~IsStruct(structs'[s].arg)
    BY <1>1 DEF ArgKnown
<1>11. QED  BY <1>7, <1>9, <1>10 DEF ArgKnown, TypeUpTo, IsStruct

\* A member means what it did.
LEMMA MemberMeansStays ==
    ASSUME Grows, NEW s \in 1 .. Len(structs), NEW i, MemberMeans(s, i),
           structs'[s].members[i] = structs[s].members[i]
    PROVE  MemberMeans(s, i)'
<1>1. PICK chain, arg, v, m : chain = body[structs[s].of][i].type /\ arg = structs[s].arg
                              /\ v = structs[s].members[i] /\ m = Len(chain)
    OBVIOUS
<1>2. Reaches(chain, arg, m, v)
    BY <1>1 DEF MemberMeans
<1>3. Reaches(chain, arg, m, v)'
    BY <1>2, ReachesStays
<1>4. chain = body'[structs'[s].of][i].type /\ arg = structs'[s].arg
      /\ v = structs'[s].members[i] /\ Reaches(chain, arg, Len(chain), v)'
    BY <1>1, <1>3 DEF Grows
<1>5. QED  BY <1>4 DEF MemberMeans

\* A struct that gets no member means what it did.
LEMMA StructMeansStays ==
    ASSUME FailuresIInv, ~errors, ArgsKnown, Grows, NEW s \in 1 .. Len(structs), StructMeans(s),
           structs'[s].members = structs[s].members, structs'[s].whole => structs[s].whole
    PROVE  StructMeans(s)'
<1>1. body' = body /\ structs'[s].of = structs[s].of /\ structs'[s].arg = structs[s].arg
    BY DEF Grows
<1>2. \A i : MemberMeans(s, i) => MemberMeans(s, i)'
    BY MemberMeansStays
<1>3. Exempt(s) => Exempt(s)'
    BY ExemptStays
<1>4. QED  BY <1>1, <1>2, <1>3 DEF StructMeans

\* A declaration that names itself does so whatever is made.
LEMMA NamesItselfStays ==
    ASSUME Grows, NEW s \in 1 .. Len(structs)
    PROVE  NamesItself(s)' <=> NamesItself(s)
<1>1. PICK g : g = structs[s].of
    OBVIOUS
<1>2. body' = body /\ structs'[s].of = g
    BY <1>1 DEF Grows
<1>3. NamesItselfOtherwise(g)' <=> NamesItselfOtherwise(g)
    BY <1>2 DEF NamesItselfOtherwise
<1>4. NamesItself(s) <=> g \in Generics /\ NamesItselfOtherwise(g)
    BY <1>1 DEF NamesItself
<1>5. NamesItself(s)' <=> g \in Generics /\ NamesItselfOtherwise(g)'
    BY <1>2 DEF NamesItself, NamesItselfOtherwise
<1>6. QED  BY <1>3, <1>4, <1>5

\* A suspended call means what it did.
LEMMA CallMeansStays ==
    ASSUME FailuresIInv, ~errors, ArgsKnown, Grows, NEW f, f.struct \in 1 .. Len(structs),
           CallMeans(f), structs'[f.struct].members = structs[f.struct].members
    PROVE  CallMeans(f)'
<1>1. body' = body /\ structs'[f.struct].of = structs[f.struct].of
      /\ structs'[f.struct].arg = structs[f.struct].arg
    BY DEF Grows
<1>2. OfCall(f)' = OfCall(f) /\ ArgCall(f)' = ArgCall(f) /\ ChainCall(f)' = ChainCall(f)
    BY <1>1 DEF OfCall, ArgCall, ChainCall
<1>3. NamesItself(f.struct)' <=> NamesItself(f.struct)
    BY NamesItselfStays
<1>4. HasArgument(f)'
    BY <1>2, <1>3 DEF CallMeans, HasArgument
<1>5. Position(f)'
    BY <1>1, <1>2 DEF CallMeans, Position
<1>6. Means(f)'
  <2>1. CASE f.node = 1
    BY <2>1 DEF Means
  <2>2. CASE f.node # 1 /\ Exempt(f.struct)
    BY <2>2, ExemptStays DEF Means
  <2>3. CASE f.node # 1 /\ ~Exempt(f.struct)
    <3>1. PICK chain, arg, m, v : chain = ChainCall(f) /\ arg = ArgCall(f) /\ m = f.node - 1
                                  /\ v = f.val
      OBVIOUS
    <3>2. Reaches(chain, arg, m, v)
      BY <2>3, <3>1 DEF CallMeans, Means
    <3>3. Reaches(chain, arg, m, v)'
      BY <3>2, ReachesStays
    <3>4. QED  BY <1>2, <3>1, <3>3 DEF Means
  <2>4. QED  BY <2>1, <2>2, <2>3
<1>7. QED  BY <1>4, <1>5, <1>6 DEF CallMeans

\* A call that goes on with the type its next node means.
LEMMA CallMeansGoesOn ==
    ASSUME FailuresIInv, ~errors, ArgsKnown, Grows,
           NEW f, f.struct \in 1 .. Len(structs), f.node \in Nat \ {0}, CallMeans(f),
           f.member <= Len(body[OfCall(f)]), f.node <= Len(ChainCall(f)),
           Len(ChainCall(f)) \in Nat,
           structs'[f.struct].members = structs[f.struct].members,
           NEW g, NEW t, GoesOn(f, g, t),
           f.node = 1 /\ ChainCall(f)[1].kind = "param" => NamesItself(f.struct) \/ t = ArgCall(f),
           \/ Exempt(f.struct)
           \/ \A chain, arg : chain = ChainCall(f) /\ arg = ArgCall(f)
                                => Reaches(chain, arg, f.node, t)
    PROVE  CallMeans(g)'
<1>1. /\ body' = body /\ structs'[f.struct].of = structs[f.struct].of
      /\ structs'[f.struct].arg = structs[f.struct].arg
      /\ g.struct = f.struct /\ g.member = f.member /\ g.node = f.node + 1 /\ g.val = t
    BY DEF Grows, GoesOn
<1>2. OfCall(g)' = OfCall(f) /\ ArgCall(g)' = ArgCall(f) /\ ChainCall(g)' = ChainCall(f)
    BY <1>1 DEF OfCall, ArgCall, ChainCall
<1>3. NamesItself(f.struct)' <=> NamesItself(f.struct)
    BY NamesItselfStays
<1>4. NamesItself(g.struct)' <=> NamesItself(f.struct)
    BY <1>1, <1>3
<1>5. HasArgument(g)'
  <2>1. g.node = 2 => f.node = 1
    BY <1>1
  <2>2. QED  BY <1>1, <1>2, <1>4, <2>1 DEF HasArgument
<1>6. Position(g)'
  <2>1. f.node + 1 <= Len(ChainCall(f)) + 1 /\ g.node # 1
    BY <1>1
  <2>2. QED  BY <1>1, <1>2, <2>1 DEF CallMeans, Position
<1>7. Means(g)'
  <2>1. CASE Exempt(f.struct)
    <3>1. Exempt(f.struct)'
      BY <2>1, ExemptStays
    <3>2. Exempt(g.struct)'
      BY <1>1, <3>1
    <3>3. QED  BY <3>2 DEF Means
  <2>2. CASE ~Exempt(f.struct)
    <3>1. PICK chain, arg, m : chain = ChainCall(f) /\ arg = ArgCall(f) /\ m = f.node
      OBVIOUS
    <3>2. Reaches(chain, arg, m, t)
      BY <2>2, <3>1
    <3>3. Reaches(chain, arg, m, t)'
      BY <3>2, ReachesStays
    <3>4. g.node - 1 = m /\ g.val = t
      BY <1>1, <3>1
    <3>5. Reaches(chain, arg, g.node - 1, g.val)'
      BY <3>3, <3>4
    <3>6. QED  BY <1>2, <3>1, <3>5 DEF Means
  <2>3. QED  BY <2>1, <2>2
<1>8. QED  BY <1>5, <1>6, <1>7 DEF CallMeans

-----------------------------------------------------------------------------
(* What the nodes make. *)

\* What the innermost call is, in the terms of its struct.
LEMMA TopIs ==
    ASSUME IInv, AtNode
    PROVE  /\ Len(calls) \in Nat \ {0} /\ Len(calls) \in 1 .. Len(calls)
           /\ Top = calls[Len(calls)]
           /\ Top.struct \in 1 .. Len(structs)
           /\ Current = structs[Top.struct]
           /\ Top.node \in 1 .. Len(Member.type)
           /\ Top.member <= Len(body[OfCall(Top)])
           /\ OfCall(Top) = Current.of /\ ArgCall(Top) = Current.arg
           /\ ChainCall(Top) = Member.type
           /\ Member.type \in Seq(ChainNode) /\ Len(Member.type) \in Nat \ {0}
           /\ Node = ChainCall(Top)[Top.node]
<1>1. /\ calls # <<>> /\ Busy /\ Top.member <= Len(body[Current.of])
    BY DEF AtNode, Busy
<1>2. /\ Len(calls) \in Nat \ {0} /\ Top = calls[Len(calls)]
      /\ CallOK(Top, Len(structs))
    BY <1>1, TopShape
<1>3. Top.struct \in 1 .. Len(structs) /\ Current = structs[Top.struct]
    BY <1>2 DEF CallOK, Current
<1>4. OfCall(Top) = Current.of /\ ArgCall(Top) = Current.arg
    BY <1>3 DEF OfCall, ArgCall
<1>5. ChainCall(Top) = Member.type
    BY <1>4 DEF ChainCall, Member
<1>6. Member.type \in Seq(ChainNode) /\ Len(Member.type) \in Nat \ {0}
    BY <1>1, MemberShape
<1>7. Top.node \in 1 .. Len(Member.type)
    BY NodeAt
<1>8. QED  BY <1>1, <1>2, <1>3, <1>4, <1>5, <1>6, <1>7 DEF Node

\* An instance that is handed out was made for the argument asked for, unless
\* another struct prints like the argument.
LEMMA KnownLeads ==
    ASSUME FailuresIInv, FieldsKnown, GenericKnown, ~Exempt(Top.struct), Top.node # 1
    PROVE  Leads(Top.val, Node, Current.arg, StructTp(types[Signature(Node.name, Top.val)]))
<1> USE GenericsAssumption
<1> DEFINE sig == Signature(Node.name, Top.val)
           n == Len(structs)
<1>1. IInv /\ AtNode /\ Node.kind = "generic" /\ sig \in DOMAIN types /\ AllNamed /\ ArgsKnown
    BY DEF GenericKnown, AtGeneric, FailuresIInv, FieldsKnown
<1>2. PICK r : r = types[sig]
    OBVIOUS
<1>3. r \in 1 .. n /\ NameOf(structs[r]) = sig /\ structs[r].of \in Generics \cup Plain
    BY <1>1, <1>2 DEF IInv, NamesOK, StructsOK, StructOK
<1>4. sig.of = Node.name /\ sig.args = <<TypeText(Top.val)>>
    BY DEF Signature
<1>5. structs[r].of \notin Plain
  <2>1. PlainName(structs[r].of).args = <<>>
    BY DEF PlainName
  <2>2. sig.args # <<>>
    BY <1>4
  <2>3. QED  BY <1>3, <2>1, <2>2 DEF NameOf
<1>6. structs[r].of \in Generics /\ structs[r].text = sig
    BY <1>3, <1>5 DEF NameOf
<1>7. structs[r].text = Signature(structs[r].of, structs[r].arg) /\ TypeUpTo(structs[r].arg, n)
    BY <1>1, <1>3, <1>6 DEF ArgsKnown, ArgKnown
<1>8. structs[r].of = Node.name /\ TypeText(structs[r].arg) = TypeText(Top.val)
  <2>1. /\ Signature(structs[r].of, structs[r].arg).of = structs[r].of
        /\ Signature(structs[r].of, structs[r].arg).args = <<TypeText(structs[r].arg)>>
    BY DEF Signature
  <2>2. <<TypeText(structs[r].arg)>> = <<TypeText(Top.val)>>
    BY <1>4, <1>6, <1>7, <2>1
  <2>3. QED  BY <1>4, <1>6, <1>7, <2>1, <2>2
<1>9. TypeUpTo(Top.val, n) /\ Busy /\ calls # <<>>
    BY <1>1, TopShape DEF AtNode, Busy, CallOK
<1> HIDE DEF sig
<1>10. CASE structs[r].arg = Top.val
    BY <1>1, <1>2, <1>3, <1>8, <1>10 DEF Leads, sig
<1>11. CASE structs[r].arg # Top.val
  <2>1. PICK x, y : x = StructOf(Top.val) /\ y = StructOf(structs[r].arg)
    OBVIOUS
  <2>2. /\ IsStruct(Top.val) /\ IsStruct(structs[r].arg) /\ x # y
        /\ structs[x].text = structs[y].text
    BY <1>7, <1>8, <1>9, <1>11, <2>1, TextTells
  <2>3. x \in 1 .. n /\ y \in 1 .. n
    BY <1>7, <1>9, <2>1, <2>2 DEF TypeUpTo
  <2>4. Namesake(x)
    BY <1>1, <2>2, <2>3, RegisteredAll DEF Namesake
  <2>5. structs[x].of \in Plain
    <3>1. structs[x].of \notin Generics
      BY <1>1, <2>2, <2>3, InstanceAlone
    <3>2. structs[x].of \in Generics \cup Plain
      BY <1>1, <2>3 DEF IInv, StructsOK, StructOK
    <3>3. QED  BY <3>1, <3>2
  <2>6. PICK chain, arg, m : chain = Member.type /\ arg = Current.arg /\ m = Top.node - 1
    OBVIOUS
  <2>7. /\ chain = ChainCall(Top) /\ arg = ArgCall(Top)
        /\ chain \in Seq(ChainNode) /\ Len(chain) \in Nat /\ m \in Nat /\ m <= Len(chain)
        /\ Current = structs[Top.struct]
        /\ Len(calls) \in 1 .. Len(calls) /\ Top = calls[Len(calls)]
    BY <1>1, <2>6, TopIs
  <2>8. Reaches(chain, arg, m, Top.val)
    BY <2>6, <2>7 DEF FieldsKnown, CallsMean, CallMeans, Means
  <2>9. \A k \in 1 .. m : k \in 1 .. Len(chain) /\ chain[k] \in ChainNode
    BY <2>7, ElementOfSeq
  <2>10. FromNames(x, chain, arg, m)
    BY <2>1, <2>2, <2>5, <2>7, <2>8, <2>9, PathOrigin
  <2>11. CASE IsStruct(arg) /\ x = StructOf(arg)
    <3>1. NamesNamesake(Top.struct)
      BY <2>4, <2>6, <2>7, <2>11 DEF NamesNamesake
    <3>2. QED  BY <3>1 DEF Exempt
  <2>12. CASE \E k \in 1 .. m : chain[k].kind = "plain" /\ x = types[PlainName(chain[k].name)]
    <3>1. PICK k \in 1 .. m : chain[k].kind = "plain" /\ x = types[PlainName(chain[k].name)]
      BY <2>12
    <3>2. Top.member \in DOMAIN body[Current.of]
      BY <1>1, <1>9, MemberShape DEF AtNode
    <3>3. chain[k] \in ToSet(body[structs[Top.struct].of][Top.member].type)
      <4>1. k \in DOMAIN chain
        BY <2>7, <2>9, LenProperties
      <4>2. chain = body[structs[Top.struct].of][Top.member].type
        BY <2>6, <2>7 DEF Member
      <4>3. QED  BY <4>1, <4>2 DEF ToSet
    <3>4. NamesNamesake(Top.struct)
      BY <2>4, <2>7, <3>1, <3>2, <3>3 DEF NamesNamesake
    <3>5. QED  BY <3>4 DEF Exempt
  <2>13. QED  BY <2>10, <2>11, <2>12 DEF FromNames
<1>12. QED  BY <1>10, <1>11

\* A leaf is what the declaration means by it; the parameter is bound to the
\* argument.
LEMMA LeafLeads ==
    ASSUME FailuresIInv, ~errors, FieldsKnown, Identifier, ~NamesItself(Top.struct)
    PROVE  /\ Leads(Top.val, Node, Current.arg, GetType(Node))
           /\ Node.kind = "param" => GetType(Node) = Current.arg
<1> USE GenericsAssumption
<1>1. IInv /\ AtNode /\ calls # <<>>
    BY DEF FailuresIInv, Identifier, AtNode, Busy
<1>2. /\ Node.kind = "plain" => Node.name \in Plain \cap Named(Current.of)
      /\ Node.kind = "param" => Current.of \in Generics
    BY <1>1, NodeAt
<1>3. /\ Len(calls) \in Nat \ {0} /\ Top = calls[Len(calls)] /\ Current = structs[Top.struct]
      /\ Top.struct \in 1 .. Len(structs)
      /\ OfCall(Top) = Current.of /\ ArgCall(Top) = Current.arg
    BY <1>1, TopIs
<1>4. CASE Node.kind = "param"
  <2>1. Len(calls) # 1
    BY <1>1, <1>2, <1>4, TopShape
  <2>2. Len(calls) \in 2 .. Len(calls)
    <3>1. PICK L \in Nat \ {0} : L = Len(calls)
      BY <1>3
    <3>2. L # 1
      BY <2>1, <3>1
    <3>3. L \in 2 .. L
      BY <3>2
    <3>4. QED  BY <3>1, <3>3
  <2>3. BoundFor(Top)
    BY <1>3, <2>2 DEF FieldsKnown, Bindings
  <2>4. binding[Current.of] = Current.arg
    BY <1>3, <2>3 DEF BoundFor
  <2>5. QED  BY <1>4, <2>4 DEF GetType, Leads
<1>5. CASE Node.kind = "prim"
    BY <1>5 DEF GetType, Leads
<1>6. CASE Node.kind = "plain"
  <2>1. Node.name \in Plain \cap Range(decls)
    BY <1>2, <1>3, <1>6 DEF FailuresIInv, NoErrors, StructsTold, DeclsOK
  <2>2. PlainName(Node.name) \in DOMAIN types
    BY <2>1 DEF FailuresIInv, NoErrors, TablesTold
  <2>3. QED  BY <1>6, <2>2 DEF GetType, Leads
<1>7. QED  BY <1>4, <1>5, <1>6 DEF Identifier

-----------------------------------------------------------------------------
(* The stack and the tables, from step to step. *)

\* No declaration is processed.
LEMMA OrderStays ==
    ASSUME DeclOrder, body' = body, decls' = decls
    PROVE  DeclOrder'
<1>1. ASSUME NEW g \in Generics
      PROVE  Named(g)' = Named(g)
    BY DEF Named
<1>2. ASSUME NEW i \in 1 .. Len(decls), NEW g \in Generics, g = decls[i]
      PROVE  /\ \A n \in Named(g)' : n = g \/ \E j \in 1 .. i - 1 : decls'[j] = n
             /\ \A j \in 1 .. Len(decls') : decls'[j] = g => j = i
  <2>1. /\ \A n \in Named(g) : n = g \/ \E j \in 1 .. i - 1 : decls[j] = n
        /\ \A j \in 1 .. Len(decls) : decls[j] = g => j = i
    BY <1>2 DEF DeclOrder
  <2>2. Named(g)' = Named(g)
    BY <1>1
  <2> HIDE DEF Named
  <2>3. QED  BY <2>1, <2>2
<1>3. QED  BY <1>2 DEF DeclOrder

\* No struct is made and no name registered.
LEMMA TablesStay ==
    ASSUME IInv, FieldsKnown, Grows, body' = body, decls' = decls, types' = types,
           Len(structs') = Len(structs)
    PROVE  AllNamed' /\ ArgsKnown' /\ DeclOrder'
<1>1. AllNamed'
  <2>1. ASSUME NEW s \in 1 .. Len(structs)
        PROVE  NameOf(structs'[s]) \in DOMAIN types /\ types[NameOf(structs'[s])] = s
    <3>1. NameOf(structs'[s]) = NameOf(structs[s])
      BY DEF NameOf, Grows
    <3>2. QED  BY <3>1 DEF FieldsKnown, AllNamed
  <2>2. QED  BY <2>1 DEF AllNamed, NameOf, PlainName
<1>2. ArgsKnown'
  <2>1. \A s \in 1 .. Len(structs) : ArgKnown(s)'
    BY ArgKnownStays DEF FieldsKnown, ArgsKnown
  <2>2. QED  BY <2>1 DEF ArgsKnown
<1>3. DeclOrder'
    BY OrderStays DEF FieldsKnown
<1>4. QED  BY <1>1, <1>2, <1>3

\* The structs on the stack are the same or fewer, and their parameters stay
\* bound.
LEMMA StackStays ==
    ASSUME IInv, FieldsKnown, Grows, decls' = decls,
           Len(calls') \in Nat, Len(calls') <= Len(calls),
           \A j \in 1 .. Len(calls') : calls'[j].struct = calls[j].struct,
           \A a \in 2 .. Len(calls') :
              \/ NamesItself(calls[a].struct)
              \/ binding'[OfCall(calls[a])] = binding[OfCall(calls[a])]
    PROVE  StackOrder' /\ Bindings'
<1>1. PICK L, m : L = Len(calls) /\ m = Len(calls')
    OBVIOUS
<1>2. m \in Nat /\ L \in Nat /\ m <= L
    BY <1>1, SeqShape DEF IInv, CallsOK
<1>3. \A j \in 1 .. m : j \in 1 .. L /\ calls[j].struct \in 1 .. Len(structs)
    BY <1>1, <1>2 DEF IInv, CallsOK, CallOK
<1>4. ASSUME NEW a \in 1 .. m, NEW f, f = calls'[a]
      PROVE  /\ f.struct = calls[a].struct
             /\ OfCall(f)' = OfCall(calls[a]) /\ ArgCall(f)' = ArgCall(calls[a])
             /\ NamesItself(f.struct)' <=> NamesItself(calls[a].struct)
  <2>1. f.struct = calls[a].struct /\ f.struct \in 1 .. Len(structs)
    BY <1>1, <1>3, <1>4
  <2>2. NamesItself(f.struct)' <=> NamesItself(f.struct)
    BY <2>1, NamesItselfStays
  <2>3. QED  BY <2>1, <2>2 DEF OfCall, ArgCall, Grows
<1>5. StackOrder'
  <2>1. ASSUME NEW a \in 2 .. m, NEW b \in 2 .. m, a < b, NEW f, NEW g,
               f = calls'[a], g = calls'[b]
        PROVE  NotLater(g, f)'
    <3>1. PICK f0, g0 : f0 = calls[a] /\ g0 = calls[b]
      OBVIOUS
    <3>2. a \in 1 .. m /\ b \in 1 .. m /\ a \in 2 .. L /\ b \in 2 .. L
      BY <1>2
    <3>3. NotLater(g0, f0)
      BY <1>1, <2>1, <3>1, <3>2 DEF FieldsKnown, StackOrder
    <3>4. OfCall(f)' = OfCall(f0) /\ OfCall(g)' = OfCall(g0)
      BY <1>4, <2>1, <3>1, <3>2
    <3>5. QED  BY <3>3, <3>4 DEF NotLater
  <2>2. QED  BY <1>1, <2>1 DEF StackOrder
<1>6. Bindings'
  <2>1. ASSUME NEW a \in 2 .. m, NEW f, f = calls'[a]
        PROVE  /\ BoundFor(f)'
               /\ \A b \in 2 .. m : \A g :
                    g = calls'[b] /\ OfCall(g)' = OfCall(f)' /\ ~NamesItself(f.struct)' => b = a
    <3>1. a \in 1 .. m /\ a \in 2 .. L
      BY <1>2
    <3>2. PICK f0 : f0 = calls[a]
      OBVIOUS
    <3>3. /\ f.struct = f0.struct
          /\ OfCall(f)' = OfCall(f0) /\ ArgCall(f)' = ArgCall(f0)
          /\ NamesItself(f.struct)' <=> NamesItself(f0.struct)
      BY <1>4, <2>1, <3>1, <3>2
    <3>4. BoundFor(f0)
      BY <1>1, <3>1, <3>2 DEF FieldsKnown, Bindings
    <3>5. NamesItself(f0.struct) \/ binding'[OfCall(f0)] = ArgCall(f0)
      BY <1>1, <3>2, <3>4 DEF BoundFor
    <3>6. BoundFor(f)'
      BY <3>3, <3>5 DEF BoundFor
    <3>7. ASSUME NEW b \in 2 .. m, NEW g, g = calls'[b], OfCall(g)' = OfCall(f)',
                 ~NamesItself(f.struct)'
          PROVE  b = a
      <4>1. PICK g0 : g0 = calls[b]
        OBVIOUS
      <4>2. b \in 1 .. m /\ b \in 2 .. L
        BY <1>2
      <4>3. OfCall(g)' = OfCall(g0)
        BY <1>4, <3>7, <4>1, <4>2
      <4>4. OfCall(g0) = OfCall(f0) /\ ~NamesItself(f0.struct)
        BY <3>3, <3>7, <4>3
      <4>5. QED  BY <1>1, <3>1, <3>2, <4>1, <4>2, <4>4 DEF FieldsKnown, Bindings
    <3>8. QED  BY <3>6, <3>7
  <2>2. QED  BY <1>1, <2>1 DEF Bindings
<1>7. QED  BY <1>5, <1>6

\* A call waits for the same struct.
LEMMA WaitsForStays ==
    ASSUME Grows, NEW f, NEW g, NEW h, f.struct \in 1 .. Len(structs),
           g.struct \in 1 .. Len(structs), h.struct = g.struct, WaitsFor(f, g)
    PROVE  WaitsFor(f, h)'
<1>1. /\ OfCall(f)' = OfCall(f) /\ OfCall(h)' = OfCall(g) /\ ArgCall(h)' = ArgCall(g)
      /\ body' = body
    BY DEF OfCall, ArgCall, Grows
<1>2. ChainCall(f)' = ChainCall(f)
    BY <1>1 DEF ChainCall
<1>3. QED  BY <1>1, <1>2 DEF WaitsFor

\* The calls below the top wait as they did.
LEMMA WaitingStays ==
    ASSUME IInv, FieldsKnown, Grows, Len(calls') \in Nat, Len(calls') <= Len(calls),
           \A j \in 1 .. Len(calls') : calls'[j].struct = calls[j].struct,
           \A j \in 1 .. Len(calls') - 1 : calls'[j] = calls[j]
    PROVE  Waiting'
<1>1. PICK L, m : L = Len(calls) /\ m = Len(calls')
    OBVIOUS
<1>2. m \in Nat /\ L \in Nat /\ m <= L
    BY <1>1, SeqShape DEF IInv, CallsOK
<1>3. ASSUME NEW a \in 1 .. m - 1, NEW f, NEW h, f = calls'[a], h = calls'[a + 1]
      PROVE  WaitsFor(f, h)'
  <2>1. PICK g : g = calls[a + 1]
    OBVIOUS
  <2>2. a \in 1 .. L - 1 /\ a \in 1 .. L /\ a + 1 \in 1 .. L /\ a + 1 \in 1 .. m
    BY <1>2
  <2>3. f = calls[a] /\ h.struct = g.struct
    BY <1>1, <1>3, <2>1, <2>2
  <2>4. WaitsFor(f, g)
    BY <1>1, <2>1, <2>2, <2>3 DEF FieldsKnown, Waiting
  <2>5. f.struct \in 1 .. Len(structs) /\ g.struct \in 1 .. Len(structs)
    BY <1>1, <2>1, <2>2, <2>3 DEF IInv, CallsOK, CallOK
  <2>6. QED  BY <2>3, <2>4, <2>5, WaitsForStays
<1>4. QED  BY <1>1, <1>3 DEF Waiting

\* The structs are the same but for the flag of the one that became whole.
LEMMA StructsMeanStays ==
    ASSUME FailuresIInv, ~errors, FieldsKnown, Grows, Len(structs') = Len(structs),
           \A s \in 1 .. Len(structs) :
              /\ structs'[s].members = structs[s].members
              /\ structs'[s].whole => structs[s].whole
                    \/ Len(structs[s].members) = Len(body[structs[s].of])
    PROVE  StructsMean'
<1>1. ASSUME NEW s \in 1 .. Len(structs)
      PROVE  StructMeans(s)'
  <2>1. StructMeans(s) /\ ArgsKnown
    BY DEF FieldsKnown, StructsMean
  <2>2. CASE structs'[s].whole => structs[s].whole
    BY <2>1, <2>2, StructMeansStays
  <2>3. CASE Len(structs[s].members) = Len(body[structs[s].of])
    <3>1. \A i : MemberMeans(s, i) => MemberMeans(s, i)'
      BY MemberMeansStays
    <3>2. Exempt(s) => Exempt(s)'
      BY <2>1, ExemptStays
    <3>3. Len(structs'[s].members) = Len(body'[structs'[s].of])
      BY <2>3 DEF Grows
    <3>4. QED  BY <2>1, <3>1, <3>2, <3>3 DEF StructMeans
  <2>4. QED  BY <2>2, <2>3
<1>2. QED  BY <1>1 DEF StructsMean

-----------------------------------------------------------------------------
(* Members, step by step. *)

\* A call of the stack, as far as it was known.
LEMMA CallIs ==
    ASSUME IInv, NEW a \in 1 .. Len(calls), NEW f, f = calls[a]
    PROVE  /\ f.struct \in 1 .. Len(structs) /\ f.node \in Nat \ {0} /\ f.member \in Nat \ {0}
           /\ StructOK(structs[f.struct], Len(structs))
           /\ FieldsKnown => CallMeans(f)
BY DEF IInv, CallsOK, CallOK, StructsOK, FieldsKnown, CallsMean

\* A node is evaluated to what it means.
LEMMA WentFields ==
    ASSUME FailuresIInv, ~errors, FieldsKnown, AtNode, NEW t, Went(t),
           UNCHANGED <<body, binding, types, structs, decls>>,
           Node.kind = "param" => NamesItself(Top.struct) \/ t = Current.arg,
           \/ Exempt(Top.struct)
           \/ \A chain, arg : chain = ChainCall(Top) /\ arg = ArgCall(Top)
                                => Reaches(chain, arg, Top.node, t)
    PROVE  FieldsKnown'
<1>1. IInv /\ ArgsKnown
    BY DEF FailuresIInv, FieldsKnown
<1>2. PICK L, f : L = Len(calls) /\ f = Top
    OBVIOUS
<1>3. /\ L \in Nat \ {0} /\ L \in 1 .. L /\ f = calls[L] /\ f.struct \in 1 .. Len(structs)
      /\ f.node \in 1 .. Len(Member.type) /\ f.member <= Len(body[OfCall(f)])
      /\ ArgCall(f) = Current.arg /\ ChainCall(f) = Member.type
      /\ Len(Member.type) \in Nat \ {0} /\ Node = ChainCall(f)[f.node]
    BY <1>1, <1>2, TopIs
<1>4. Grows
    BY DEF Grows
<1>5. PICK g : g = calls'[L]
    OBVIOUS
<1>6. /\ Len(calls') = L
      /\ \A j \in 1 .. L - 1 : calls'[j] = calls[j]
      /\ GoesOn(f, g, t)
    BY <1>2, <1>5 DEF Went
<1>7. \A j \in 1 .. L : j = L \/ j \in 1 .. L - 1
    BY <1>3
<1>8. \A j \in 1 .. L : calls'[j].struct = calls[j].struct
    BY <1>3, <1>5, <1>6, <1>7 DEF GoesOn
<1>9. Len(calls') \in Nat /\ Len(calls') <= Len(calls)
    BY <1>2, <1>3, <1>6
<1>10. AllNamed' /\ ArgsKnown' /\ DeclOrder'
    BY <1>1, <1>4, TablesStay
<1>11. StackOrder' /\ Bindings'
    BY <1>1, <1>4, <1>6, <1>8, <1>9, StackStays
<1>12. Waiting'
    BY <1>1, <1>4, <1>6, <1>8, <1>9, WaitingStays
<1>13. StructsMean'
    BY <1>4, StructsMeanStays
<1>14. CallsMean'
  <2>1. ASSUME NEW a \in 1 .. L, NEW h, h = calls'[a]
        PROVE  CallMeans(h)'
    <3>1. CASE a \in 1 .. L - 1
      <4>1. h = calls[a]
        BY <1>6, <2>1, <3>1
      <4>2. h.struct \in 1 .. Len(structs) /\ CallMeans(h)
        BY <1>1, <1>2, <4>1, CallIs
      <4>3. QED  BY <1>1, <1>4, <4>2, CallMeansStays
    <3>2. CASE a = L
      <4>1. GoesOn(f, h, t)
        BY <1>5, <1>6, <2>1, <3>2
      <4>2. CallMeans(f)
        BY <1>1, <1>2, <1>3, CallIs
      <4>3. f.node = 1 /\ ChainCall(f)[1].kind = "param" => NamesItself(f.struct) \/ t = ArgCall(f)
        BY <1>2, <1>3
      <4>4. \/ Exempt(f.struct)
            \/ \A chain, arg : chain = ChainCall(f) /\ arg = ArgCall(f)
                                => Reaches(chain, arg, f.node, t)
        BY <1>2
      <4>5. f.node \in Nat \ {0} /\ f.node <= Len(ChainCall(f)) /\ Len(ChainCall(f)) \in Nat
        BY <1>3
      <4>6. QED  BY <1>1, <1>3, <1>4, <4>1, <4>2, <4>3, <4>4, <4>5, CallMeansGoesOn
    <3>3. QED  BY <1>7, <3>1, <3>2
  <2>2. QED  BY <1>6, <2>1 DEF CallsMean
<1>15. QED  BY <1>10, <1>11, <1>12, <1>13, <1>14 DEF FieldsKnown

\* What a call has reached, and a step that goes on from there.
LEMMA TopReaches ==
    ASSUME FailuresIInv, FieldsKnown, AtNode, NEW t,
           Top.node # 1 \/ Node.kind \in {"param", "prim", "plain"},
           Exempt(Top.struct) \/ Leads(Top.val, Node, Current.arg, t)
    PROVE  \/ Exempt(Top.struct)
           \/ \A chain, arg : chain = ChainCall(Top) /\ arg = ArgCall(Top)
                                => Reaches(chain, arg, Top.node, t)
<1> SUFFICES ASSUME ~Exempt(Top.struct), NEW chain, NEW arg,
                    chain = ChainCall(Top), arg = ArgCall(Top)
             PROVE  Reaches(chain, arg, Top.node, t)
    OBVIOUS
<1>1. IInv
    BY DEF FailuresIInv
<1>2. PICK f, L : f = Top /\ L = Len(calls)
    OBVIOUS
<1>3. /\ L \in 1 .. L /\ f = calls[L] /\ f.node \in 1 .. Len(Member.type)
      /\ arg = Current.arg /\ Node = chain[f.node] /\ Len(Member.type) \in Nat
    BY <1>1, <1>2, TopIs
<1>4. Leads(f.val, chain[f.node], arg, t)
    BY <1>2, <1>3
<1>5. CASE f.node = 1
  <2>1. Node.kind \in {"param", "prim", "plain"}
    BY <1>2, <1>5
  <2>2. Reaches(chain, arg, 1, t)
    BY <1>3, <1>4, <1>5, <2>1, PathStart
  <2>3. QED  BY <1>2, <1>5, <2>2
<1>6. CASE f.node # 1
  <2>1. PICK m : m = f.node - 1
    OBVIOUS
  <2>2. m \in Nat /\ m + 1 = f.node
    BY <1>3, <1>6, <2>1
  <2>3. CallMeans(f)
    BY <1>1, <1>2, <1>3, CallIs
  <2>4. Reaches(chain, arg, f.node - 1, f.val)
    BY <1>2, <1>6, <2>3 DEF CallMeans, Means
  <2>5. Reaches(chain, arg, m, f.val)
    BY <2>1, <2>4
  <2>6. Leads(f.val, chain[m + 1], arg, t)
    BY <1>4, <2>2
  <2>7. Reaches(chain, arg, m + 1, t)
    BY <2>2, <2>5, <2>6, PathStep
  <2>8. QED  BY <1>2, <2>2, <2>7
<1>7. QED  BY <1>5, <1>6

\* A node is evaluated.
LEMMA YieldFields ==
    ASSUME FailuresIInv, ~errors', FieldsKnown, ~errors,
           Identifier \/ PointerDesc \/ GenericOfError \/ GenericKnown \/ GenericRefused
    PROVE  FieldsKnown'
<1>1. /\ IInv /\ AtNode /\ calls # <<>> /\ ~GenericRefused
      /\ UNCHANGED <<body, binding, types, structs, decls>>
    BY YieldSteps DEF FailuresIInv, Identifier, PointerDesc, GenericOfError, GenericKnown,
                      GenericRefused, AtUnknownGeneric, AtGeneric
<1>2. Node.kind \in {"param", "prim", "plain"} <=> Top.node = 1
    BY <1>1, NodeAt
<1>3. ASSUME NEW t, Went(t), Exempt(Top.struct) \/ Leads(Top.val, Node, Current.arg, t),
             Node.kind = "param" => NamesItself(Top.struct) \/ t = Current.arg
      PROVE  FieldsKnown'
    BY <1>1, <1>2, <1>3, TopReaches, WentFields
<1>4. CASE Identifier
  <2>1. Went(GetType(Node))
    BY <1>1, <1>4, YieldSteps
  <2>2. CASE NamesItself(Top.struct)
    BY <1>3, <2>1, <2>2 DEF Exempt
  <2>3. CASE ~NamesItself(Top.struct)
    BY <1>3, <1>4, <2>1, <2>3, LeafLeads
  <2>4. QED  BY <2>2, <2>3
<1>5. CASE ~Identifier
  <2>1. Node.kind \notin {"param", "prim", "plain"} /\ Top.node # 1
    BY <1>1, <1>2, <1>5 DEF Identifier, PointerDesc, GenericOfError, GenericKnown, AtGeneric
  <2>2. Top.val # Error
    <3>1. Len(calls) \in 1 .. Len(calls) /\ Top = calls[Len(calls)]
      BY <1>1, TopIs
    <3>2. GoodType(Top.val)
      BY <2>1, <3>1 DEF FailuresIInv, NoErrors, CallsTold
    <3>3. QED  BY <3>2, GoodTypes
  <2>3. CASE PointerDesc
    <3>1. Went(Pointer(Top.val))
      BY <1>1, <1>5, <2>3, YieldSteps
    <3>2. Leads(Top.val, Node, Current.arg, Pointer(Top.val))
      BY <2>3 DEF PointerDesc, Leads
    <3>3. QED  BY <1>3, <2>1, <3>1, <3>2
  <2>4. CASE ~PointerDesc /\ GenericKnown
    <3> DEFINE t == StructTp(types[Signature(Node.name, Top.val)])
    <3>1. Went(t)
      BY <1>1, <1>5, <2>4, YieldSteps
    <3>2. ~Exempt(Top.struct) => Leads(Top.val, Node, Current.arg, t)
      BY <2>1, <2>4, KnownLeads
    <3> HIDE DEF t
    <3>3. QED  BY <1>3, <2>1, <3>1, <3>2
  <2>5. ~GenericOfError
    BY <2>2 DEF GenericOfError
  <2>6. QED  BY <1>1, <1>5, <2>3, <2>4, <2>5
<1>6. QED  BY <1>4, <1>5

\* The chains of a declaration.
LEMMA ChainIs ==
    ASSUME IInv, NEW s \in 1 .. Len(structs)
    PROVE  /\ Len(body[structs[s].of]) \in Nat
           /\ DOMAIN body[structs[s].of] = 1 .. Len(body[structs[s].of])
           /\ \A i \in 1 .. Len(body[structs[s].of]) :
                /\ body[structs[s].of][i].type \in Seq(ChainNode)
                /\ Len(body[structs[s].of][i].type) \in Nat
<1> USE GenericsAssumption
<1>1. body \in Programs /\ structs[s].of \in Generics \cup Plain
    BY DEF IInv, StructsOK, StructOK
<1> DEFINE list == body[structs[s].of]
<1>2. list \in Seq([name : STRING, type : Seq(ChainNode)])
    BY <1>1
<1> HIDE DEF list
<1>3. Len(list) \in Nat /\ DOMAIN list = 1 .. Len(list)
    BY <1>2, LenProperties
<1>4. ASSUME NEW i \in 1 .. Len(list)
      PROVE  list[i].type \in Seq(ChainNode) /\ Len(list[i].type) \in Nat
  <2>1. list[i] \in [name : STRING, type : Seq(ChainNode)]
    BY <1>2, ElementOfSeq
  <2>2. list[i].type \in Seq(ChainNode)
    BY <2>1
  <2>3. QED  BY <2>2, LenProperties
<1>5. QED  BY <1>3, <1>4 DEF list

\* A member is appended: it is what its chain means.
LEMMA BuildMemberFields ==
    ASSUME FailuresIInv, SizesIInv, ~errors, FieldsKnown, BuildMember
    PROVE  FieldsKnown'
<1>1. IInv /\ ArgsKnown /\ Busy /\ calls # <<>> /\ UNCHANGED <<body, binding, types, decls>>
    BY DEF FailuresIInv, FieldsKnown, BuildMember, Busy
<1>2. GotMember
    BY <1>1, BuildMemberShape
<1>3. PICK L, f, k, n : L = Len(calls) /\ f = Top /\ k = Top.struct /\ n = Len(structs)
    OBVIOUS
<1>4. /\ L \in Nat \ {0} /\ L \in 1 .. L /\ f = calls[L] /\ n \in Nat
    BY <1>1, <1>3, TopShape
<1>5. /\ f.struct = k /\ k \in 1 .. n /\ Current = structs[k] /\ CallMeans(f)
      /\ f.node \in Nat \ {0} /\ f.member \in Nat \ {0} /\ StructOK(structs[k], n)
    BY <1>1, <1>3, <1>4, CallIs DEF Current
<1>6. OfCall(f) = Current.of /\ ArgCall(f) = Current.arg /\ ChainCall(f) = Member.type
    BY <1>3, <1>5 DEF OfCall, ArgCall, ChainCall, Member
<1>7. PICK g, old, new : g = calls'[L] /\ old = structs[k].members /\ new = structs'[k].members
    OBVIOUS
<1>8. /\ Len(structs') = n
      /\ \A s \in 1 .. n : s # k => structs'[s] = structs[s]
      /\ structs'[k].of = structs[k].of /\ structs'[k].arg = structs[k].arg
      /\ structs'[k].text = structs[k].text /\ structs'[k].whole = structs[k].whole
      /\ Len(new) = Len(old) + 1
      /\ \A i \in 1 .. Len(old) : new[i] = old[i]
      /\ new[Len(old) + 1] = f.val
      /\ Len(calls') = L
      /\ \A j \in 1 .. L - 1 : calls'[j] = calls[j]
      /\ g.struct = k /\ g.member = f.member + 1 /\ g.node = 1
    BY <1>2, <1>3, <1>5, <1>7 DEF GotMember, OthersSame
<1>9. Grows
    BY <1>1, <1>3, <1>8 DEF Grows
<1>10. \A j \in 1 .. L : j = L \/ j \in 1 .. L - 1
    BY <1>4
<1>11. \A j \in 1 .. L : calls'[j].struct = calls[j].struct
    BY <1>4, <1>5, <1>7, <1>8, <1>10
<1>12. Len(calls') \in Nat /\ Len(calls') <= Len(calls)
    BY <1>3, <1>4, <1>8
<1>13. AllNamed' /\ ArgsKnown' /\ DeclOrder'
    BY <1>1, <1>3, <1>8, <1>9, TablesStay
<1>14. StackOrder' /\ Bindings'
    BY <1>1, <1>8, <1>9, <1>11, <1>12, StackStays
<1>15. Waiting'
    BY <1>1, <1>8, <1>9, <1>11, <1>12, WaitingStays
<1>16. ~structs[k].whole /\ \A a \in 1 .. L - 1 : calls[a].struct # k
  <2>1. \A a \in 1 .. L - 1 : a \in 1 .. L /\ a # L
    BY <1>4
  <2>2. QED  BY <1>3, <1>4, <1>5, <2>1 DEF SizesIInv, StackOpen
<1>17. Len(old) \in Nat /\ Len(old) = f.member - 1
  <2>1. Len(old) = f.member - 1
    BY <1>5, <1>7 DEF CallMeans, Position
  <2>2. QED  BY <1>5, <2>1
<1>18. CallsMean'
  <2>1. ASSUME NEW a \in 1 .. L, NEW h, h = calls'[a]
        PROVE  CallMeans(h)'
    <3>1. CASE a \in 1 .. L - 1
      <4>1. h = calls[a] /\ a \in 1 .. Len(calls)
        BY <1>3, <1>8, <2>1, <3>1
      <4>2. h.struct \in 1 .. n /\ CallMeans(h)
        BY <1>1, <1>3, <4>1, CallIs
      <4>3. structs'[h.struct].members = structs[h.struct].members
        BY <1>8, <1>16, <3>1, <4>1, <4>2
      <4>4. QED  BY <1>1, <1>3, <1>9, <4>2, <4>3, CallMeansStays
    <3>2. CASE a = L
      <4>1. h.struct = k /\ h.member = f.member + 1 /\ h.node = 1
        BY <1>7, <1>8, <2>1, <3>2
      <4>2. Len(structs'[k].members) = h.member - 1
        BY <1>5, <1>7, <1>8, <1>17, <4>1
      <4>3. f.member <= Len(body[Current.of])
        BY <1>3 DEF BuildMember
      <4>4. OfCall(h)' = Current.of /\ Len(body[Current.of]) \in Nat
        BY <1>1, <1>3, <1>5, <1>8, <4>1, ChainIs DEF OfCall
      <4>5. h.member <= Len(body'[OfCall(h)']) + 1
        BY <1>1, <1>5, <4>1, <4>3, <4>4
      <4>6. Position(h)'
        BY <4>1, <4>2, <4>5 DEF Position
      <4>7. HasArgument(h)' /\ Means(h)'
        BY <4>1 DEF HasArgument, Means
      <4>8. QED  BY <4>6, <4>7 DEF CallMeans
    <3>3. QED  BY <1>10, <3>1, <3>2
  <2>2. QED  BY <1>8, <2>1 DEF CallsMean
<1>19. StructsMean'
  <2>1. ASSUME NEW s \in 1 .. n
        PROVE  StructMeans(s)'
    <3>1. StructMeans(s)
      BY <1>3 DEF FieldsKnown, StructsMean
    <3>2. CASE s # k
      <4>1. structs'[s] = structs[s]
        BY <1>8, <3>2
      <4>2. QED  BY <1>1, <1>3, <1>9, <3>1, <4>1, StructMeansStays
    <3>3. CASE s = k
      <4>1. ~structs'[k].whole
        BY <1>8, <1>16
      <4>2. CASE Exempt(k)
        <5>1. Exempt(k)'
          BY <1>1, <1>3, <1>5, <1>9, <4>2, ExemptStays
        <5>2. QED  BY <3>3, <4>1, <5>1 DEF StructMeans
      <4>3. CASE ~Exempt(k)
        <5>1. ASSUME NEW i \in 1 .. Len(old)
              PROVE  MemberMeans(k, i)'
          <6>1. MemberMeans(k, i)
            BY <1>7, <3>1, <3>3, <4>3 DEF StructMeans
          <6>2. structs'[k].members[i] = structs[k].members[i]
            BY <1>7, <1>8
          <6>3. QED  BY <1>3, <1>5, <1>9, <6>1, <6>2, MemberMeansStays
        <5>2. ASSUME NEW i, i = Len(old) + 1
              PROVE  MemberMeans(k, i)'
          <6>1. i = f.member
            BY <1>5, <1>17, <5>2
          <6>2. Len(Member.type) \in Nat \ {0} /\ f.node > Len(Member.type)
            BY <1>1, <1>3, MemberShape DEF BuildMember
          <6>3. f.node # 1 /\ f.node <= Len(Member.type) + 1
            BY <1>5, <1>6, <6>2 DEF CallMeans, Position
          <6>4. PICK chain, arg, v, m : chain = Member.type /\ arg = Current.arg /\ v = f.val
                                        /\ m = Len(chain)
            OBVIOUS
          <6>5. f.node - 1 = m
            BY <1>5, <6>2, <6>3, <6>4
          <6>6. Reaches(chain, arg, f.node - 1, f.val)
            BY <1>5, <1>6, <4>3, <6>3, <6>4 DEF CallMeans, Means
          <6>7. Reaches(chain, arg, m, v)
            BY <6>4, <6>5, <6>6
          <6>8. Reaches(chain, arg, m, v)'
            BY <1>9, <6>7, ReachesStays
          <6>9. chain = body'[structs'[k].of][i].type /\ arg = structs'[k].arg
            BY <1>1, <1>3, <1>5, <1>8, <6>1, <6>4 DEF Member
          <6>10. v = structs'[k].members[i]
            BY <1>7, <1>8, <5>2, <6>4
          <6>11. QED  BY <6>4, <6>8, <6>9, <6>10 DEF MemberMeans
        <5>3. \A i \in 1 .. Len(new) : i \in 1 .. Len(old) \/ i = Len(old) + 1
          BY <1>8, <1>17
        <5>4. \A i \in 1 .. Len(structs'[k].members) : MemberMeans(k, i)'
          BY <1>7, <5>1, <5>2, <5>3
        <5>5. QED  BY <3>3, <4>1, <5>4 DEF StructMeans
      <4>4. QED  BY <4>2, <4>3
    <3>4. QED  BY <3>2, <3>3
  <2>2. QED  BY <1>8, <2>1 DEF StructsMean
<1>20. QED  BY <1>13, <1>14, <1>15, <1>18, <1>19 DEF FieldsKnown

\* The innermost struct becomes whole: the call below waited for it, at a node
\* that means it.
LEMMA StructWholeFields ==
    ASSUME FailuresIInv, SizesIInv, ~errors, FieldsKnown, StructWhole
    PROVE  FieldsKnown'
<1> USE GenericsAssumption
<1>1. IInv /\ ArgsKnown /\ calls # <<>> /\ UNCHANGED <<body, types, decls>> /\ Leave /\ AtEnd
    BY DEF FailuresIInv, FieldsKnown, StructWhole, AtEnd, Busy
<1>2. BecameWhole /\ CameBack(StructTp(Top.struct))
    BY <1>1, StructWholeShape
<1>3. PICK L, top, k, n, t : L = Len(calls) /\ top = Top /\ k = Top.struct /\ n = Len(structs)
                             /\ t = StructTp(k)
    OBVIOUS
<1>4. /\ L \in Nat \ {0} /\ L \in 1 .. L /\ top = calls[L] /\ n \in Nat
      /\ Current.of \in (IF L = 1 THEN Plain ELSE Generics)
    BY <1>1, <1>3, TopShape
<1>5. /\ top.struct = k /\ k \in 1 .. n /\ Current = structs[k] /\ CallMeans(top)
      /\ top.member \in Nat \ {0}
    BY <1>1, <1>3, <1>4, CallIs DEF Current
<1>6. /\ Len(structs') = n
      /\ \A s \in 1 .. n : s # k => structs'[s] = structs[s]
      /\ structs'[k].of = structs[k].of /\ structs'[k].arg = structs[k].arg
      /\ structs'[k].text = structs[k].text /\ structs'[k].members = structs[k].members
      /\ Len(calls') = L - 1
      /\ \A j \in 1 .. L - 2 : calls'[j] = calls[j]
      /\ L # 1 => GoesOn(calls[L - 1], calls'[L - 1], t)
    BY <1>2, <1>3, <1>5 DEF BecameWhole, OthersSame, CameBack
<1>7. Grows
    BY <1>1, <1>3, <1>6 DEF Grows
<1>8. \A j \in 1 .. L - 1 : calls'[j].struct = calls[j].struct
    BY <1>1, <1>2, <1>3, <1>6, CameBackStructs
<1>9. /\ Len(calls') \in Nat /\ Len(calls') <= Len(calls)
      /\ \A j \in 1 .. L - 1 : L # 1 /\ j \in 1 .. L /\ (j = L - 1 \/ j \in 1 .. L - 2)
    BY <1>3, <1>4, <1>6
<1>10. AllNamed' /\ ArgsKnown' /\ DeclOrder'
    BY <1>1, <1>3, <1>6, <1>7, TablesStay
<1>11. ASSUME NEW a \in 2 .. L - 1
       PROVE  \/ NamesItself(calls[a].struct)
              \/ binding'[OfCall(calls[a])] = binding[OfCall(calls[a])]
  <2>1. PICK f : f = calls[a]
    OBVIOUS
  <2>2. a \in 2 .. L /\ L \in 2 .. L /\ a # L
    BY <1>4
  <2>3. OfCall(f) # OfCall(top) \/ NamesItself(f.struct)
    BY <1>3, <1>4, <2>1, <2>2 DEF FieldsKnown, Bindings
  <2>4. OfCall(top) = Current.of
    BY <1>5 DEF OfCall
  <2>5. CASE OfCall(f) # OfCall(top)
    <3>1. OfCall(f) \in Generics
      BY <1>1, <1>3, <2>1, <2>2 DEF IInv, CallsOK, OfCall
    <3>2. DOMAIN binding = Generics
      BY <1>1 DEF IInv, BindingOK
    <3>3. binding'[OfCall(f)] = binding[OfCall(f)]
      BY <1>1, <2>4, <2>5, <3>1, <3>2 DEF Leave
    <3>4. QED  BY <2>1, <3>3
  <2>6. QED  BY <2>1, <2>3, <2>5
<1>12. StackOrder' /\ Bindings'
    BY <1>1, <1>6, <1>7, <1>8, <1>9, <1>11, StackStays
<1>13. Waiting'
  <2>1. \A j \in 1 .. Len(calls') - 1 : calls'[j] = calls[j]
    <3>1. Len(calls') - 1 = L - 2
      BY <1>4, <1>6
    <3>2. QED  BY <1>6, <3>1
  <2>2. QED  BY <1>1, <1>6, <1>7, <1>8, <1>9, <2>1, WaitingStays
<1>14. Len(structs[k].members) = Len(body[structs[k].of])
  <2>1. top.member > Len(body[Current.of])
    BY <1>1, <1>3 DEF AtEnd
  <2>2. /\ Len(structs[k].members) = top.member - 1
        /\ top.member <= Len(body[Current.of]) + 1
    BY <1>5 DEF CallMeans, Position, OfCall
  <2>3. Len(body[structs[k].of]) \in Nat
    BY <1>1, <1>3, <1>5, ChainIs
  <2>4. QED  BY <1>5, <2>1, <2>2, <2>3
<1>15. StructsMean'
  <2>1. \A s \in 1 .. n :
            /\ structs'[s].members = structs[s].members
            /\ structs'[s].whole => structs[s].whole
                  \/ Len(structs[s].members) = Len(body[structs[s].of])
    BY <1>6, <1>14
  <2>2. QED  BY <1>3, <1>6, <1>7, <2>1, StructsMeanStays
<1>16. CallsMean'
  <2>1. ASSUME NEW a \in 1 .. L - 1, NEW h, h = calls'[a]
        PROVE  CallMeans(h)'
    <3>1. PICK f : f = calls[a]
      OBVIOUS
    <3>2. /\ f.struct \in 1 .. n /\ CallMeans(f) /\ f.node \in Nat \ {0}
          /\ f.member \in Nat \ {0}
      BY <1>1, <1>3, <1>9, <3>1, CallIs
    <3>3. structs'[f.struct].members = structs[f.struct].members
      BY <1>6, <3>2
    <3>4. CASE a \in 1 .. L - 2
      <4>1. h = f
        BY <1>6, <2>1, <3>1, <3>4
      <4>2. QED  BY <1>1, <1>3, <1>7, <3>2, <3>3, <4>1, CallMeansStays
    <3>5. CASE a = L - 1
      <4>1. L # 1 /\ a \in 1 .. L - 1 /\ a + 1 = L
        BY <1>4, <1>9, <3>5
      <4>2. GoesOn(f, h, t)
        BY <1>6, <2>1, <3>1, <3>5, <4>1
      <4>3. WaitsFor(f, top)
        BY <1>3, <1>4, <3>1, <4>1 DEF FieldsKnown, Waiting
      <4>4. /\ f.member <= Len(body[OfCall(f)])
            /\ f.node \in 2 .. Len(ChainCall(f))
            /\ ChainCall(f)[f.node].kind = "generic"
            /\ ChainCall(f)[f.node].name = structs[k].of
            /\ structs[k].arg = f.val
        BY <1>5, <4>3 DEF WaitsFor, OfCall, ArgCall
      <4>5. Len(ChainCall(f)) \in Nat
        <5>1. Len(body[OfCall(f)]) \in Nat
          BY <1>1, <1>3, <3>2, ChainIs DEF OfCall
        <5>2. f.member \in 1 .. Len(body[OfCall(f)])
          BY <3>2, <4>4, <5>1
        <5>3. QED  BY <1>1, <1>3, <3>2, <5>2, ChainIs DEF OfCall, ChainCall
      <4>6. f.node # 1 /\ f.node <= Len(ChainCall(f))
        BY <4>4, <4>5
      <4>7. ASSUME NEW chain, NEW arg, chain = ChainCall(f), arg = ArgCall(f), ~Exempt(f.struct)
            PROVE  Reaches(chain, arg, f.node, t)
        <5>1. PICK m : m = f.node - 1
          OBVIOUS
        <5>2. m \in Nat /\ m + 1 = f.node
          BY <3>2, <4>6, <5>1
        <5>3. Reaches(chain, arg, f.node - 1, f.val)
          BY <3>2, <4>6, <4>7 DEF CallMeans, Means
        <5>4. Leads(f.val, chain[f.node], arg, t)
          BY <1>3, <1>5, <4>4, <4>7 DEF Leads
        <5>5. Reaches(chain, arg, m, f.val) /\ Leads(f.val, chain[m + 1], arg, t)
          BY <5>1, <5>2, <5>3, <5>4
        <5>6. Reaches(chain, arg, m + 1, t)
          BY <5>2, <5>5, PathStep
        <5>7. QED  BY <5>2, <5>6
      <4>8. f.struct \in 1 .. Len(structs)
        BY <1>3, <3>2
      <4>9. QED
        BY <1>1, <1>7, <3>2, <3>3, <4>2, <4>4, <4>5, <4>6, <4>7, <4>8, CallMeansGoesOn
    <3>6. QED  BY <1>9, <3>4, <3>5
  <2>2. QED  BY <1>6, <2>1 DEF CallsMean
<1>17. QED  BY <1>10, <1>12, <1>13, <1>15, <1>16 DEF FieldsKnown

-----------------------------------------------------------------------------
(* Another struct on the stack. *)

\* What an instance names was declared no later than the structs on the stack:
\* the declaration of the innermost one lies between.
LEMMA InstanceOrder ==
    ASSUME FailuresIInv, ~errors, FieldsKnown, AtNode, Node.kind = "generic",
           NEW a \in 2 .. Len(calls), NEW x \in 1 .. Len(decls), NEW y \in 1 .. Len(decls),
           decls[x] = Node.name, decls[y] = OfCall(calls[a])
    PROVE  \E z \in 1 .. Len(decls) : decls[z] = Current.of /\ x <= z /\ z <= y
<1>1. IInv /\ DeclsOK /\ StructsTold /\ DeclOrder /\ StackOrder
    BY DEF FailuresIInv, FieldsKnown, NoErrors
<1>2. PICK L, D, g, h, f, top : L = Len(calls) /\ D = Len(decls) /\ g = Node.name
            /\ h = Current.of /\ f = calls[a] /\ top = Top
    OBVIOUS
<1>3. /\ L \in Nat \ {0} /\ top = calls[L] /\ OfCall(top) = h
      /\ Top.struct \in 1 .. Len(structs) /\ h = structs[Top.struct].of
    BY <1>1, <1>2, TopIs
<1>4. D \in Nat /\ Range(decls) = {decls[i] : i \in 1 .. D}
    BY <1>1, <1>2, SeqShape DEF DeclsOK, Range
<1>5. L \in 2 .. L /\ a \in 2 .. L /\ (a < L \/ a = L)
    BY <1>2, <1>3
<1>6. h \in Generics
  <2>1. calls # <<>>
    BY DEF AtNode, Busy
  <2>2. Current.of \in (IF Len(calls) = 1 THEN Plain ELSE Generics)
    BY <1>1, <2>1, TopShape
  <2>3. Len(calls) # 1
    BY <1>2, <1>3, <1>5
  <2>4. QED  BY <1>2, <2>2, <2>3
<1>7. g \in Generics \cap Named(h)
    BY <1>1, <1>2, NodeAt
<1>8. PICK z \in 1 .. D : decls[z] = h
  <2>1. h \in Range(decls)
    BY <1>1, <1>3 DEF StructsTold
  <2>2. QED  BY <1>4, <2>1
<1>9. \A i \in 1 .. D : \A n \in Generics : decls[i] = n =>
        /\ \A m \in Named(n) : m = n \/ \E j \in 1 .. i - 1 : decls[j] = m
        /\ \A j \in 1 .. D : decls[j] = n => j = i
  <2>1. D = Len(decls) /\ DeclOrder
    BY <1>1, <1>2
  <2>2. ASSUME NEW i \in 1 .. D, NEW n \in Generics, decls[i] = n
        PROVE  /\ \A m \in Named(n) : m = n \/ \E j \in 1 .. i - 1 : decls[j] = m
               /\ \A j \in 1 .. D : decls[j] = n => j = i
    <3>1. i \in 1 .. Len(decls) /\ n = decls[i]
      BY <2>1, <2>2
    <3>2. /\ \A m \in Named(n) : m = n \/ \E j \in 1 .. i - 1 : decls[j] = m
          /\ \A j \in 1 .. Len(decls) : decls[j] = n => j = i
      BY <2>1, <2>2, <3>1, Zenon DEF DeclOrder
    <3>3. QED  BY <2>1, <3>2
  <2>3. QED  BY <2>2
<1>10. x \in 1 .. D /\ y \in 1 .. D /\ decls[x] = g /\ decls[y] = OfCall(f)
    BY <1>2
<1>11. x <= z
  <2>1. CASE g = h
    BY <1>6, <1>8, <1>9, <1>10, <2>1
  <2>2. CASE g # h
    <3>1. PICK j \in 1 .. z - 1 : decls[j] = g
      <4>1. \A m \in Named(h) : m = h \/ \E j \in 1 .. z - 1 : decls[j] = m
        BY <1>6, <1>8, <1>9
      <4>2. QED  BY <1>7, <2>2, <4>1
    <3>2. j \in 1 .. D /\ j <= z
      BY <1>4, <1>8
    <3>3. x = j
      BY <1>7, <1>9, <1>10, <3>1, <3>2
    <3>4. QED  BY <3>2, <3>3
  <2>3. QED  BY <2>1, <2>2
<1>12. z <= y
  <2>1. CASE a = L
    BY <1>2, <1>3, <1>6, <1>8, <1>9, <1>10, <2>1
  <2>2. CASE a < L
    <3>1. NotLater(top, f)
      BY <1>1, <1>2, <1>3, <1>5, <2>2 DEF StackOrder
    <3>2. QED  BY <1>2, <1>3, <1>8, <1>10, <3>1 DEF NotLater
  <2>3. QED  BY <1>5, <2>1, <2>2
<1>13. QED  BY <1>2, <1>8, <1>11, <1>12

\* No instance of a generic is built in the middle of another one, unless its
\* declaration names it with another argument.
LEMMA CallsAnother ==
    ASSUME FailuresIInv, ~errors, FieldsKnown, GenericImpl,
           ~NamesItselfOtherwise(Node.name), NEW a \in 2 .. Len(calls)
    PROVE  OfCall(calls[a]) # Node.name
<1> USE GenericsAssumption
<1> SUFFICES ASSUME OfCall(calls[a]) = Node.name PROVE FALSE
    OBVIOUS
<1>1. /\ IInv /\ DeclsOK /\ StructsTold /\ AllNamed /\ ArgsKnown
      /\ AtNode /\ Node.kind = "generic" /\ Signature(Node.name, Top.val) \notin DOMAIN types
    BY DEF FailuresIInv, FieldsKnown, NoErrors, GenericImpl, AtUnknownGeneric, AtGeneric
<1>2. PICK g, top, k : g = Node.name /\ top = Top /\ k = Top.struct
    OBVIOUS
<1>3. /\ Len(calls) \in 1 .. Len(calls) /\ top = calls[Len(calls)] /\ k \in 1 .. Len(structs)
      /\ Current = structs[k] /\ OfCall(top) = Current.of /\ ArgCall(top) = Current.arg
      /\ ChainCall(top) = Member.type /\ Node = Member.type[top.node]
      /\ top.node \in 1 .. Len(Member.type)
      /\ Member.type \in Seq(ChainNode)
    BY <1>1, <1>2, TopIs
<1>4. g \in Generics /\ g \in Named(Current.of) /\ top.node # 1
    BY <1>1, <1>2, NodeAt
<1>5. g \in Range(decls)
    BY <1>1, <1>3, <1>4 DEF DeclsOK, StructsTold
<1>6. PICK x \in 1 .. Len(decls) : decls[x] = g
    BY <1>1, <1>5, SeqShape DEF DeclsOK, Range
<1>7. PICK z \in 1 .. Len(decls) : decls[z] = Current.of /\ x <= z /\ z <= x
    BY <1>1, <1>2, <1>6, InstanceOrder
<1>8. Current.of = g
  <2>1. x = z
    BY <1>7
  <2>2. QED  BY <1>6, <1>7, <2>1
<1>9. top.node = 2 /\ Member.type[1].kind = "param"
  <2>1. PICK m, chain : m = Top.member /\ chain = body[g][m].type
    OBVIOUS
  <2>2. chain = Member.type /\ m \in DOMAIN body[g]
    BY <1>1, <1>8, <2>1, MemberShape DEF Member, AtNode
  <2>3. top.node \in DOMAIN chain /\ chain[top.node].kind = "generic" /\ chain[top.node].name = g
    BY <1>1, <1>2, <1>3, <2>2, LenProperties
  <2>4. top.node = 2 /\ chain[1].kind = "param"
    <3>1. ~NamesItselfOtherwise(g) /\ m \in DOMAIN body[g]
      BY <1>2, <2>2
    <3>2. \A j \in DOMAIN chain : chain[j].kind = "generic" /\ chain[j].name = g
                => j = 2 /\ chain[1].kind = "param"
      BY <2>1, <3>1 DEF NamesItselfOtherwise
    <3>3. QED  BY <2>3, <3>2, Zenon
  <2>5. QED  BY <2>2, <2>4
<1>10. Top.val = Current.arg
  <2>1. HasArgument(top)
    BY <1>1, <1>3, CallIs DEF CallMeans
  <2>2. ~NamesItself(k) /\ top.struct = k
    BY <1>2, <1>3, <1>8 DEF NamesItself
  <2>3. QED  BY <1>2, <1>3, <1>9, <2>1, <2>2 DEF HasArgument
<1>11. structs[k].text = Signature(g, Top.val)
    BY <1>1, <1>3, <1>4, <1>8, <1>10 DEF ArgsKnown, ArgKnown
<1>12. NameOf(structs[k]) = structs[k].text
    BY <1>3, <1>4, <1>8 DEF NameOf
<1>13. QED  BY <1>1, <1>2, <1>3, <1>11, <1>12 DEF AllNamed

\* An interval with one more place.
LEMMA OneMore ==
    ASSUME NEW m \in Nat
    PROVE  /\ \A i \in 1 .. m + 1 : i = m + 1 \/ i \in 1 .. m
           /\ \A i \in 1 .. m : i \in 1 .. m + 1
           /\ m + 1 \in 1 .. m + 1
OBVIOUS

\* The new struct has its name and no members yet; the others mean what they
\* did.
LEMMA PushKnown ==
    ASSUME FailuresIInv, IInv', ~errors, FieldsKnown, body' = body,
           NEW of \in Generics \cup Plain, NEW arg, NEW text, NEW saved, NEW name,
           Pushed(of, arg, text, saved),
           types' = [x \in DOMAIN types \cup {name} |->
                        IF x = name THEN Len(structs) + 1 ELSE types[x]],
           name \notin DOMAIN types,
           name = IF of \in Plain THEN PlainName(of) ELSE text,
           TypeUpTo(arg, Len(structs)),
           of \in Generics => text = Signature(of, arg),
           of \in Plain => text.args = <<>> /\ ~IsStruct(arg)
    PROVE  Grows /\ AllNamed' /\ ArgsKnown' /\ CallsMean' /\ StructsMean'
<1> USE GenericsAssumption
<1>1. IInv /\ AllNamed /\ ArgsKnown /\ StructsMean
    BY DEF FailuresIInv, FieldsKnown
<1>2. PICK L, n, new : L = Len(calls) /\ n = Len(structs) /\ new = n + 1
    OBVIOUS
<1>3. L \in Nat /\ n \in Nat
    BY <1>1, <1>2, SeqShape DEF IInv, StructsOK, CallsOK
<1>4. PICK top, st : top = calls'[L + 1] /\ st = structs'[new]
    OBVIOUS
<1>5. /\ Len(calls') = L + 1
      /\ \A j \in 1 .. L : calls'[j] = calls[j]
      /\ top.struct = new /\ top.member = 1 /\ top.node = 1
      /\ Len(structs') = new
      /\ \A s \in 1 .. n : structs'[s] = structs[s]
      /\ st.of = of /\ st.arg = arg /\ st.text = text
      /\ Len(st.members) = 0 /\ ~st.whole
    BY <1>2, <1>4 DEF Pushed
<1>6. /\ \A s \in 1 .. new : s = new \/ s \in 1 .. n
      /\ \A s \in 1 .. n : s \in 1 .. new
      /\ \A a \in 1 .. L + 1 : a = L + 1 \/ a \in 1 .. L
      /\ new \in 1 .. new
  <2>1. /\ \A i \in 1 .. n + 1 : i = n + 1 \/ i \in 1 .. n
        /\ \A i \in 1 .. n : i \in 1 .. n + 1
        /\ n + 1 \in 1 .. n + 1
        /\ \A i \in 1 .. L + 1 : i = L + 1 \/ i \in 1 .. L
    BY <1>3, OneMore
  <2>2. QED  BY <1>2, <2>1
<1>7. Grows
  <2>1. \A x \in DOMAIN types : x \in DOMAIN types' /\ types'[x] = types[x]
    OBVIOUS
  <2>2. QED  BY <1>2, <1>5, <1>6, <2>1 DEF Grows
<1>8. AllNamed'
  <2>1. ASSUME NEW s \in 1 .. n
        PROVE  NameOf(structs'[s]) \in DOMAIN types' /\ types'[NameOf(structs'[s])] = s
    <3>1. NameOf(structs'[s]) = NameOf(structs[s])
      BY <1>5
    <3>2. NameOf(structs[s]) \in DOMAIN types /\ types[NameOf(structs[s])] = s
      BY <1>1, <1>2 DEF AllNamed
    <3>3. QED  BY <1>7, <3>1, <3>2 DEF Grows
  <2>2. NameOf(st) = name
    BY <1>5 DEF NameOf
  <2>3. name \in DOMAIN types' /\ types'[name] = new
    BY <1>2
  <2>4. \A s \in 1 .. new : NameOf(structs'[s]) \in DOMAIN types' /\ types'[NameOf(structs'[s])] = s
    BY <1>4, <1>6, <2>1, <2>2, <2>3
  <2>5. QED  BY <1>5, <2>4 DEF AllNamed, NameOf, PlainName
<1>9. ArgsKnown'
  <2>1. \A s \in 1 .. n : ArgKnown(s)'
    BY <1>1, <1>2, <1>7, ArgKnownStays DEF ArgsKnown
  <2>2. ArgKnown(new)'
    <3>1. TypeUpTo(arg, Len(structs'))
      BY <1>7 DEF TypeUpTo, Grows
    <3>2. (TypeText(arg))' = TypeText(arg)
      <4>1. IsStruct(arg) => structs'[arg.of[2]].text = structs[arg.of[2]].text
        BY <1>7 DEF TypeUpTo, StructOf, Grows
      <4>2. QED  BY <4>1 DEF TypeText, IsStruct
    <3>3. of \in Generics => structs'[new].text = Signature(structs[new].of, structs[new].arg)'
      <4>1. of \in Generics => st.text = [of |-> of, args |-> <<(TypeText(arg))'>>]
        BY <1>5, <3>2 DEF Signature
      <4>2. QED  BY <1>4, <1>5, <4>1 DEF Signature, TypeText, IsStruct
    <3>4. TypeUpTo(structs'[new].arg, Len(structs')) /\ structs'[new].of = of
      BY <1>4, <1>5, <3>1
    <3>5. of \in Plain => structs'[new].text.args = <<>> /\ ~IsStruct(structs'[new].arg)
      BY <1>4, <1>5
    <3>6. QED  BY <3>3, <3>4, <3>5 DEF ArgKnown, TypeUpTo, IsStruct
  <2>3. \A s \in 1 .. new : ArgKnown(s)'
    BY <1>6, <2>1, <2>2
  <2>4. QED  BY <1>5, <2>3 DEF ArgsKnown
<1>10. CallsMean'
  <2>1. ASSUME NEW a \in 1 .. L + 1, NEW h, h = calls'[a]
        PROVE  CallMeans(h)'
    <3>1. CASE a \in 1 .. L
      <4>1. h = calls[a] /\ a \in 1 .. Len(calls)
        BY <1>2, <1>5, <2>1, <3>1
      <4>2. h.struct \in 1 .. n /\ CallMeans(h)
        BY <1>1, <1>2, <4>1, CallIs
      <4>3. structs'[h.struct].members = structs[h.struct].members
        BY <1>5, <4>2
      <4>4. QED  BY <1>1, <1>2, <1>7, <4>2, <4>3, CallMeansStays
    <3>2. CASE a = L + 1
      <4>1. h.struct = new /\ h.member = 1 /\ h.node = 1
        BY <1>4, <1>5, <2>1, <3>2
      <4>2. Len(structs'[h.struct].members) = h.member - 1
        BY <1>4, <1>5, <4>1
      <4>3. OfCall(h)' = of
        BY <1>4, <1>5, <4>1 DEF OfCall
      <4>4. Len(body[of]) \in Nat
        BY <1>1, LenProperties DEF IInv
      <4>5. h.member <= Len(body'[OfCall(h)']) + 1
        <5>1. Len(body'[OfCall(h)']) \in Nat
          BY <4>3, <4>4
        <5>2. QED  BY <4>1, <5>1
      <4>6. Position(h)'
        BY <4>1, <4>2, <4>5 DEF Position
      <4>7. HasArgument(h)' /\ Means(h)'
        BY <4>1 DEF HasArgument, Means
      <4>8. QED  BY <4>6, <4>7 DEF CallMeans
    <3>3. QED  BY <1>6, <3>1, <3>2
  <2>2. QED  BY <1>5, <2>1 DEF CallsMean
<1>11. StructsMean'
  <2>1. ASSUME NEW s \in 1 .. n
        PROVE  StructMeans(s)'
    <3>1. StructMeans(s) /\ structs'[s] = structs[s]
      BY <1>1, <1>2, <1>5 DEF StructsMean
    <3>2. QED  BY <1>1, <1>2, <1>7, <3>1, StructMeansStays
  <2>2. StructMeans(new)'
    <3>1. ~structs'[new].whole /\ 1 .. Len(structs'[new].members) = {}
      BY <1>4, <1>5
    <3>2. QED  BY <3>1 DEF StructMeans
  <2>3. \A s \in 1 .. new : StructMeans(s)'
    BY <1>6, <2>1, <2>2
  <2>4. QED  BY <1>5, <2>3 DEF StructsMean
<1>12. QED  BY <1>7, <1>8, <1>9, <1>10, <1>11

\* An instance is made: the innermost struct waits for it, and its parameter
\* is bound to what was asked for.
LEMMA GenericImplFields ==
    ASSUME FailuresIInv, IInv', ~errors, FieldsKnown, GenericImpl
    PROVE  FieldsKnown'
<1> USE GenericsAssumption
<1>1. /\ IInv /\ AtNode /\ calls # <<>> /\ Node.kind = "generic"
      /\ Signature(Node.name, Top.val) \notin DOMAIN types
      /\ UNCHANGED <<body, decls>>
    BY DEF FailuresIInv, GenericImpl, AtUnknownGeneric, AtGeneric, AtNode, Busy
<1>2. PICK L, n, new, g, t, sig : L = Len(calls) /\ n = Len(structs) /\ new = n + 1
            /\ g = Node.name /\ t = Top.val /\ sig = Signature(g, t)
    OBVIOUS
<1>3. /\ L \in Nat \ {0} /\ L \in 1 .. L /\ Top = calls[L] /\ n \in Nat
      /\ Top.struct \in 1 .. n /\ Current = structs[Top.struct]
      /\ Top.node \in 1 .. Len(Member.type) /\ Top.member <= Len(body[OfCall(Top)])
      /\ ChainCall(Top) = Member.type /\ Len(Member.type) \in Nat
      /\ Node = ChainCall(Top)[Top.node]
    BY <1>1, <1>2, TopIs, SeqShape DEF IInv, StructsOK
<1>4. g \in Generics /\ Top.node # 1
    BY <1>1, <1>2, NodeAt
<1>5. Pushed(g, t, sig, binding'[g])
    BY <1>1, <1>2, PushSteps
<1>6. types' = [x \in DOMAIN types \cup {sig} |-> IF x = sig THEN n + 1 ELSE types[x]]
    BY <1>2 DEF GenericImpl, Register
<1>7. TypeUpTo(t, n)
    BY <1>1, <1>2, TopShape DEF CallOK
<1>8. Grows /\ AllNamed' /\ ArgsKnown' /\ CallsMean' /\ StructsMean'
    BY <1>1, <1>2, <1>4, <1>5, <1>6, <1>7, PushKnown
<1>9. PICK top : top = calls'[L + 1]
    OBVIOUS
<1>10. /\ Len(calls') = L + 1 /\ \A j \in 1 .. L : calls'[j] = calls[j]
       /\ top.struct = new /\ structs'[new].of = g /\ structs'[new].arg = t
    BY <1>2, <1>5, <1>9 DEF Pushed
<1>11. OfCall(top)' = g /\ ArgCall(top)' = t
    BY <1>10 DEF OfCall, ArgCall
<1>12. ASSUME NEW a \in 1 .. L, NEW f, f = calls[a]
       PROVE  /\ f.struct \in 1 .. Len(structs)
              /\ OfCall(f)' = OfCall(f) /\ ArgCall(f)' = ArgCall(f)
              /\ NamesItself(f.struct)' <=> NamesItself(f.struct)
  <2>1. f.struct \in 1 .. Len(structs)
    BY <1>1, <1>2, <1>12, CallIs
  <2>2. QED  BY <1>8, <2>1, NamesItselfStays DEF OfCall, ArgCall, Grows
<1>13. \A a \in 2 .. L + 1 : a = L + 1 \/ (a \in 2 .. L /\ a \in 1 .. L)
    BY <1>3
<1>14. DeclOrder'
    BY <1>1, OrderStays DEF FieldsKnown
<1>15. StackOrder'
  <2>1. ASSUME NEW a \in 2 .. L + 1, NEW b \in 2 .. L + 1, a < b, NEW f, NEW h,
               f = calls'[a], h = calls'[b]
        PROVE  NotLater(h, f)'
    <3>1. a \in 2 .. L /\ a \in 1 .. L
      BY <1>3, <1>13, <2>1
    <3>2. f = calls[a] /\ OfCall(f)' = OfCall(f)
      BY <1>10, <1>12, <2>1, <3>1
    <3>3. CASE b \in 2 .. L /\ b \in 1 .. L
      <4>1. h = calls[b] /\ OfCall(h)' = OfCall(h)
        BY <1>10, <1>12, <2>1, <3>3
      <4>2. NotLater(h, f)
        BY <1>2, <2>1, <3>1, <3>2, <3>3, <4>1 DEF FieldsKnown, StackOrder
      <4>3. QED  BY <1>1, <3>2, <4>1, <4>2 DEF NotLater
    <3>4. CASE b = L + 1
      <4>1. OfCall(h)' = g
        BY <1>9, <1>11, <2>1, <3>4
      <4>2. ASSUME NEW x \in 1 .. Len(decls), NEW y \in 1 .. Len(decls),
                   decls[x] = g, decls[y] = OfCall(f)
            PROVE  x <= y
        <5>1. \E z \in 1 .. Len(decls) : decls[z] = Current.of /\ x <= z /\ z <= y
          BY <1>1, <1>2, <3>1, <3>2, <4>2, InstanceOrder
        <5>2. QED  BY <5>1
      <4>3. QED  BY <1>1, <3>2, <4>1, <4>2 DEF NotLater
    <3>5. QED  BY <1>13, <3>3, <3>4
  <2>2. QED  BY <1>10, <2>1 DEF StackOrder
<1>16. Waiting'
  <2>1. ASSUME NEW a \in 1 .. L, NEW f, NEW h, f = calls'[a], h = calls'[a + 1]
        PROVE  WaitsFor(f, h)'
    <3>1. f = calls[a] /\ f.struct \in 1 .. Len(structs)
      BY <1>10, <1>12, <2>1
    <3>2. CASE a = L
      <4>1. f = Top /\ h = top
        BY <1>3, <1>9, <2>1, <3>1, <3>2
      <4>2. OfCall(f)' = OfCall(f) /\ ChainCall(f)' = ChainCall(f)
        BY <1>1, <1>12, <3>1 DEF ChainCall
      <4>3. f.node \in 2 .. Len(ChainCall(f))
        BY <1>3, <1>4, <4>1
      <4>4. QED  BY <1>1, <1>2, <1>3, <1>11, <4>1, <4>2, <4>3 DEF WaitsFor
    <3>3. CASE a \in 1 .. L - 1
      <4>1. a + 1 \in 1 .. L
        BY <1>3, <3>3
      <4>2. h = calls[a + 1] /\ h.struct \in 1 .. Len(structs)
        BY <1>10, <1>12, <2>1, <4>1
      <4>3. WaitsFor(f, h)
        BY <1>2, <3>1, <3>3, <4>2 DEF FieldsKnown, Waiting
      <4>4. QED  BY <1>8, <3>1, <4>2, <4>3, WaitsForStays
    <3>4. a = L \/ a \in 1 .. L - 1
      BY <1>3
    <3>5. QED  BY <3>2, <3>3, <3>4
  <2>2. Len(calls') - 1 = L
    BY <1>3, <1>10
  <2>3. QED  BY <2>1, <2>2 DEF Waiting
<1>17. Bindings'
  <2>1. binding' = [binding EXCEPT ![g] = t] /\ DOMAIN binding = Generics
    BY <1>1, <1>2 DEF GenericImpl, Bound, IInv, BindingOK
  <2>2. NamesItselfOtherwise(g)' <=> NamesItselfOtherwise(g)
    BY <1>1 DEF NamesItselfOtherwise
  <2>3. NamesItself(new)' <=> NamesItselfOtherwise(g)
    <3>1. NamesItself(new)' <=> g \in Generics /\ NamesItselfOtherwise(g)'
      BY <1>10 DEF NamesItself, NamesItselfOtherwise
    <3>2. QED  BY <1>4, <2>2, <3>1
  <2>4. ASSUME NEW a \in 2 .. L, NEW f, f = calls[a], OfCall(f) = g
        PROVE  NamesItselfOtherwise(g) /\ NamesItself(f.struct)
    <3>1. NamesItselfOtherwise(g)
      BY <1>2, <2>4, CallsAnother
    <3>2. QED  BY <1>4, <2>4, <3>1 DEF NamesItself, OfCall
  <2>5. ASSUME NEW a \in 2 .. L + 1, NEW f, f = calls'[a]
        PROVE  /\ BoundFor(f)'
               /\ \A b \in 2 .. L + 1 : \A h :
                    h = calls'[b] /\ OfCall(h)' = OfCall(f)' /\ ~NamesItself(f.struct)' => b = a
    <3>1. CASE a = L + 1
      <4>1. f = top
        BY <1>9, <2>5, <3>1
      <4>2. binding'[g] = t
        BY <1>4, <2>1
      <4>3. BoundFor(f)'
        BY <1>11, <4>1, <4>2 DEF BoundFor
      <4>4. ASSUME NEW b \in 2 .. L + 1, NEW h, h = calls'[b], OfCall(h)' = OfCall(f)',
                   ~NamesItself(f.struct)'
            PROVE  b = a
        <5>1. ~NamesItselfOtherwise(g)
          BY <1>10, <2>3, <4>1, <4>4
        <5>2. CASE b \in 2 .. L /\ b \in 1 .. L
          <6>1. h = calls[b] /\ OfCall(h) = g
            BY <1>10, <1>11, <1>12, <4>1, <4>4, <5>2
          <6>2. QED  BY <2>4, <5>1, <5>2, <6>1
        <5>3. QED  BY <1>13, <3>1, <5>2
      <4>5. QED  BY <4>3, <4>4
    <3>2. CASE a \in 2 .. L /\ a \in 1 .. L
      <4>1. /\ f = calls[a] /\ OfCall(f)' = OfCall(f) /\ ArgCall(f)' = ArgCall(f)
            /\ NamesItself(f.struct)' <=> NamesItself(f.struct)
        BY <1>10, <1>12, <2>5, <3>2
      <4>2. BoundFor(f)'
        <5>1. CASE OfCall(f) = g
          BY <2>4, <3>2, <4>1, <5>1 DEF BoundFor
        <5>2. CASE OfCall(f) # g
          <6>1. BoundFor(f)
            BY <1>2, <3>2, <4>1 DEF FieldsKnown, Bindings
          <6>2. OfCall(f) \in Generics
            BY <1>1, <1>2, <3>2, <4>1 DEF IInv, CallsOK, OfCall
          <6>3. binding'[OfCall(f)] = binding[OfCall(f)]
            BY <2>1, <5>2, <6>2
          <6>4. QED  BY <4>1, <6>1, <6>3 DEF BoundFor
        <5>3. QED  BY <5>1, <5>2
      <4>3. ASSUME NEW b \in 2 .. L + 1, NEW h, h = calls'[b], OfCall(h)' = OfCall(f)',
                   ~NamesItself(f.struct)'
            PROVE  b = a
        <5>1. CASE b = L + 1
          <6>1. OfCall(f) = g
            BY <1>9, <1>11, <4>1, <4>3, <5>1
          <6>2. QED  BY <2>4, <3>2, <4>1, <4>3, <6>1
        <5>2. CASE b \in 2 .. L /\ b \in 1 .. L
          <6>1. h = calls[b] /\ OfCall(h)' = OfCall(h)
            BY <1>10, <1>12, <4>3, <5>2
          <6>2. OfCall(h) = OfCall(f) /\ ~NamesItself(f.struct)
            BY <4>1, <4>3, <6>1
          <6>3. QED  BY <1>2, <3>2, <4>1, <5>2, <6>1, <6>2 DEF FieldsKnown, Bindings
        <5>3. QED  BY <1>13, <5>1, <5>2
      <4>4. QED  BY <4>2, <4>3
    <3>3. QED  BY <1>13, <3>1, <3>2
  <2>6. QED  BY <1>10, <2>5 DEF Bindings
<1>18. QED  BY <1>8, <1>14, <1>15, <1>16, <1>17 DEF FieldsKnown

-----------------------------------------------------------------------------
(* Declarations, and the theorem. *)

\* One more declaration: what it names stands before it.
LEMMA DeclaresOrder ==
    ASSUME FailuresIInv, FieldsKnown, NEW d \in Generics \cup Plain, Declares(d), body' = body,
           d \in Generics => d \notin Range(decls)
    PROVE  DeclOrder'
<1>1. PICK D : D = Len(decls)
    OBVIOUS
<1>2. D \in Nat /\ IsSeq(decls) /\ DOMAIN decls = 1 .. D /\ decls' = Append(decls, d)
    BY <1>1, SeqShape DEF FailuresIInv, DeclsOK, Declares
<1>3. Len(decls') = D + 1 /\ (\A i \in 1 .. D : decls'[i] = decls[i]) /\ decls'[D + 1] = d
    BY <1>1, <1>2, AppendShape
<1>4. /\ \A i \in 1 .. D + 1 : i = D + 1 \/ i \in 1 .. D
      /\ \A i \in 1 .. D : i \in 1 .. D + 1
      /\ \A i \in 1 .. D : \A j \in 1 .. i - 1 : j \in 1 .. D
    BY <1>2
<1>5. Range(decls) = {decls[i] : i \in 1 .. D}
    BY <1>2 DEF Range
<1>6. ASSUME NEW g \in Generics
      PROVE  Named(g)' = Named(g)
    BY DEF Named
<1>7. ASSUME NEW i \in 1 .. D + 1, NEW g \in Generics, g = decls'[i]
      PROVE  /\ \A n \in Named(g) : n = g \/ \E j \in 1 .. i - 1 : decls'[j] = n
             /\ \A j \in 1 .. D + 1 : decls'[j] = g => j = i
  <2>1. CASE i \in 1 .. D
    <3>1. g = decls[i]
      BY <1>3, <1>7, <2>1
    <3>2. /\ \A n \in Named(g) : n = g \/ \E j \in 1 .. i - 1 : decls[j] = n
          /\ \A j \in 1 .. D : decls[j] = g => j = i
      BY <1>1, <2>1, <3>1 DEF FieldsKnown, DeclOrder
    <3>3. d # g
      BY <1>5, <2>1, <3>1
    <3>4. \A n \in Named(g) : n = g \/ \E j \in 1 .. i - 1 : decls'[j] = n
      BY <1>3, <1>4, <2>1, <3>2
    <3>5. \A j \in 1 .. D + 1 : decls'[j] = g => j = i
      BY <1>3, <1>4, <3>2, <3>3
    <3>6. QED  BY <3>4, <3>5
  <2>2. CASE i = D + 1
    <3>1. g = d
      BY <1>3, <1>7, <2>2
    <3>2. \A j \in 1 .. D : decls'[j] # g
      BY <1>3, <1>5, <3>1
    <3>3. i - 1 = D
      BY <1>2, <2>2
    <3>4. \A n \in Named(g) : n = g \/ \E j \in 1 .. D : decls'[j] = n
      <4>1. Named(g) \subseteq Range(decls) \cup {g}
        BY <3>1 DEF Declares
      <4>2. \A n \in Range(decls) : \E j \in 1 .. D : decls'[j] = n
        BY <1>3, <1>5
      <4>3. QED  BY <4>1, <4>2
    <3>5. \A j \in 1 .. D + 1 : decls'[j] = g => j = i
      BY <1>4, <2>2, <3>2
    <3>6. QED  BY <3>3, <3>4, <3>5
  <2>3. QED  BY <1>4, <2>1, <2>2
<1>8. QED  BY <1>3, <1>6, <1>7 DEF DeclOrder

\* A stack of one call has no order, waits for nothing and binds nothing.
LEMMA ShortStack ==
    ASSUME IInv', Len(calls') <= 1
    PROVE  StackOrder' /\ Waiting' /\ Bindings'
<1>1. PICK m \in Nat : m = Len(calls')
    BY SeqShape DEF IInv, CallsOK
<1>2. 2 .. Len(calls') = {} /\ 1 .. Len(calls') - 1 = {}
    BY <1>1
<1>3. QED  BY <1>2 DEF StackOrder, Waiting, Bindings

\* A generic is declared.
LEMMA GenericDeclFields ==
    ASSUME FailuresIInv, IInv', ~errors, FieldsKnown, NEW g \in Generics, GenericDecl(g)
    PROVE  FieldsKnown'
<1>1. /\ IInv /\ Declares(g) /\ g \notin Range(decls)
      /\ UNCHANGED <<body, types, structs, calls>> /\ calls = <<>>
    BY DEF FailuresIInv, GenericDecl, Declares
<1>2. Len(calls') = 0
    BY <1>1, EmptySeq
<1>3. Grows /\ Len(structs') = Len(structs)
    BY <1>1 DEF Grows
<1>4. DeclOrder'
    BY <1>1, DeclaresOrder
<1>5. AllNamed'
  <2>1. ASSUME NEW s \in 1 .. Len(structs)
        PROVE  NameOf(structs'[s]) \in DOMAIN types' /\ types'[NameOf(structs'[s])] = s
    <3>1. NameOf(structs'[s]) = NameOf(structs[s])
      BY <1>1
    <3>2. QED  BY <1>1, <3>1 DEF FieldsKnown, AllNamed
  <2>2. QED  BY <1>3, <2>1 DEF AllNamed, NameOf, PlainName
<1>6. ArgsKnown'
  <2>1. \A s \in 1 .. Len(structs) : ArgKnown(s)'
    BY <1>1, <1>3, ArgKnownStays DEF FieldsKnown, ArgsKnown
  <2>2. QED  BY <1>3, <2>1 DEF ArgsKnown
<1>7. StackOrder' /\ Waiting' /\ Bindings'
    BY <1>2, ShortStack
<1>8. CallsMean'
  <2>1. 1 .. Len(calls') = {}
    BY <1>2
  <2>2. QED  BY <2>1 DEF CallsMean
<1>9. StructsMean'
    BY <1>1, <1>3, StructsMeanStays
<1>10. QED  BY <1>4, <1>5, <1>6, <1>7, <1>8, <1>9 DEF FieldsKnown

\* A plain struct is declared.
LEMMA StructDeclFields ==
    ASSUME FailuresIInv, IInv', ~errors', FieldsKnown, NEW p \in Plain, StructDecl(p)
    PROVE  FieldsKnown'
<1> USE GenericsAssumption
<1>1. /\ IInv /\ Declares(p) /\ body' = body /\ calls = <<>>
      /\ PlainName(p) \notin DOMAIN types /\ ~errors
    BY DEF FailuresIInv, StructDecl, Declares
<1>2. PICK n, text : n = Len(structs) /\ text = [of |-> Label[p], args |-> <<>>]
    OBVIOUS
<1>3. types' = [x \in DOMAIN types \cup {PlainName(p)} |->
                    IF x = PlainName(p) THEN n + 1 ELSE types[x]]
    BY <1>1, <1>2 DEF StructDecl, Register
<1>4. Pushed(p, Error, text, Error)
    BY <1>1, <1>2, PushSteps
<1>5. n \in Nat /\ Len(calls) = 0
    BY <1>1, <1>2, SeqShape, EmptySeq DEF IInv, StructsOK
<1>6. TypeUpTo(Error, n) /\ ~IsStruct(Error)
    BY DEF TypeUpTo, Error, Tp, IsStruct
<1>7. text.args = <<>> /\ p \notin Generics
    BY <1>2
<1>8. Grows /\ AllNamed' /\ ArgsKnown' /\ CallsMean' /\ StructsMean'
    BY <1>1, <1>2, <1>3, <1>4, <1>6, <1>7, PushKnown
<1>9. Len(calls') <= 1
  <2>1. Len(calls') = Len(calls) + 1
    BY <1>4 DEF Pushed
  <2>2. QED  BY <1>5, <2>1
<1>10. StackOrder' /\ Waiting' /\ Bindings'
    BY <1>9, ShortStack
<1>11. DeclOrder'
    BY <1>1, <1>7, DeclaresOrder
<1>12. QED  BY <1>8, <1>10, <1>11 DEF FieldsKnown

\* No step leaves the invariant.
LEMMA NextFields == FieldsIInv /\ [Next]_vars => FieldsIInv'
<1> SUFFICES ASSUME FieldsIInv, [Next]_vars PROVE FieldsIInv'
    OBVIOUS
<1>1. FailuresIInv' /\ SizesIInv' /\ FailuresIInv /\ SizesIInv
    BY NextFailures, NextSizes DEF FieldsIInv
<1>2. IInv /\ IInv'
    BY <1>1 DEF FailuresIInv
<1> SUFFICES ASSUME ~errors' PROVE FieldsKnown'
    BY <1>1 DEF FieldsIInv
<1>3. ~StructFails
    BY <1>1, StructFailsReports
<1>4. ~StructAborts /\ ~GenericRefused
    BY DEF StructAborts, GenericRefused
<1>5. ~errors
    BY <1>2, <1>3, <1>4
       DEF Next, Evaluate, Identifier, PointerDesc, GenericOfError, GenericKnown, GenericImpl,
           BuildMember, StructWhole, GenericDecl, StructDecl, Stop, vars, IInv, FlagsOK
<1>6. FieldsKnown
    BY <1>5 DEF FieldsIInv
<1>7. CASE Identifier \/ PointerDesc \/ GenericOfError \/ GenericKnown
    BY <1>1, <1>5, <1>6, <1>7, YieldFields
<1>8. CASE GenericImpl
    BY <1>1, <1>2, <1>5, <1>6, <1>8, GenericImplFields
<1>9. CASE BuildMember
    BY <1>1, <1>5, <1>6, <1>9, BuildMemberFields
<1>10. CASE StructWhole
    BY <1>1, <1>5, <1>6, <1>10, StructWholeFields
<1>11. CASE \E g \in Generics : GenericDecl(g)
    BY <1>1, <1>2, <1>5, <1>6, <1>11, GenericDeclFields
<1>12. CASE \E p \in Plain : StructDecl(p)
    BY <1>1, <1>2, <1>6, <1>12, StructDeclFields
<1>13. CASE Stop \/ UNCHANGED vars
  <2>1. UNCHANGED <<body, binding, types, structs, calls, decls>>
    BY <1>13 DEF Stop, vars
  <2>2. Grows /\ Len(structs') = Len(structs) /\ Len(calls') = Len(calls)
    BY <2>1 DEF Grows
  <2>3. Len(calls) \in Nat
    BY <1>2, SeqShape DEF IInv, CallsOK
  <2>4. Len(calls') \in Nat /\ Len(calls') <= Len(calls)
    BY <2>2, <2>3
  <2>5. AllNamed' /\ ArgsKnown' /\ DeclOrder'
    BY <1>2, <1>6, <2>1, <2>2, TablesStay
  <2>6. StackOrder' /\ Bindings'
    BY <1>2, <1>6, <2>1, <2>2, <2>4, StackStays
  <2>7. Waiting'
    BY <1>2, <1>6, <2>1, <2>2, <2>4, WaitingStays
  <2>8. StructsMean'
    BY <1>1, <1>5, <1>6, <2>1, <2>2, StructsMeanStays
  <2>9. ASSUME NEW a \in 1 .. Len(calls), NEW f, f = calls[a]
        PROVE  CallMeans(f)'
    <3>1. f.struct \in 1 .. Len(structs) /\ CallMeans(f)
      BY <1>2, <1>6, <2>9, CallIs
    <3>2. ArgsKnown /\ structs'[f.struct].members = structs[f.struct].members
      BY <1>6, <2>1 DEF FieldsKnown
    <3>3. QED  BY <1>1, <1>5, <2>2, <3>1, <3>2, CallMeansStays
  <2>10. CallsMean'
    BY <2>1, <2>9 DEF CallsMean
  <2>11. QED  BY <2>5, <2>6, <2>7, <2>8, <2>10 DEF FieldsKnown
<1>14. QED
    BY <1>3, <1>4, <1>7, <1>8, <1>9, <1>10, <1>11, <1>12, <1>13 DEF Next, Evaluate

\* The invariant holds from the start.
LEMMA InitFields == Init => FieldsIInv
<1> SUFFICES ASSUME Init PROVE FieldsIInv
    OBVIOUS
<1>1. FailuresIInv
    BY InitFailures
<1>2. SizesIInv
    BY InitSizes
<1>3. Len(<<>>) = 0
    BY EmptySeq
<1>4. 1 .. 0 = {} /\ 1 .. 0 - 1 = {} /\ 2 .. 0 = {}
    OBVIOUS
<1>5. 1 .. Len(structs) = {} /\ 1 .. Len(calls) = {} /\ 1 .. Len(calls) - 1 = {}
      /\ 2 .. Len(calls) = {} /\ 1 .. Len(decls) = {}
    BY <1>3, <1>4 DEF Init
<1>6. FieldsKnown
    BY <1>5 DEF FieldsKnown, AllNamed, ArgsKnown, DeclOrder, StackOrder, Waiting, Bindings,
                CallsMean, StructsMean
<1>7. QED  BY <1>1, <1>2, <1>6 DEF FieldsIInv

\* Every struct the generator may see has the members its declaration lists,
\* the parameter replaced by what the instance was asked for, but for the two
\* gaps (add_generic_impl and the signature in ast_to_type of src/ast.cpp).
THEOREM FieldsAreSubstituted == Spec => []FieldsSubstituted
<1>1. FieldsIInv => FieldsSubstituted
  <2> SUFFICES ASSUME FieldsIInv, Quiet, ~errors, NEW s \in Registered
               PROVE  /\ DOMAIN structs[s].members = DOMAIN body[structs[s].of]
                      /\ Substituted(s) \/ Exempt(s)
    BY DEF FieldsSubstituted, Exempt, NamesItself
  <2>1. IInv /\ FieldsKnown /\ AllNamed /\ ArgsKnown /\ NoErrors
    BY DEF FieldsIInv, FailuresIInv, FieldsKnown
  <2>2. s \in 1 .. Len(structs) /\ Len(calls) = 0
    BY <2>1, RegisteredAll, EmptySeq DEF Quiet
  <2>3. structs[s].whole
    BY <2>1, <2>2 DEF NoErrors, StructsTold
  <2>4. StructMeans(s) /\ IsSeq(structs[s].members)
    BY <2>1, <2>2 DEF FieldsKnown, StructsMean, IInv, StructsOK, StructOK
  <2>5. Len(structs[s].members) = Len(body[structs[s].of])
    BY <2>3, <2>4 DEF StructMeans
  <2>6. DOMAIN structs[s].members = 1 .. Len(body[structs[s].of])
    BY <2>4, <2>5, SeqShape
  <2>7. DOMAIN structs[s].members = DOMAIN body[structs[s].of]
    BY <2>1, <2>2, <2>6, ChainIs
  <2>8. ASSUME ~Exempt(s), NEW i \in DOMAIN structs[s].members
        PROVE  structs[s].members[i] = Meaning(body[structs[s].of][i].type, structs[s].arg)
    <3>1. PICK chain, arg, v : chain = body[structs[s].of][i].type /\ arg = structs[s].arg
                               /\ v = structs[s].members[i]
      OBVIOUS
    <3>2. MemberMeans(s, i)
      BY <2>4, <2>5, <2>6, <2>8 DEF StructMeans
    <3>3. Reaches(chain, arg, Len(chain), v)
      BY <3>1, <3>2 DEF MemberMeans
    <3>4. chain \in Seq(ChainNode)
      BY <2>1, <2>2, <2>6, <3>1, ChainIs
    <3>5. Meaning(chain, arg) = v
      BY <2>1, <3>3, <3>4, PathMeaning
    <3>6. QED  BY <3>1, <3>5
  <2>9. QED  BY <2>7, <2>8 DEF Substituted
<1>2. QED  BY <1>1, InitFields, NextFields, PTL DEF Spec
=============================================================================
