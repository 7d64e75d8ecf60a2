------------------------- MODULE Expressions_proofs -------------------------
(***************************************************************************)
(* Theorems about types and expressions: the type context and conversions  *)
(* first, then operator resolution, the values of local variables and the  *)
(* code for them.  They hold for any number of primitives, any list of     *)
(* distinct ones with those init registers, any types a program declares,  *)
(* any implementations of traits, any literals and any bounds.             *)
(*                                                                         *)
(* The invariants of TypeTable are not inductive by themselves: that no    *)
(* two ids share a structure needs that every entry is registered under    *)
(* its own name and that every name leads to the entry that prints it.     *)
(* GoodContext collects what a context owes, and the two lemmas about      *)
(* GetOrCreate do for every factory.  What is proved of conversions and of *)
(* operators holds in every good context whose primitives are those of the *)
(* list.                                                                   *)
(***************************************************************************)
EXTENDS OperatorGen, Instances, SequenceLemmas, FiniteSetTheorems

-----------------------------------------------------------------------------
(* The type context. *)

IdsOf(c) == 0 .. c.tp_counter - 1

\* The tables are functions of the right type.
WellTyped(c) ==
    /\ c.tp_counter \in Nat
    /\ c.id_ptr_table \in [IdsOf(c) -> Type]
    /\ \A nm \in DOMAIN c.type_ptr_table : c.type_ptr_table[nm] \in IdsOf(c)

\* Every entry is found under its own name.
Findable(c) ==
    \A i \in IdsOf(c) :
        LET nm == UniqueName(c.id_ptr_table[i], i) IN
        nm \in DOMAIN c.type_ptr_table /\ c.type_ptr_table[nm] = i

\* Every name other than the alias is the name of the entry it leads to.
Sound(c) ==
    \A nm \in DOMAIN c.type_ptr_table :
        LET i == c.type_ptr_table[nm] IN
        nm # <<"int", <<>>, 0>> => nm = UniqueName(c.id_ptr_table[i], i)

\* Candidate t may be registered in c: its components are registered, what a
\* reference, pointer or array is built on is no reference, and a member
\* function has its function type.
Supported(c, t, id) ==
    /\ \A k \in DOMAIN t.args : t.args[k] \in Nat /\ t.args[k] < id
    /\ t.kind \in {"Ref", "Pointer", "Array"} =>
          c.id_ptr_table[t.args[1]].kind # "Ref"
    /\ t.kind = "MemFunc" =>
          \E j \in IdsOf(c) :
             /\ c.id_ptr_table[j] = Tp("Func", Tail(t.args), 0, FALSE)
             /\ j < id

WellFounded(c) ==
    \A i \in IdsOf(c) : Supported(c, c.id_ptr_table[i], i)

HasSubtype(t) == t.kind \in {"Ref", "Pointer", "Array"} => 1 \in DOMAIN t.args

AllHaveSubtype(c) == \A i \in IdsOf(c) : HasSubtype(c.id_ptr_table[i])

GoodContext(c) ==
    WellTyped(c) /\ Findable(c) /\ Sound(c) /\ WellFounded(c) /\ AllHaveSubtype(c)

IInv == GoodContext(ctx)

-----------------------------------------------------------------------------
(* Names. *)

\* Two types with the same name, neither nominal, are the same type: the
\* text printed by unique_type_name is injective up to constness.
LEMMA NameInjective ==
    ASSUME NEW t \in Type, NEW u \in Type, NEW i, NEW j,
           t.kind \notin Nominal, u.kind \notin Nominal
    PROVE  UniqueName(t, i) = UniqueName(u, j) <=> SameType(t, u)
<1>1. Shape(t) = Shape(u) /\ t.args = u.args /\ t.n = u.n
        <=> UniqueName(t, i) = UniqueName(u, j)
  BY DEF UniqueName
<1>2. Shape(t) = Shape(u) <=>
        t.kind = u.kind /\ (t.kind = "Func" => t.flag = u.flag)
  BY DEF Shape, Type, Kind, Leaf, Nominal
<1>3. QED
  BY <1>1, <1>2 DEF SameType

\* No name of a registered type is the alias "int", and a name printed for a
\* candidate is never that of a nominal entry.
LEMMA NameForms ==
    ASSUME NEW t \in Type, NEW i
    PROVE  /\ UniqueName(t, i) # <<"int", <<>>, 0>>
           /\ t.kind \in Nominal <=> UniqueName(t, i)[1] = "id"
           /\ t.kind \in Nominal => UniqueName(t, i) = <<"id", <<i>>, 0>>
           /\ t.kind \notin Nominal => UniqueName(t, i) = UniqueName(t, 0)
  BY DEF UniqueName, Shape, Type, Kind, Leaf, Nominal

-----------------------------------------------------------------------------
(* One factory call. *)

\* TypeContext::create keeps a good context good: the fresh id is bound once,
\* the name it is registered under was free.
LEMMA CreateGood ==
    ASSUME NEW c, GoodContext(c), NEW t \in Type,
           Supported(c, t, c.tp_counter), HasSubtype(t), ~ Registered(c, t)
    PROVE  GoodContext(Create(c, t))
<1> DEFINE id == c.tp_counter
           nm == UniqueName(t, id)
           d  == Create(c, t)
<1> USE DEF IdsOf
<1>1. /\ id \in Nat
      /\ d.tp_counter = id + 1
      /\ DOMAIN d.type_ptr_table = DOMAIN c.type_ptr_table \cup {nm}
      /\ d.type_ptr_table[nm] = id
      /\ \A x \in DOMAIN c.type_ptr_table :
            x # nm => d.type_ptr_table[x] = c.type_ptr_table[x]
      /\ DOMAIN d.id_ptr_table = IdsOf(c) \cup {id}
      /\ d.id_ptr_table[id] = t
      /\ \A i \in IdsOf(c) : d.id_ptr_table[i] = c.id_ptr_table[i]
  BY DEF Create, Put, GoodContext, WellTyped
<1>2. IdsOf(d) = IdsOf(c) \cup {id}
  BY <1>1
<1>3. nm \notin DOMAIN c.type_ptr_table
  <2>1. CASE t.kind \notin Nominal
    BY <2>1, NameForms DEF Registered
  <2>2. CASE t.kind \in Nominal
    <3>1. nm = <<"id", <<id>>, 0>>
      BY <2>2, NameForms
    <3>2. SUFFICES ASSUME nm \in DOMAIN c.type_ptr_table PROVE FALSE
      OBVIOUS
    <3> DEFINE i == c.type_ptr_table[nm]
    <3>3. i \in IdsOf(c) /\ c.id_ptr_table[i] \in Type
      BY <3>2 DEF GoodContext, WellTyped
    <3>4. nm = UniqueName(c.id_ptr_table[i], i)
      BY <3>1, <3>2 DEF GoodContext, Sound
    <3>5. nm = <<"id", <<i>>, 0>>
      BY <3>1, <3>3, <3>4, NameForms
    <3>6. QED
      BY <3>1, <3>3, <3>5, <1>1
  <2>3. QED
    BY <2>1, <2>2
<1>4. WellTyped(d)
  <2>1. d.id_ptr_table \in [IdsOf(d) -> Type]
    BY <1>1, <1>2 DEF GoodContext, WellTyped, Create, Put
  <2>2. QED
    BY <1>1, <1>2, <2>1 DEF GoodContext, WellTyped
<1>5. Findable(d)
  BY <1>1, <1>2, <1>3 DEF GoodContext, Findable
<1>6. Sound(d)
  <2> SUFFICES ASSUME NEW x \in DOMAIN d.type_ptr_table, x # <<"int", <<>>, 0>>
               PROVE  x = UniqueName(d.id_ptr_table[d.type_ptr_table[x]],
                                     d.type_ptr_table[x])
    BY DEF Sound
  <2>1. CASE x = nm
    BY <2>1, <1>1
  <2>2. CASE x # nm
    BY <2>2, <1>1 DEF GoodContext, Sound, WellTyped
  <2>3. QED
    BY <2>1, <2>2
<1>7. WellFounded(d) /\ AllHaveSubtype(d)
  <2>1. ASSUME NEW i \in IdsOf(d)
        PROVE  Supported(d, d.id_ptr_table[i], i) /\ HasSubtype(d.id_ptr_table[i])
    <3> DEFINE u == d.id_ptr_table[i]
    <3>1. Supported(c, u, i) /\ HasSubtype(u) /\ i <= id /\ i \in Nat
      <4>1. CASE i = id
        BY <4>1, <1>1
      <4>2. CASE i # id
        BY <4>2, <1>1, <1>2 DEF GoodContext, WellFounded, AllHaveSubtype
      <4>3. QED
        BY <4>1, <4>2
    <3>2. u.kind \in {"Ref", "Pointer", "Array"} =>
             d.id_ptr_table[u.args[1]].kind # "Ref"
      BY <3>1, <1>1 DEF Supported, HasSubtype
    <3>3. u.kind = "MemFunc" =>
            \E j \in IdsOf(d) :
               /\ d.id_ptr_table[j] = Tp("Func", Tail(u.args), 0, FALSE)
               /\ j < i
      BY <3>1, <1>1, <1>2 DEF Supported
    <3>4. QED
      BY <3>1, <3>2, <3>3 DEF Supported
  <2>2. QED
    BY <2>1 DEF WellFounded, AllHaveSubtype
<1>8. QED
  BY <1>4, <1>5, <1>6, <1>7 DEF GoodContext

\* What a later context keeps of an earlier one: every id and every name
\* bound then is bound to the same thing now.
Extends(c, d) ==
    /\ \A i \in DOMAIN c.id_ptr_table :
          i \in DOMAIN d.id_ptr_table /\ d.id_ptr_table[i] = c.id_ptr_table[i]
    /\ \A nm \in DOMAIN c.type_ptr_table :
          /\ nm \in DOMAIN d.type_ptr_table
          /\ d.type_ptr_table[nm] = c.type_ptr_table[nm]

\* get_or_create keeps a context good, extends it, and afterwards the
\* candidate's structure is registered.
LEMMA GetOrCreateGood ==
    ASSUME NEW c, GoodContext(c), NEW t \in Type,
           Supported(c, t, c.tp_counter), HasSubtype(t)
    PROVE  /\ GoodContext(GetOrCreate(c, t))
           /\ Extends(c, GetOrCreate(c, t))
           /\ c.tp_counter <= GetOrCreate(c, t).tp_counter
<1>1. CASE Registered(c, t)
  BY <1>1 DEF GetOrCreate, Extends, GoodContext, WellTyped
<1>2. CASE ~ Registered(c, t)
  <2> DEFINE id == c.tp_counter
             nm == UniqueName(t, id)
  <2>1. GoodContext(Create(c, t))
    BY <1>2, CreateGood
  <2>2. id \in Nat /\ DOMAIN c.id_ptr_table = IdsOf(c) /\ id \notin IdsOf(c)
    BY DEF GoodContext, WellTyped, IdsOf
  <2>3. nm \notin DOMAIN c.type_ptr_table
    \* Otherwise registering the candidate would have lost an entry: the
    \* entry found under nm before and the new one would share a name.
    <3>1. SUFFICES ASSUME nm \in DOMAIN c.type_ptr_table PROVE FALSE
      OBVIOUS
    <3> DEFINE i == c.type_ptr_table[nm]
               d == Create(c, t)
    <3>2. i \in IdsOf(c) /\ c.id_ptr_table[i] \in Type
      BY <3>1 DEF GoodContext, WellTyped
    <3>3. nm = UniqueName(c.id_ptr_table[i], i)
      BY <3>1, NameForms DEF GoodContext, Sound
    <3>4. /\ i \in IdsOf(d)
          /\ d.id_ptr_table[i] = c.id_ptr_table[i]
          /\ d.type_ptr_table[nm] = id
      BY <2>2, <3>2 DEF Create, Put, IdsOf
    <3>5. d.type_ptr_table[UniqueName(d.id_ptr_table[i], i)] = i
      BY <2>1, <3>4 DEF GoodContext, Findable
    <3>6. QED
      BY <2>2, <3>2, <3>3, <3>4, <3>5
  <2>4. Extends(c, Create(c, t))
    BY <2>2, <2>3 DEF Extends, Create, Put
  <2>5. QED
    BY <1>2, <2>1, <2>2, <2>4 DEF GetOrCreate, Create
<1>3. QED
  BY <1>1, <1>2

-----------------------------------------------------------------------------
(* The candidates the factories build. *)

\* What an action of Next does to a good context: one candidate, or the
\* function type of a member function and then the candidate.
Effect(c, d) == GoodContext(d) /\ Extends(c, d)

\* The lists of parameters are sequences of registered types.
LEMMA ListsAreSeqs ==
    ASSUME NEW ps \in Lists
    PROVE  ps \in Seq(Ids) /\ \A k \in DOMAIN ps : ps[k] \in Ids
  BY TypeTableAssumption DEF Lists

\* A function type over registered types may be registered.
LEMMA FuncSupported ==
    ASSUME IInv, NEW ps \in Lists, NEW ret \in Ids, NEW vary \in BOOLEAN
    PROVE  LET t == FuncTp(ps, ret, vary) IN
           t \in Type /\ HasSubtype(t) /\ Supported(ctx, t, ctx.tp_counter)
<1>1. Ids = IdsOf(ctx) /\ ctx.tp_counter \in Nat /\ Ids \subseteq Nat
  BY DEF IInv, GoodContext, WellTyped, Ids, IdsOf
<1>2. ps \in Seq(Ids) /\ ret \in Ids
  BY ListsAreSeqs
<1>3. Append(ps, ret) \in Seq(Ids)
  BY <1>2
<1>4. \A k \in DOMAIN Append(ps, ret) : Append(ps, ret)[k] \in Ids
  BY <1>3
<1>5. Append(ps, ret) \in Seq(Nat)
  BY <1>1, <1>2
<1>6. QED
  BY <1>1, <1>4, <1>5 DEF FuncTp, Tp, Type, Kind, Leaf, Nominal, HasSubtype,
       Supported, IdsOf

\* A candidate built from registered types, its first component decayed where
\* the factory decays it, may be registered.
LEMMA CandidateSupported ==
    ASSUME IInv, NEW t \in Type,
           \A k \in DOMAIN t.args : t.args[k] \in Ids,
           t.kind \in {"Ref", "Pointer", "Array"} =>
              t.args # <<>> /\ ctx.id_ptr_table[t.args[1]].kind # "Ref",
           t.kind # "MemFunc"
    PROVE  HasSubtype(t) /\ Supported(ctx, t, ctx.tp_counter)
<1>1. Ids = IdsOf(ctx) /\ ctx.tp_counter \in Nat
  BY DEF IInv, GoodContext, WellTyped, Ids
<1>2. t.args \in Seq(Nat)
  BY DEF Type
<1>3. HasSubtype(t)
  BY <1>2 DEF HasSubtype
<1>4. \A k \in DOMAIN t.args : t.args[k] \in Nat /\ t.args[k] < ctx.tp_counter
  BY <1>1 DEF IdsOf
<1>5. QED
  BY <1>3, <1>4 DEF Supported

\* Type::decay answers with a registered type that is no reference.
LEMMA DecayPlain ==
    ASSUME IInv, NEW s \in Ids
    PROVE  /\ Decay(ctx, s) \in Ids
           /\ ctx.id_ptr_table[Decay(ctx, s)].kind # "Ref"
<1>1. Ids = IdsOf(ctx) /\ ctx.tp_counter \in Nat /\ ctx.id_ptr_table[s] \in Type
  BY DEF IInv, GoodContext, WellTyped, Ids, IdsOf
<1>2. CASE ctx.id_ptr_table[s].kind = "Ref"
  <2> DEFINE t == ctx.id_ptr_table[s]
  <2>1. HasSubtype(t) /\ Supported(ctx, t, s)
    BY <1>1 DEF IInv, GoodContext, WellFounded, AllHaveSubtype
  <2>2. t.args[1] \in Nat /\ t.args[1] < s /\ ctx.id_ptr_table[t.args[1]].kind # "Ref"
    BY <1>2, <2>1 DEF HasSubtype, Supported
  <2>3. QED
    BY <1>1, <1>2, <2>2 DEF Decay, IdsOf
<1>3. CASE ctx.id_ptr_table[s].kind # "Ref"
  BY <1>3 DEF Decay
<1>4. QED
  BY <1>2, <1>3

\* After get_or_create of a plain function type an entry holds it.
LEMMA FuncFound ==
    ASSUME NEW c, GoodContext(c), NEW t \in Type, t.kind = "Func",
           GoodContext(GetOrCreate(c, t))
    PROVE  \E j \in IdsOf(GetOrCreate(c, t)) :
              GetOrCreate(c, t).id_ptr_table[j] = t
<1>1. CASE Registered(c, t)
  <2> DEFINE j == c.type_ptr_table[UniqueName(t, 0)]
  <2>1. UniqueName(t, 0) \in DOMAIN c.type_ptr_table /\ t.kind \notin Nominal
    BY <1>1 DEF Registered
  <2>2. j \in IdsOf(c) /\ c.id_ptr_table[j] \in Type
    BY <2>1 DEF GoodContext, WellTyped
  <2>3. UniqueName(t, 0) = UniqueName(c.id_ptr_table[j], j)
    BY <2>1, NameForms DEF GoodContext, Sound
  <2>4. c.id_ptr_table[j].kind \notin Nominal
    BY <2>1, <2>2, <2>3, NameForms
  <2>5. SameType(t, c.id_ptr_table[j])
    BY <2>1, <2>2, <2>3, <2>4, NameInjective
  <2> DEFINE u == c.id_ptr_table[j]
  <2> HIDE DEF j, u
  <2>6. u \in Type /\ SameType(t, u)
    BY <2>2, <2>5 DEF u
  <2>7. /\ t.kind = u.kind /\ t.args = u.args /\ t.n = u.n /\ t.flag = u.flag
        /\ DOMAIN t = DOMAIN u
    BY <2>6 DEF SameType, Type
  <2>8. t = u
    BY <2>6, <2>7 DEF Type
  <2>9. QED
    BY <1>1, <2>2, <2>8 DEF GetOrCreate, j, u
<1>2. CASE ~ Registered(c, t)
  <2>1. GetOrCreate(c, t) = Create(c, t) /\ c.tp_counter \in Nat
    BY <1>2 DEF GetOrCreate, GoodContext, WellTyped
  <2>2. /\ Create(c, t).id_ptr_table[c.tp_counter] = t
        /\ Create(c, t).tp_counter = c.tp_counter + 1
    BY DEF Create, Put
  <2>3. QED
    BY <2>1, <2>2 DEF IdsOf
<1>3. QED
  BY <1>1, <1>2

\* A member function type over registered types is supported wherever the
\* function type with its parameters and result is registered.
LEMMA MemFuncSupported ==
    ASSUME NEW c, GoodContext(c), NEW t \in Type, t.kind = "MemFunc",
           \A k \in DOMAIN t.args : t.args[k] \in IdsOf(c),
           \E j \in IdsOf(c) :
              c.id_ptr_table[j] = Tp("Func", Tail(t.args), 0, FALSE)
    PROVE  HasSubtype(t) /\ Supported(c, t, c.tp_counter)
<1>1. c.tp_counter \in Nat
  BY DEF GoodContext, WellTyped
<1>2. \A k \in IdsOf(c) : k \in Nat /\ k < c.tp_counter
  BY <1>1 DEF IdsOf
<1>3. QED
  BY <1>2 DEF HasSubtype, Supported

\* One call with a candidate that may be registered.
LEMMA ServeEffect ==
    ASSUME IInv, NEW t \in Type, HasSubtype(t), Supported(ctx, t, ctx.tp_counter),
           Serve(ctx, t)
    PROVE  Effect(ctx, ctx')
  BY GetOrCreateGood DEF IInv, Serve, Effect

\* MemFuncType::get: the context after the constructor has registered the
\* function type is good, and it supports the member function.
LEMMA MemFuncEffect ==
    ASSUME IInv, NEW parent \in Ids, NEW ps \in Lists, NEW ret \in Ids,
           GetMemFunc(parent, ps, ret)
    PROVE  Effect(ctx, ctx')
<1> DEFINE fn == FuncTp(ps, ret, FALSE)
           m  == Tp("MemFunc", <<parent>> \o ps \o <<ret>>, 0, FALSE)
           c  == GetOrCreate(ctx, fn)
<1>1. Ids = IdsOf(ctx) /\ ctx.tp_counter \in Nat /\ Ids \subseteq Nat
  BY DEF IInv, GoodContext, WellTyped, Ids, IdsOf
<1>2. fn \in Type /\ HasSubtype(fn) /\ Supported(ctx, fn, ctx.tp_counter)
  BY FuncSupported
<1>3. GoodContext(c) /\ Extends(ctx, c) /\ ctx.tp_counter <= c.tp_counter
  BY <1>2, GetOrCreateGood DEF IInv
<1>4. c.tp_counter \in Nat /\ DOMAIN c.id_ptr_table = IdsOf(c)
  BY <1>3 DEF GoodContext, WellTyped
<1>5. ps \in Seq(Ids) /\ <<parent>> \in Seq(Ids) /\ <<ret>> \in Seq(Ids)
  BY ListsAreSeqs
<1>6. m.args \in Seq(Ids)
  BY <1>5 DEF Tp
<1>7. m \in Type
  BY <1>1, <1>6 DEF Tp, Type, Kind, Leaf, Nominal
<1>8. Tail(m.args) = Append(ps, ret)
  BY <1>5 DEF Tp
<1>9. \E j \in IdsOf(c) : c.id_ptr_table[j] = fn
  <2>1. fn.kind = "Func"
    BY DEF FuncTp, Tp
  <2>2. QED
    BY <1>2, <1>3, <2>1, FuncFound DEF IInv
<1>10. HasSubtype(m) /\ Supported(c, m, c.tp_counter)
  <2>1. IdsOf(ctx) \subseteq IdsOf(c)
    BY <1>1, <1>3, <1>4 DEF Extends, Ids
  <2>2. \A k \in DOMAIN m.args : m.args[k] \in IdsOf(c)
    <3> HIDE DEF m, c
    <3>1. QED
      BY <1>1, <1>6, <2>1
  <2>3. m.kind = "MemFunc" /\ fn = Tp("Func", Tail(m.args), 0, FALSE)
    BY <1>8 DEF FuncTp, Tp
  <2>4. QED
    BY <1>3, <1>7, <1>9, <2>2, <2>3, MemFuncSupported
<1>11. GoodContext(GetOrCreate(c, m)) /\ Extends(c, GetOrCreate(c, m))
  BY <1>3, <1>7, <1>10, GetOrCreateGood
<1>12. ctx' = GetOrCreate(c, m)
  BY DEF GetMemFunc, Serve
<1>13. Extends(ctx, ctx')
  BY <1>3, <1>11, <1>12 DEF Extends
<1>14. QED
  BY <1>11, <1>12, <1>13 DEF Effect

-----------------------------------------------------------------------------
(* Initial state and steps. *)

\* A type without components.
LEMMA Atomic ==
    ASSUME NEW kind \in {"Void", "Prim"}, NEW n \in Nat
    PROVE  LET t == Tp(kind, <<>>, n, FALSE) IN
           /\ t \in Type
           /\ DOMAIN t.args = {}
           /\ t.kind = kind
           /\ \A i : UniqueName(t, i) = <<kind, <<>>, n>>
<1> SUFFICES ASSUME NEW t, t = Tp(kind, <<>>, n, FALSE)
             PROVE  /\ t \in Type
                    /\ DOMAIN t.args = {}
                    /\ t.kind = kind
                    /\ \A i : UniqueName(t, i) = <<kind, <<>>, n>>
  OBVIOUS
<1>1. t \in Type
  BY DEF Tp, Type, Kind, Leaf
<1>2. t.kind = kind /\ t.args = <<>> /\ t.n = n /\ t.flag = FALSE
  BY DEF Tp
<1>3. DOMAIN t.args = {}
  <2>1. DOMAIN (<<>>) = {}
    OBVIOUS
  <2>2. QED
    BY <1>2, <2>1, Zenon
<1>4. \A i : UniqueName(t, i) = <<kind, <<>>, n>>
  BY <1>2 DEF UniqueName, Shape, Nominal
<1>5. QED
  BY <1>1, <1>2, <1>3, <1>4

\* The entries init makes, by id.
LEMMA FirstEntries ==
    LET byId == Put(InitPrims, NPrim, Tp("Void", <<>>, 0, FALSE)) IN
    /\ DOMAIN byId = 0 .. NPrim
    /\ \A i \in 0 .. NPrim - 1 : byId[i] = Tp("Prim", <<>>, i + 1, FALSE)
    /\ byId[NPrim] = Tp("Void", <<>>, 0, FALSE)
    /\ byId = [i \in 0 .. NPrim |-> byId[i]]
<1> DEFINE byId == Put(InitPrims, NPrim, Tp("Void", <<>>, 0, FALSE))
<1>0. NPrim \in Nat /\ NPrim > 0
  BY TypeTableAssumption
<1>1. (0 .. NPrim - 1) \cup {NPrim} = 0 .. NPrim
  BY <1>0
<1>2. DOMAIN InitPrims = 0 .. NPrim - 1
  BY DEF InitPrims
<1>3. byId = [i \in 0 .. NPrim |-> IF i = NPrim THEN Tp("Void", <<>>, 0, FALSE)
                                              ELSE InitPrims[i]]
  BY <1>1, <1>2 DEF Put
<1> HIDE DEF byId
<1>4. \A i \in 0 .. NPrim - 1 : i \in 0 .. NPrim /\ i # NPrim
  BY <1>0
<1>5. NPrim \in 0 .. NPrim
  BY <1>0
<1>6. DOMAIN byId = 0 .. NPrim
  BY <1>3
<1>7. byId[NPrim] = Tp("Void", <<>>, 0, FALSE)
  BY <1>3, <1>5
<1>8. ASSUME NEW i \in 0 .. NPrim - 1
      PROVE  byId[i] = Tp("Prim", <<>>, i + 1, FALSE)
  <2>1. byId[i] = InitPrims[i]
    BY <1>3, <1>4
  <2>2. InitPrims[i] = Tp("Prim", <<>>, i + 1, FALSE)
    BY DEF InitPrims
  <2>3. QED
    BY <2>1, <2>2
<1>9. byId = [i \in 0 .. NPrim |-> byId[i]]
  BY <1>3
<1>10. QED
  BY <1>6, <1>7, <1>8, <1>9 DEF byId

\* The first context is good.
LEMMA InitGood == Init => IInv
<1> SUFFICES ASSUME Init PROVE GoodContext(ctx)
  BY DEF IInv
<1> DEFINE byId  == Put(InitPrims, NPrim, Tp("Void", <<>>, 0, FALSE))
           Nm(i) == UniqueName(byId[i], i)
<1>1. NPrim \in Nat /\ NPrim > 0 /\ IntPrim \in 1 .. NPrim
  BY TypeTableAssumption
<1>2. ctx.tp_counter = NPrim + 1 /\ ctx.id_ptr_table = byId
  BY DEF Init
<1>3. IdsOf(ctx) = 0 .. NPrim
  BY <1>1, <1>2 DEF IdsOf
<1>4. /\ DOMAIN byId = 0 .. NPrim
      /\ \A i \in 0 .. NPrim - 1 : byId[i] = Tp("Prim", <<>>, i + 1, FALSE)
      /\ byId[NPrim] = Tp("Void", <<>>, 0, FALSE)
      /\ byId = [i \in 0 .. NPrim |-> byId[i]]
  BY FirstEntries
<1>5. \A i \in 0 .. NPrim :
        /\ byId[i] \in Type
        /\ DOMAIN byId[i].args = {}
        /\ byId[i].kind \in {"Void", "Prim"}
  <2>1. ASSUME NEW i \in 0 .. NPrim - 1
        PROVE  /\ byId[i] \in Type
               /\ DOMAIN byId[i].args = {}
               /\ byId[i].kind \in {"Void", "Prim"}
    <3> HIDE DEF byId
    <3>1. byId[i] = Tp("Prim", <<>>, i + 1, FALSE)
      BY <1>4
    <3>2. i + 1 \in Nat
      BY <1>1
    <3>3. QED
      BY <3>1, <3>2, Atomic
  <2>2. /\ byId[NPrim] \in Type
        /\ DOMAIN byId[NPrim].args = {}
        /\ byId[NPrim].kind \in {"Void", "Prim"}
    <3> HIDE DEF byId
    <3>1. QED
      BY <1>4, Atomic
  <2> HIDE DEF byId
  <2>3. \A i \in 0 .. NPrim : i \in 0 .. NPrim - 1 \/ i = NPrim
    BY <1>1
  <2>4. QED
    BY <2>1, <2>2, <2>3
<1> HIDE DEF byId
<1>6. /\ Nm(NPrim) = <<"Void", <<>>, 0>>
      /\ \A i \in 0 .. NPrim - 1 : Nm(i) = <<"Prim", <<>>, i + 1>>
  <2>1. \A i \in 0 .. NPrim - 1 : i + 1 \in Nat
    BY <1>1
  <2>2. QED
    BY <1>4, <2>1, Atomic
<1>7. \A i \in 0 .. NPrim : Nm(i)[1] \in {"Void", "Prim"}
  <2>1. \A i \in 0 .. NPrim - 1 : Nm(i)[1] = "Prim"
    BY <1>6
  <2>2. Nm(NPrim)[1] = "Void"
    BY <1>6
  <2>3. QED
    BY <2>1, <2>2, <1>1
<1>8. \A i, j \in 0 .. NPrim : Nm(i) = Nm(j) => i = j
  <2>1. \A i \in 0 .. NPrim - 1 : Nm(i)[3] = i + 1
    BY <1>6
  <2>2. Nm(NPrim)[3] = 0
    BY <1>6
  <2>3. QED
    BY <2>1, <2>2, <1>1
<1> HIDE DEF Nm
<1>9. /\ DOMAIN ctx.type_ptr_table = {Nm(i) : i \in 0 .. NPrim} \cup {<<"int", <<>>, 0>>}
      /\ ctx.type_ptr_table[<<"int", <<>>, 0>>] = IntPrim - 1
      /\ \A nm \in {Nm(i) : i \in 0 .. NPrim} :
            nm[1] # "int" =>
              ctx.type_ptr_table[nm] = CHOOSE i \in 0 .. NPrim : Nm(i) = nm
  BY DEF Init, byId, Nm
<1>10. ASSUME NEW i \in 0 .. NPrim
       PROVE  Nm(i) \in DOMAIN ctx.type_ptr_table /\ ctx.type_ptr_table[Nm(i)] = i
  <2>1. ctx.type_ptr_table[Nm(i)] = CHOOSE j \in 0 .. NPrim : Nm(j) = Nm(i)
    BY <1>7, <1>9
  <2>2. QED
    BY <1>8, <1>9, <2>1
<1>11. \A i \in IdsOf(ctx) : UniqueName(ctx.id_ptr_table[i], i) = Nm(i)
  BY <1>2, <1>3 DEF Nm
<1>12. WellTyped(ctx)
  <2>1. ctx.id_ptr_table \in [IdsOf(ctx) -> Type]
    BY <1>2, <1>3, <1>4, <1>5
  <2>2. \A nm \in DOMAIN ctx.type_ptr_table : ctx.type_ptr_table[nm] \in IdsOf(ctx)
    <3>1. ctx.type_ptr_table[<<"int", <<>>, 0>>] \in IdsOf(ctx)
      BY <1>1, <1>3, <1>9
    <3>2. QED
      BY <1>3, <1>9, <1>10, <3>1
  <2>3. QED
    BY <1>1, <1>2, <2>1, <2>2 DEF WellTyped
<1>13. Findable(ctx)
  BY <1>3, <1>10, <1>11 DEF Findable
<1>14. Sound(ctx)
  <2>1. ASSUME NEW nm \in DOMAIN ctx.type_ptr_table, nm # <<"int", <<>>, 0>>
        PROVE  nm = UniqueName(ctx.id_ptr_table[ctx.type_ptr_table[nm]], ctx.type_ptr_table[nm])
    <3>1. PICK i \in 0 .. NPrim : nm = Nm(i)
      BY <1>9, <2>1
    <3>2. ctx.type_ptr_table[nm] = i /\ i \in IdsOf(ctx)
      BY <1>3, <1>10, <3>1
    <3>3. QED
      BY <1>11, <3>1, <3>2
  <2>2. QED
    BY <2>1 DEF Sound
<1>15. WellFounded(ctx) /\ AllHaveSubtype(ctx)
  <2>1. ASSUME NEW i \in IdsOf(ctx)
        PROVE  Supported(ctx, ctx.id_ptr_table[i], i) /\ HasSubtype(ctx.id_ptr_table[i])
    <3>1. /\ DOMAIN ctx.id_ptr_table[i].args = {}
          /\ ctx.id_ptr_table[i].kind \in {"Void", "Prim"}
      BY <1>2, <1>3, <1>5
    <3>2. QED
      BY <3>1 DEF Supported, HasSubtype
  <2>2. QED
    BY <2>1 DEF WellFounded, AllHaveSubtype
<1>16. QED
  BY <1>12, <1>13, <1>14, <1>15 DEF GoodContext

\* Every request leaves a good context, which extends the one before it.
LEMMA NextGood == IInv /\ Next => Effect(ctx, ctx')
<1> SUFFICES ASSUME IInv, Next PROVE Effect(ctx, ctx')
  OBVIOUS
<1>1. Ids = IdsOf(ctx) /\ ctx.tp_counter \in Nat /\ Ids \subseteq Nat
  BY DEF IInv, GoodContext, WellTyped, Ids, IdsOf
<1>2. ASSUME NEW k \in Leaf, GetLeaf(k) PROVE Effect(ctx, ctx')
  <2>1. Tp(k, <<>>, 0, FALSE) \in Type
    BY DEF Tp, Type, Kind, Leaf
  <2>2. QED
    BY <1>2, <2>1, CandidateSupported, ServeEffect DEF GetLeaf, Tp, Leaf
<1>3. ASSUME NEW p \in 1 .. NPrim, GetPrim(p) PROVE Effect(ctx, ctx')
  <2>1. Tp("Prim", <<>>, p, FALSE) \in Type
    BY TypeTableAssumption DEF Tp, Type, Kind
  <2>2. QED
    BY <1>3, <2>1, CandidateSupported, ServeEffect DEF GetPrim, Tp
<1>4. ASSUME NEW l \in Labels,
             GetGenericParam(l) \/ CreateStruct(l) \/ CreateGeneric(l)
      PROVE  Effect(ctx, ctx')
  <2>1. \A kind \in {"Param", "Struct", "Generic"} :
          Tp(kind, <<>>, l, FALSE) \in Type
    BY TypeTableAssumption DEF Tp, Type, Kind, Nominal
  <2>2. QED
    BY <1>4, <2>1, CandidateSupported, ServeEffect
       DEF GetGenericParam, CreateStruct, CreateGeneric, Tp
<1>5. ASSUME NEW s \in Ids, NEW kind \in {"Ref", "Pointer", "Array"},
             NEW n \in Nat, NEW flag \in BOOLEAN,
             Serve(ctx, Tp(kind, <<Decay(ctx, s)>>, n, flag))
      PROVE  Effect(ctx, ctx')
  <2> DEFINE d == Decay(ctx, s)
  <2>1. d \in Ids /\ d \in Nat /\ ctx.id_ptr_table[d].kind # "Ref"
    BY <1>1, DecayPlain
  <2>2. Serve(ctx, Tp(kind, <<d>>, n, flag))
    BY <1>5
  <2> HIDE DEF d
  <2>3. Tp(kind, <<d>>, n, flag) \in Type
    BY <2>1 DEF Tp, Type, Kind
  <2>4. QED
    BY <2>1, <2>2, <2>3, CandidateSupported, ServeEffect DEF Tp
<1>6. /\ \A s \in Ids, cnst \in BOOLEAN : GetRef(s, cnst) => Effect(ctx, ctx')
      /\ \A s \in Ids : GetPointer(s) => Effect(ctx, ctx')
      /\ \A s \in Ids, len \in Lengths : GetArray(s, len) => Effect(ctx, ctx')
  BY <1>5, TypeTableAssumption DEF GetRef, GetPointer, GetArray
<1>7. ASSUME NEW ms \in Lists, GetTuple(ms) PROVE Effect(ctx, ctx')
  <2>1. Tp("Tuple", ms, 0, FALSE) \in Type
    BY <1>1, ListsAreSeqs DEF Tp, Type, Kind
  <2>2. QED
    BY <1>7, <2>1, ListsAreSeqs, CandidateSupported, ServeEffect DEF GetTuple, Tp
<1>8. ASSUME NEW ps \in Lists, NEW ret \in Ids, NEW vary \in BOOLEAN,
             GetFunc(ps, ret, vary)
      PROVE  Effect(ctx, ctx')
  BY <1>8, FuncSupported, ServeEffect DEF GetFunc
<1>9. ASSUME NEW parent \in Ids, NEW ps \in Lists, NEW ret \in Ids,
             GetMemFunc(parent, ps, ret)
      PROVE  Effect(ctx, ctx')
  BY <1>9, MemFuncEffect
<1>10. ASSUME NEW fn \in Ids, GetCallable(fn) PROVE Effect(ctx, ctx')
  <2>1. Tp("Callable", <<fn>>, 0, FALSE) \in Type
    BY <1>1 DEF Tp, Type, Kind
  <2>2. QED
    BY <1>10, <2>1, CandidateSupported, ServeEffect DEF GetCallable, Tp
<1>11. ASSUME NEW l \in Labels, NEW fns \in Lists, CreateTrait(l, fns)
       PROVE  Effect(ctx, ctx')
  <2>1. Tp("Trait", fns, l, FALSE) \in Type
    BY <1>1, ListsAreSeqs, TypeTableAssumption DEF Tp, Type, Kind, Nominal
  <2>2. QED
    BY <1>11, <2>1, ListsAreSeqs, CandidateSupported, ServeEffect DEF CreateTrait, Tp
<1>12. QED
  BY <1>2, <1>3, <1>4, <1>6, <1>7, <1>8, <1>9, <1>10, <1>11 DEF Next

-----------------------------------------------------------------------------
(* Theorems. *)

\* Every context the factories of sdtype.cpp can produce is good.
THEOREM IInvHolds == Spec => []IInv
<1>1. IInv /\ [Next]_ctx => IInv'
  <2>1. IInv /\ Next => IInv'
    BY NextGood DEF IInv, Effect
  <2>2. IInv /\ UNCHANGED ctx => IInv'
    BY DEF IInv
  <2>3. QED
    BY <2>1, <2>2
<1>2. QED
  BY <1>1, InitGood, PTL DEF Spec

\* The two tables of TypeContext stay well typed.
THEOREM TypeCorrect == Spec => []TypeOK
<1>1. IInv => TypeOK
  BY DEF IInv, GoodContext, WellTyped, TypeOK, Ids, IdsOf
<1>2. QED
  BY <1>1, IInvHolds, PTL

\* In a good context no structural type has two ids.
LEMMA GoodIsCanonical == IInv => Canonical
<1> SUFFICES ASSUME IInv, NEW i \in Ids, NEW j \in Ids,
                    ctx.id_ptr_table[i].kind \notin Nominal,
                    SameType(ctx.id_ptr_table[i], ctx.id_ptr_table[j])
             PROVE  i = j
  BY DEF Canonical
<1>1. Ids = IdsOf(ctx)
  BY DEF IInv, GoodContext, WellTyped, Ids
<1>2. ctx.id_ptr_table[i] \in Type /\ ctx.id_ptr_table[j] \in Type
  BY <1>1 DEF IInv, GoodContext, WellTyped
<1>3. UniqueName(ctx.id_ptr_table[i], i) = UniqueName(ctx.id_ptr_table[j], j)
  BY <1>2, NameInjective DEF SameType
<1>4. QED
  BY <1>1, <1>3 DEF IInv, GoodContext, Findable

\* Comparing types by pointer is comparing their structure: get_or_create
\* never registers a structural type twice.
THEOREM CanonicalHolds == Spec => []Canonical
BY GoodIsCanonical, IInvHolds, PTL

\* One decay() is enough: references, pointers and arrays are never built on
\* a reference.
THEOREM NoNestedRefHolds == Spec => []NoNestedRef
<1>1. IInv => NoNestedRef
  BY DEF IInv, GoodContext, WellTyped, WellFounded, Supported, NoNestedRef, Ids
<1>2. QED
  BY <1>1, IInvHolds, PTL

\* The component relation of registered types is well founded.
THEOREM ComponentsFirstHolds == Spec => []ComponentsFirst
<1>1. IInv => ComponentsFirst
  BY DEF IInv, GoodContext, WellTyped, WellFounded, Supported, ComponentsFirst, Ids
<1>2. QED
  BY <1>1, IInvHolds, PTL

\* The function type behind a member function is registered before it.
THEOREM MemFuncHasFuncHolds == Spec => []MemFuncHasFunc
<1>1. IInv => MemFuncHasFunc
  BY DEF IInv, GoodContext, WellTyped, WellFounded, Supported, MemFuncHasFunc, Ids
<1>2. QED
  BY <1>1, IInvHolds, PTL

\* All three: what is registered was built from registered types that it may
\* be built from.
THEOREM WellBuiltHolds == Spec => []WellBuilt
<1> QED
  BY NoNestedRefHolds, ComponentsFirstHolds, MemFuncHasFuncHolds, PTL DEF WellBuilt

\* What is asked for is a type over the registered ones.
LEMMA RequestTyped ==
    ASSUME IInv, NEW t \in Request
    PROVE  t \in Type
<1>1. Ids \subseteq Nat
  BY DEF IInv, GoodContext, WellTyped, Ids, IdsOf
<1>2. ASSUME NEW ms \in Lists PROVE ms \in Seq(Nat)
  <2>1. ms \in Seq(Ids)
    BY ListsAreSeqs
  <2> HIDE DEF Ids
  <2>2. QED
    BY <1>1, <2>1, SeqMonotonic
<1>3. {0} \cup Lengths \cup Labels \subseteq Nat
  BY TypeTableAssumption
<1>4. QED
  BY <1>2, <1>3 DEF Request, Type

\* A lookup that hits answers with the structure that was asked for.
THEOREM AnswerFitsHolds == Spec => []AnswerFits
<1>1. IInv => AnswerFits
  <2> SUFFICES ASSUME IInv, NEW t \in Request, Registered(ctx, t)
               PROVE  SameType(t, ctx.id_ptr_table[Answer(ctx, t)])
    BY DEF AnswerFits
  <2>3. t \in Type
    BY RequestTyped
  <2> DEFINE nm == UniqueName(t, 0)
             i  == ctx.type_ptr_table[nm]
  <2>4. nm \in DOMAIN ctx.type_ptr_table /\ t.kind \notin Nominal
    BY DEF Registered
  <2>5. ctx.id_ptr_table[i] \in Type
    BY <2>4 DEF IInv, GoodContext, WellTyped
  <2>6. nm = UniqueName(ctx.id_ptr_table[i], i)
    BY <2>3, <2>4, NameForms DEF IInv, GoodContext, Sound
  <2>7. ctx.id_ptr_table[i].kind \notin Nominal
    BY <2>3, <2>4, <2>5, <2>6, NameForms
  <2>8. QED
    BY <2>3, <2>4, <2>5, <2>6, <2>7, NameInjective DEF Answer
<1>2. QED
  BY <1>1, IInvHolds, PTL

\* No later registration disturbs an earlier one: the pointers AST nodes hold
\* stay the pointers the table answers with.
THEOREM BindingsKeptHolds == Spec => BindingsKept
<1>1. IInv /\ [Next]_ctx => Extends(ctx, ctx') \/ UNCHANGED ctx
  BY NextGood DEF Effect
<1>2. IInv /\ [Next]_ctx =>
      [/\ \A i \in Ids : i \in DOMAIN ctx'.id_ptr_table
                         /\ ctx'.id_ptr_table[i] = ctx.id_ptr_table[i]
       /\ \A nm \in DOMAIN ctx.type_ptr_table :
             /\ nm \in DOMAIN ctx'.type_ptr_table
             /\ ctx'.type_ptr_table[nm] = ctx.type_ptr_table[nm]]_ctx
  BY <1>1 DEF Extends, Ids
<1>3. QED
  BY <1>2, IInvHolds, PTL DEF Spec, BindingsKept

-----------------------------------------------------------------------------
(* Conversions. *)

\* A primitive is one of the list, and like void it has no components.
Listed(t) ==
    /\ t.kind = "Prim" => t.args = <<>> /\ t.n \in 1 .. NPrim
    /\ t.kind = "Void" => t.args = <<>> /\ t.n = 0

PrimsListed(c) == \A i \in DOMAIN c.id_ptr_table : Listed(c.id_ptr_table[i])

\* greater_type finds void under its name.
VoidKnown(c) == <<"Void", <<>>, 0>> \in DOMAIN c.type_ptr_table

ConvInv == IInv /\ PrimsListed(ctx) /\ VoidKnown(ctx)

-----------------------------------------------------------------------------
(* The primitives of a context. *)

\* A factory call registers at most its candidate.
LEMMA CreatesOnly ==
    ASSUME NEW c, PrimsListed(c), NEW t, Listed(t)
    PROVE  PrimsListed(GetOrCreate(c, t))
<1>1. CASE Registered(c, t)
  BY <1>1 DEF GetOrCreate
<1>2. CASE ~ Registered(c, t)
  <2>1. GetOrCreate(c, t).id_ptr_table = Put(c.id_ptr_table, c.tp_counter, t)
    BY <1>2 DEF GetOrCreate, Create
  <2>2. QED
    BY <2>1 DEF PrimsListed, Put
<1>3. QED
  BY <1>1, <1>2

\* A call that asks for anything but a primitive keeps the primitives.
LEMMA ServeListed ==
    ASSUME NEW c, PrimsListed(c), NEW kind, NEW args, NEW n, NEW flag,
           kind = "Prim" => args = <<>> /\ n \in 1 .. NPrim,
           kind = "Void" => args = <<>> /\ n = 0,
           Serve(c, Tp(kind, args, n, flag))
    PROVE  PrimsListed(ctx')
<1>1. ctx' = GetOrCreate(c, Tp(kind, args, n, flag))
  BY DEF Serve
<1>2. QED
  BY <1>1, CreatesOnly DEF Tp, Listed

\* The primitives init registers are those of the list.
LEMMA InitListed == Init => PrimsListed(ctx)
<1> SUFFICES ASSUME Init PROVE PrimsListed(ctx)
  OBVIOUS
<1>1. ctx.id_ptr_table = Put(InitPrims, NPrim, Tp("Void", <<>>, 0, FALSE))
  BY DEF Init
<1>2. NPrim \in Nat
  BY TypeTableAssumption
<1>3. /\ DOMAIN ctx.id_ptr_table = 0 .. NPrim
      /\ \A i \in 0 .. NPrim - 1 : ctx.id_ptr_table[i] = Tp("Prim", <<>>, i + 1, FALSE)
      /\ ctx.id_ptr_table[NPrim] = Tp("Void", <<>>, 0, FALSE)
  BY <1>1, FirstEntries
<1>4. ASSUME NEW i \in 0 .. NPrim, ctx.id_ptr_table[i].kind = "Prim"
      PROVE  ctx.id_ptr_table[i].args = <<>> /\ ctx.id_ptr_table[i].n \in 1 .. NPrim
  <2>1. i # NPrim
    BY <1>3, <1>4 DEF Tp
  <2>2. i \in 0 .. NPrim - 1 /\ i + 1 \in 1 .. NPrim
    BY <1>2, <2>1
  <2>3. ctx.id_ptr_table[i] = Tp("Prim", <<>>, i + 1, FALSE)
    BY <1>3, <2>2
  <2>4. QED
    BY <2>2, <2>3 DEF Tp
<1>5. ASSUME NEW i \in 0 .. NPrim, ctx.id_ptr_table[i].kind = "Void"
      PROVE  ctx.id_ptr_table[i].args = <<>> /\ ctx.id_ptr_table[i].n = 0
  <2>1. i \notin 0 .. NPrim - 1
    <3>1. SUFFICES ASSUME i \in 0 .. NPrim - 1 PROVE FALSE
      OBVIOUS
    <3>2. ctx.id_ptr_table[i] = Tp("Prim", <<>>, i + 1, FALSE)
      BY <1>3, <3>1
    <3>3. QED
      BY <1>5, <3>2 DEF Tp
  <2>2. i = NPrim
    BY <1>2, <2>1
  <2>3. QED
    BY <1>3, <2>2 DEF Tp
<1>6. QED
  BY <1>3, <1>4, <1>5 DEF PrimsListed, Listed

\* Only GetPrim asks for a primitive.
LEMMA NextListed == PrimsListed(ctx) /\ Next => PrimsListed(ctx')
<1> SUFFICES ASSUME PrimsListed(ctx), Next PROVE PrimsListed(ctx')
  OBVIOUS
<1>1. ASSUME NEW k \in Leaf, GetLeaf(k) PROVE PrimsListed(ctx')
  BY <1>1, ServeListed DEF GetLeaf, Leaf
<1>2. ASSUME NEW p \in 1 .. NPrim, GetPrim(p) PROVE PrimsListed(ctx')
  BY <1>2, ServeListed DEF GetPrim
<1>3. ASSUME NEW l \in Labels, GetGenericParam(l) \/ CreateStruct(l) \/ CreateGeneric(l)
      PROVE  PrimsListed(ctx')
  BY <1>3, ServeListed DEF GetGenericParam, CreateStruct, CreateGeneric
<1>4. ASSUME NEW s \in Ids, NEW cnst \in BOOLEAN, GetRef(s, cnst) PROVE PrimsListed(ctx')
  BY <1>4, ServeListed DEF GetRef
<1>5. ASSUME NEW s \in Ids, GetPointer(s) PROVE PrimsListed(ctx')
  BY <1>5, ServeListed DEF GetPointer
<1>6. ASSUME NEW s \in Ids, NEW len \in Lengths, GetArray(s, len) PROVE PrimsListed(ctx')
  BY <1>6, ServeListed DEF GetArray
<1>7. ASSUME NEW ms \in Lists, GetTuple(ms) PROVE PrimsListed(ctx')
  BY <1>7, ServeListed DEF GetTuple
<1>8. ASSUME NEW ps \in Lists, NEW ret \in Ids, NEW vary \in BOOLEAN, GetFunc(ps, ret, vary)
      PROVE  PrimsListed(ctx')
  BY <1>8, ServeListed DEF GetFunc, FuncTp
<1>9. ASSUME NEW parent \in Ids, NEW ps \in Lists, NEW ret \in Ids, GetMemFunc(parent, ps, ret)
      PROVE  PrimsListed(ctx')
  <2>1. PrimsListed(GetOrCreate(ctx, FuncTp(ps, ret, FALSE)))
    BY CreatesOnly DEF FuncTp, Tp, Listed
  <2>2. QED
    BY <1>9, <2>1, ServeListed DEF GetMemFunc
<1>10. ASSUME NEW fn \in Ids, GetCallable(fn) PROVE PrimsListed(ctx')
  BY <1>10, ServeListed DEF GetCallable
<1>11. ASSUME NEW l \in Labels, NEW fns \in Lists, CreateTrait(l, fns) PROVE PrimsListed(ctx')
  BY <1>11, ServeListed DEF CreateTrait
<1>12. QED
  BY <1>1, <1>2, <1>3, <1>4, <1>5, <1>6, <1>7, <1>8, <1>9, <1>10, <1>11 DEF Next

\* Contexts stay good and their primitives listed.
THEOREM ConvInvHolds == Spec => []ConvInv
<1>1. Init => PrimsListed(ctx)
  BY InitListed
<1>2. PrimsListed(ctx) /\ [Next]_ctx => PrimsListed(ctx)'
  BY NextListed DEF PrimsListed
<1>3. Spec => []PrimsListed(ctx)
  BY <1>1, <1>2, PTL DEF Spec
<1>4. IInv /\ Init => VoidKnown(ctx)
  <2>1. Init => /\ ctx.id_ptr_table = Put(InitPrims, NPrim, Tp("Void", <<>>, 0, FALSE))
                /\ ctx.tp_counter = NPrim + 1
    BY DEF Init
  <2>2. Init => /\ ctx.id_ptr_table[NPrim] = Tp("Void", <<>>, 0, FALSE)
                /\ NPrim \in IdsOf(ctx)
    BY <2>1, TypeTableAssumption, FirstEntries DEF IdsOf
  <2>3. UniqueName(Tp("Void", <<>>, 0, FALSE), NPrim) = <<"Void", <<>>, 0>>
    BY DEF UniqueName, Shape, Tp, Nominal
  <2>4. QED
    BY <2>2, <2>3 DEF IInv, GoodContext, Findable, VoidKnown
<1>5. IInv /\ VoidKnown(ctx) /\ [Next]_ctx => VoidKnown(ctx)'
  BY NextGood DEF VoidKnown, Effect, Extends
<1>6. QED
  BY <1>3, <1>4, <1>5, IInvHolds, PTL DEF ConvInv, Spec

-----------------------------------------------------------------------------
(* The order of primitives. *)

\* A total order: of two different primitives of the list, exactly one is
\* below the other.
LEMMA PrimOrder ==
    ASSUME NEW i \in 1 .. NPrim, NEW j \in 1 .. NPrim, i # j
    PROVE  PrimLeq(PrimList[i], PrimList[j]) <=> ~ PrimLeq(PrimList[j], PrimList[i])
<1> DEFINE P == [kind : 0 .. 3, siz : Nat, unsig : 0 .. 1]
<1>1. PrimList[i] \in P /\ PrimList[j] \in P /\ PrimList[i] # PrimList[j]
  BY ConversionAssumption
<1>2. ASSUME NEW p \in P, NEW q \in P, p # q PROVE PrimLeq(p, q) <=> ~ PrimLeq(q, p)
  BY <1>2 DEF PrimLeq
<1>3. QED
  BY <1>1, <1>2

\* Entry a is a primitive of the list.
PrimAt(a) ==
    /\ ctx.id_ptr_table[a].kind = "Prim"
    /\ ctx.id_ptr_table[a].args = <<>>
    /\ ctx.id_ptr_table[a].n \in 1 .. NPrim

\* Between primitives, is_convertable is the order.
LEMMA PrimConvertsByOrder ==
    ASSUME NEW a, NEW b, PrimAt(a), PrimAt(b)
    PROVE  IsConvertable(ctx, a, b) <=> PrimLeq(PrimOf(ctx, a), PrimOf(ctx, b))
<1>1. KindOf(ctx, a) = "Prim" /\ KindOf(ctx, b) = "Prim" /\ Decay(ctx, a) = a
  BY DEF PrimAt, KindOf, Decay
<1>2. ConvertsPlain(ctx, a, b) <=> PrimConverts(ctx, a, b)
  BY <1>1 DEF ConvertsPlain, IsError, WithTrait
<1>3. QED
  BY <1>1, <1>2 DEF IsConvertable, PrimConverts, IsRef, IsPrim

\* "Conversion upwards is implicit, downwards it takes a cast", for any
\* primitives: of two, exactly one converts to the other.
THEOREM PrimsOrderedHolds == Spec => []PrimsOrdered
<1>1. ConvInv /\ Canonical => PrimsOrdered
  <2> SUFFICES ASSUME ConvInv, Canonical, NEW a \in Ids, NEW b \in Ids,
                      IsPrim(ctx, a), IsPrim(ctx, b), a # b
               PROVE  IsConvertable(ctx, a, b) <=> ~ IsConvertable(ctx, b, a)
    BY DEF PrimsOrdered
  <2>1. PrimAt(a) /\ PrimAt(b)
    BY DEF PrimAt, ConvInv, PrimsListed, Listed, IsPrim, KindOf, Ids
  <2>2. ctx.id_ptr_table[a].n # ctx.id_ptr_table[b].n
    BY <2>1 DEF Canonical, SameType, PrimAt, Nominal
  <2>3. IsConvertable(ctx, a, b) <=> PrimLeq(PrimOf(ctx, a), PrimOf(ctx, b))
    BY <2>1, PrimConvertsByOrder
  <2>4. IsConvertable(ctx, b, a) <=> PrimLeq(PrimOf(ctx, b), PrimOf(ctx, a))
    BY <2>1, PrimConvertsByOrder
  <2>5. QED
    BY <2>1, <2>2, <2>3, <2>4, PrimOrder DEF PrimAt, PrimOf
<1>2. QED
  BY <1>1, ConvInvHolds, CanonicalHolds, PTL

-----------------------------------------------------------------------------
(* The checker and the generator. *)

\* What is used of a good context: an entry and what it decays to.
LEMMA Operand ==
    ASSUME ConvInv, NEW a \in Lowers(ctx)
    PROVE  /\ a \in Ids /\ Decay(ctx, a) \in Ids
           /\ KindOf(ctx, a) \in Lowered /\ KindOf(ctx, Decay(ctx, a)) \in Lowered \ {"Ref"}
           /\ ~ IsRef(ctx, a) => Decay(ctx, a) = a
           /\ Decay(ctx, Decay(ctx, a)) = Decay(ctx, a)
<1>1. a \in Ids /\ KindOf(ctx, a) \in Lowered /\ KindOf(ctx, Decay(ctx, a)) \in Lowered
  BY DEF Lowers, Ids
<1>2. Decay(ctx, a) \in Ids /\ KindOf(ctx, Decay(ctx, a)) # "Ref"
  BY <1>1, DecayPlain DEF ConvInv, KindOf
<1>3. QED
  BY <1>1, <1>2 DEF IsRef, KindOf, Decay

\* There is one void.
LEMMA OneVoid ==
    ASSUME ConvInv, Canonical, NEW a \in Ids, NEW b \in Ids, IsVoid(ctx, a), IsVoid(ctx, b)
    PROVE  a = b
<1>1. \A x \in {a, b} : /\ ctx.id_ptr_table[x].kind = "Void"
                        /\ ctx.id_ptr_table[x].args = <<>> /\ ctx.id_ptr_table[x].n = 0
  BY DEF ConvInv, PrimsListed, Listed, IsVoid, KindOf, Ids
<1>2. QED
  BY <1>1 DEF Canonical, SameType, Nominal

\* A primitive that converts to another one has a conversion in LLVM: of two
\* floating-point types only the size can differ.
LEMMA PrimGenerates ==
    ASSUME ConvInv, Canonical, NEW a \in Ids, NEW b \in Ids, IsPrim(ctx, a), IsPrim(ctx, b)
    PROVE  GenPlain(ctx, a, b) = "value"
<1>1. PrimAt(a) /\ PrimAt(b)
  BY DEF PrimAt, ConvInv, PrimsListed, Listed, IsPrim, KindOf, Ids
<1>2. ASSUME PrimOf(ctx, a) = PrimOf(ctx, b) PROVE a = b
  <2>1. ctx.id_ptr_table[a].n = ctx.id_ptr_table[b].n
    BY <1>1, <1>2, ConversionAssumption DEF PrimAt, PrimOf
  <2>2. QED
    BY <1>1, <2>1 DEF PrimAt, Canonical, SameType, Nominal
<1>3. ASSUME LlvmFloat(ctx, a), LlvmFloat(ctx, b), PrimOf(ctx, a).siz = PrimOf(ctx, b).siz
      PROVE  a = b
  <2>1. /\ PrimOf(ctx, a) \in [kind : 0 .. 3, siz : Nat, unsig : 0 .. 1]
        /\ PrimOf(ctx, b) \in [kind : 0 .. 3, siz : Nat, unsig : 0 .. 1]
    BY <1>1, ConversionAssumption DEF PrimAt, PrimOf
  <2>2. /\ PrimOf(ctx, a).kind = FloatKind /\ PrimOf(ctx, b).kind = FloatKind
        /\ PrimOf(ctx, a).unsig = 0 /\ PrimOf(ctx, b).unsig = 0
    BY <1>1, <1>3, ConversionAssumption DEF PrimAt, PrimOf, LlvmFloat
  <2>3. PrimOf(ctx, a) = PrimOf(ctx, b)
    BY <1>3, <2>1, <2>2
  <2>4. QED
    BY <1>2, <2>3
<1>4. QED
  BY <1>3 DEF GenPlain, LlvmInt, LlvmFloat

\* What converts by itself has code, after the decay of a reference.
LEMMA PlainGenerates ==
    ASSUME ConvInv, Canonical, NEW a \in Lowers(ctx), NEW b \in Lowers(ctx),
           ConvertsPlain(ctx, Decay(ctx, a), b), ~ Gap(ctx, a, b)
    PROVE  GenConvert(ctx, a, b) = "value"
<1> DEFINE d == Decay(ctx, a)
<1>1. /\ a \in Ids /\ d \in Ids /\ b \in Ids
      /\ KindOf(ctx, d) \in Lowered \ {"Ref"} /\ KindOf(ctx, b) \in Lowered
      /\ ~ IsRef(ctx, a) => d = a
  BY Operand
<1>2. IsVoid(ctx, d) /\ IsVoid(ctx, b) => d = b
  BY <1>1, OneVoid
<1>3. IsPrim(ctx, d) /\ IsPrim(ctx, b) => GenPlain(ctx, d, b) = "value"
  BY <1>1, PrimGenerates
<1>4. ConvertsPlain(ctx, d, b) /\ ~ Gap(ctx, a, b)
  OBVIOUS
<1>5. KindOf(ctx, b) = "Ref" => ~ ConvertsPlain(ctx, d, b)
  BY <1>1 DEF ConvertsPlain, WithTrait, PrimConverts, PtrConverts, FuncConverts, IsError, IsVoid,
              IsPrim, IsPtr, Lowered
<1> HIDE DEF d
<1>6. CASE IsTrait(ctx, b)
  <2>1. WithTrait(ctx, d, b)
    BY <1>1, <1>4, <1>6
    DEF ConvertsPlain, PrimConverts, PtrConverts, FuncConverts, IsTrait, IsError, IsVoid,
        IsPrim, IsPtr, Lowered, Gap, TraitToItself, d
  <2>2. QED
    BY <1>6, <2>1 DEF GenConvert, d
<1>7. CASE ~ IsTrait(ctx, b)
  <2>1. a = b \/ (IsArray(ctx, d) /\ IsPtr(ctx, b)) => GenConvert(ctx, a, b) = "value"
    BY <1>1, <1>4, <1>7 DEF GenConvert, Gap, ArrayValueToPtr, d
  <2>2. SUFFICES ASSUME a # b, ~ (IsArray(ctx, d) /\ IsPtr(ctx, b))
                 PROVE  GenConvert(ctx, a, b) = "value"
    BY <2>1
  <2>3. \/ d = b
        \/ IsPrim(ctx, d) /\ IsPrim(ctx, b)
        \/ IsVoid(ctx, d) /\ IsVoid(ctx, b)
        \/ IsPtr(ctx, d) /\ IsPtr(ctx, b)
        \/ IsFunc(ctx, d) /\ IsPtr(ctx, b)
    BY <1>1, <1>4, <1>7, <2>2
    DEF ConvertsPlain, WithTrait, PrimConverts, PtrConverts, FuncConverts, IsTrait, IsError,
        IsVoid, IsPrim, IsPtr, IsFunc, IsArray, Lowered, Gap, MethodToVoidPtr, d
  <2>4. GenPlain(ctx, d, b) = "value"
    BY <1>2, <1>3, <2>3 DEF GenPlain
  <2>5. ~ IsRef(ctx, b)
    BY <1>4, <1>5 DEF IsRef
  <2>6. QED
    BY <1>1, <1>7, <2>2, <2>4, <2>5 DEF GenConvert, d
<1>8. QED
  BY <1>6, <1>7

\* What only a cast converts has code too.
LEMMA ForcedGenerates ==
    ASSUME ConvInv, Canonical, NEW a \in Lowers(ctx), NEW b \in Lowers(ctx),
           ForcesPlain(ctx, Decay(ctx, a), b), ~ ConvertsPlain(ctx, Decay(ctx, a), b),
           ~ Gap(ctx, a, b)
    PROVE  GenConvert(ctx, a, b) = "value"
<1> DEFINE d == Decay(ctx, a)
<1>1. /\ a \in Ids /\ d \in Ids /\ b \in Ids
      /\ KindOf(ctx, d) \in Lowered \ {"Ref"} /\ KindOf(ctx, b) \in Lowered
      /\ ~ IsRef(ctx, a) => d = a
  BY Operand
<1>2. IsPrim(ctx, d) /\ IsPrim(ctx, b) => GenPlain(ctx, d, b) = "value"
  BY <1>1, PrimGenerates
<1>3. \/ IsPrim(ctx, d) /\ IsPrim(ctx, b)
      \/ IsInt(ctx, d) /\ IsPtr(ctx, b)
      \/ IsPtr(ctx, d) /\ IsInt(ctx, b)
      \/ IsPtr(ctx, d) /\ IsPtr(ctx, b)
  BY <1>1
  DEF ForcesPlain, ConvertsPlain, Lowered, IsError, IsPtr, IsPrim, IsInt, Gap, ArrayToInt, IsArray
<1>4. /\ IsInt(ctx, b) => LlvmInt(ctx, b)
      /\ IsInt(ctx, d) => LlvmInt(ctx, d)
  BY DEF IsInt, LlvmInt, IntKind, FloatKind
<1>5. GenPlain(ctx, d, b) = "value"
  BY <1>2, <1>3, <1>4 DEF GenPlain
<1>6. /\ ~ IsTrait(ctx, b) /\ ~ IsArray(ctx, d) /\ ~ IsRef(ctx, b)
      /\ KindOf(ctx, b) \notin {"Array", "Struct"}
  BY <1>3 DEF IsTrait, IsArray, IsRef, IsPtr, IsPrim, IsInt
<1> HIDE DEF d
<1>7. QED
  BY <1>1, <1>5, <1>6 DEF GenConvert, d

\* What is accepted in a good context has code.
LEMMA AcceptedHasCode == ConvInv /\ Canonical => AcceptedGenerates
<1> SUFFICES ASSUME ConvInv, Canonical, NEW a \in Lowers(ctx), NEW b \in Lowers(ctx),
                    NEW site \in Site, Accepted(ctx, site, a, b), ~ Gap(ctx, a, b)
             PROVE  GenConvert(ctx, a, b) = "value"
  BY DEF AcceptedGenerates
<1>1. CASE IsRef(ctx, a) /\ a = b
  <2>1. ~ IsTrait(ctx, b)
    BY <1>1 DEF IsRef, IsTrait
  <2>2. QED
    BY <1>1, <2>1 DEF GenConvert
<1>2. CASE ~ (IsRef(ctx, a) /\ a = b)
  <2>1. ConvertsPlain(ctx, Decay(ctx, a), b) \/ ForcesPlain(ctx, Decay(ctx, a), b)
    BY <1>2 DEF Accepted, IsConvertable, IsForceConvertable
  <2>2. QED
    BY <2>1, PlainGenerates, ForcedGenerates
<1>3. QED
  BY <1>1, <1>2

\* Whatever the checker accepts, at an expected type, at the tail of a function
\* or in a cast, gen_convert has code for, but for the four gaps: for any
\* primitives, any implementations of traits and any types a program declares.
THEOREM AcceptedGeneratesHolds == Spec => []AcceptedGenerates
BY AcceptedHasCode, ConvInvHolds, CanonicalHolds, PTL

\* A conversion that happens by itself may be written as a cast, but for one to
\* a trait.
THEOREM CastCoversImplicitHolds == Spec => []CastCoversImplicit
<1>1. CastCoversImplicit
  <2> SUFFICES ASSUME NEW a \in Lowers(ctx), NEW b \in Lowers(ctx),
                      IsConvertable(ctx, a, b), ~ IsTrait(ctx, b)
               PROVE  IsForceConvertable(ctx, a, b)
    BY DEF CastCoversImplicit
  <2>1. ASSUME NEW d, ConvertsPlain(ctx, d, b) PROVE ForcesPlain(ctx, d, b)
    BY <2>1 DEF ConvertsPlain, ForcesPlain, WithTrait, IsTrait, PrimConverts, PtrConverts
  <2>2. QED
    BY <2>1 DEF IsConvertable, IsForceConvertable
<1>2. QED
  BY <1>1, PTL
-----------------------------------------------------------------------------
(* Common types. *)

\* Every type that has values converts to itself.
LEMMA ConvertsToItself ==
    ASSUME ConvInv, NEW d \in Ids, KindOf(ctx, d) \in Lowered \ {"Ref"}
    PROVE  ConvertsPlain(ctx, d, d)
<1>1. IsPrim(ctx, d) => PrimLeq(PrimOf(ctx, d), PrimOf(ctx, d))
  <2>1. SUFFICES ASSUME IsPrim(ctx, d) PROVE PrimLeq(PrimOf(ctx, d), PrimOf(ctx, d))
    OBVIOUS
  <2>2. PrimOf(ctx, d) \in [kind : 0 .. 3, siz : Nat, unsig : 0 .. 1]
    BY <2>1, ConversionAssumption
    DEF ConvInv, PrimsListed, Listed, IsPrim, KindOf, PrimOf, Ids
  <2>3. \A p \in [kind : 0 .. 3, siz : Nat, unsig : 0 .. 1] : PrimLeq(p, p)
    BY DEF PrimLeq
  <2>4. QED
    BY <2>2, <2>3
<1>2. QED
  BY <1>1 DEF ConvertsPlain, PrimConverts, PtrConverts, IsPtr, IsPrim, IsVoid, Lowered

\* Two types convert to each other only if they are one, or are pointers.
LEMMA OneWay ==
    ASSUME ConvInv, Canonical, NEW a \in Ids, NEW b \in Ids,
           KindOf(ctx, a) \in Lowered \ {"Ref"}, KindOf(ctx, b) \in Lowered \ {"Ref"},
           ConvertsPlain(ctx, a, b), ConvertsPlain(ctx, b, a),
           ~ (IsPtr(ctx, a) /\ IsPtr(ctx, b))
    PROVE  a = b
<1>1. IsVoid(ctx, a) /\ IsVoid(ctx, b) => a = b
  BY OneVoid
<1>2. ASSUME IsPrim(ctx, a), IsPrim(ctx, b) PROVE a = b
  <2>1. PrimAt(a) /\ PrimAt(b)
    BY <1>2 DEF PrimAt, ConvInv, PrimsListed, Listed, IsPrim, KindOf, Ids
  <2>2. PrimConverts(ctx, a, b) /\ PrimConverts(ctx, b, a)
    BY <1>2 DEF ConvertsPlain, IsPrim, IsError, WithTrait
  <2>3. ctx.id_ptr_table[a].n = ctx.id_ptr_table[b].n
    BY <2>1, <2>2, PrimOrder DEF PrimAt, PrimOf, PrimConverts
  <2>4. QED
    BY <2>1, <2>3 DEF Canonical, SameType, PrimAt, Nominal
<1>3. QED
  BY <1>1, <1>2
  DEF ConvertsPlain, WithTrait, PrimConverts, PtrConverts, FuncConverts, IsPtr, IsPrim, IsVoid,
      IsError, Lowered

\* The name of void leads to void.
LEMMA VoidFound == ConvInv => IsVoid(ctx, VoidId(ctx))
<1> SUFFICES ASSUME ConvInv PROVE IsVoid(ctx, VoidId(ctx))
  OBVIOUS
<1> DEFINE v == VoidId(ctx)
           t == ctx.id_ptr_table[v]
<1>1. v \in IdsOf(ctx) /\ t \in Type
  BY DEF ConvInv, VoidKnown, VoidId, IInv, GoodContext, WellTyped
<1>2. UniqueName(t, v) = <<"Void", <<>>, 0>>
  BY DEF ConvInv, VoidKnown, VoidId, IInv, GoodContext, Sound
<1>3. t.kind \notin Nominal /\ Shape(t) = "Void"
  BY <1>1, <1>2 DEF UniqueName
<1>4. t.kind = "Void"
  BY <1>1, <1>3 DEF Shape, Type, Kind, Leaf, Nominal
<1>5. QED
  BY <1>4 DEF IsVoid, KindOf

\* The pointer to a function that two operands have in common.
LEMMA PointerFound ==
    ASSUME ConvInv, NEW a \in Ids, IsFunc(ctx, a)
    PROVE  LET c == GetOrCreate(ctx, PtrTo(a))
               g == Answer(ctx, PtrTo(a)) IN
           /\ IsPtr(c, g) /\ Sub(c, g) = a
           /\ \A x \in Ids : Decay(c, x) = Decay(ctx, x) /\ KindOf(c, x) = KindOf(ctx, x)
<1> DEFINE t == PtrTo(a)
           c == GetOrCreate(ctx, t)
           g == Answer(ctx, t)
<1>1. /\ Ids = IdsOf(ctx) /\ a \in Nat /\ ctx.tp_counter \in Nat /\ a < ctx.tp_counter
      /\ DOMAIN ctx.id_ptr_table = IdsOf(ctx)
  BY DEF ConvInv, IInv, GoodContext, WellTyped, Ids, IdsOf
<1>2. t \in Type /\ t.kind = "Pointer" /\ t.args = <<a>>
  BY <1>1 DEF PtrTo, Tp, Type, Kind
<1>3. CASE Registered(ctx, t)
  <2> DEFINE u == ctx.id_ptr_table[g]
  <2>1. c = ctx /\ g = ctx.type_ptr_table[UniqueName(t, 0)]
        /\ UniqueName(t, 0) \in DOMAIN ctx.type_ptr_table
    BY <1>3 DEF GetOrCreate, Answer, Registered
  <2>2. g \in IdsOf(ctx) /\ u \in Type
    BY <2>1 DEF ConvInv, IInv, GoodContext, WellTyped
  <2>3. UniqueName(t, 0) = UniqueName(u, g)
    BY <1>2, <2>1, NameForms DEF ConvInv, IInv, GoodContext, Sound
  <2>4. t.kind \notin Nominal /\ u.kind \notin Nominal
    BY <1>2, <2>2, <2>3, NameForms DEF Nominal
  <2>5. SameType(t, u)
    BY <1>2, <2>2, <2>3, <2>4, NameInjective
  <2> HIDE DEF t, g
  <2>6. u.kind = "Pointer" /\ u.args = <<a>>
    BY <1>2, <2>5 DEF SameType
  <2>7. QED
    BY <2>1, <2>6 DEF IsPtr, Sub, KindOf, t, g
<1>4. CASE ~ Registered(ctx, t)
  <2>1. c.id_ptr_table = Put(ctx.id_ptr_table, ctx.tp_counter, t) /\ g = ctx.tp_counter
    BY <1>4 DEF GetOrCreate, Answer, Create
  <2>2. /\ c.id_ptr_table[g] = t
        /\ \A x \in Ids : c.id_ptr_table[x] = ctx.id_ptr_table[x]
    BY <1>1, <2>1 DEF Put, IdsOf
  <2> HIDE DEF t, g, c
  <2>3. IsPtr(c, g) /\ Sub(c, g) = a
    BY <1>2, <2>2 DEF IsPtr, Sub, KindOf
  <2>4. \A x \in Ids : Decay(c, x) = Decay(ctx, x) /\ KindOf(c, x) = KindOf(ctx, x)
    BY <2>2 DEF Decay, KindOf
  <2>5. QED
    BY <2>3, <2>4 DEF t, g, c
<1>5. QED
  BY <1>3, <1>4

\* Whatever converts by itself converts with its reference, too.
LEMMA ThroughReference ==
    ASSUME ConvInv, NEW x \in Lowers(ctx), NEW g
    PROVE  /\ ConvertsPlain(ctx, Decay(ctx, x), g) => IsConvertable(ctx, x, g)
           /\ ~ IsRef(ctx, Decay(ctx, x))
           /\ IsConvertable(ctx, Decay(ctx, x), g) <=> ConvertsPlain(ctx, Decay(ctx, x), g)
  BY Operand DEF IsConvertable, IsRef, KindOf

\* The common type serves both operands.
LEMMA ServesBoth == ConvInv => CommonTypeServesBoth
<1> SUFFICES ASSUME ConvInv, NEW x \in Lowers(ctx), NEW y \in Lowers(ctx),
                    ~ IsVoid(WithGreater(ctx, x, y), GreaterType(ctx, x, y))
             PROVE  LET g == GreaterType(ctx, x, y)
                        c == WithGreater(ctx, x, y) IN
                    IsConvertable(c, x, g) /\ IsConvertable(c, y, g)
  BY DEF CommonTypeServesBoth
<1> DEFINE a == Decay(ctx, x)
           b == Decay(ctx, y)
           g == GreaterType(ctx, x, y)
           c == WithGreater(ctx, x, y)
<1>1. /\ x \in Ids /\ y \in Ids /\ a \in Ids /\ b \in Ids
      /\ KindOf(ctx, a) \in Lowered \ {"Ref"} /\ KindOf(ctx, b) \in Lowered \ {"Ref"}
  BY Operand
<1>2. CASE SameFunc(ctx, x, y)
  <2>1. /\ c = GetOrCreate(ctx, PtrTo(a)) /\ g = Answer(ctx, PtrTo(a))
        /\ a = b /\ IsFunc(ctx, a)
    BY <1>2 DEF WithGreater, GreaterType, SameFunc
  <2>2. /\ IsPtr(c, g) /\ Sub(c, g) = a
        /\ \A z \in Ids : Decay(c, z) = Decay(ctx, z) /\ KindOf(c, z) = KindOf(ctx, z)
    BY <1>1, <2>1, PointerFound
  <2> HIDE DEF c, g
  <2>3. ConvertsPlain(c, a, g)
    BY <1>1, <2>1, <2>2 DEF ConvertsPlain, FuncConverts, IsFunc
  <2>4. IsConvertable(c, x, g) /\ IsConvertable(c, y, g)
    BY <1>1, <2>1, <2>2, <2>3 DEF IsConvertable
  <2>5. QED
    BY <2>4 DEF c, g
<1>3. CASE ~ SameFunc(ctx, x, y)
  <2>1. c = ctx
    BY <1>3 DEF WithGreater
  <2>2. g = IF a = b \/ IsConvertable(ctx, a, b) THEN b
            ELSE IF IsConvertable(ctx, b, a) THEN a ELSE VoidId(ctx)
    BY <1>3 DEF GreaterType
  <2>3. g # VoidId(ctx)
    BY <2>1, VoidFound
  <2>4. ConvertsPlain(ctx, a, a) /\ ConvertsPlain(ctx, b, b)
    BY <1>1, ConvertsToItself
  <2> HIDE DEF g, c
  <2>5. ConvertsPlain(ctx, a, g) /\ ConvertsPlain(ctx, b, g)
    BY <2>2, <2>3, <2>4, ThroughReference
  <2>6. IsConvertable(ctx, x, g) /\ IsConvertable(ctx, y, g)
    BY <2>5, ThroughReference
  <2>7. QED
    BY <2>1, <2>6 DEF g, c
<1>4. QED
  BY <1>2, <1>3

\* The common type does not depend on the order, but for pointers.
LEMMA Symmetric == ConvInv /\ Canonical => CommonTypeSymmetric
<1> SUFFICES ASSUME ConvInv, Canonical, NEW x \in Lowers(ctx), NEW y \in Lowers(ctx),
                    ~ (IsPtr(ctx, Decay(ctx, x)) /\ IsPtr(ctx, Decay(ctx, y)))
             PROVE  GreaterType(ctx, x, y) = GreaterType(ctx, y, x)
  BY DEF CommonTypeSymmetric
<1> DEFINE a == Decay(ctx, x)
           b == Decay(ctx, y)
<1>1. /\ a \in Ids /\ b \in Ids
      /\ KindOf(ctx, a) \in Lowered \ {"Ref"} /\ KindOf(ctx, b) \in Lowered \ {"Ref"}
  BY Operand
<1>2. IsConvertable(ctx, a, b) /\ IsConvertable(ctx, b, a) => a = b
  BY <1>1, OneWay, ThroughReference
<1>3. SameFunc(ctx, x, y) <=> SameFunc(ctx, y, x)
  BY DEF SameFunc
<1>4. QED
  BY <1>2, <1>3 DEF GreaterType, SameFunc

\* An operator may convert both operands to the type greater_type answers with,
\* and but for pointers the answer does not depend on which of them comes first.
THEOREM CommonTypeFitsHolds == Spec => []CommonTypeFits
<1>1. ConvInv /\ Canonical => CommonTypeFits
  BY ServesBoth, Symmetric DEF CommonTypeFits
<1>2. QED
  BY <1>1, ConvInvHolds, CanonicalHolds, PTL

-----------------------------------------------------------------------------
(* The search for an implementation. *)

\* The locals of the scan are numbers in range.
LocalsOK ==
    /\ DOMAIN node = DOMAIN Idle
    /\ node.cur \in Nat
    /\ node.id \in Int /\ -1 <= node.id /\ node.id < node.cur
    /\ node.weight \in Nat
    /\ node.cnt \in Nat

ScanInv == LocalsOK /\ ScanFindsLeast

-----------------------------------------------------------------------------
(* Weights. *)

\* Every implementation has a weight.
LEMMA WeightIsNat == ASSUME NEW c, NEW args, NEW cond PROVE Weight(c, args, cond) \in Nat
<1>1. \A arg : ArgWeight(c, arg, cond) \in Nat
  BY DEF ArgWeight, Reject
<1>2. QED
  BY <1>1 DEF Weight

-----------------------------------------------------------------------------
(* The loop invariant. *)

\* The first n candidates that weigh w.
Tied(n, W, w) == {i \in 1 .. n : W[i] = w}

\* One more candidate joins the tied ones, or not.
LEMMA TiesCounted ==
    ASSUME NEW n \in Nat, NEW W, NEW w
    PROVE  /\ IsFiniteSet(Tied(n, W, w))
           /\ Cardinality(Tied(n + 1, W, w)) =
                Cardinality(Tied(n, W, w)) + (IF W[n + 1] = w THEN 1 ELSE 0)
<1> DEFINE T(m) == Tied(m, W, w)
<1>1. IsFiniteSet(1 .. n)
  BY FS_Interval
<1>2. IsFiniteSet(T(n))
  BY <1>1, FS_Subset, Zenon DEF Tied
<1>3. 1 .. n + 1 = (1 .. n) \cup {n + 1} /\ n + 1 \notin 1 .. n
  OBVIOUS
<1>4. CASE W[n + 1] = w
  <2>1. T(n + 1) = T(n) \cup {n + 1} /\ n + 1 \notin T(n)
    BY <1>3, <1>4 DEF Tied
  <2>2. QED
    BY <1>2, <1>4, <2>1, FS_AddElement
<1>5. CASE W[n + 1] # w
  <2>1. T(n + 1) = T(n)
    BY <1>3, <1>5 DEF Tied
  <2>2. Cardinality(T(n)) \in Nat
    BY <1>2, FS_CardinalityType
  <2>3. QED
    BY <1>2, <1>5, <2>1, <2>2
<1>6. QED
  BY <1>4, <1>5

\* A round of the loop keeps the invariant.
LEMMA ScanKeeps == ASSUME ScanInv, Scan PROVE ScanInv'
<1> DEFINE op  == node.op
           n   == node.cur
           W   == [i \in 1 .. n + 1 |-> WeightAt(i)]
           nw  == W[n + 1]
           Ties(m, w) == Tied(m, W, w)
<1>1. n \in Nat /\ node.pc = "scan" /\ node.weight \in Nat /\ node.cnt \in Nat
      /\ node.id \in Int /\ -1 <= node.id /\ node.id < n
  BY DEF ScanInv, LocalsOK, Scan
<1>2. \A i \in 1 .. n + 1 : W[i] = WeightAt(i) /\ W[i] \in Nat
  BY WeightIsNat DEF WeightAt
<1>3. nw = Weight(ctx, node.args, Conds(node.op)[node.cur + 1])
  BY <1>1, <1>2 DEF WeightAt
<1>4. /\ ctx' = ctx /\ node'.pc = "scan" /\ node'.op = op /\ node'.args = node.args
      /\ DOMAIN node' = DOMAIN Idle
      /\ node'.cur = n + 1
      /\ node'.id = IF nw < node.weight THEN n ELSE node.id
      /\ node'.weight = IF nw < node.weight THEN nw ELSE node.weight
      /\ node'.cnt = IF nw < node.weight THEN 0
                     ELSE IF nw = node.weight THEN node.cnt + 1 ELSE node.cnt
  <2>1. DOMAIN node = {"pc", "op", "args", "cur", "cnt", "weight", "id", "ch", "ret",
                       "errs", "oob"}
    BY DEF ScanInv, LocalsOK, Idle
  <2> HIDE DEF W
  <2>2. QED
    BY <1>1, <1>3, <2>1 DEF Scan, ScanInv, LocalsOK
<1>5. \A i : WeightAt(i)' = WeightAt(i)
  BY <1>4 DEF WeightAt
<1>6. /\ \A i \in 1 .. n : node.weight <= W[i]
      /\ node.id = -1 => node.weight = Reject
      /\ node.id # -1 => /\ node.weight < Reject
                         /\ W[node.id + 1] = node.weight
                         /\ \A i \in 1 .. n : i <= node.id => node.weight < W[i]
                         /\ node.cnt = Cardinality(Ties(n, node.weight)) - 1
  <2>1. \A i \in 1 .. n : i \in 1 .. n + 1 /\ W[i] = WeightAt(i)
    BY <1>1, <1>2
  <2>2. node.id # -1 => node.id + 1 \in 1 .. n
    BY <1>1
  <2>3. Ties(n, node.weight) = {i \in Seen : WeightAt(i) = node.weight}
    BY <2>1 DEF Seen, Tied
  <2> HIDE DEF W
  <2>4. QED
    BY <1>1, <2>1, <2>2, <2>3 DEF ScanInv, ScanFindsLeast, Seen
<1>7. LocalsOK'
  <2> HIDE DEF W
  <2>1. nw \in Nat
    BY <1>1, <1>2
  <2>2. QED
    BY <1>1, <1>4, <2>1 DEF LocalsOK
<1>8. /\ \A i \in 1 .. n + 1 : node'.weight <= W[i]
      /\ node'.id = -1 => node'.weight = Reject
      /\ node'.id # -1 => /\ node'.weight < Reject
                          /\ W[node'.id + 1] = node'.weight
                          /\ \A i \in 1 .. n + 1 : i <= node'.id => node'.weight < W[i]
                          /\ node'.cnt = Cardinality(Ties(n + 1, node'.weight)) - 1
  <2>1. \A w : /\ IsFiniteSet(Ties(n, w))
               /\ Cardinality(Ties(n + 1, w)) =
                    Cardinality(Ties(n, w)) + (IF nw = w THEN 1 ELSE 0)
    <3>1. ASSUME NEW w PROVE /\ IsFiniteSet(Ties(n, w))
                             /\ Cardinality(Ties(n + 1, w)) =
                                  Cardinality(Ties(n, w)) + (IF nw = w THEN 1 ELSE 0)
      <4> HIDE DEF W, n
      <4>1. QED
        BY <1>1, TiesCounted
    <3>2. QED
      BY <3>1
  <2>2. \A i \in 1 .. n : i \in 1 .. n + 1
    BY <1>1
  <2>3. \A i \in 1 .. n + 1 : W[i] \in Nat
    BY <1>2
  <2>4. \A i \in 1 .. n + 1 : i \in 1 .. n \/ i = n + 1
    BY <1>1
  <2> HIDE DEF W
  <2>5. CASE nw < node.weight
    <3>1. node'.id = n /\ node'.weight = nw /\ node'.cnt = 0
      BY <1>4, <2>5
    <3>2. \A i \in 1 .. n : nw < W[i]
      BY <1>1, <1>6, <2>2, <2>3, <2>5
    <3>3. Ties(n, nw) = {}
      BY <3>2, <2>2, <2>3 DEF Tied
    <3>4. Cardinality(Ties(n + 1, nw)) = 1
      <4>1. Cardinality(Ties(n, nw)) = 0
        BY <3>3, FS_EmptySet
      <4> HIDE DEF Ties
      <4>2. QED
        BY <2>1, <4>1
    <3>5. nw < Reject
      BY <1>1, <1>6, <2>3, <2>5 DEF Reject
    <3>6. QED
      BY <1>1, <2>3, <2>4, <3>1, <3>2, <3>4, <3>5
  <2>6. CASE ~ (nw < node.weight)
    <3>1. /\ node'.id = node.id /\ node'.weight = node.weight
          /\ node'.cnt = IF nw = node.weight THEN node.cnt + 1 ELSE node.cnt
      BY <1>4, <2>6
    <3>2. nw \in Nat
      BY <1>1, <2>3
    <3>3. \A i \in 1 .. n + 1 : node.weight <= W[i]
      BY <1>1, <1>6, <2>4, <2>6, <3>2
    <3>4. node.id # -1 => \A i \in 1 .. n + 1 : i <= node.id => node.weight < W[i]
      BY <1>1, <1>6, <2>4
    <3>5. node.id # -1 => node'.cnt = Cardinality(Ties(n + 1, node.weight)) - 1
      <4>1. Cardinality(Ties(n, node.weight)) \in Nat
        BY <2>1, FS_CardinalityType
      <4> HIDE DEF Ties
      <4>2. QED
        BY <1>1, <1>6, <2>1, <3>1, <4>1
    <3>6. QED
      BY <1>6, <3>1, <3>3, <3>4, <3>5
  <2>7. QED
    BY <2>5, <2>6
<1>9. ScanFindsLeast'
  <2>1. \A i \in 1 .. n + 1 : W[i] = WeightAt(i)'
    BY <1>2, <1>5
  <2>2. Seen' = 1 .. n + 1
    BY <1>4 DEF Seen
  <2>3. node'.id # -1 => node'.id + 1 \in 1 .. n + 1
    BY <1>1, <1>4
  <2>4. {i \in Seen' : WeightAt(i)' = node'.weight} = Ties(n + 1, node'.weight)
    BY <2>1, <2>2 DEF Tied
  <2> HIDE DEF W
  <2>5. QED
    BY <1>8, <2>1, <2>2, <2>3, <2>4 DEF ScanFindsLeast
<1>10. QED
  BY <1>7, <1>9 DEF ScanInv

\* Every step keeps it: no other step moves the locals while the scan is on.
LEMMA ScanInvKept == ScanInv /\ [OpNext]_vars => ScanInv'
<1> SUFFICES ASSUME ScanInv, [OpNext]_vars PROVE ScanInv'
  OBVIOUS
<1>1. DOMAIN node = {"pc", "op", "args", "cur", "cnt", "weight", "id", "ch", "ret",
                     "errs", "oob"}
  BY DEF ScanInv, LocalsOK, Idle
<1>2. ASSUME node' = Idle PROVE ScanInv'
  <2>1. /\ DOMAIN node' = DOMAIN Idle /\ node'.pc = "idle" /\ node'.cur = 0
        /\ node'.id = -1 /\ node'.weight = Reject /\ node'.cnt = 0
    BY <1>2 DEF Idle
  <2>2. QED
    BY <2>1 DEF ScanInv, LocalsOK, ScanFindsLeast, Reject
<1>3. ASSUME Declare PROVE ScanInv'
  BY <1>2, <1>3 DEF Declare
<1>4. ASSUME NEW op, NEW args, Begin(op, args) PROVE ScanInv'
  <2>1. /\ DOMAIN node' = DOMAIN Idle /\ node'.pc = "scan" /\ node'.cur = 0 /\ node'.id = -1
        /\ node'.weight = Reject /\ node'.cnt = 0
    BY <1>4 DEF Begin, Idle
  <2>2. Seen' = {}
    BY <2>1 DEF Seen, Tied
  <2>3. QED
    BY <2>1, <2>2 DEF ScanInv, LocalsOK, ScanFindsLeast, Reject
<1>5. ASSUME node'.pc = "done", DOMAIN node' = DOMAIN node, node'.cur = node.cur,
             node'.id = node.id, node'.weight = node.weight, node'.cnt = node.cnt
      PROVE  ScanInv'
  BY <1>5 DEF ScanInv, LocalsOK, ScanFindsLeast
<1>6. ASSUME Propagate PROVE ScanInv'
  BY <1>1, <1>5, <1>6 DEF Propagate
<1>7. ASSUME NEW e, Close(e) PROVE ScanInv'
  BY <1>1, <1>5, <1>7 DEF Close
<1>8. ASSUME Choose PROVE ScanInv'
  BY <1>7, <1>8 DEF Choose
<1>9. ASSUME Special PROVE ScanInv'
  BY <1>7, <1>9 DEF Special
<1>10. ASSUME Finish PROVE ScanInv'
  BY <1>2, <1>10 DEF Finish
<1>11. ASSUME UNCHANGED vars PROVE ScanInv'
  BY <1>11 DEF vars, ScanInv, LocalsOK, ScanFindsLeast, Seen, WeightAt
<1>12. QED
  BY <1>3, <1>4, <1>6, <1>8, <1>9, <1>10, <1>11, ScanKeeps DEF OpNext

\* op_type_eval picks the first of the best fitting implementations and counts
\* its ties rightly, whatever the list, the operands and the conversions.
THEOREM ScanFindsLeastHolds == OpSpec => []ScanFindsLeast
<1>1. OpInit => ScanInv
  <2> SUFFICES ASSUME OpInit PROVE ScanInv
    OBVIOUS
  <2>1. /\ DOMAIN node = DOMAIN Idle /\ node.pc = "idle" /\ node.cur = 0
        /\ node.id = -1 /\ node.weight = Reject /\ node.cnt = 0
    BY DEF OpInit, Idle
  <2>2. QED
    BY <2>1 DEF ScanInv, LocalsOK, ScanFindsLeast, Reject
<1>2. ScanInv => ScanFindsLeast
  BY DEF ScanInv
<1>3. QED
  BY <1>1, <1>2, ScanInvKept, PTL DEF OpSpec

-----------------------------------------------------------------------------
(* Assignments. *)

StoreOps == UpdateOps \cup {"Assign"}

\* An assignment has two operands, registered types, and no implementation.
OperandsOK ==
    /\ DOMAIN node = DOMAIN Idle
    /\ node.cur \in Nat /\ node.id \in Int /\ -1 <= node.id /\ node.id < node.cur
    /\ node.op \in StoreOps /\ node.pc # "idle" =>
          /\ node.cur = 0
          /\ node.id < 0
          /\ node.args = <<node.args[1], node.args[2]>>
    /\ node.op \in StoreOps /\ node.pc = "scan" =>
          /\ node.ch = node.args
          /\ node.args[1] \in Ids /\ node.args[2] \in Ids

StoreInv == OperandsOK /\ StoreFits

\* No list holds an implementation of an assignment.
LEMMA NoStoreImpl == \A op \in StoreOps : Conds(op) = <<>>
  BY DEF StoreOps, Conds, UpdateOps, MathOps, CmpOps, IntOps, LogicOps

\* What the evaluation of an assignment leaves when it reports nothing.
LEMMA StoreEval ==
    ASSUME NEW l, NEW r, NEW op \in StoreOps, node.ch = <<l, r>>
    PROVE  LET f == SpecialEval(Start, op, <<l, r>>) IN
           ~ f.errs => /\ f.ctx = ctx
                       /\ f.ch = <<l, Decay(ctx, l)>>
                       /\ IsRef(ctx, l)
                       /\ ~ IsFunc(ctx, Decay(ctx, l))
<1> DEFINE e == Start
           d == Decay(ctx, l)
           x == Expect(e, 2, Decay(e.ctx, l))
<1>1. e.ctx = ctx /\ e.ch = <<l, r>> /\ 2 \in DOMAIN e.ch
  BY DEF Start
<1>2. x.ctx = ctx /\ x.ch = <<l, d>>
  BY <1>1 DEF Expect
<1>3. DOMAIN x = {"ctx", "ch", "errs", "ret", "oob"}
  BY <1>1 DEF Expect, Start
<1> HIDE DEF x, d, e
<1>4. ASSUME NEW y, DOMAIN y = {"ctx", "ch", "errs", "ret", "oob"}
      PROVE  Fail(y).errs = TRUE /\ Report(y).errs = TRUE
             /\ \A t : /\ Give(y, t).ctx = y.ctx /\ Give(y, t).ch = y.ch
                       /\ Give(y, t).errs = y.errs
  BY <1>4 DEF Fail, Report, Yield, Give
<1>5. CASE op = "Assign"
  <2>1. SpecialEval(e, op, <<l, r>>) = EvalAssign(e, l)
    <3>1. <<l, r>>[1] = l
      OBVIOUS
    <3>2. QED
      BY <1>5, <3>1, Zenon DEF SpecialEval, UpdateOps, CmpOps
  <2>2. EvalAssign(e, l) =
          IF ~ IsRef(ctx, l) \/ IsFunc(ctx, d) \/ ctx.id_ptr_table[l].flag
          THEN Fail(x) ELSE Give(x, l)
    BY <1>1 DEF EvalAssign, x, d
  <2>3. Fail(x).errs = TRUE /\ Give(x, l).ctx = ctx /\ Give(x, l).ch = <<l, d>>
    BY <1>2, <1>3, <1>4
  <2>4. QED
    BY <2>1, <2>2, <2>3 DEF d, e
<1>6. CASE op \in UpdateOps
  <2>1. SpecialEval(e, op, <<l, r>>) = EvalUpdate(e, l)
    <3>1. <<l, r>>[1] = l
      OBVIOUS
    <3>2. QED
      BY <1>6, <3>1, Zenon DEF SpecialEval, UpdateOps, CmpOps
  <2>2. EvalUpdate(e, l) =
          IF ~ IsRef(ctx, l) THEN Give(Report(x), l)
          ELSE IF ~ IsPrim(ctx, d) THEN Fail(x) ELSE Give(x, l)
    BY <1>1 DEF EvalUpdate, x, d
  <2>3. DOMAIN Report(x) = {"ctx", "ch", "errs", "ret", "oob"}
    BY <1>3 DEF Report
  <2>4. Give(Report(x), l).errs = TRUE
    BY <1>3, <1>4, <2>3
  <2>5. IsPrim(ctx, d) => ~ IsFunc(ctx, d)
    BY DEF IsPrim, IsFunc
  <2>6. Fail(x).errs = TRUE /\ Give(x, l).ctx = ctx /\ Give(x, l).ch = <<l, d>>
    BY <1>2, <1>3, <1>4
  <2>7. QED
    BY <2>1, <2>2, <2>4, <2>5, <2>6 DEF d, e
<1>7. QED
  BY <1>5, <1>6 DEF StoreOps

\* Every step keeps StoreInv.
LEMMA StoreInvKept == StoreInv /\ [OpNext]_vars => StoreInv'
<1> SUFFICES ASSUME StoreInv, [OpNext]_vars PROVE StoreInv'
  OBVIOUS
<1>1. DOMAIN node = {"pc", "op", "args", "cur", "cnt", "weight", "id", "ch", "ret",
                     "errs", "oob"}
  BY DEF StoreInv, OperandsOK, Idle
<1>2. ASSUME node' = Idle PROVE StoreInv'
  <2>1. DOMAIN node' = DOMAIN Idle /\ node'.pc = "idle" /\ node'.cur = 0 /\ node'.id = -1
    BY <1>2 DEF Idle
  <2>2. QED
    BY <2>1 DEF StoreInv, OperandsOK, StoreFits
<1>3. ASSUME NEW op, NEW args, Begin(op, args),
             op \in StoreOps => /\ args = <<args[1], args[2]>>
                                /\ args[1] \in Ids /\ args[2] \in Ids
      PROVE  StoreInv'
  <2>1. /\ DOMAIN node' = DOMAIN Idle /\ node'.pc = "scan" /\ node'.cur = 0
        /\ node'.id = -1 /\ node'.op = op /\ node'.args = args /\ node'.ch = args
    BY <1>3 DEF Begin, Idle
  <2>2. op \in StoreOps => ctx' = ctx
    BY <1>3 DEF Begin, StoreOps, UpdateOps
  <2>3. QED
    BY <1>3, <2>1, <2>2 DEF StoreInv, OperandsOK, StoreFits, Ids
<1>4. ASSUME Declare PROVE StoreInv'
  BY <1>2, <1>4 DEF Declare
<1>5. ASSUME NEW op \in Ops \cap Binary, NEW a \in Values, NEW b \in Values,
             Begin(op, <<a, b>>)
      PROVE  StoreInv'
  <2>1. a \in Ids /\ b \in Ids
    BY DEF Values, Lowers, Ids
  <2>2. QED
    BY <1>3, <1>5, <2>1
<1>6. ASSUME NEW op \in Unary \cup {"Call"}, NEW args, Begin(op, args) PROVE StoreInv'
  <2>1. op \notin StoreOps
    BY DEF Unary, UnaryOps, StoreOps, UpdateOps
  <2>2. QED
    BY <1>3, <1>6, <2>1
<1>7. ASSUME Propagate PROVE StoreInv'
  <2>1. /\ DOMAIN node' = DOMAIN node /\ node'.pc = "done" /\ node'.args = node.args
        /\ node'.op = node.op /\ node'.cur = node.cur /\ node'.id = node.id
    BY <1>1, <1>7 DEF Propagate
  <2>2. node.op \in StoreOps => Poisoned'
    <3>1. ASSUME node.op \in StoreOps PROVE Poisoned'
      <4>1. PICK i \in DOMAIN node.args : IsError(ctx, node.args[i])
        BY <1>7 DEF Propagate, Poisoned
      <4>2. node.args[i] \in Ids
        BY <1>7, <3>1 DEF Propagate, StoreInv, OperandsOK
      <4>3. ctx'.id_ptr_table[node.args[i]] = ctx.id_ptr_table[node.args[i]]
            \/ ctx'.id_ptr_table[node.args[i]] = ErrorTp
        BY <1>7, <4>2 DEF Propagate, GetOrCreate, Create, Put, Ids
      <4>4. IsError(ctx', node'.args[i])
        BY <2>1, <4>1, <4>3 DEF IsError, KindOf, ErrorTp, Tp
      <4>5. node.op # "Call"
        BY <3>1 DEF StoreOps, UpdateOps
      <4>6. QED
        BY <2>1, <4>4, <4>5 DEF Poisoned
    <3>2. QED
      BY <3>1
  <2>3. QED
    BY <1>7, <2>1, <2>2 DEF StoreInv, OperandsOK, StoreFits, StoreOps, Propagate
<1>8. ASSUME Scan PROVE StoreInv'
  <2>1. node.op \notin StoreOps
    BY <1>8, NoStoreImpl DEF Scan, StoreInv, OperandsOK
  <2>2. /\ DOMAIN node' = DOMAIN node /\ node'.pc = "scan" /\ node'.op = node.op
        /\ node'.cur = node.cur + 1 /\ node'.id \in {node.id, node.cur}
    BY <1>1, <1>8 DEF Scan
  <2>3. QED
    BY <2>1, <2>2 DEF StoreInv, OperandsOK, StoreFits
<1>9. ASSUME NEW e, Close(e), node.pc = "scan"
      PROVE  /\ DOMAIN node' = DOMAIN node /\ node'.pc = "done" /\ node'.op = node.op
             /\ node'.args = node.args /\ node'.cur = node.cur /\ node'.id = node.id
             /\ ctx' = e.ctx /\ node'.ch = e.ch /\ node'.errs = e.errs
  BY <1>1, <1>9 DEF Close
<1>10. ASSUME Choose PROVE StoreInv'
  <2>1. node.op \notin StoreOps
    BY <1>10 DEF Choose, Scanned, StoreInv, OperandsOK
  <2>2. QED
    BY <1>9, <1>10, <2>1 DEF Choose, Scanned, StoreInv, OperandsOK, StoreFits, StoreOps
<1>11. ASSUME Special PROVE StoreInv'
  <2> DEFINE e == SpecialEval(Start, node.op, node.args)
             l == node.args[1]
  <2>1. Close(e) /\ node.pc = "scan"
    BY <1>11 DEF Special, Scanned
  <2>2. CASE node.op \notin StoreOps
    <3> HIDE DEF e
    <3>1. QED
      BY <1>9, <2>1, <2>2 DEF StoreInv, OperandsOK, StoreFits, StoreOps
  <2>3. CASE node.op \in StoreOps
    <3>1. node.args = <<l, node.args[2]>> /\ node.ch = <<l, node.args[2]>>
      BY <2>1, <2>3 DEF StoreInv, OperandsOK
    <3>2. ~ e.errs => /\ e.ctx = ctx /\ e.ch = <<l, Decay(ctx, l)>> /\ IsRef(ctx, l)
                      /\ ~ IsFunc(ctx, Decay(ctx, l))
      BY <2>3, <3>1, StoreEval
    <3> HIDE DEF e
    <3>3. QED
      BY <1>9, <2>1, <2>3, <3>2 DEF StoreInv, OperandsOK, StoreFits
  <2>4. QED
    BY <2>2, <2>3
<1>12. ASSUME Finish PROVE StoreInv'
  BY <1>2, <1>12 DEF Finish
<1>13. ASSUME UNCHANGED vars PROVE StoreInv'
  BY <1>13 DEF vars, StoreInv, OperandsOK, StoreFits, Poisoned, Ids
<1>14. QED
  BY <1>4, <1>5, <1>6, <1>7, <1>8, <1>10, <1>11, <1>12, <1>13 DEF OpNext

\* An assignment that reports no error stores a value of the type of a place
\* that is a reference and no function, whatever the types declared.
THEOREM StoreFitsHolds == OpSpec => []StoreFits
<1>1. OpInit => StoreInv
  <2> SUFFICES ASSUME OpInit PROVE StoreInv
    OBVIOUS
  <2>1. DOMAIN node = DOMAIN Idle /\ node.pc = "idle" /\ node.cur = 0 /\ node.id = -1
    BY DEF OpInit, Idle
  <2>2. QED
    BY <2>1 DEF StoreInv, OperandsOK, StoreFits
<1>2. StoreInv => StoreFits
  BY DEF StoreInv
<1>3. QED
  BY <1>1, <1>2, StoreInvKept, PTL DEF OpSpec

-----------------------------------------------------------------------------
(* Contexts in which expressions are evaluated. *)

\* What a program declares, and what an evaluation asks for.
DeclaredKinds ==
    {"Prim", "Void", "Ref", "Pointer", "Array", "Func", "MemFunc", "Tuple", "Struct", "Error"}

\* References, pointers, arrays and results are of types that have values.
Part(c, t) ==
    /\ t.kind \in DeclaredKinds
    /\ t.kind \in {"Ref", "Pointer", "Array"} => KindOf(c, t.args[1]) \in Lowered
    /\ t.kind = "Func" => Len(t.args) >= 1
    /\ t.kind = "MemFunc" => Len(t.args) >= 2
    /\ t.kind \in {"Func", "MemFunc"} => KindOf(c, Last(t.args)) \in Lowered

PartsOK(c) == \A i \in DOMAIN c.id_ptr_table : Part(c, c.id_ptr_table[i])

\* The i-th primitive has id i - 1.
PrimsKnown(c) ==
    \A i \in 1 .. NPrim : /\ i - 1 \in DOMAIN c.id_ptr_table
                          /\ c.id_ptr_table[i - 1] = Tp("Prim", <<>>, i, FALSE)

CtxOK(c) == GoodContext(c) /\ PrimsListed(c) /\ VoidKnown(c) /\ PrimsKnown(c) /\ PartsOK(c)

Grown(c, d) == CtxOK(d) /\ Extends(c, d)

-----------------------------------------------------------------------------
(* What is known of a node. *)

IdsIn(c) == DOMAIN c.id_ptr_table

ValuesIn(c) == Lowers(c) \cup {t \in IdsIn(c) : IsError(c, t)}

\* The operands: as many as the operator takes, each of a type that has values
\* or of the error type.
OperandsFit(c, op, args) ==
    /\ IsSeq(args)
    /\ op \in Binary => Len(args) = 2
    /\ op \in Unary => Len(args) = 1
    /\ op = "Call" => Len(args) >= 1
    /\ \A i \in DOMAIN args : args[i] \in ValuesIn(c)

\* The operators that have implementations.
BuiltInOps == MathOps \cup CmpOps \cup IntOps \cup LogicOps \cup UnaryOps

\* A built-in implementation: all operands are converted to one primitive.
BuiltIn(c, op, ch, ret) ==
    op \in BuiltInOps /\ \E cond \in IdsIn(c) :
        /\ IsPrim(c, cond)
        /\ \A i \in DOMAIN ch : ch[i] = cond
        /\ ret = ImplRet(op, cond)
        /\ op \in IntOps \cup LogicOps \cup {"Not"} => LlvmInt(c, cond)

\* What sp_op_eval answers when it reports nothing.
Answers(c, op, args, ch, ret) ==
    /\ op \in UpdateOps \cup {"Assign"} => ret = ch[1]
    /\ op = "Convert" => ret = args[2] /\ IsForceConvertable(c, args[1], ret)
    /\ op = "At" => /\ IsRef(c, ret)
                    /\ IsPtr(c, ch[1]) \/ (IsArray(c, Decay(c, args[1])) /\ ch[1] = args[1])
    /\ op = "Ref" => IsRef(c, ch[1]) /\ IsPtr(c, ret)
    /\ op = "DeRef" => IsPtr(c, ch[1]) /\ IsRef(c, ret)
    /\ op = "Add" => /\ IsPtr(c, ret)
                     /\ \/ IsPtr(c, ch[1]) /\ LlvmInt(c, ch[2])
                        \/ LlvmInt(c, ch[1]) /\ IsPtr(c, ch[2])
    /\ op = "Sub" => \/ IsArray(c, Decay(c, args[1]))
                     \/ IsPtr(c, ret) /\ IsPtr(c, ch[1]) /\ LlvmInt(c, ch[2])
                     \/ LlvmInt(c, ret) /\ IsPtr(c, ch[1]) /\ IsPtr(c, ch[2])
    /\ op \in CmpOps => /\ ch[1] = ch[2]
                        /\ IsPtr(c, ch[1]) \/ IsArray(c, ch[1])
                        /\ LlvmInt(c, ret)
    /\ op \notin {"Mul", "Div"} \cup IntOps \cup LogicOps \cup UnaryOps

\* What a call that reports nothing passes to the function.
Passes(c, args, ch) ==
    LET fn == Callee(c, args[1])
        ps == Params(c, fn) IN
    /\ KindOf(c, fn) \in {"Func", "MemFunc"}
    /\ Len(ch) >= Len(ps) + 1
    /\ Len(ch) > Len(ps) + 1 => c.id_ptr_table[fn].flag
    /\ \A i \in 2 .. Len(ch) :
          IF i <= Len(ps) + 1 THEN ch[i] = ps[i - 1]
          ELSE IsPrim(c, ch[i]) => PrimOf(c, ch[i]).siz >= 32

\* What an evaluation of op for args comes to: the context c, and the operands'
\* types, the answer and the flags of n.
Outcome(c, op, args, n) ==
    /\ IsSeq(n.ch) /\ Len(n.ch) = Len(args)
    /\ \A i \in DOMAIN n.ch : n.ch[i] \in IdsIn(c)
    /\ n.ret \in IdsIn(c)
    /\ n.errs \in BOOLEAN /\ n.oob \in BOOLEAN
    /\ n.oob => n.errs
    /\ ~ IsError(c, args[1]) /\ IsError(c, n.ret) => n.errs
    /\ ~ n.errs =>
          /\ \A i \in DOMAIN n.ch :
                n.ch[i] = args[i] \/ IsConvertable(c, args[i], n.ch[i])
          /\ BuiltIn(c, op, n.ch, n.ret) \/ Answers(c, op, args, n.ch, n.ret)
          /\ op = "Call" => Passes(c, args, n.ch)

\* Some operand is of the error type, and nothing was evaluated.
Skipped(c, n) ==
    /\ n.ch = n.args /\ n.errs = FALSE /\ n.oob = FALSE /\ n.id = -1
    /\ n.ret \in IdsIn(c) /\ IsError(c, n.ret)
    /\ \E i \in DOMAIN n.args : IsError(c, n.args[i]) /\ (n.op = "Call" => i = 1)

OpInv ==
    /\ CtxOK(ctx)
    /\ DOMAIN node = DOMAIN Idle
    /\ node.pc \in {"idle", "scan", "done"}
    /\ node.pc = "idle" => node = Idle
    /\ node.pc # "idle" => node.op \in Ops /\ OperandsFit(ctx, node.op, node.args)
    /\ node.pc = "scan" => /\ node.ch = node.args /\ node.errs = FALSE /\ node.oob = FALSE
                           /\ node.ret = -1
                           /\ Poisoned => node.id = -1
    /\ node.pc = "done" => Skipped(ctx, node) \/ Outcome(ctx, node.op, node.args, node)

-----------------------------------------------------------------------------
(* What such a context has. *)

\* Ids count from zero, entries are types.
LEMMA IdsNumbered ==
    ASSUME NEW c, CtxOK(c)
    PROVE  /\ c.tp_counter \in Nat /\ IdsIn(c) = IdsOf(c) /\ c.tp_counter \notin IdsIn(c)
           /\ \A a \in IdsIn(c) : a \in Nat /\ a < c.tp_counter /\ c.id_ptr_table[a] \in Type
  BY DEF CtxOK, GoodContext, WellTyped, IdsIn, IdsOf

\* What references, pointers and arrays are made of has values and is no reference.
LEMMA SubKnown ==
    ASSUME NEW c, CtxOK(c), NEW a \in IdsIn(c), KindOf(c, a) \in {"Ref", "Pointer", "Array"}
    PROVE  Sub(c, a) \in IdsIn(c) /\ KindOf(c, Sub(c, a)) \in Lowered \ {"Ref"}
<1> DEFINE t == c.id_ptr_table[a]
<1>1. /\ IdsIn(c) = IdsOf(c) /\ a \in Nat /\ a < c.tp_counter /\ c.tp_counter \in Nat
  BY IdsNumbered
<1>2. Supported(c, t, a) /\ HasSubtype(t) /\ Part(c, t)
  BY <1>1 DEF CtxOK, GoodContext, WellFounded, AllHaveSubtype, PartsOK, IdsIn
<1>3. t.kind \in {"Ref", "Pointer", "Array"}
  BY DEF KindOf
<1> HIDE DEF t
<1>4. /\ t.args[1] \in Nat /\ t.args[1] < a /\ KindOf(c, t.args[1]) # "Ref"
      /\ KindOf(c, t.args[1]) \in Lowered
  BY <1>2, <1>3 DEF Supported, HasSubtype, Part, KindOf
<1>5. QED
  BY <1>1, <1>4 DEF IdsOf, Sub, t

\* What an operand decays to.
LEMMA DecayKnown ==
    ASSUME NEW c, CtxOK(c), NEW a \in IdsIn(c)
    PROVE  /\ Decay(c, a) \in IdsIn(c) /\ KindOf(c, Decay(c, a)) # "Ref"
           /\ ~ IsRef(c, a) => Decay(c, a) = a
           /\ IsRef(c, a) => KindOf(c, Decay(c, a)) \in Lowered
           /\ Decay(c, Decay(c, a)) = Decay(c, a)
<1>1. IsRef(c, a) => Decay(c, a) = Sub(c, a)
  BY DEF IsRef, KindOf, Decay, Sub
<1>2. ~ IsRef(c, a) => Decay(c, a) = a
  BY DEF IsRef, KindOf, Decay
<1>3. Decay(c, a) \in IdsIn(c) /\ KindOf(c, Decay(c, a)) # "Ref"
      /\ (IsRef(c, a) => KindOf(c, Decay(c, a)) \in Lowered)
  BY <1>1, <1>2, SubKnown DEF IsRef
<1>4. Decay(c, Decay(c, a)) = Decay(c, a)
  BY <1>3 DEF KindOf, Decay
<1>5. QED
  BY <1>2, <1>3, <1>4

\* Whatever has values decays to something that has.
LEMMA LowersKnown ==
    ASSUME NEW c, CtxOK(c), NEW a \in IdsIn(c), KindOf(c, a) \in Lowered
    PROVE  a \in Lowers(c)
<1>1. KindOf(c, Decay(c, a)) \in Lowered
  BY DecayKnown
<1>2. QED
  BY <1>1 DEF Lowers, IdsIn

\* What is the same of old types in a context that has grown.
Same(c, d, a) ==
    /\ a \in IdsIn(d) /\ d.id_ptr_table[a] = c.id_ptr_table[a]
    /\ KindOf(d, a) = KindOf(c, a) /\ Decay(d, a) = Decay(c, a) /\ Sub(d, a) = Sub(c, a)
    /\ PrimOf(d, a) = PrimOf(c, a)

\* Old types stay what they were.
LEMMA OldTypes ==
    ASSUME NEW c, NEW d, Extends(c, d), NEW a \in IdsIn(c)
    PROVE  Same(c, d, a)
  BY DEF Extends, IdsIn, Same, KindOf, Decay, Sub, PrimOf

\* They still convert to each other as they did.
LEMMA OldConversions ==
    ASSUME NEW c, CtxOK(c), NEW d, Extends(c, d), NEW a \in IdsIn(c), NEW b \in IdsIn(c)
    PROVE  /\ IsConvertable(d, a, b) <=> IsConvertable(c, a, b)
           /\ IsForceConvertable(d, a, b) <=> IsForceConvertable(c, a, b)
<1> DEFINE x == Decay(c, a)
<1>1. x \in IdsIn(c)
  BY DecayKnown
<1>2. Same(c, d, a) /\ Same(c, d, b) /\ Same(c, d, x)
  BY <1>1, OldTypes
<1>3. \A y \in {b, x} : KindOf(c, y) \in {"Ref", "Pointer", "Array"} =>
                          Same(c, d, Sub(c, y))
  BY <1>1, SubKnown, OldTypes
<1>4. x = Decay(c, a) /\ Decay(d, a) = x
  BY <1>2 DEF Same
<1> HIDE DEF x
<1>5. /\ IsRef(d, a) <=> IsRef(c, a)
      /\ IsVoid(d, b) <=> IsVoid(c, b)
      /\ IsError(d, b) <=> IsError(c, b)
      /\ IsPrim(d, b) <=> IsPrim(c, b)
      /\ IsPtr(d, b) <=> IsPtr(c, b)
      /\ IsInt(d, b) <=> IsInt(c, b)
      /\ IsInt(d, x) <=> IsInt(c, x)
      /\ WithTrait(d, x, b) <=> WithTrait(c, x, b)
      /\ KindOf(d, x) = KindOf(c, x)
  BY <1>2 DEF Same, IsRef, IsVoid, IsError, IsPrim, IsPtr, IsInt, WithTrait
<1>6. PrimConverts(d, x, b) <=> PrimConverts(c, x, b)
  BY <1>2, <1>5 DEF Same, PrimConverts
<1>7. KindOf(c, x) = "Pointer" => (PtrConverts(d, x, b) <=> PtrConverts(c, x, b))
  BY <1>2, <1>3, <1>5 DEF Same, PtrConverts, IsVoid, IsPtr
<1>8. FuncConverts(d, x, b) <=> FuncConverts(c, x, b)
  BY <1>2, <1>3, <1>5 DEF Same, FuncConverts, IsVoid, IsPtr
<1>9. Sub(d, x) = Sub(c, x) /\ Sub(d, b) = Sub(c, b)
  BY <1>2 DEF Same
<1>10. ConvertsPlain(d, x, b) <=> ConvertsPlain(c, x, b)
  BY <1>5, <1>6, <1>7, <1>8, <1>9 DEF ConvertsPlain
<1>11. ForcesPlain(d, x, b) <=> ForcesPlain(c, x, b)
  BY <1>5, <1>10 DEF ForcesPlain
<1>12. QED
  BY <1>4, <1>5, <1>10, <1>11 DEF IsConvertable, IsForceConvertable

\* What has values keeps having them.
LEMMA OldValues ==
    ASSUME NEW c, CtxOK(c), NEW d, CtxOK(d), Extends(c, d), NEW a \in ValuesIn(c)
    PROVE  /\ a \in ValuesIn(d)
           /\ a \in Lowers(c) => a \in Lowers(d)
           /\ IsError(d, a) <=> IsError(c, a)
<1>1. a \in IdsIn(c) /\ (a \in Lowers(c) <=> KindOf(c, a) \in Lowered)
  BY LowersKnown DEF ValuesIn, Lowers, IdsIn
<1>2. Same(c, d, a)
  BY <1>1, OldTypes
<1>3. KindOf(d, a) \in Lowered => a \in Lowers(d)
  BY <1>2, LowersKnown DEF Same
<1>4. QED
  BY <1>1, <1>2, <1>3 DEF Same, ValuesIn, IsError

-----------------------------------------------------------------------------
(* Registering one more type. *)

\* A candidate an evaluation may ask for.
Candidate(c, t) ==
    /\ t \in Type
    /\ Supported(c, t, c.tp_counter) /\ HasSubtype(t) /\ Listed(t) /\ Part(c, t)
    /\ t.kind \notin Nominal

\* What is built from old types stays well built.
LEMMA PartKept ==
    ASSUME NEW c, CtxOK(c), NEW d, Extends(c, d), NEW t, Part(c, t), HasSubtype(t),
           t \in Type, \A k \in DOMAIN t.args : t.args[k] \in IdsIn(c)
    PROVE  Part(d, t)
<1>1. \A k \in DOMAIN t.args : KindOf(d, t.args[k]) = KindOf(c, t.args[k])
  BY OldTypes DEF Same
<1>2. t.args \in Seq(Nat)
  BY DEF Type
<1>3. Len(t.args) >= 1 => Len(t.args) \in DOMAIN t.args
  BY <1>2
<1>4. t.kind \in {"Func", "MemFunc"} => KindOf(d, Last(t.args)) = KindOf(c, Last(t.args))
  BY <1>1, <1>3 DEF Last, Part
<1>5. t.kind \in {"Ref", "Pointer", "Array"} => KindOf(d, t.args[1]) = KindOf(c, t.args[1])
  BY <1>1 DEF HasSubtype
<1>6. QED
  BY <1>4, <1>5 DEF Part

\* An old context keeps what it has in one that extends it.
LEMMA CtxKept ==
    ASSUME NEW c, CtxOK(c), NEW d, Extends(c, d), GoodContext(d), PrimsListed(d),
           \A a \in IdsIn(d) \ IdsIn(c) : Part(d, d.id_ptr_table[a])
    PROVE  CtxOK(d)
<1>1. VoidKnown(d) /\ PrimsKnown(d)
  BY DEF CtxOK, VoidKnown, PrimsKnown, Extends
<1>2. ASSUME NEW a \in IdsIn(c) PROVE Part(d, d.id_ptr_table[a])
  <2> DEFINE t == c.id_ptr_table[a]
  <2>1. d.id_ptr_table[a] = t
    BY OldTypes DEF Same
  <2>2. t \in Type /\ a \in IdsOf(c) /\ IdsIn(c) = IdsOf(c) /\ c.tp_counter \in Nat
    BY IdsNumbered
  <2>3. Part(c, t) /\ HasSubtype(t) /\ Supported(c, t, a)
    BY <2>2 DEF CtxOK, GoodContext, WellFounded, AllHaveSubtype, PartsOK, IdsIn
  <2> HIDE DEF t
  <2>4. \A k \in DOMAIN t.args : t.args[k] \in IdsIn(c)
    BY <2>2, <2>3 DEF Supported, IdsOf
  <2>5. QED
    BY <2>1, <2>2, <2>3, <2>4, PartKept
<1>3. QED
  BY <1>1, <1>2 DEF CtxOK, PartsOK, IdsIn

\* get_or_create of a candidate.
LEMMA Adding ==
    ASSUME NEW c, CtxOK(c), NEW t, Candidate(c, t)
    PROVE  LET d == GetOrCreate(c, t)
               i == Answer(c, t) IN
           /\ Grown(c, d)
           /\ i \in IdsIn(d)
           /\ SameType(t, d.id_ptr_table[i])
<1> DEFINE d == GetOrCreate(c, t)
           i == Answer(c, t)
<1>1. GoodContext(d) /\ Extends(c, d)
  BY GetOrCreateGood DEF CtxOK, Candidate
<1>2. PrimsListed(d)
  BY CreatesOnly DEF CtxOK, Candidate
<1>3. IdsIn(c) = IdsOf(c) /\ c.tp_counter \in Nat
  BY IdsNumbered
<1>4. CASE Registered(c, t)
  <2>1. d = c /\ i = c.type_ptr_table[UniqueName(t, 0)]
        /\ UniqueName(t, 0) \in DOMAIN c.type_ptr_table
    BY <1>4 DEF GetOrCreate, Answer, Registered
  <2> DEFINE u == c.id_ptr_table[i]
  <2>2. i \in IdsOf(c) /\ u \in Type
    BY <2>1 DEF CtxOK, GoodContext, WellTyped
  <2>3. UniqueName(t, 0) = UniqueName(u, i)
    BY <2>1, NameForms DEF CtxOK, GoodContext, Sound, Candidate
  <2>4. t.kind \notin Nominal /\ u.kind \notin Nominal
    BY <2>2, <2>3, NameForms DEF Candidate
  <2>5. SameType(t, u)
    BY <2>2, <2>3, <2>4, NameInjective DEF Candidate
  <2>6. QED
    BY <1>1, <1>3, <2>1, <2>2, <2>5 DEF Grown
<1>5. CASE ~ Registered(c, t)
  <2>1. d.id_ptr_table = Put(c.id_ptr_table, c.tp_counter, t) /\ i = c.tp_counter
    BY <1>5 DEF GetOrCreate, Answer, Create
  <2> HIDE DEF d, i
  <2>2. d.id_ptr_table[i] = t /\ IdsIn(d) = IdsIn(c) \cup {i}
    BY <2>1 DEF Put, IdsIn
  <2>3. \A k \in DOMAIN t.args : t.args[k] \in IdsIn(c)
    BY <1>3 DEF Candidate, Supported, IdsOf
  <2>4. Part(d, t)
    BY <1>1, <2>3, PartKept DEF Candidate
  <2>5. CtxOK(d)
    BY <1>1, <1>2, <2>2, <2>4, CtxKept
  <2>6. SameType(t, d.id_ptr_table[i])
    BY <2>2 DEF SameType
  <2>7. QED
    BY <1>1, <2>2, <2>5, <2>6 DEF Grown, d, i
<1>6. QED
  BY <1>4, <1>5

\* The types an evaluation asks for are candidates.
LEMMA Candidates ==
    ASSUME NEW c, CtxOK(c)
    PROVE  /\ Candidate(c, ErrorTp)
           /\ \A x \in IdsIn(c) : KindOf(c, x) \in Lowered \ {"Ref"} =>
                 Candidate(c, RefTo(x)) /\ Candidate(c, PtrTo(x))
<1>1. /\ c.tp_counter \in Nat
      /\ \A x \in IdsIn(c) : x \in Nat /\ x < c.tp_counter
  BY IdsNumbered
<1>2. Candidate(c, ErrorTp)
  BY DEF Candidate, ErrorTp, Tp, Type, Kind, Leaf, Nominal, Supported, HasSubtype, Listed, Part,
         DeclaredKinds
<1>3. ASSUME NEW x \in IdsIn(c), KindOf(c, x) \in Lowered \ {"Ref"}, NEW kind \in {"Ref", "Pointer"}
      PROVE  Candidate(c, Tp(kind, <<x>>, 0, FALSE))
  <2>1. x \in Nat /\ x < c.tp_counter /\ c.id_ptr_table[x].kind # "Ref"
    BY <1>1, <1>3 DEF KindOf
  <2>2. QED
    BY <1>3, <2>1
    DEF Candidate, Tp, Type, Kind, Leaf, Nominal, Supported, HasSubtype, Listed, Part, DeclaredKinds
<1>4. QED
  BY <1>2, <1>3 DEF RefTo, PtrTo

\* A step from one good context to the next.
LEMMA GrownOn ==
    ASSUME NEW b, NEW c, Grown(b, c), NEW d, Grown(c, d)
    PROVE  Grown(b, d)
  BY DEF Grown, Extends

-----------------------------------------------------------------------------
(* Primitives and the lists of implementations. *)

\* The primitive that was asked for.
LEMMA PrimIdKnown ==
    ASSUME NEW c, CtxOK(c), NEW kind, NEW siz, NEW unsig, Listing(kind, siz, unsig)
    PROVE  LET p == PrimId(kind, siz, unsig) IN
           /\ p \in IdsIn(c) /\ IsPrim(c, p)
           /\ PrimOf(c, p) = [kind |-> kind, siz |-> siz, unsig |-> unsig]
<1> DEFINE r == [kind |-> kind, siz |-> siz, unsig |-> unsig]
           i == CHOOSE i \in 1 .. NPrim : PrimList[i] = r
<1>1. i \in 1 .. NPrim /\ PrimList[i] = r
  BY DEF Listing
<1>2. PrimId(kind, siz, unsig) = i - 1
  BY DEF PrimId
<1> HIDE DEF i, r
<1>3. i - 1 \in IdsIn(c) /\ c.id_ptr_table[i - 1] = Tp("Prim", <<>>, i, FALSE)
  BY <1>1 DEF CtxOK, PrimsKnown, IdsIn
<1>4. IsPrim(c, i - 1) /\ PrimOf(c, i - 1) = r
  BY <1>1, <1>3 DEF IsPrim, KindOf, PrimOf, Tp
<1>5. QED
  BY <1>2, <1>3, <1>4 DEF r

\* Integers count as such for LLVM, and so does bool.
LEMMA IntIsLlvmInt ==
    ASSUME NEW c, CtxOK(c), NEW kind \in {BoolKind, IntKind}, NEW siz, NEW unsig,
           Listing(kind, siz, unsig)
    PROVE  PrimId(kind, siz, unsig) \in IdsIn(c) /\ LlvmInt(c, PrimId(kind, siz, unsig))
<1> DEFINE p == PrimId(kind, siz, unsig)
<1>1. /\ p \in IdsIn(c) /\ IsPrim(c, p)
      /\ PrimOf(c, p) = [kind |-> kind, siz |-> siz, unsig |-> unsig]
  BY PrimIdKnown
<1> HIDE DEF p
<1>2. PrimOf(c, p).kind # FloatKind
  BY <1>1 DEF BoolKind, IntKind, FloatKind
<1>3. QED
  BY <1>1, <1>2 DEF LlvmInt, p

\* The filter of impl_int_op, up to the n-th primitive.
Filters(f, n) ==
    f = [i \in 0 .. n |->
            IF i = 0 THEN <<>>
            ELSE IF i \in IntPrims THEN Append(f[i - 1], i - 1) ELSE f[i - 1]]

\* It is defined.
LEMMA FilterExists == Filters(IntsBefore, NPrim)
<1> DEFINE T == {n \in Nat : \E f : Filters(f, n)}
<1>1. 0 \in T
  <2>1. Filters([i \in 0 .. 0 |-> <<>>], 0)
    BY DEF Filters
  <2>2. QED
    BY <2>1
<1>2. ASSUME NEW n \in Nat, n \in T PROVE n + 1 \in T
  <2>1. PICK f : Filters(f, n)
    BY <1>2
  <2>2. PICK v : v = IF n + 1 \in IntPrims THEN Append(f[n], n) ELSE f[n]
    OBVIOUS
  <2>3. PICK g : g = [i \in 0 .. n + 1 |-> IF i = n + 1 THEN v ELSE f[i]]
    OBVIOUS
  <2>4. /\ g[n + 1] = v /\ g[n] = f[n]
        /\ \A i \in 0 .. n : g[i] = f[i]
        /\ \A i \in 1 .. n : g[i - 1] = f[i - 1]
    BY <2>3
  <2>5. \A i \in 0 .. n :
           g[i] = IF i = 0 THEN <<>>
                  ELSE IF i \in IntPrims THEN Append(g[i - 1], i - 1) ELSE g[i - 1]
    <3>1. \A i \in 0 .. n :
             f[i] = IF i = 0 THEN <<>>
                    ELSE IF i \in IntPrims THEN Append(f[i - 1], i - 1) ELSE f[i - 1]
      BY <2>1, Zenon DEF Filters
    <3>2. \A i \in 0 .. n : i # 0 => i \in 1 .. n
      OBVIOUS
    <3>3. QED
      BY <2>4, <3>1, <3>2, Zenon
  <2>6. g[n + 1] = IF n + 1 \in IntPrims THEN Append(g[(n + 1) - 1], (n + 1) - 1) ELSE g[(n + 1) - 1]
    BY <2>2, <2>4
  <2>7. \A i \in 0 .. n + 1 :
           g[i] = IF i = 0 THEN <<>>
                  ELSE IF i \in IntPrims THEN Append(g[i - 1], i - 1) ELSE g[i - 1]
    BY <2>5, <2>6
  <2>8. Filters(g, n + 1)
    BY <2>3, <2>7 DEF Filters
  <2>9. QED
    BY <2>8
<1>3. NPrim \in T
  <2> HIDE DEF T
  <2>1. QED
    BY <1>1, <1>2, Inductive, TypeTableAssumption
<1>4. \E f : f = [i \in 0 .. NPrim |->
            IF i = 0 THEN <<>>
            ELSE IF i \in IntPrims THEN Append(f[i - 1], i - 1) ELSE f[i - 1]]
  BY <1>3 DEF Filters
<1>5. QED
  BY <1>4 DEF Filters, IntsBefore

\* s lists the integers among the first n primitives, each once.
ListsInts(s, n) ==
    /\ IsSeq(s)
    /\ \A k \in 1 .. Len(s) : s[k] \in 0 .. n - 1 /\ s[k] + 1 \in IntPrims
    /\ \A k, l \in 1 .. Len(s) : s[k] = s[l] => k = l
    /\ \A i \in IntPrims : i <= n => \E k \in 1 .. Len(s) : s[k] = i - 1

\* IntIds lists the integer types.
LEMMA IntsListed == ListsInts(IntIds, NPrim)
<1> DEFINE f == IntsBefore
           T == {n \in Nat : n <= NPrim => ListsInts(f[n], n)}
<1>1. /\ NPrim \in Nat
      /\ f[0] = <<>>
      /\ \A i \in 1 .. NPrim :
            f[i] = IF i \in IntPrims THEN Append(f[i - 1], i - 1) ELSE f[i - 1]
  <2>1. NPrim \in Nat
    BY TypeTableAssumption
  <2> HIDE DEF f
  <2>2. \A i \in 0 .. NPrim :
           f[i] = IF i = 0 THEN <<>>
                  ELSE IF i \in IntPrims THEN Append(f[i - 1], i - 1) ELSE f[i - 1]
    BY FilterExists, Zenon DEF Filters, f
  <2>3. 0 \in 0 .. NPrim /\ \A i \in 1 .. NPrim : i \in 0 .. NPrim /\ i # 0
    BY <2>1
  <2>4. QED
    BY <2>1, <2>2, <2>3, Zenon
<1>2. 0 \in T
  <2>1. IsSeq(<<>>) /\ Len(<<>>) = 0
    BY SeqIsSeq, EmptySeq
  <2>2. QED
    BY <1>1, <2>1 DEF ListsInts, IntPrims
<1> HIDE DEF f
<1>3. ASSUME NEW n \in Nat, n \in T PROVE n + 1 \in T
  <2>1. SUFFICES ASSUME n + 1 <= NPrim PROVE ListsInts(f[n + 1], n + 1)
    OBVIOUS
  <2>2. n + 1 \in 1 .. NPrim /\ (n + 1) - 1 = n /\ n <= NPrim
    BY <1>1, <2>1
  <2>3. PICK s : s = f[n]
    OBVIOUS
  <2>4. ListsInts(s, n)
    BY <1>3, <2>2, <2>3
  <2>5. Len(s) \in Nat /\ DOMAIN s = 1 .. Len(s)
    BY <2>4, SeqShape DEF ListsInts
  <2>6. CASE n + 1 \in IntPrims
    <3>1. PICK t : t = Append(s, n)
      OBVIOUS
    <3>2. f[n + 1] = t
      BY <1>1, <2>2, <2>3, <2>6, <3>1
    <3>3. /\ IsSeq(t) /\ Len(t) = Len(s) + 1
          /\ \A k \in 1 .. Len(s) : t[k] = s[k]
          /\ t[Len(s) + 1] = n
      BY <2>4, <3>1, AppendShape DEF ListsInts
    <3>4. \A k \in 1 .. Len(t) : k \in 1 .. Len(s) \/ k = Len(s) + 1
      BY <2>5, <3>3
    <3>5. \A k \in 1 .. Len(t) : t[k] \in 0 .. (n + 1) - 1 /\ t[k] + 1 \in IntPrims
      BY <2>4, <2>6, <3>3, <3>4 DEF ListsInts
    <3>6. \A k, l \in 1 .. Len(t) : t[k] = t[l] => k = l
      BY <2>4, <3>3, <3>4 DEF ListsInts
    <3>7. ASSUME NEW i \in IntPrims, i <= n + 1 PROVE \E k \in 1 .. Len(t) : t[k] = i - 1
      <4>1. i \in Nat
        BY DEF IntPrims
      <4>2. CASE i = n + 1
        <5>1. Len(s) + 1 \in 1 .. Len(t) /\ t[Len(s) + 1] = i - 1
          BY <2>5, <3>3, <4>2
        <5>2. QED
          BY <5>1
      <4>3. CASE i # n + 1
        <5>1. PICK k \in 1 .. Len(s) : s[k] = i - 1
          BY <2>4, <3>7, <4>1, <4>3 DEF ListsInts
        <5>2. k \in 1 .. Len(t) /\ t[k] = i - 1
          BY <2>5, <3>3, <5>1
        <5>3. QED
          BY <5>2
      <4>4. QED
        BY <4>2, <4>3
    <3>8. QED
      BY <3>2, <3>3, <3>5, <3>6, <3>7 DEF ListsInts
  <2>7. CASE n + 1 \notin IntPrims
    <3>1. f[n + 1] = s
      BY <1>1, <2>2, <2>3, <2>7
    <3>2. \A k \in 1 .. Len(s) : s[k] \in 0 .. (n + 1) - 1 /\ s[k] + 1 \in IntPrims
      BY <2>4 DEF ListsInts
    <3>3. \A i \in IntPrims : i <= n + 1 => i <= n
      BY <2>7 DEF IntPrims
    <3>4. QED
      BY <2>4, <3>1, <3>2, <3>3 DEF ListsInts
  <2>8. QED
    BY <2>6, <2>7
<1>4. NPrim \in T
  <2> HIDE DEF T
  <2>1. QED
    BY <1>1, <1>2, <1>3, Inductive
<1>5. QED
  BY <1>1, <1>4 DEF IntIds, f

\* The operators by the list they have.
AllPrimOps == MathOps \cup CmpOps \cup {"Pos", "Neg"}
BoolOps == LogicOps \cup {"Not"}

\* The lists: all primitives, the integers, bool, or nothing.
LEMMA CondsCases ==
    ASSUME NEW op
    PROVE  /\ op \in AllPrimOps => Conds(op) = PrimIds
           /\ op \in IntOps => Conds(op) = IntIds
           /\ op \in BoolOps => Conds(op) = <<BoolId>>
           /\ op \notin BuiltInOps => Conds(op) = <<>>
  BY DEF Conds, AllPrimOps, BoolOps, BuiltInOps, MathOps, CmpOps, IntOps, LogicOps, UnaryOps

\* Each entry of a list is the id of a primitive, an integer where the operator
\* takes integers, and none is there twice.
ListOK(op, s) ==
    /\ IsSeq(s)
    /\ \A i \in 1 .. Len(s) :
          /\ s[i] \in Nat /\ s[i] + 1 \in 1 .. NPrim
          /\ op \in IntOps => s[i] + 1 \in IntPrims
          /\ op \in BoolOps => PrimList[s[i] + 1].kind = BoolKind
    /\ \A i, j \in 1 .. Len(s) : s[i] = s[j] => i = j
    /\ op \notin BuiltInOps => Len(s) = 0

\* Every list is such a one.
LEMMA CondsKnown == ASSUME NEW op, op \in BoolOps => op \in Ops PROVE ListOK(op, Conds(op))
<1>1. CASE op \in AllPrimOps
  <2>1. PICK s : s = PrimIds
    OBVIOUS
  <2>2. NPrim \in Nat /\ s = [i \in 1 .. NPrim |-> s[i]]
        /\ \A i \in 1 .. NPrim : s[i] = i - 1
    BY <2>1, TypeTableAssumption DEF PrimIds
  <2>3. IsSeq(s) /\ Len(s) = NPrim
    BY <2>2, FunctionShape
  <2>4. op \notin IntOps /\ op \notin BoolOps /\ op \in BuiltInOps
    BY <1>1 DEF AllPrimOps, BoolOps, BuiltInOps, MathOps, CmpOps, IntOps, LogicOps, UnaryOps
  <2>5. Conds(op) = s
    BY <1>1, <2>1, CondsCases
  <2>6. ListOK(op, s)
    BY <2>2, <2>3, <2>4 DEF ListOK
  <2>7. QED
    BY <2>5, <2>6
<1>2. CASE op \in IntOps
  <2>1. op \notin BoolOps /\ op \in BuiltInOps
    BY <1>2 DEF BoolOps, BuiltInOps, IntOps, LogicOps, UnaryOps
  <2>2. Conds(op) = IntIds
    BY <1>2, CondsCases
  <2>3. \A i \in IntPrims : i \in 1 .. NPrim
    BY DEF IntPrims
  <2>4. PICK s : s = IntIds
    OBVIOUS
  <2>5. ListsInts(s, NPrim) /\ NPrim \in Nat
    BY <2>4, IntsListed, TypeTableAssumption
  <2>6. ListOK(op, s)
    BY <2>1, <2>3, <2>5 DEF ListsInts, ListOK
  <2>7. QED
    BY <2>2, <2>4, <2>6
<1>3. CASE op \in BoolOps
  <2>1. op \notin IntOps /\ op \in BuiltInOps
    BY <1>3 DEF BoolOps, BuiltInOps, IntOps, LogicOps, UnaryOps
  <2>2. Conds(op) = <<BoolId>>
    BY <1>3, CondsCases
  <2>3. Listing(BoolKind, 8, 1)
    BY <1>3, <2>1, OperatorsAssumption DEF BoolOps
  <2>4. PICK r : r = [kind |-> BoolKind, siz |-> 8, unsig |-> 1]
    OBVIOUS
  <2>5. \E i \in 1 .. NPrim : PrimList[i] = r
    BY <2>3, <2>4 DEF Listing
  <2>6. PICK i \in 1 .. NPrim : BoolId = i - 1 /\ PrimList[i] = r
    BY <2>4, <2>5 DEF BoolId, PrimId
  <2>7. PICK b : b = BoolId
    OBVIOUS
  <2>8. b \in Nat /\ b + 1 = i /\ PrimList[b + 1].kind = BoolKind
    BY <2>4, <2>6, <2>7
  <2>9. IsSeq(<<b>>) /\ Len(<<b>>) = 1 /\ <<b>>[1] = b
    <3>1. <<b>> \in Seq({b}) /\ Len(<<b>>) = 1 /\ <<b>>[1] = b
      OBVIOUS
    <3>2. QED
      BY <3>1, SeqIsSeq
  <2>10. PICK s : s = <<b>>
    OBVIOUS
  <2>11. ListOK(op, s)
    BY <2>1, <2>6, <2>8, <2>9, <2>10 DEF ListOK
  <2>12. QED
    BY <2>2, <2>7, <2>10, <2>11
<1>4. CASE op \notin BuiltInOps
  <2>1. Conds(op) = <<>>
    BY <1>4, CondsCases
  <2>2. IsSeq(<<>>) /\ Len(<<>>) = 0
    BY SeqIsSeq, EmptySeq
  <2>3. op \notin IntOps /\ op \notin BoolOps
    BY <1>4 DEF BuiltInOps, BoolOps, UnaryOps
  <2>4. ListOK(op, <<>>)
    BY <2>2, <2>3 DEF ListOK
  <2>5. QED
    BY <2>1, <2>4
<1>5. QED
  BY <1>1, <1>2, <1>3, <1>4 DEF BuiltInOps, AllPrimOps, BoolOps, UnaryOps

-----------------------------------------------------------------------------
(* How the built-in implementations fit. *)

\* The id of a primitive.
IsPrimId(x) == x \in Nat /\ x + 1 \in 1 .. NPrim

PrimRecord == [kind : 0 .. 3, siz : Nat, unsig : 0 .. 1]

\* A primitive is found under the id init gave it.
LEMMA PrimEntry ==
    ASSUME NEW c, CtxOK(c)
    PROVE  /\ \A d \in IdsIn(c) : IsPrim(c, d) =>
                 IsPrimId(d) /\ PrimOf(c, d) = PrimList[d + 1]
           /\ \A d : IsPrimId(d) =>
                 d \in IdsIn(c) /\ IsPrim(c, d) /\ PrimOf(c, d) = PrimList[d + 1]
                 /\ PrimList[d + 1] \in PrimRecord
<1>1. ASSUME NEW d, IsPrimId(d)
      PROVE  /\ d \in IdsIn(c) /\ c.id_ptr_table[d] = Tp("Prim", <<>>, d + 1, FALSE)
             /\ IsPrim(c, d) /\ PrimOf(c, d) = PrimList[d + 1]
             /\ PrimList[d + 1] \in PrimRecord
  <2>1. d \in IdsIn(c) /\ c.id_ptr_table[d] = Tp("Prim", <<>>, d + 1, FALSE)
    <3>1. PICK i \in 1 .. NPrim : i = d + 1
      BY <1>1 DEF IsPrimId
    <3>2. i - 1 = d
      BY <1>1, <3>1 DEF IsPrimId
    <3>3. i - 1 \in IdsIn(c) /\ c.id_ptr_table[i - 1] = Tp("Prim", <<>>, i, FALSE)
      BY DEF CtxOK, PrimsKnown, IdsIn
    <3>4. QED
      BY <3>1, <3>2, <3>3
  <2>2. QED
    BY <1>1, <2>1, ConversionAssumption DEF IsPrimId, IsPrim, KindOf, PrimOf, Tp, PrimRecord
<1>2. ASSUME NEW d \in IdsIn(c), IsPrim(c, d) PROVE IsPrimId(d)
  <2>1. PICK t : t = c.id_ptr_table[d]
    OBVIOUS
  <2>2. t.kind = "Prim" /\ t.args = <<>> /\ t.n \in 1 .. NPrim
    BY <1>2, <2>1 DEF CtxOK, PrimsListed, Listed, IsPrim, KindOf, IdsIn
  <2>3. PICK e \in Nat : e = t.n - 1
    BY <2>2
  <2>4. IsPrimId(e) /\ e + 1 = t.n
    BY <2>2, <2>3 DEF IsPrimId
  <2>5. e \in IdsIn(c) /\ c.id_ptr_table[e] = Tp("Prim", <<>>, e + 1, FALSE)
    BY <1>1, <2>4
  <2>6. PICK u : u = c.id_ptr_table[e]
    OBVIOUS
  <2>7. u.kind = "Prim" /\ u.args = <<>> /\ u.n = t.n
    BY <2>4, <2>5, <2>6 DEF Tp
  <2>8. UniqueName(t, d) = UniqueName(u, e)
    BY <2>2, <2>7 DEF UniqueName, Shape, Nominal
  <2>9. d \in IdsOf(c) /\ e \in IdsOf(c)
    BY <2>5, IdsNumbered
  <2>10. d = e
    BY <2>1, <2>6, <2>8, <2>9 DEF CtxOK, GoodContext, Findable
  <2>11. QED
    BY <2>4, <2>10
<1>3. QED
  BY <1>1, <1>2

\* The order of primitives, by their ids.
Leq(x, y) == PrimLeq(PrimList[x + 1], PrimList[y + 1])

\* It is a total order.
LEMMA LeqTotal ==
    ASSUME NEW x, IsPrimId(x), NEW y, IsPrimId(y)
    PROVE  /\ Leq(x, x)
           /\ x # y => (Leq(x, y) <=> ~ Leq(y, x))
<1>1. PrimList[x + 1] \in PrimRecord
  BY ConversionAssumption DEF IsPrimId, PrimRecord
<1>2. \A p \in PrimRecord : PrimLeq(p, p)
  BY DEF PrimLeq, PrimRecord
<1>3. x # y => x + 1 # y + 1
  BY DEF IsPrimId
<1>4. x + 1 \in 1 .. NPrim /\ y + 1 \in 1 .. NPrim
  BY DEF IsPrimId
<1>5. QED
  BY <1>1, <1>2, <1>3, <1>4, PrimOrder DEF Leq

\* Only primitives convert to primitives, and they do by the order.
LEMMA ToPrim ==
    ASSUME NEW c, CtxOK(c), NEW d \in IdsIn(c), KindOf(c, d) \in Lowered \ {"Ref"},
           NEW q, IsPrimId(q)
    PROVE  IsConvertable(c, d, q) <=> IsPrim(c, d) /\ Leq(d, q)
<1>1. q \in IdsIn(c) /\ IsPrim(c, q) /\ PrimOf(c, q) = PrimList[q + 1]
  BY PrimEntry
<1>2. IsPrim(c, d) => PrimOf(c, d) = PrimList[d + 1]
  BY PrimEntry
<1>3. Decay(c, d) = d /\ ~ IsRef(c, d)
  BY DEF Decay, KindOf, IsRef
<1>4. KindOf(c, q) = "Prim"
  BY <1>1 DEF IsPrim
<1>5. ConvertsPlain(c, d, q) <=> KindOf(c, d) = "Prim" /\ PrimConverts(c, d, q)
  BY <1>4
  DEF ConvertsPlain, IsError, IsVoid, WithTrait, PtrConverts, FuncConverts, IsPtr, Lowered
<1>6. QED
  BY <1>1, <1>2, <1>3, <1>5 DEF IsConvertable, PrimConverts, Leq, IsPrim

\* The weight of one operand, a primitive.
Step(x, q) == IF x = q THEN 0 ELSE IF Leq(x, q) THEN 1 ELSE Reject

\* ArgWeight by the type an operand decays to.
LEMMA ArgSteps ==
    ASSUME NEW c, CtxOK(c), NEW l \in Lowers(c), NEW q, IsPrimId(q)
    PROVE  LET d == Decay(c, l) IN
           /\ IsPrim(c, d) => IsPrimId(d) /\ ArgWeight(c, l, q) = Step(d, q)
           /\ ~ IsPrim(c, d) => ArgWeight(c, l, q) = Reject
           /\ ArgWeight(c, l, q) \in Nat
<1> DEFINE d == Decay(c, l)
<1>1. l \in IdsIn(c) /\ KindOf(c, l) \in Lowered /\ KindOf(c, d) \in Lowered
  BY DEF Lowers, IdsIn
<1>2. d \in IdsIn(c) /\ KindOf(c, d) \in Lowered \ {"Ref"}
  BY <1>1, DecayKnown
<1>3. ArgWeight(c, l, q) = IF d = q THEN 0 ELSE IF IsConvertable(c, d, q) THEN 1 ELSE Reject
  BY DEF ArgWeight
<1> HIDE DEF d
<1>4. IsConvertable(c, d, q) <=> IsPrim(c, d) /\ Leq(d, q)
  BY <1>2, ToPrim
<1>5. IsPrim(c, q)
  BY PrimEntry
<1>6. IsPrim(c, d) => IsPrimId(d)
  BY <1>2, PrimEntry
<1>7. (IF d = q THEN 0 ELSE IF IsConvertable(c, d, q) THEN 1 ELSE Reject) \in Nat
  BY DEF Reject
<1>8. QED
  BY <1>3, <1>4, <1>5, <1>6, <1>7 DEF Step, d

\* Of two primitives the greater one.
GreaterOf(x, y) == IF Leq(x, y) THEN y ELSE x

\* Nothing fits two primitives as well as the greater of them.
LEMMA GreaterWins ==
    ASSUME NEW x, IsPrimId(x), NEW y, IsPrimId(y), NEW q, IsPrimId(q), q # GreaterOf(x, y)
    PROVE  LET g == GreaterOf(x, y) IN
           /\ Step(x, g) + Step(y, g) < Step(x, q) + Step(y, q)
           /\ IsPrimId(g)
<1> DEFINE g == GreaterOf(x, y)
<1>1. /\ Leq(x, x) /\ Leq(y, y)
      /\ x # y => (Leq(x, y) <=> ~ Leq(y, x))
  BY LeqTotal
<1>2. CASE x = y
  <2>1. Step(x, g) = 0 /\ Step(y, g) = 0
    BY <1>1, <1>2 DEF Step, GreaterOf
  <2>2. Step(x, q) \in {1, Reject} /\ Step(y, q) \in {1, Reject}
    BY <1>1, <1>2 DEF Step, GreaterOf
  <2> HIDE DEF g
  <2>3. QED
    BY <1>2, <2>1, <2>2 DEF Reject, g, GreaterOf
<1>3. CASE x # y /\ Leq(x, y)
  <2>1. Step(x, g) = 1 /\ Step(y, g) = 0 /\ q # y
    BY <1>1, <1>3 DEF Step, GreaterOf
  <2>2. Step(y, q) \in {1, Reject} /\ (q = x => Step(y, q) = Reject)
    BY <1>1, <1>3, <2>1 DEF Step
  <2>3. Step(x, q) \in {0, 1, Reject} /\ (q # x => Step(x, q) # 0)
    BY DEF Step, Reject
  <2> HIDE DEF g
  <2>4. QED
    BY <1>3, <2>1, <2>2, <2>3 DEF Reject, g, GreaterOf
<1>4. CASE x # y /\ ~ Leq(x, y)
  <2>1. Step(x, g) = 0 /\ Step(y, g) = 1 /\ q # x
    BY <1>1, <1>4 DEF Step, GreaterOf
  <2>2. Step(x, q) \in {1, Reject} /\ (q = y => Step(x, q) = Reject)
    BY <1>1, <1>4, <2>1 DEF Step
  <2>3. Step(y, q) \in {0, 1, Reject} /\ (q # y => Step(y, q) # 0)
    BY DEF Step, Reject
  <2> HIDE DEF g
  <2>4. QED
    BY <1>4, <2>1, <2>2, <2>3 DEF Reject, g, GreaterOf
<1>5. QED
  BY <1>2, <1>3, <1>4

\* If neither of two primitives is as great as an integer, every integer fits
\* them alike.
LEMMA IntegersTie ==
    ASSUME NEW x, IsPrimId(x), NEW y, IsPrimId(y), NEW q, IsPrimId(q), q + 1 \in IntPrims,
           NEW p, IsPrimId(p), p + 1 \in IntPrims, Step(x, q) + Step(y, q) < Reject,
           GreaterOf(x, y) + 1 \notin IntPrims
    PROVE  Step(x, p) + Step(y, p) = Step(x, q) + Step(y, q)
<1>1. PICK r1, r2, r3, r4 : /\ r1 = PrimList[x + 1] /\ r2 = PrimList[y + 1]
                            /\ r3 = PrimList[q + 1] /\ r4 = PrimList[p + 1]
  OBVIOUS
<1>2. /\ r1 \in PrimRecord /\ r2 \in PrimRecord /\ r3 \in PrimRecord /\ r4 \in PrimRecord
      /\ r3.kind = IntKind /\ r4.kind = IntKind
  BY <1>1, ConversionAssumption DEF IsPrimId, PrimRecord, IntPrims
<1>3. /\ x = q \/ Leq(x, q)
      /\ y = q \/ Leq(y, q)
  BY DEF Step, Reject
<1>4. /\ Leq(x, q) <=> PrimLeq(r1, r3)
      /\ Leq(y, q) <=> PrimLeq(r2, r3)
      /\ Leq(x, p) <=> PrimLeq(r1, r4)
      /\ Leq(y, p) <=> PrimLeq(r2, r4)
      /\ Leq(x, y) <=> PrimLeq(r1, r2)
  BY <1>1 DEF Leq
<1>5. /\ r1.kind <= IntKind
      /\ r2.kind <= IntKind
  <2>1. \A r \in PrimRecord : PrimLeq(r, r3) => r.kind <= IntKind
    BY <1>2 DEF PrimLeq, PrimRecord, IntKind
  <2>2. x = q => r1 = r3
    BY <1>1
  <2>3. y = q => r2 = r3
    BY <1>1
  <2>4. QED
    BY <1>2, <1>3, <1>4, <2>1, <2>2, <2>3 DEF IntKind
<1>6. IF Leq(x, y) THEN r2.kind # IntKind ELSE r1.kind # IntKind
  BY <1>1 DEF GreaterOf, IntPrims, IsPrimId
<1>7. r1.kind < IntKind /\ r2.kind < IntKind
  <2>1. Leq(x, y) \/ Leq(y, x) \/ x = y
    BY LeqTotal
  <2>2. Leq(y, x) <=> PrimLeq(r2, r1)
    BY <1>1 DEF Leq
  <2>3. x = y => r1 = r2
    BY <1>1
  <2>4. \A r, s \in PrimRecord : PrimLeq(r, s) => r.kind <= s.kind
    BY DEF PrimLeq, PrimRecord
  <2>5. r1.kind \in Int /\ r2.kind \in Int
    BY <1>2 DEF PrimRecord
  <2>6. QED
    BY <1>2, <1>4, <1>5, <1>6, <2>1, <2>2, <2>3, <2>4, <2>5 DEF IntKind
<1>8. \A r, s \in PrimRecord : r.kind < IntKind /\ s.kind = IntKind => PrimLeq(r, s) /\ r # s
  BY DEF PrimLeq, PrimRecord
<1>9. /\ x # q /\ y # q /\ x # p /\ y # p
      /\ Leq(x, q) /\ Leq(y, q) /\ Leq(x, p) /\ Leq(y, p)
  BY <1>1, <1>2, <1>4, <1>7, <1>8
<1>10. QED
  BY <1>9 DEF Step

-----------------------------------------------------------------------------
(* The implementation that is picked. *)

\* The weights of n candidates; the one at k weighs least, or less than all others.
Weights(n, W) == \A i \in 1 .. n : W[i] \in Nat
LeastAt(n, W, k) == \A i \in 1 .. n : W[k] <= W[i]
LeastAlone(n, W, k) == \A i \in 1 .. n : i # k => W[k] < W[i]

\* The weights that one operand of type x gives, and two of types x and y.
StepsOf(n, W, s, x) == \A i \in 1 .. n : W[i] = Step(x, s[i])
TwoStepsOf(n, W, s, x, y) == \A i \in 1 .. n : W[i] = Step(x, s[i]) + Step(y, s[i])

\* The best of some candidates is the one that beats all others.
LEMMA BestAlone ==
    ASSUME NEW n \in Nat, NEW W, Weights(n, W),
           NEW k \in 1 .. n, LeastAt(n, W, k), NEW g \in 1 .. n, LeastAlone(n, W, g)
    PROVE  k = g /\ Cardinality(Tied(n, W, W[k])) = 1
<1>1. k = g
  <2>1. SUFFICES ASSUME k # g PROVE FALSE
    OBVIOUS
  <2>2. W[g] < W[k] /\ W[k] <= W[g] /\ W[k] \in Nat /\ W[g] \in Nat
    BY <2>1 DEF Weights, LeastAt, LeastAlone
  <2>3. QED
    BY <2>2
<1>2. ASSUME NEW i \in 1 .. n, i # g PROVE W[i] # W[g]
  <2>1. W[g] < W[i] /\ W[g] \in Nat
    BY <1>2 DEF Weights, LeastAlone
  <2>2. QED
    BY <2>1
<1>3. Tied(n, W, W[k]) = {k}
  BY <1>1, <1>2, Zenon DEF Tied
<1>4. QED
  BY <1>1, <1>3, FS_Singleton

\* Three candidates that weigh the same.
LEMMA ThreeTied ==
    ASSUME NEW n \in Nat, NEW W, NEW w, NEW i \in 1 .. n, NEW j \in 1 .. n, NEW k \in 1 .. n,
           i # j, j # k, i # k, W[i] = w, W[j] = w, W[k] = w
    PROVE  Cardinality(Tied(n, W, w)) >= 3
<1>1. IsFiniteSet(Tied(n, W, w))
  BY TiesCounted
<1>2. {i, j, k} \subseteq Tied(n, W, w)
  BY DEF Tied
<1>3. Cardinality({i, j, k}) = 3
  <2>1. IsFiniteSet({i}) /\ Cardinality({i}) = 1
    BY FS_Singleton
  <2>2. {i, j} = {i} \cup {j} /\ j \notin {i}
    OBVIOUS
  <2>3. IsFiniteSet({i, j}) /\ Cardinality({i, j}) = 2
    BY <2>1, <2>2, FS_AddElement
  <2>4. {i, j, k} = {i, j} \cup {k} /\ k \notin {i, j}
    OBVIOUS
  <2>5. QED
    BY <2>3, <2>4, FS_AddElement
<1>4. Cardinality({i, j, k}) <= Cardinality(Tied(n, W, w))
  BY <1>1, <1>2, FS_Subset
<1>5. Cardinality(Tied(n, W, w)) \in Nat
  BY <1>1, FS_CardinalityType
<1>6. QED
  BY <1>3, <1>4, <1>5

\* Which implementation wins for two primitives, of a list s with weights W.
LEMMA TwoPrimitives ==
    ASSUME NEW op, op \in Ops \cap IntOps \/ op \in MathOps \cup CmpOps,
           NEW x, IsPrimId(x), NEW y, IsPrimId(y),
           NEW s, s = Conds(op), NEW n \in Nat, n = Len(s), NEW W,
           TwoStepsOf(n, W, s, x, y), NEW k \in 1 .. n, LeastAt(n, W, k), W[k] < Reject
    PROVE  \/ s[k] = GreaterOf(x, y) /\ Cardinality(Tied(n, W, W[k])) = 1
           \/ Cardinality(Tied(n, W, W[k])) >= 3
<1> DEFINE g == GreaterOf(x, y)
<1>1. op \notin BoolOps
  BY DEF BoolOps, IntOps, MathOps, CmpOps, LogicOps
<1>2. ListOK(op, s)
  BY <1>1, CondsKnown
<1>3. \A i \in 1 .. n : IsPrimId(s[i]) /\ (op \in IntOps => s[i] + 1 \in IntPrims)
  BY <1>2 DEF ListOK, IsPrimId
<1>4. IsPrimId(g)
  BY DEF GreaterOf
<1>5. Weights(n, W)
  BY DEF Weights, TwoStepsOf, Step, Reject
<1>6. CASE \E h \in 1 .. n : s[h] = g
  <2>1. PICK h \in 1 .. n : s[h] = g
    BY <1>6
  <2>2. ASSUME NEW i \in 1 .. n, i # h PROVE W[h] < W[i]
    <3>1. s[i] # g
      BY <1>2, <2>1, <2>2 DEF ListOK
    <3>2. Step(x, g) + Step(y, g) < Step(x, s[i]) + Step(y, s[i])
      BY <1>3, <3>1, GreaterWins
    <3>3. QED
      BY <2>1, <3>2 DEF TwoStepsOf
  <2> HIDE DEF g
  <2>3. LeastAlone(n, W, h)
    BY <2>2 DEF LeastAlone
  <2>4. k = h /\ Cardinality(Tied(n, W, W[k])) = 1
    BY <1>5, <2>3, BestAlone
  <2>5. QED
    BY <2>1, <2>4 DEF g
<1>7. CASE \A h \in 1 .. n : s[h] # g
  <2>1. op \in IntOps /\ op \in Ops
    <3>1. SUFFICES ASSUME op \in MathOps \cup CmpOps PROVE FALSE
      BY Zenon
    <3>2. op \in AllPrimOps
      BY <3>1 DEF AllPrimOps
    <3>3. s = PrimIds
      BY <3>2, CondsCases
    <3>4. NPrim \in Nat /\ s = [i \in 1 .. NPrim |-> s[i]]
          /\ \A i \in 1 .. NPrim : s[i] = i - 1
      BY <3>3, TypeTableAssumption DEF PrimIds
    <3>5. n = NPrim
      BY <3>4, FunctionShape
    <3> HIDE DEF g
    <3>6. g + 1 \in 1 .. n /\ s[g + 1] = (g + 1) - 1 /\ (g + 1) - 1 = g
      BY <1>4, <3>4, <3>5 DEF IsPrimId
    <3>7. QED
      BY <1>7, <3>6
  <2>2. ListsInts(s, NPrim) /\ NPrim \in Nat
    BY <2>1, CondsCases, IntsListed, TypeTableAssumption
  <2>3. g + 1 \notin IntPrims
    <3> HIDE DEF g
    <3>1. SUFFICES ASSUME g + 1 \in IntPrims PROVE FALSE
      OBVIOUS
    <3>2. g + 1 <= NPrim /\ (g + 1) - 1 = g
      BY <1>4, <2>2 DEF IsPrimId
    <3>3. QED
      BY <1>7, <2>2, <3>1, <3>2 DEF ListsInts
  <2>4. ASSUME NEW i \in 1 .. n PROVE W[i] = W[k]
    BY <1>3, <2>1, <2>3, IntegersTie DEF TwoStepsOf
  <2>5. PICK a, b, c \in IntPrims : a < b /\ b < c
    BY <2>1, OperatorsAssumption
  <2>6. a \in 1 .. NPrim /\ b \in 1 .. NPrim /\ c \in 1 .. NPrim
    BY DEF IntPrims
  <2>7. PICK i \in 1 .. n : s[i] = a - 1
    BY <2>2, <2>6 DEF ListsInts
  <2>8. PICK j \in 1 .. n : s[j] = b - 1
    BY <2>2, <2>6 DEF ListsInts
  <2>9. PICK l \in 1 .. n : s[l] = c - 1
    BY <2>2, <2>6 DEF ListsInts
  <2>10. i # j /\ j # l /\ i # l
    BY <2>5, <2>6, <2>7, <2>8, <2>9
  <2>11. W[i] = W[k] /\ W[j] = W[k] /\ W[l] = W[k]
    BY <2>4
  <2>12. Cardinality(Tied(n, W, W[k])) >= 3
    BY <2>10, <2>11, ThreeTied
  <2>13. QED
    BY <2>12
<1>8. QED
  BY <1>6, <1>7

\* The operators that take one operand, or bool.
LEMMA OneBest ==
    ASSUME NEW op \in Ops, op \in UnaryOps \cup LogicOps, NEW x, IsPrimId(x),
           NEW s, s = Conds(op), NEW n \in Nat, n = Len(s), NEW W,
           op # "Not" /\ op \notin LogicOps => StepsOf(n, W, s, x),
           Weights(n, W), NEW k \in 1 .. n, LeastAt(n, W, k)
    PROVE  Cardinality(Tied(n, W, W[k])) = 1
<1>1. CASE op \in BoolOps
  <2>1. s = <<BoolId>>
    BY <1>1, CondsCases
  <2>2. n = 1
    BY <2>1
  <2>3. LeastAlone(n, W, 1)
    BY <2>2 DEF LeastAlone
  <2>4. 1 \in 1 .. n
    BY <2>2
  <2>5. QED
    BY <2>3, <2>4, BestAlone
<1>2. CASE op \notin BoolOps
  <2>1. op \in AllPrimOps /\ op # "Not" /\ op \notin LogicOps
    BY <1>2 DEF BoolOps, AllPrimOps, UnaryOps
  <2>2. s = PrimIds
    BY <2>1, CondsCases
  <2>3. NPrim \in Nat /\ s = [i \in 1 .. NPrim |-> s[i]]
        /\ \A i \in 1 .. NPrim : s[i] = i - 1
    BY <2>2, TypeTableAssumption DEF PrimIds
  <2>4. n = NPrim
    BY <2>3, FunctionShape
  <2>5. PICK g : g = x + 1
    OBVIOUS
  <2>6. g \in 1 .. n /\ s[g] = x
    BY <2>3, <2>4, <2>5 DEF IsPrimId
  <2>7. W[g] = 0
    BY <2>1, <2>6 DEF StepsOf, Step
  <2>8. ASSUME NEW i \in 1 .. n, i # g PROVE W[g] < W[i]
    <3>1. s[i] # x
      BY <2>3, <2>4, <2>5, <2>8 DEF IsPrimId
    <3>2. W[i] \in {1, Reject}
      BY <2>1, <3>1 DEF StepsOf, Step
    <3>3. QED
      BY <2>7, <3>2 DEF Reject
  <2>9. LeastAlone(n, W, g)
    BY <2>8 DEF LeastAlone
  <2>10. QED
    BY <2>6, <2>9, BestAlone
<1>3. QED
  BY <1>1, <1>2

\* What is known of the implementation when the list is done.
Winner(op, args, cond, cnt) ==
    /\ op \in BuiltInOps /\ IsPrimId(cond)
    /\ op \in IntOps => cond + 1 \in IntPrims
    /\ op \in BoolOps => PrimList[cond + 1].kind = BoolKind
    /\ \A i \in DOMAIN args : LET d == Decay(ctx, args[i]) IN
          IsPrimId(d) /\ (d = cond \/ Leq(d, cond))
    /\ cnt \in Nat /\ cnt # 1
    /\ cnt = 0 /\ op \in MathOps \cup CmpOps \cup IntOps =>
          cond = GreaterOf(Decay(ctx, args[1]), Decay(ctx, args[2]))

\* No operand of an operator other than a call is of the error type.
LEMMA NoError ==
    ASSUME OpInv, node.pc = "scan", ~ Poisoned, node.op # "Call"
    PROVE  /\ \A i \in DOMAIN node.args : node.args[i] \in Lowers(ctx)
           /\ IsSeq(node.args) /\ DOMAIN node.args = 1 .. Len(node.args)
           /\ node.op \in Ops
           /\ node.op \in Binary => Len(node.args) = 2
           /\ node.op \in Unary => Len(node.args) = 1
<1>1. OperandsFit(ctx, node.op, node.args) /\ node.op \in Ops
  BY DEF OpInv
<1>2. IsSeq(node.args) /\ DOMAIN node.args = 1 .. Len(node.args)
  BY <1>1, SeqShape DEF OperandsFit
<1>3. QED
  BY <1>1, <1>2 DEF Poisoned, OperandsFit, ValuesIn

\* The implementation that is picked: its operands are primitives that convert
\* to it, and it is alone or one of three at least.
LEMMA Picked ==
    ASSUME OpInv, ScanInv, Scanned, node.id # -1
    PROVE  Winner(node.op, node.args, Conds(node.op)[node.id + 1], node.cnt)
<1>1. PICK s : s = Conds(node.op)
  OBVIOUS
<1>2. PICK op : op = node.op
  OBVIOUS
<1>3. PICK args : args = node.args
  OBVIOUS
<1>4. /\ node.pc = "scan" /\ ~ Poisoned /\ node.cur = Len(s)
      /\ op \in Ops
  BY <1>1, <1>2 DEF Scanned, OpInv
<1>5. ListOK(op, s)
  BY <1>1, <1>2, <1>4, CondsKnown
<1>6. PICK n \in Nat : n = Len(s)
  BY <1>5, SeqShape DEF ListOK
<1>7. PICK k : k = node.id + 1
  OBVIOUS
<1>8. k \in 1 .. n /\ node.cnt \in Nat /\ node.weight \in Nat
  BY <1>4, <1>6, <1>7 DEF ScanInv, LocalsOK
<1>9. op \in BuiltInOps
  BY <1>5, <1>6, <1>8 DEF ListOK
<1>10. op # "Call"
  BY <1>9 DEF BuiltInOps, MathOps, CmpOps, IntOps, LogicOps, UnaryOps
<1>11. /\ \A i \in DOMAIN args : args[i] \in Lowers(ctx)
       /\ DOMAIN args = 1 .. Len(args)
       /\ op \in MathOps \cup CmpOps \cup IntOps \cup LogicOps => Len(args) = 2
       /\ op \in UnaryOps => Len(args) = 1
  BY <1>2, <1>3, <1>4, <1>10, NoError DEF Binary, Unary
<1>12. PICK W : W = [i \in 1 .. n |-> Weight(ctx, args, s[i])]
  OBVIOUS
<1>13. \A i \in 1 .. n : W[i] = Weight(ctx, args, s[i]) /\ W[i] \in Nat
  BY <1>12, WeightIsNat
<1>14. /\ \A i \in 1 .. n : W[k] <= W[i]
       /\ W[k] < Reject
       /\ node.cnt = Cardinality(Tied(n, W, W[k])) - 1
  <2>1. \A i \in 1 .. n : WeightAt(i) = W[i]
    BY <1>1, <1>2, <1>3, <1>13 DEF WeightAt
  <2>2. Seen = 1 .. n
    BY <1>4, <1>6 DEF Seen
  <2>3. {i \in Seen : WeightAt(i) = node.weight} = Tied(n, W, node.weight)
    BY <2>1, <2>2 DEF Tied
  <2>4. node.weight < Reject /\ W[k] = node.weight
        /\ node.cnt = Cardinality(Tied(n, W, node.weight)) - 1
    BY <1>4, <1>7, <1>8, <2>1, <2>3 DEF ScanInv, ScanFindsLeast
  <2>5. \A i \in 1 .. n : node.weight <= W[i]
    BY <1>4, <2>1, <2>2 DEF ScanInv, ScanFindsLeast
  <2>6. QED
    BY <2>4, <2>5
<1>15. \A i \in 1 .. n : IsPrimId(s[i])
  BY <1>5, <1>6 DEF ListOK, IsPrimId
<1>16. CtxOK(ctx)
  BY DEF OpInv
<1>17. ASSUME NEW j \in DOMAIN args
       PROVE  LET d == Decay(ctx, args[j]) IN
              \A i \in 1 .. n :
                 /\ IsPrim(ctx, d) => IsPrimId(d) /\ ArgWeight(ctx, args[j], s[i]) = Step(d, s[i])
                 /\ ~ IsPrim(ctx, d) => ArgWeight(ctx, args[j], s[i]) = Reject
                 /\ ArgWeight(ctx, args[j], s[i]) \in Nat
  BY <1>11, <1>15, <1>16, ArgSteps
<1>18. ASSUME NEW j \in DOMAIN args, ArgWeight(ctx, args[j], s[k]) < Reject
       PROVE  LET d == Decay(ctx, args[j]) IN
              /\ IsPrimId(d) /\ (d = s[k] \/ Leq(d, s[k]))
              /\ \A i \in 1 .. n : ArgWeight(ctx, args[j], s[i]) = Step(d, s[i])
  <2>1. IsPrim(ctx, Decay(ctx, args[j]))
    BY <1>8, <1>17, <1>18 DEF Reject
  <2>2. /\ IsPrimId(Decay(ctx, args[j]))
        /\ \A i \in 1 .. n : ArgWeight(ctx, args[j], s[i]) = Step(Decay(ctx, args[j]), s[i])
    BY <1>8, <1>17, <2>1, Zenon
  <2>3. Step(Decay(ctx, args[j]), s[k]) < Reject
    BY <1>8, <1>18, <2>2
  <2>4. QED
    BY <2>2, <2>3 DEF Step, Reject
<1>19. CASE Len(args) = 2
  <2>1. 1 \in DOMAIN args /\ 2 \in DOMAIN args
    BY <1>11, <1>19
  <2>2. \A i \in 1 .. n : W[i] = ArgWeight(ctx, args[1], s[i]) + ArgWeight(ctx, args[2], s[i])
    BY <1>13, <1>19 DEF Weight
  <2>3. /\ ArgWeight(ctx, args[1], s[k]) \in Nat /\ ArgWeight(ctx, args[2], s[k]) \in Nat
    BY <1>8, <1>17, <2>1
  <2>4. /\ ArgWeight(ctx, args[1], s[k]) < Reject
        /\ ArgWeight(ctx, args[2], s[k]) < Reject
    <3>1. ArgWeight(ctx, args[1], s[k]) + ArgWeight(ctx, args[2], s[k]) < Reject
      BY <1>8, <1>14, <2>2
    <3>2. QED
      BY <2>3, <3>1 DEF Reject
  <2>5. PICK x, y : x = Decay(ctx, args[1]) /\ y = Decay(ctx, args[2])
    OBVIOUS
  <2>6. /\ IsPrimId(x) /\ (x = s[k] \/ Leq(x, s[k]))
        /\ IsPrimId(y) /\ (y = s[k] \/ Leq(y, s[k]))
        /\ \A i \in 1 .. n : W[i] = Step(x, s[i]) + Step(y, s[i])
    BY <1>18, <2>1, <2>2, <2>4, <2>5
  <2>7. \A i \in DOMAIN args : LET d == Decay(ctx, args[i]) IN
           IsPrimId(d) /\ (d = s[k] \/ Leq(d, s[k]))
    <3>1. \A i \in DOMAIN args : i = 1 \/ i = 2
      BY <1>11, <1>19
    <3>2. QED
      BY <2>5, <2>6, <3>1
  <2>8. /\ Cardinality(Tied(n, W, W[k])) = 1 \/ Cardinality(Tied(n, W, W[k])) >= 3
        /\ Cardinality(Tied(n, W, W[k])) = 1 /\ op \in MathOps \cup CmpOps \cup IntOps =>
              s[k] = GreaterOf(x, y)
    <3>1. CASE op \in LogicOps
      <4>1. op \notin MathOps \cup CmpOps \cup IntOps /\ op \in UnaryOps \cup LogicOps
        BY <3>1 DEF LogicOps, MathOps, CmpOps, IntOps
      <4>2. Cardinality(Tied(n, W, W[k])) = 1
        <5>1. Weights(n, W) /\ LeastAt(n, W, k)
          BY <1>13, <1>14 DEF Weights, LeastAt
        <5>2. QED
          BY <1>1, <1>2, <1>4, <1>6, <1>8, <2>6, <3>1, <4>1, <5>1, OneBest
      <4>3. QED
        BY <4>1, <4>2
    <3>2. CASE op \in MathOps \cup CmpOps \cup IntOps
      <4>1. op \in Ops \cap IntOps \/ op \in MathOps \cup CmpOps
        BY <1>4, <3>2
      <4>2. \/ s[k] = GreaterOf(x, y) /\ Cardinality(Tied(n, W, W[k])) = 1
            \/ Cardinality(Tied(n, W, W[k])) >= 3
        <5>1. TwoStepsOf(n, W, s, x, y) /\ LeastAt(n, W, k) /\ W[k] < Reject
          BY <1>14, <2>6 DEF TwoStepsOf, LeastAt
        <5>2. QED
          BY <1>1, <1>2, <1>6, <1>8, <2>6, <4>1, <5>1, TwoPrimitives
      <4>3. QED
        BY <4>2
    <3>3. QED
      BY <1>9, <1>11, <1>19, <3>1, <3>2 DEF BuiltInOps
  <2>9. /\ node.cnt # 1
        /\ node.cnt = 0 /\ op \in MathOps \cup CmpOps \cup IntOps => s[k] = GreaterOf(x, y)
    <3>1. Cardinality(Tied(n, W, W[k])) \in Nat
      BY TiesCounted, FS_CardinalityType
    <3>2. QED
      BY <1>8, <1>14, <2>8, <3>1
  <2>10. Winner(op, args, s[k], node.cnt)
    BY <1>5, <1>6, <1>8, <1>9, <1>15, <2>5, <2>7, <2>9 DEF Winner, ListOK
  <2>11. QED
    BY <1>1, <1>2, <1>3, <1>7, <2>10
<1>20. CASE Len(args) = 1
  <2>1. 1 \in DOMAIN args /\ \A i \in DOMAIN args : i = 1
    BY <1>11, <1>20
  <2>2. \A i \in 1 .. n : W[i] = ArgWeight(ctx, args[1], s[i])
    <3>1. ASSUME NEW i \in 1 .. n PROVE W[i] = ArgWeight(ctx, args[1], s[i])
      <4>1. W[i] = ArgWeight(ctx, args[1], s[i]) + 0
        BY <1>13, <1>20 DEF Weight
      <4>2. QED
        BY <1>17, <2>1, <4>1
    <3>2. QED
      BY <3>1
  <2>3. ArgWeight(ctx, args[1], s[k]) < Reject
    BY <1>8, <1>14, <2>2
  <2>4. PICK x : x = Decay(ctx, args[1])
    OBVIOUS
  <2>5. /\ IsPrimId(x) /\ (x = s[k] \/ Leq(x, s[k]))
        /\ \A i \in 1 .. n : W[i] = Step(x, s[i])
    BY <1>18, <2>1, <2>2, <2>3, <2>4
  <2>6. \A i \in DOMAIN args : LET d == Decay(ctx, args[i]) IN
           IsPrimId(d) /\ (d = s[k] \/ Leq(d, s[k]))
    BY <2>1, <2>4, <2>5
  <2>7. op \in UnaryOps /\ op \notin MathOps \cup CmpOps \cup IntOps
    BY <1>9, <1>11, <1>20 DEF BuiltInOps, UnaryOps, MathOps, CmpOps, IntOps
  <2>8. Cardinality(Tied(n, W, W[k])) = 1
    <3>1. Weights(n, W) /\ LeastAt(n, W, k) /\ StepsOf(n, W, s, x)
      BY <1>13, <1>14, <2>5 DEF Weights, LeastAt, StepsOf
    <3>2. QED
      BY <1>1, <1>2, <1>4, <1>6, <1>8, <2>5, <2>7, <3>1, OneBest
  <2>9. node.cnt # 1
    BY <1>14, <2>8
  <2>10. Winner(op, args, s[k], node.cnt)
    BY <1>5, <1>6, <1>8, <1>9, <1>15, <2>6, <2>7, <2>9 DEF Winner, ListOK
  <2>11. QED
    BY <1>1, <1>2, <1>3, <1>7, <2>10
<1>21. QED
  BY <1>9, <1>11, <1>19, <1>20 DEF BuiltInOps

-----------------------------------------------------------------------------
(* Evaluations. *)

EvalFields == {"ctx", "ch", "errs", "ret", "oob"}

\* The operands as they were written.
Fresh(e) ==
    /\ DOMAIN e = EvalFields /\ CtxOK(e.ctx)
    /\ IsSeq(e.ch)
    /\ \A i \in DOMAIN e.ch : e.ch[i] \in IdsIn(e.ctx)
    /\ e.errs = FALSE /\ e.oob = FALSE

\* What evaluation e has become: its conversions were accepted, or an error was
\* reported.
After(e, f) ==
    /\ DOMAIN f = EvalFields /\ Grown(e.ctx, f.ctx)
    /\ IsSeq(f.ch) /\ Len(f.ch) = Len(e.ch)
    /\ \A i \in DOMAIN f.ch : f.ch[i] \in IdsIn(f.ctx)
    /\ f.errs \in BOOLEAN /\ f.oob \in BOOLEAN
    /\ f.oob => f.errs
    /\ ~ f.errs => \A i \in DOMAIN f.ch :
                      f.ch[i] = e.ch[i] \/ IsConvertable(f.ctx, e.ch[i], f.ch[i])

\* Nothing has been done.
LEMMA AtFirst == ASSUME NEW e, Fresh(e) PROVE After(e, e)
  BY DEF Fresh, After, Grown, Extends

\* A conversion that is expected of one more operand.
LEMMA Expecting ==
    ASSUME NEW e, Fresh(e), NEW f, After(e, f), NEW i \in DOMAIN f.ch, f.ch[i] = e.ch[i],
           NEW t \in IdsIn(f.ctx)
    PROVE  LET g == Expect(f, i, t) IN
           /\ After(e, g)
           /\ g.ctx = f.ctx /\ g.ret = f.ret
           /\ DOMAIN g.ch = DOMAIN f.ch /\ g.ch[i] = t
           /\ \A j \in DOMAIN f.ch : j # i => g.ch[j] = f.ch[j]
<1> DEFINE g == Expect(f, i, t)
<1>1. /\ Len(f.ch) \in Nat /\ DOMAIN f.ch = 1 .. Len(f.ch)
  BY SeqShape DEF After
<1>2. /\ DOMAIN g = EvalFields /\ g.ctx = f.ctx /\ g.ret = f.ret /\ g.oob = f.oob
      /\ g.ch = [f.ch EXCEPT ![i] = t]
      /\ g.errs = (f.errs \/ (f.ch[i] # t /\ ~ IsConvertable(f.ctx, f.ch[i], t)))
  <2>1. g = [f EXCEPT !.ch[i] = t,
                      !.errs = @ \/ (f.ch[i] # t /\ ~ IsConvertable(f.ctx, f.ch[i], t))]
    BY DEF Expect
  <2>2. DOMAIN f = EvalFields
    BY DEF After
  <2> HIDE DEF g
  <2>3. QED
    BY <2>1, <2>2 DEF EvalFields
<1> HIDE DEF g
<1>3. PICK s : s = g.ch
  OBVIOUS
<1>4. s = [j \in 1 .. Len(f.ch) |-> s[j]] /\ s[i] = t
      /\ \A j \in DOMAIN f.ch : j # i => s[j] = f.ch[j]
  BY <1>1, <1>2, <1>3
<1>5. IsSeq(s) /\ Len(s) = Len(f.ch) /\ DOMAIN s = DOMAIN f.ch
  BY <1>1, <1>4, FunctionShape
<1>6. \A j \in DOMAIN s : s[j] \in IdsIn(f.ctx)
  BY <1>4, <1>5 DEF After
<1>7. g.errs \in BOOLEAN /\ (~ g.errs => ~ f.errs /\ (f.ch[i] = t \/ IsConvertable(f.ctx, f.ch[i], t)))
  BY <1>2, Zenon DEF After
<1>8. ~ g.errs => \A j \in DOMAIN s : s[j] = e.ch[j] \/ IsConvertable(f.ctx, e.ch[j], s[j])
  BY <1>4, <1>5, <1>7 DEF After
<1>9. After(e, g)
  BY <1>2, <1>3, <1>5, <1>6, <1>7, <1>8 DEF After
<1>10. QED
  BY <1>2, <1>3, <1>4, <1>5, <1>9 DEF g

\* An answer.
LEMMA Giving ==
    ASSUME NEW e, NEW f, After(e, f), NEW t
    PROVE  LET g == Give(f, t) IN
           After(e, g) /\ g.ctx = f.ctx /\ g.ch = f.ch /\ g.errs = f.errs /\ g.ret = t
<1> DEFINE g == Give(f, t)
<1>1. DOMAIN f = EvalFields
  BY DEF After
<1>2. /\ DOMAIN g = EvalFields /\ g.ctx = f.ctx /\ g.ch = f.ch /\ g.errs = f.errs
      /\ g.oob = f.oob /\ g.ret = t
  BY <1>1 DEF EvalFields, Give
<1> HIDE DEF g
<1>3. After(e, g)
  BY <1>2 DEF After
<1>4. QED
  BY <1>2, <1>3 DEF g

\* A report.
LEMMA Reporting ==
    ASSUME NEW e, NEW f, After(e, f)
    PROVE  LET g == Report(f) IN
           After(e, g) /\ g.ctx = f.ctx /\ g.ch = f.ch /\ g.errs = TRUE /\ g.ret = f.ret
<1> DEFINE g == Report(f)
<1>1. DOMAIN f = EvalFields
  BY DEF After
<1>2. /\ DOMAIN g = EvalFields /\ g.ctx = f.ctx /\ g.ch = f.ch /\ g.errs = TRUE
      /\ g.oob = f.oob /\ g.ret = f.ret
  BY <1>1 DEF EvalFields, Report
<1> HIDE DEF g
<1>3. After(e, g)
  BY <1>2 DEF After
<1>4. QED
  BY <1>2, <1>3 DEF g

\* What is converted stays so when the context grows.
LEMMA Growing ==
    ASSUME NEW e, Fresh(e), NEW f, After(e, f), NEW g, DOMAIN g = EvalFields,
           Grown(f.ctx, g.ctx), g.ch = f.ch, g.errs = f.errs, g.oob = f.oob
    PROVE  After(e, g)
<1>1. Grown(e.ctx, g.ctx)
  BY GrownOn DEF After
<1>2. \A i \in DOMAIN g.ch : g.ch[i] \in IdsIn(g.ctx)
  BY OldTypes DEF After, Grown, Same
<1>3. DOMAIN f.ch = DOMAIN e.ch
  BY SeqShape DEF After, Fresh
<1>4. ASSUME NEW i \in DOMAIN f.ch
      PROVE  IsConvertable(g.ctx, e.ch[i], f.ch[i]) <=> IsConvertable(f.ctx, e.ch[i], f.ch[i])
  <2>1. e.ch[i] \in IdsIn(f.ctx)
    BY <1>3, OldTypes DEF Fresh, After, Grown, Same
  <2>2. f.ch[i] \in IdsIn(f.ctx) /\ CtxOK(f.ctx) /\ Extends(f.ctx, g.ctx)
    BY DEF After, Grown
  <2>3. QED
    BY <2>1, <2>2, OldConversions
<1>5. QED
  BY <1>1, <1>2, <1>4 DEF After

\* An answer that may have to be registered.
LEMMA Yielding ==
    ASSUME NEW e, Fresh(e), NEW f, After(e, f), NEW t, Candidate(f.ctx, t)
    PROVE  LET g == Yield(f, t) IN
           /\ After(e, g) /\ Grown(f.ctx, g.ctx)
           /\ g.ch = f.ch /\ g.errs = f.errs
           /\ g.ret \in IdsIn(g.ctx) /\ SameType(t, g.ctx.id_ptr_table[g.ret])
<1> DEFINE g == Yield(f, t)
<1>1. DOMAIN f = EvalFields /\ CtxOK(f.ctx)
  BY DEF After, Grown
<1>2. /\ DOMAIN g = EvalFields /\ g.ctx = GetOrCreate(f.ctx, t) /\ g.ch = f.ch
      /\ g.errs = f.errs /\ g.oob = f.oob /\ g.ret = Answer(f.ctx, t)
  BY <1>1 DEF EvalFields, Yield
<1> HIDE DEF g
<1>3. /\ Grown(f.ctx, g.ctx) /\ g.ret \in IdsIn(g.ctx)
      /\ SameType(t, g.ctx.id_ptr_table[g.ret])
  BY <1>1, <1>2, Adding
<1>4. After(e, g)
  BY <1>2, <1>3, Growing
<1>5. QED
  BY <1>2, <1>3, <1>4 DEF g

\* How the evaluation e of op ends.
Ends(e, op, f) == After(e, f) /\ Outcome(f.ctx, op, e.ch, f)

\* An evaluation that reports an error may end in any way.
LEMMA Reported ==
    ASSUME NEW e, NEW f, After(e, f), f.errs = TRUE, f.ret \in IdsIn(f.ctx), NEW op
    PROVE  Ends(e, op, f)
  BY DEF After, Outcome, Ends

\* One that fails does.
LEMMA Failing ==
    ASSUME NEW e, Fresh(e), NEW f, After(e, f), NEW op
    PROVE  LET g == Fail(f) IN Ends(e, op, g) /\ IsError(g.ctx, g.ret)
<1>1. PICK r : r = Report(f)
  OBVIOUS
<1>2. PICK g : g = Yield(r, ErrorTp)
  OBVIOUS
<1>3. After(e, r) /\ r.ctx = f.ctx /\ r.errs = TRUE
  BY <1>1, Reporting
<1>4. Candidate(r.ctx, ErrorTp)
  BY <1>3, Candidates DEF After, Grown
<1>5. After(e, g) /\ g.errs = TRUE /\ g.ret \in IdsIn(g.ctx)
      /\ SameType(ErrorTp, g.ctx.id_ptr_table[g.ret])
  BY <1>2, <1>3, <1>4, Yielding
<1>6. IsError(g.ctx, g.ret)
  BY <1>5 DEF SameType, IsError, KindOf, ErrorTp, Tp
<1>7. QED
  BY <1>1, <1>2, <1>5, <1>6, Reported DEF Fail

-----------------------------------------------------------------------------
(* What sp_op_eval does for each operator. *)

\* How an evaluation ends that answers with a type other than error.
LEMMA Settled ==
    ASSUME NEW e, NEW f, After(e, f), f.ret \in IdsIn(f.ctx),
           NEW op, op # "Call",
           f.ret = e.ch[1] \/ ~ IsError(f.ctx, f.ret),
           ~ f.errs => Answers(f.ctx, op, e.ch, f.ch, f.ret)
    PROVE  Ends(e, op, f)
  BY DEF After, Outcome, Ends

\* What the types of the operands are in an evaluation that has gone on.
LEMMA StillThere ==
    ASSUME NEW e, Fresh(e), NEW f, After(e, f), NEW t \in IdsIn(e.ctx)
    PROVE  Same(e.ctx, f.ctx, t)
  BY OldTypes DEF After, Grown

\* The address of a place or of an array.
LEMMA Addressed ==
    ASSUME NEW e, Fresh(e), NEW t \in IdsIn(e.ctx), Address(e, t)
    PROVE  LET d == Decay(e.ctx, t) IN
           /\ d \in IdsIn(e.ctx) /\ KindOf(e.ctx, d) \in {"Pointer", "Array"}
           /\ Sub(e.ctx, d) \in IdsIn(e.ctx)
           /\ KindOf(e.ctx, Sub(e.ctx, d)) \in Lowered \ {"Ref"}
           /\ Decay(e.ctx, Sub(e.ctx, d)) = Sub(e.ctx, d)
<1> DEFINE d == Decay(e.ctx, t)
<1>1. d \in IdsIn(e.ctx)
  BY DecayKnown DEF Fresh
<1>2. KindOf(e.ctx, d) \in {"Pointer", "Array"}
  BY DEF Address, IsPtr, IsArray
<1> HIDE DEF d
<1>3. Sub(e.ctx, d) \in IdsIn(e.ctx) /\ KindOf(e.ctx, Sub(e.ctx, d)) \in Lowered \ {"Ref"}
  BY <1>1, <1>2, SubKnown DEF Fresh
<1>4. Decay(e.ctx, Sub(e.ctx, d)) = Sub(e.ctx, d)
  BY <1>3, DecayKnown DEF Fresh, IsRef
<1>5. QED
  BY <1>1, <1>2, <1>3, <1>4 DEF d

\* An index is an integer for LLVM.
LEMMA Indexed ==
    ASSUME NEW e, Fresh(e), Listing(IntKind, 64, 0), NEW t \in Lowers(e.ctx), Indexes(e, t)
    PROVE  LlvmInt(e.ctx, Decay(e.ctx, t))
<1> DEFINE d == Decay(e.ctx, t)
           q == Int64Id
           c == e.ctx
<1>1. CtxOK(c)
  BY DEF Fresh
<1>2. q \in IdsIn(c) /\ IsPrim(c, q) /\ PrimOf(c, q).kind = IntKind
  BY <1>1, PrimIdKnown DEF Int64Id
<1>3. IsPrimId(q) /\ PrimOf(c, q) = PrimList[q + 1] /\ PrimList[q + 1] \in PrimRecord
  BY <1>1, <1>2, PrimEntry
<1>4. d \in IdsIn(c) /\ KindOf(c, d) \in Lowered \ {"Ref"}
  BY <1>1, DecayKnown DEF Lowers, IdsIn
<1>5. IsConvertable(c, d, q)
  BY DEF Indexes
<1> HIDE DEF d, q, c
<1>6. IsPrim(c, d) /\ Leq(d, q)
  BY <1>1, <1>3, <1>4, <1>5, ToPrim
<1>7. PrimOf(c, d) = PrimList[d + 1] /\ PrimList[d + 1] \in PrimRecord
  BY <1>1, <1>4, <1>6, PrimEntry
<1>8. PrimList[d + 1].kind # FloatKind
  BY <1>2, <1>3, <1>6, <1>7 DEF Leq, PrimLeq, PrimRecord, IntKind, FloatKind
<1>9. QED
  BY <1>6, <1>7, <1>8 DEF LlvmInt, d, c

\* as_ptr_type answers with a pointer.
LEMMA Pointing ==
    ASSUME NEW e, Fresh(e), NEW f, After(e, f), NEW t \in IdsIn(f.ctx),
           KindOf(f.ctx, Decay(f.ctx, t)) \in {"Pointer", "Array"}
    PROVE  LET g == AsPtr(f, t) IN
           /\ After(e, g) /\ Grown(f.ctx, g.ctx)
           /\ g.ch = f.ch /\ g.errs = f.errs
           /\ g.ret \in IdsIn(g.ctx) /\ IsPtr(g.ctx, g.ret)
           /\ IsPtr(f.ctx, Decay(f.ctx, t)) => g.ret = Decay(f.ctx, t) /\ g.ctx = f.ctx
<1> DEFINE d == Decay(f.ctx, t)
<1>1. CtxOK(f.ctx)
  BY DEF After, Grown
<1>2. d \in IdsIn(f.ctx)
  BY <1>1, DecayKnown
<1>3. AsPtr(f, t) = IF IsPtr(f.ctx, d) THEN Give(f, d) ELSE Yield(f, PtrTo(Sub(f.ctx, d)))
  BY DEF AsPtr
<1>4. Grown(f.ctx, f.ctx)
  BY <1>1 DEF Grown, Extends
<1>5. Sub(f.ctx, d) \in IdsIn(f.ctx) /\ KindOf(f.ctx, Sub(f.ctx, d)) \in Lowered \ {"Ref"}
  BY <1>1, <1>2, SubKnown
<1> HIDE DEF d
<1>6. CASE IsPtr(f.ctx, d)
  <2>1. PICK g : g = Give(f, d)
    OBVIOUS
  <2>2. After(e, g) /\ g.ctx = f.ctx /\ g.ch = f.ch /\ g.errs = f.errs /\ g.ret = d
    BY <2>1, Giving
  <2>3. QED
    BY <1>2, <1>3, <1>4, <1>6, <2>1, <2>2 DEF d
<1>7. CASE ~ IsPtr(f.ctx, d)
  <2>1. PICK p : p = PtrTo(Sub(f.ctx, d))
    OBVIOUS
  <2>2. Candidate(f.ctx, p) /\ p.kind = "Pointer"
    BY <1>1, <1>5, <2>1, Candidates DEF PtrTo, Tp
  <2>3. PICK g : g = Yield(f, p)
    OBVIOUS
  <2>4. /\ After(e, g) /\ Grown(f.ctx, g.ctx) /\ g.ch = f.ch /\ g.errs = f.errs
        /\ g.ret \in IdsIn(g.ctx) /\ SameType(p, g.ctx.id_ptr_table[g.ret])
    BY <2>2, <2>3, Yielding
  <2>5. IsPtr(g.ctx, g.ret)
    BY <2>2, <2>4 DEF SameType, IsPtr, KindOf
  <2>6. QED
    BY <1>3, <1>7, <2>1, <2>3, <2>4, <2>5 DEF d
<1>8. QED
  BY <1>6, <1>7

\* A pointer expected of an operand.
LEMMA PointerExpected ==
    ASSUME NEW e, Fresh(e), NEW f, After(e, f), NEW t \in IdsIn(f.ctx),
           KindOf(f.ctx, Decay(f.ctx, t)) \in {"Pointer", "Array"},
           NEW i \in DOMAIN f.ch, f.ch[i] = e.ch[i]
    PROVE  LET g == ExpectPtr(f, i, t) IN
           /\ After(e, g) /\ Grown(f.ctx, g.ctx)
           /\ DOMAIN g.ch = DOMAIN f.ch /\ g.ch[i] = g.ret
           /\ \A j \in DOMAIN f.ch : j # i => g.ch[j] = f.ch[j]
           /\ g.ret \in IdsIn(g.ctx) /\ IsPtr(g.ctx, g.ret)
           /\ IsPtr(f.ctx, Decay(f.ctx, t)) => g.ret = Decay(f.ctx, t) /\ g.ctx = f.ctx
<1>1. PICK p : p = AsPtr(f, t)
  OBVIOUS
<1>2. /\ After(e, p) /\ Grown(f.ctx, p.ctx)
      /\ p.ch = f.ch
      /\ p.ret \in IdsIn(p.ctx) /\ IsPtr(p.ctx, p.ret)
      /\ IsPtr(f.ctx, Decay(f.ctx, t)) => p.ret = Decay(f.ctx, t) /\ p.ctx = f.ctx
  BY <1>1, Pointing
<1>3. PICK g : g = Expect(p, i, p.ret)
  OBVIOUS
<1>4. i \in DOMAIN p.ch /\ p.ch[i] = e.ch[i]
  BY <1>2
<1>5. /\ After(e, g)
      /\ g.ctx = p.ctx /\ g.ret = p.ret
      /\ DOMAIN g.ch = DOMAIN p.ch /\ g.ch[i] = p.ret
      /\ \A j \in DOMAIN p.ch : j # i => g.ch[j] = p.ch[j]
  BY <1>2, <1>3, <1>4, Expecting
<1>6. ExpectPtr(f, i, t) = g
  BY <1>1, <1>3 DEF ExpectPtr
<1>7. QED
  BY <1>2, <1>5, <1>6

\* The operands of an evaluation that starts: each has values.
Operands(e, n) ==
    Fresh(e) /\ DOMAIN e.ch = 1 .. n /\ \A i \in 1 .. n : e.ch[i] \in Lowers(e.ctx)

\* Each of them is registered.
LEMMA OperandKnown ==
    ASSUME NEW e, NEW n, Operands(e, n), NEW i \in 1 .. n
    PROVE  /\ i \in DOMAIN e.ch /\ e.ch[i] \in IdsIn(e.ctx) /\ KindOf(e.ctx, e.ch[i]) \in Lowered
           /\ Decay(e.ctx, e.ch[i]) \in IdsIn(e.ctx)
           /\ KindOf(e.ctx, Decay(e.ctx, e.ch[i])) \in Lowered \ {"Ref"}
           /\ Decay(e.ctx, Decay(e.ctx, e.ch[i])) = Decay(e.ctx, e.ch[i])
<1>1. e.ch[i] \in Lowers(e.ctx) /\ CtxOK(e.ctx)
  BY DEF Operands, Fresh
<1>2. e.ch[i] \in IdsIn(e.ctx) /\ KindOf(e.ctx, e.ch[i]) \in Lowered
      /\ KindOf(e.ctx, Decay(e.ctx, e.ch[i])) \in Lowered
  BY <1>1 DEF Lowers, IdsIn
<1>3. QED
  BY <1>1, <1>2, DecayKnown DEF Operands

\* Assignments and updates.
LEMMA StoreEnds ==
    ASSUME NEW e, Operands(e, 2), NEW op \in StoreOps
    PROVE  /\ LET f == EvalAssign(e, e.ch[1]) IN Ends(e, op, f)
           /\ LET f == EvalUpdate(e, e.ch[1]) IN Ends(e, op, f)
<1> DEFINE l == e.ch[1]
<1>1. Fresh(e) /\ After(e, e)
  BY AtFirst DEF Operands
<1>2. 1 \in 1 .. 2 /\ 2 \in 1 .. 2
  OBVIOUS
<1>3. /\ 1 \in DOMAIN e.ch /\ 2 \in DOMAIN e.ch /\ l \in IdsIn(e.ctx)
      /\ Decay(e.ctx, l) \in IdsIn(e.ctx)
  BY <1>2, OperandKnown
<1>4. PICK x : x = Expect(e, 2, Decay(e.ctx, l))
  OBVIOUS
<1>5. /\ After(e, x) /\ x.ctx = e.ctx /\ x.ch[1] = l
  BY <1>1, <1>3, <1>4, Expecting
<1>6. ASSUME NEW y, After(e, y), y.ctx = e.ctx, y.ch[1] = l, NEW f, f = Give(y, l)
      PROVE  Ends(e, op, f)
  <2>1. After(e, f) /\ f.ctx = e.ctx /\ f.ch[1] = l /\ f.ret = l
    BY <1>6, Giving
  <2>2. f.ret \in IdsIn(f.ctx)
    BY <1>3, <2>1
  <2>3. op # "Call" /\ Answers(f.ctx, op, e.ch, f.ch, f.ret)
    BY <2>1 DEF Answers, StoreOps, UpdateOps, CmpOps, IntOps, LogicOps, UnaryOps
  <2>4. QED
    BY <2>1, <2>2, <2>3, Settled
<1>7. ASSUME NEW f, f = Fail(x) PROVE Ends(e, op, f)
  BY <1>1, <1>5, <1>7, Failing
<1>8. PICK r : r = Report(x)
  OBVIOUS
<1>9. After(e, r) /\ r.ctx = e.ctx /\ r.ch[1] = l
  BY <1>5, <1>8, Reporting
<1>10. EvalAssign(e, l) \in {Fail(x), Give(x, l)}
  BY <1>4 DEF EvalAssign
<1>11. EvalUpdate(e, l) \in {Fail(x), Give(x, l), Give(r, l)}
  BY <1>4, <1>8 DEF EvalUpdate
<1> HIDE DEF l
<1>12. \A f \in {Fail(x), Give(x, l), Give(r, l)} : Ends(e, op, f)
  BY <1>5, <1>6, <1>7, <1>9
<1>13. QED
  BY <1>10, <1>11, <1>12 DEF l

\* Indexing.
LEMMA AtEnds ==
    ASSUME NEW e, Operands(e, 2), Listing(IntKind, 64, 0)
    PROVE  LET f == EvalAt(e, e.ch[1]) IN Ends(e, "At", f)
<1> DEFINE l == e.ch[1]
<1>1. Fresh(e) /\ After(e, e)
  BY AtFirst DEF Operands
<1>2. 1 \in 1 .. 2 /\ 2 \in 1 .. 2
  OBVIOUS
<1>3. /\ 1 \in DOMAIN e.ch /\ 2 \in DOMAIN e.ch /\ l \in IdsIn(e.ctx)
      /\ Decay(e.ctx, l) \in IdsIn(e.ctx)
  BY <1>2, OperandKnown
<1>4. PICK d : d = Decay(e.ctx, l)
  OBVIOUS
<1>5. CASE ~ Address(e, l)
  <2>1. EvalAt(e, l) = Fail(e)
    BY <1>5 DEF EvalAt
  <2>2. QED
    BY <1>1, <2>1, Failing
<1>6. CASE Address(e, l)
  <2>1. /\ KindOf(e.ctx, d) \in {"Pointer", "Array"}
        /\ Sub(e.ctx, d) \in IdsIn(e.ctx)
        /\ KindOf(e.ctx, Sub(e.ctx, d)) \in Lowered \ {"Ref"}
        /\ Decay(e.ctx, Sub(e.ctx, d)) = Sub(e.ctx, d)
    BY <1>1, <1>3, <1>4, <1>6, Addressed
  <2>2. PICK x : x = IF IsPtr(e.ctx, d) THEN Expect(e, 1, d) ELSE e
    OBVIOUS
  <2>3. /\ After(e, x) /\ x.ctx = e.ctx /\ DOMAIN x.ch = DOMAIN e.ch /\ x.ch[2] = e.ch[2]
        /\ IsPtr(e.ctx, d) => x.ch[1] = d
        /\ ~ IsPtr(e.ctx, d) => x.ch[1] = l
    <3>1. CASE IsPtr(e.ctx, d)
      <4>1. x = Expect(e, 1, d)
        BY <2>2, <3>1
      <4>2. QED
        BY <1>1, <1>3, <1>4, <3>1, <4>1, Expecting
    <3>2. CASE ~ IsPtr(e.ctx, d)
      <4>1. x = e
        BY <2>2, <3>2
      <4>2. QED
        BY <1>1, <3>2, <4>1
    <3>3. QED
      BY <3>1, <3>2
  <2>4. Int64Id \in IdsIn(x.ctx)
    BY <1>1, <2>3, PrimIdKnown DEF Int64Id, Fresh
  <2>5. PICK y : y = Expect(x, 2, Int64Id)
    OBVIOUS
  <2>6. /\ After(e, y) /\ y.ctx = e.ctx /\ DOMAIN y.ch = DOMAIN e.ch /\ y.ch[1] = x.ch[1]
    <3>1. 2 \in DOMAIN x.ch /\ 1 \in DOMAIN x.ch /\ x.ch[2] = e.ch[2]
      BY <1>3, <2>3
    <3>2. QED
      BY <1>1, <2>3, <2>4, <2>5, <3>1, Expecting
  <2>7. PICK t : t = RefTo(Sub(e.ctx, d))
    OBVIOUS
  <2>8. Candidate(y.ctx, t) /\ t.kind = "Ref"
    BY <1>1, <2>1, <2>6, <2>7, Candidates DEF Fresh, RefTo, Tp
  <2>9. PICK f : f = Yield(y, t)
    OBVIOUS
  <2>10. /\ After(e, f) /\ f.ch = y.ch /\ f.ret \in IdsIn(f.ctx)
         /\ SameType(t, f.ctx.id_ptr_table[f.ret])
    BY <1>1, <2>6, <2>8, <2>9, Yielding
  <2>11. EvalAt(e, l) = f
    <3>1. EvalAt(e, l) = Yield(Expect(x, 2, Int64Id), RefTo(Decay(e.ctx, Sub(e.ctx, d))))
      BY <1>4, <1>6, <2>2, Zenon DEF EvalAt
    <3>2. QED
      BY <2>1, <2>5, <2>7, <2>9, <3>1
  <2>12. IsRef(f.ctx, f.ret)
    BY <2>8, <2>10 DEF SameType, IsRef, KindOf
  <2>13. Same(e.ctx, f.ctx, d) /\ Same(e.ctx, f.ctx, l)
    BY <1>1, <1>3, <1>4, <2>10, StillThere
  <2>14. IsPtr(f.ctx, f.ch[1]) \/ (IsArray(f.ctx, Decay(f.ctx, l)) /\ f.ch[1] = l)
    BY <1>4, <2>1, <2>3, <2>6, <2>10, <2>13 DEF Same, IsPtr, IsArray
  <2>15. Answers(f.ctx, "At", e.ch, f.ch, f.ret) /\ ~ IsError(f.ctx, f.ret)
    BY <2>12, <2>14 DEF Answers, UpdateOps, CmpOps, IntOps, LogicOps, UnaryOps, IsRef, IsError
  <2>16. QED
    BY <2>10, <2>11, <2>15, Settled
<1>7. QED
  BY <1>5, <1>6

\* The address of a place, and the place at an address.
LEMMA RefEnds ==
    ASSUME NEW e, Operands(e, 1)
    PROVE  LET f == EvalRef(e, e.ch[1]) IN Ends(e, "Ref", f)
<1> DEFINE x == e.ch[1]
<1>1. Fresh(e) /\ After(e, e)
  BY AtFirst DEF Operands
<1>2. /\ 1 \in DOMAIN e.ch /\ x \in IdsIn(e.ctx) /\ Decay(e.ctx, x) \in IdsIn(e.ctx)
      /\ KindOf(e.ctx, Decay(e.ctx, x)) \in Lowered \ {"Ref"}
  BY OperandKnown
<1>3. CASE ~ IsRef(e.ctx, x)
  <2>1. EvalRef(e, x) = Fail(e)
    BY <1>3 DEF EvalRef
  <2>2. QED
    BY <1>1, <2>1, Failing
<1>4. CASE IsRef(e.ctx, x)
  <2>1. PICK t : t = PtrTo(Decay(e.ctx, x))
    OBVIOUS
  <2>2. Candidate(e.ctx, t) /\ t.kind = "Pointer"
    BY <1>1, <1>2, <2>1, Candidates DEF Fresh, PtrTo, Tp
  <2>3. PICK f : f = Yield(e, t)
    OBVIOUS
  <2>4. /\ After(e, f) /\ f.ch = e.ch /\ f.ret \in IdsIn(f.ctx)
        /\ SameType(t, f.ctx.id_ptr_table[f.ret])
    BY <1>1, <2>2, <2>3, Yielding
  <2>5. EvalRef(e, x) = f
    BY <1>4, <2>1, <2>3 DEF EvalRef
  <2>6. IsPtr(f.ctx, f.ret)
    BY <2>2, <2>4 DEF SameType, IsPtr, KindOf
  <2>7. Same(e.ctx, f.ctx, x)
    BY <1>1, <1>2, <2>4, StillThere
  <2>8. IsRef(f.ctx, f.ch[1])
    BY <1>4, <2>4, <2>7 DEF Same, IsRef
  <2>9. Answers(f.ctx, "Ref", e.ch, f.ch, f.ret) /\ ~ IsError(f.ctx, f.ret)
    BY <2>6, <2>8 DEF Answers, UpdateOps, CmpOps, IntOps, LogicOps, UnaryOps, IsPtr, IsError
  <2>10. QED
    BY <2>4, <2>5, <2>9, Settled
<1>5. QED
  BY <1>3, <1>4

\* The place at an address.
LEMMA DeRefEnds ==
    ASSUME NEW e, Operands(e, 1)
    PROVE  LET f == EvalDeRef(e, e.ch[1]) IN Ends(e, "DeRef", f)
<1> DEFINE x == e.ch[1]
<1>1. Fresh(e) /\ After(e, e)
  BY AtFirst DEF Operands
<1>2. 1 \in DOMAIN e.ch /\ x \in IdsIn(e.ctx) /\ Decay(e.ctx, x) \in IdsIn(e.ctx)
  BY OperandKnown
<1>3. PICK d : d = Decay(e.ctx, x)
  OBVIOUS
<1>4. CASE ~ (IsPtr(e.ctx, d) /\ ~ IsVoid(e.ctx, Sub(e.ctx, d)))
  <2>1. EvalDeRef(e, x) = Fail(e)
    BY <1>3, <1>4 DEF EvalDeRef
  <2>2. QED
    BY <1>1, <2>1, Failing
<1>5. CASE IsPtr(e.ctx, d) /\ ~ IsVoid(e.ctx, Sub(e.ctx, d))
  <2>1. Sub(e.ctx, d) \in IdsIn(e.ctx) /\ KindOf(e.ctx, Sub(e.ctx, d)) \in Lowered \ {"Ref"}
    BY <1>1, <1>2, <1>3, <1>5, SubKnown DEF Fresh, IsPtr
  <2>2. PICK y : y = Expect(e, 1, d)
    OBVIOUS
  <2>3. After(e, y) /\ y.ctx = e.ctx /\ y.ch[1] = d
    BY <1>1, <1>2, <1>3, <2>2, Expecting
  <2>4. PICK t : t = RefTo(Sub(e.ctx, d))
    OBVIOUS
  <2>5. Candidate(y.ctx, t) /\ t.kind = "Ref"
    BY <1>1, <2>1, <2>3, <2>4, Candidates DEF Fresh, RefTo, Tp
  <2>6. PICK f : f = Yield(y, t)
    OBVIOUS
  <2>7. /\ After(e, f) /\ f.ch = y.ch /\ f.ret \in IdsIn(f.ctx)
        /\ SameType(t, f.ctx.id_ptr_table[f.ret])
    BY <1>1, <2>3, <2>5, <2>6, Yielding
  <2>8. EvalDeRef(e, x) = f
    BY <1>3, <1>5, <2>2, <2>4, <2>6 DEF EvalDeRef
  <2>9. IsRef(f.ctx, f.ret)
    BY <2>5, <2>7 DEF SameType, IsRef, KindOf
  <2>10. Same(e.ctx, f.ctx, d)
    BY <1>1, <1>2, <1>3, <2>7, StillThere
  <2>11. IsPtr(f.ctx, f.ch[1])
    BY <1>5, <2>3, <2>7, <2>10 DEF Same, IsPtr
  <2>12. Answers(f.ctx, "DeRef", e.ch, f.ch, f.ret) /\ ~ IsError(f.ctx, f.ret)
    BY <2>9, <2>11 DEF Answers, UpdateOps, CmpOps, IntOps, LogicOps, UnaryOps, IsRef, IsError
  <2>13. QED
    BY <2>7, <2>8, <2>12, Settled
<1>6. QED
  BY <1>4, <1>5

\* The length of an array, and a cast.
LEMMA OtherEnds ==
    ASSUME NEW e
    PROVE  /\ Operands(e, 1) /\ Listing(IntKind, 32, 0) =>
                 LET f == EvalLength(e, e.ch[1]) IN Ends(e, "Length", f)
           /\ Operands(e, 2) =>
                 LET f == EvalCast(e, e.ch[1], e.ch[2]) IN Ends(e, "Convert", f)
<1>1. ASSUME Operands(e, 1), Listing(IntKind, 32, 0), NEW f, f = EvalLength(e, e.ch[1])
      PROVE  Ends(e, "Length", f)
  <2>1. Fresh(e) /\ After(e, e)
    BY <1>1, AtFirst DEF Operands
  <2>2. CASE f = Fail(e)
    BY <2>1, <2>2, Failing
  <2>3. CASE f = Give(e, PrimId(IntKind, 32, 0))
    <3>1. PICK p : p = PrimId(IntKind, 32, 0)
      OBVIOUS
    <3>2. p \in IdsIn(e.ctx) /\ IsPrim(e.ctx, p)
      BY <1>1, <2>1, <3>1, PrimIdKnown DEF Fresh
    <3>3. After(e, f) /\ f.ctx = e.ctx /\ f.ret = p
      BY <2>1, <2>3, <3>1, Giving
    <3>4. Answers(f.ctx, "Length", e.ch, f.ch, f.ret)
      BY DEF Answers, UpdateOps, CmpOps, IntOps, LogicOps, UnaryOps
    <3>5. ~ IsError(f.ctx, f.ret)
      BY <3>2, <3>3 DEF IsPrim, IsError
    <3>6. QED
      BY <3>2, <3>3, <3>4, <3>5, Settled
  <2>4. QED
    BY <1>1, <2>2, <2>3 DEF EvalLength
<1>2. ASSUME Operands(e, 2), NEW f, f = EvalCast(e, e.ch[1], e.ch[2])
      PROVE  Ends(e, "Convert", f)
  <2>1. Fresh(e) /\ After(e, e)
    BY <1>2, AtFirst DEF Operands
  <2>2. PICK t : t = e.ch[2]
    OBVIOUS
  <2>3. t \in IdsIn(e.ctx) /\ ~ IsError(e.ctx, t)
    <3>1. 2 \in 1 .. 2
      OBVIOUS
    <3>2. t \in IdsIn(e.ctx) /\ KindOf(e.ctx, t) \in Lowered
      BY <1>2, <2>2, <3>1, OperandKnown
    <3>3. QED
      BY <3>2 DEF Lowered, IsError
  <2>4. PICK g : g = IF IsForceConvertable(e.ctx, e.ch[1], t) THEN e ELSE Report(e)
    OBVIOUS
  <2>5. f = Give(g, t)
    BY <1>2, <2>2, <2>4, Zenon DEF EvalCast
  <2>6. /\ After(e, g) /\ g.ctx = e.ctx
        /\ ~ g.errs => IsForceConvertable(e.ctx, e.ch[1], t)
    <3>1. /\ After(e, Report(e)) /\ Report(e).ctx = e.ctx /\ Report(e).errs = TRUE
      BY <2>1, Reporting
    <3>2. QED
      BY <2>1, <2>4, <3>1
  <2>7. After(e, f) /\ f.ctx = e.ctx /\ f.errs = g.errs /\ f.ret = t
    BY <2>5, <2>6, Giving
  <2>8. ~ f.errs => Answers(f.ctx, "Convert", e.ch, f.ch, f.ret)
    BY <2>2, <2>6, <2>7 DEF Answers, UpdateOps, CmpOps, IntOps, LogicOps, UnaryOps
  <2>9. QED
    BY <2>3, <2>7, <2>8, Settled
<1>3. QED
  BY <1>1, <1>2

\* What is an integer or a pointer stays one.
LEMMA StillNumber ==
    ASSUME NEW e, Fresh(e), NEW f, After(e, f), NEW t \in IdsIn(e.ctx)
    PROVE  /\ LlvmInt(f.ctx, t) <=> LlvmInt(e.ctx, t)
           /\ IsPtr(f.ctx, t) <=> IsPtr(e.ctx, t)
           /\ IsArray(f.ctx, t) <=> IsArray(e.ctx, t)
           /\ IsError(f.ctx, t) <=> IsError(e.ctx, t)
           /\ Decay(f.ctx, t) = Decay(e.ctx, t)
           /\ t \in IdsIn(f.ctx)
  BY StillThere DEF Same, LlvmInt, IsPrim, IsPtr, IsArray, IsError

\* A pointer moved by an integer.
LEMMA Shifted ==
    ASSUME NEW e, Operands(e, 2), Listing(IntKind, 64, 0),
           NEW i \in 1 .. 2, NEW j \in 1 .. 2, i # j, Address(e, e.ch[i]), Indexes(e, e.ch[j])
    PROVE  LET f == ExpectPtr(Expect(e, j, Decay(e.ctx, e.ch[j])), i, e.ch[i]) IN
           /\ After(e, f) /\ f.ret \in IdsIn(f.ctx) /\ IsPtr(f.ctx, f.ret)
           /\ IsPtr(f.ctx, f.ch[i]) /\ LlvmInt(f.ctx, f.ch[j])
<1>1. Fresh(e) /\ After(e, e)
  BY AtFirst DEF Operands
<1>2. /\ i \in DOMAIN e.ch /\ j \in DOMAIN e.ch
      /\ e.ch[i] \in IdsIn(e.ctx) /\ e.ch[j] \in IdsIn(e.ctx)
  BY OperandKnown
<1>3. PICK b : b = Decay(e.ctx, e.ch[j])
  OBVIOUS
<1>4. b \in IdsIn(e.ctx) /\ LlvmInt(e.ctx, b)
  <2>1. e.ch[j] \in Lowers(e.ctx)
    BY DEF Operands
  <2>2. QED
    BY <1>1, <1>3, <2>1, Indexed, OperandKnown
<1>5. PICK x : x = Expect(e, j, b)
  OBVIOUS
<1>6. /\ After(e, x) /\ x.ctx = e.ctx /\ DOMAIN x.ch = DOMAIN e.ch
      /\ x.ch[j] = b /\ x.ch[i] = e.ch[i]
  BY <1>1, <1>2, <1>4, <1>5, Expecting
<1>7. KindOf(x.ctx, Decay(x.ctx, e.ch[i])) \in {"Pointer", "Array"}
  BY <1>1, <1>2, <1>6, Addressed
<1>8. PICK f : f = ExpectPtr(x, i, e.ch[i])
  OBVIOUS
<1>9. /\ After(e, f)
      /\ f.ch[i] = f.ret /\ f.ch[j] = b
      /\ f.ret \in IdsIn(f.ctx) /\ IsPtr(f.ctx, f.ret)
  BY <1>1, <1>2, <1>6, <1>7, <1>8, PointerExpected
<1>10. LlvmInt(f.ctx, b)
  BY <1>1, <1>4, <1>9, StillNumber
<1>11. QED
  BY <1>3, <1>5, <1>8, <1>9, <1>10

\* Additions of an integer to a pointer.
LEMMA AddEnds ==
    ASSUME NEW e, Operands(e, 2), Listing(IntKind, 64, 0)
    PROVE  LET f == EvalAdd(e, e.ch[1], e.ch[2]) IN Ends(e, "Add", f)
<1>1. Fresh(e) /\ After(e, e)
  BY AtFirst DEF Operands
<1>2. PICK l, r : l = e.ch[1] /\ r = e.ch[2]
  OBVIOUS
<1>3. PICK f : f = EvalAdd(e, l, r)
  OBVIOUS
<1>4. ASSUME After(e, f), f.ret \in IdsIn(f.ctx), IsPtr(f.ctx, f.ret),
             \/ IsPtr(f.ctx, f.ch[1]) /\ LlvmInt(f.ctx, f.ch[2])
             \/ IsPtr(f.ctx, f.ch[2]) /\ LlvmInt(f.ctx, f.ch[1])
      PROVE  Ends(e, "Add", f)
  <2>1. Answers(f.ctx, "Add", e.ch, f.ch, f.ret) /\ ~ IsError(f.ctx, f.ret)
    BY <1>4 DEF Answers, UpdateOps, CmpOps, IntOps, LogicOps, UnaryOps, IsPtr, IsError
  <2>2. QED
    BY <1>4, <2>1, Settled
<1>5. CASE f = Fail(e)
  BY <1>1, <1>2, <1>3, <1>5, Failing
<1>6. CASE Address(e, l) /\ Indexes(e, r)
  <2>1. f = ExpectPtr(Expect(e, 2, Decay(e.ctx, r)), 1, l)
    BY <1>3, <1>6 DEF EvalAdd
  <2>2. 1 \in 1 .. 2 /\ 2 \in 1 .. 2 /\ 1 # 2
    OBVIOUS
  <2>3. QED
    BY <1>2, <1>3, <1>4, <1>6, <2>1, <2>2, Shifted
<1>7. CASE ~ Address(e, l) /\ Address(e, r) /\ Indexes(e, l)
  <2>1. f = ExpectPtr(Expect(e, 1, Decay(e.ctx, l)), 2, r)
    BY <1>3, <1>7 DEF EvalAdd
  <2>2. 1 \in 1 .. 2 /\ 2 \in 1 .. 2 /\ 1 # 2
    OBVIOUS
  <2>3. QED
    BY <1>2, <1>3, <1>4, <1>7, <2>1, <2>2, Shifted
<1>8. QED
  BY <1>3, <1>5, <1>6, <1>7 DEF EvalAdd

\* What an address converts to, or what converts to it, is an address.
LEMMA CommonAddress ==
    ASSUME NEW c, CtxOK(c), NEW a \in IdsIn(c), KindOf(c, a) \in {"Pointer", "Array"},
           NEW b \in IdsIn(c), KindOf(c, b) \in Lowered \ {"Ref"},
           IsConvertable(c, a, b) \/ IsConvertable(c, b, a)
    PROVE  GreaterType(c, a, b) \in {a, b}
           /\ KindOf(c, GreaterType(c, a, b)) \in {"Pointer", "Array"}
<1>1. Decay(c, a) = a /\ Decay(c, b) = b /\ ~ IsRef(c, a)
  BY DEF Decay, KindOf, IsRef
<1>2. ~ SameFunc(c, a, b)
  BY <1>1 DEF SameFunc, IsFunc
<1>3. GreaterType(c, a, b) = IF a = b \/ IsConvertable(c, a, b) THEN b ELSE a
  BY <1>1, <1>2 DEF GreaterType
<1>4. ASSUME IsConvertable(c, a, b) PROVE a = b \/ KindOf(c, b) = "Pointer"
  <2>1. KindOf(c, b) # "Trait" /\ KindOf(c, b) # "Error"
    BY DEF CtxOK, PartsOK, Part, DeclaredKinds, KindOf, IdsIn, Lowered
  <2>2. ConvertsPlain(c, a, b)
    BY <1>1, <1>4 DEF IsConvertable
  <2>3. QED
    BY <2>1, <2>2 DEF ConvertsPlain, IsError, WithTrait, PtrConverts, IsPtr
<1>5. QED
  BY <1>3, <1>4

\* A difference of an address and an integer.
LEMMA SubIndexEnds ==
    ASSUME NEW e, Operands(e, 2), Listing(IntKind, 64, 0),
           Address(e, e.ch[1]), Indexes(e, e.ch[2])
    PROVE  LET f == EvalSub(e, e.ch[1], e.ch[2]) IN Ends(e, "Sub", f)
<1>1. Fresh(e) /\ After(e, e)
  BY AtFirst DEF Operands
<1>2. PICK l, r : l = e.ch[1] /\ r = e.ch[2]
  OBVIOUS
<1>3. PICK a, b : a = Decay(e.ctx, l) /\ b = Decay(e.ctx, r)
  OBVIOUS
<1>4. 1 \in 1 .. 2 /\ 2 \in 1 .. 2
  OBVIOUS
<1>5. /\ 1 \in DOMAIN e.ch /\ 2 \in DOMAIN e.ch /\ l \in IdsIn(e.ctx)
      /\ a \in IdsIn(e.ctx) /\ b \in IdsIn(e.ctx)
      /\ Decay(e.ctx, a) = a
  BY <1>2, <1>3, <1>4, OperandKnown
<1>6. KindOf(e.ctx, a) \in {"Pointer", "Array"}
  BY <1>1, <1>2, <1>3, <1>5, Addressed
<1>7. LlvmInt(e.ctx, b)
  <2>1. r \in Lowers(e.ctx)
    BY <1>2, <1>4 DEF Operands
  <2>2. QED
    BY <1>1, <1>2, <1>3, <2>1, Indexed
<1>8. PICK p : p = ExpectPtr(e, 1, a)
  OBVIOUS
<1>9. /\ After(e, p)
      /\ DOMAIN p.ch = DOMAIN e.ch /\ p.ch[1] = p.ret /\ p.ch[2] = e.ch[2]
      /\ p.ret \in IdsIn(p.ctx) /\ IsPtr(p.ctx, p.ret)
      /\ IsPtr(e.ctx, a) => p.ret = a
  BY <1>1, <1>5, <1>6, <1>8, PointerExpected
<1>10. PICK q : q = Expect(p, 2, b)
  OBVIOUS
<1>11. b \in IdsIn(p.ctx)
  BY <1>1, <1>5, <1>9, StillNumber
<1>12. After(e, q) /\ q.ctx = p.ctx /\ q.ch[2] = b /\ q.ch[1] = p.ret
  BY <1>1, <1>5, <1>9, <1>10, <1>11, Expecting
<1>13. PICK f : f = Give(q, a)
  OBVIOUS
<1>14. After(e, f) /\ f.ctx = p.ctx /\ f.ch[1] = p.ret /\ f.ch[2] = b /\ f.ret = a
  BY <1>12, <1>13, Giving
<1>15. EvalSub(e, l, r) = f
  BY <1>2, <1>3, <1>8, <1>10, <1>13, Zenon DEF EvalSub
<1>16. /\ LlvmInt(f.ctx, b) /\ (IsPtr(f.ctx, a) <=> IsPtr(e.ctx, a))
       /\ (IsArray(f.ctx, a) <=> IsArray(e.ctx, a)) /\ ~ IsError(f.ctx, a)
       /\ Decay(f.ctx, l) = a /\ a \in IdsIn(f.ctx)
  BY <1>1, <1>3, <1>5, <1>6, <1>7, <1>14, StillNumber DEF IsError
<1>17. \/ IsArray(f.ctx, Decay(f.ctx, l))
       \/ IsPtr(f.ctx, f.ret) /\ IsPtr(f.ctx, f.ch[1]) /\ LlvmInt(f.ctx, f.ch[2])
  BY <1>6, <1>9, <1>14, <1>16 DEF IsArray, IsPtr
<1>18. Answers(f.ctx, "Sub", e.ch, f.ch, f.ret)
  BY <1>2, <1>17 DEF Answers, UpdateOps, CmpOps, IntOps, LogicOps, UnaryOps
<1>19. QED
  BY <1>2, <1>14, <1>15, <1>16, <1>18, Settled

\* A difference of two addresses.
LEMMA SubAddressEnds ==
    ASSUME NEW e, Operands(e, 2), Listing(IntKind, 64, 0),
           Address(e, e.ch[1]), ~ Indexes(e, e.ch[2]),
           LET a == Decay(e.ctx, e.ch[1])
               b == Decay(e.ctx, e.ch[2]) IN
           IsConvertable(e.ctx, b, a) \/ IsConvertable(e.ctx, a, b)
    PROVE  LET f == EvalSub(e, e.ch[1], e.ch[2]) IN Ends(e, "Sub", f)
<1>1. Fresh(e) /\ After(e, e) /\ CtxOK(e.ctx)
  BY AtFirst DEF Operands, Fresh
<1>2. PICK l, r : l = e.ch[1] /\ r = e.ch[2]
  OBVIOUS
<1>3. PICK a, b : a = Decay(e.ctx, l) /\ b = Decay(e.ctx, r)
  OBVIOUS
<1>4. 1 \in 1 .. 2 /\ 2 \in 1 .. 2 /\ 1 # 2
  OBVIOUS
<1>5. /\ 1 \in DOMAIN e.ch /\ 2 \in DOMAIN e.ch /\ l \in IdsIn(e.ctx)
      /\ a \in IdsIn(e.ctx) /\ b \in IdsIn(e.ctx)
      /\ KindOf(e.ctx, b) \in Lowered \ {"Ref"}
  BY <1>2, <1>3, <1>4, OperandKnown
<1>6. KindOf(e.ctx, a) \in {"Pointer", "Array"}
  BY <1>1, <1>2, <1>3, <1>5, Addressed
<1>7. PICK g : g = GreaterType(e.ctx, a, b)
  OBVIOUS
<1>8. g \in IdsIn(e.ctx) /\ KindOf(e.ctx, g) \in {"Pointer", "Array"}
  BY <1>1, <1>2, <1>3, <1>5, <1>6, <1>7, CommonAddress
<1>9. Decay(e.ctx, g) = g
  BY <1>8 DEF Decay, KindOf
<1>10. PICK p : p = AsPtr(e, g)
  OBVIOUS
<1>11. After(e, p) /\ p.ch = e.ch /\ p.ret \in IdsIn(p.ctx) /\ IsPtr(p.ctx, p.ret)
  BY <1>1, <1>8, <1>9, <1>10, Pointing
<1>12. PICK q : q = Expect(p, 1, p.ret)
  OBVIOUS
<1>13. /\ After(e, q) /\ q.ctx = p.ctx /\ DOMAIN q.ch = DOMAIN e.ch
       /\ q.ch[1] = p.ret /\ q.ch[2] = e.ch[2]
  BY <1>1, <1>4, <1>5, <1>11, <1>12, Expecting
<1>14. PICK s : s = Expect(q, 2, p.ret)
  OBVIOUS
<1>15. After(e, s) /\ s.ctx = p.ctx /\ s.ch[1] = p.ret /\ s.ch[2] = p.ret
  <2>1. 1 \in DOMAIN q.ch /\ 2 \in DOMAIN q.ch /\ p.ret \in IdsIn(q.ctx)
    BY <1>5, <1>11, <1>13
  <2>2. QED
    BY <1>1, <1>4, <1>13, <1>14, <2>1, Expecting
<1>16. PICK f : f = Give(s, Int64Id)
  OBVIOUS
<1>17. After(e, f) /\ f.ctx = p.ctx /\ f.ch[1] = p.ret /\ f.ch[2] = p.ret /\ f.ret = Int64Id
  BY <1>15, <1>16, Giving
<1>18. EvalSub(e, l, r) = f
  BY <1>2, <1>3, <1>7, <1>10, <1>12, <1>14, <1>16, Zenon DEF EvalSub
<1>19. Int64Id \in IdsIn(f.ctx) /\ LlvmInt(f.ctx, Int64Id)
  <2>1. CtxOK(f.ctx)
    BY <1>17 DEF After, Grown
  <2>2. QED
    BY <2>1, IntIsLlvmInt DEF Int64Id
<1>20. Answers(f.ctx, "Sub", e.ch, f.ch, f.ret) /\ ~ IsError(f.ctx, f.ret)
  <2>1. IsPtr(f.ctx, f.ch[1]) /\ IsPtr(f.ctx, f.ch[2]) /\ LlvmInt(f.ctx, f.ret)
    BY <1>11, <1>17, <1>19
  <2>2. ~ IsError(f.ctx, f.ret)
    BY <2>1 DEF LlvmInt, IsPrim, IsError
  <2>3. QED
    BY <2>1, <2>2 DEF Answers, UpdateOps, CmpOps, IntOps, LogicOps, UnaryOps
<1>21. QED
  BY <1>2, <1>17, <1>18, <1>19, <1>20, Settled

\* Differences.
LEMMA SubEnds ==
    ASSUME NEW e, Operands(e, 2), Listing(IntKind, 64, 0)
    PROVE  LET f == EvalSub(e, e.ch[1], e.ch[2]) IN Ends(e, "Sub", f)
<1>1. Fresh(e) /\ After(e, e)
  BY AtFirst DEF Operands
<1>2. PICK a, b : a = Decay(e.ctx, e.ch[1]) /\ b = Decay(e.ctx, e.ch[2])
  OBVIOUS
<1>3. CASE Address(e, e.ch[1]) /\ Indexes(e, e.ch[2])
  BY <1>3, SubIndexEnds
<1>4. CASE /\ Address(e, e.ch[1]) /\ ~ Indexes(e, e.ch[2])
           /\ IsConvertable(e.ctx, b, a) \/ IsConvertable(e.ctx, a, b)
  BY <1>2, <1>4, SubAddressEnds
<1>5. CASE EvalSub(e, e.ch[1], e.ch[2]) = Fail(e)
  BY <1>1, <1>5, Failing
<1>6. QED
  BY <1>2, <1>3, <1>4, <1>5, Zenon DEF EvalSub

\* A context in which expressions are evaluated is a good one.
LEMMA CtxIsGood == CtxOK(ctx) => ConvInv /\ Canonical /\ Ids = IdsIn(ctx)
<1> SUFFICES ASSUME CtxOK(ctx) PROVE ConvInv /\ Canonical /\ Ids = IdsIn(ctx)
  OBVIOUS
<1>1. ConvInv
  BY DEF CtxOK, ConvInv, IInv
<1>2. Canonical
  BY <1>1, GoodIsCanonical DEF ConvInv
<1>3. QED
  BY <1>1, <1>2 DEF Ids, IdsIn

\* Comparisons of addresses.
LEMMA CmpEnds ==
    ASSUME NEW e, Operands(e, 2), e.ctx = ctx, Listing(BoolKind, 8, 1), NEW op \in CmpOps
    PROVE  LET f == EvalCmp(e, e.ch[1], e.ch[2]) IN Ends(e, op, f)
<1>1. Fresh(e) /\ After(e, e) /\ CtxOK(e.ctx)
  BY AtFirst DEF Operands, Fresh
<1>2. PICK l, r : l = e.ch[1] /\ r = e.ch[2]
  OBVIOUS
<1>3. PICK g : g = GreaterType(e.ctx, l, r)
  OBVIOUS
<1>4. 1 \in 1 .. 2 /\ 2 \in 1 .. 2 /\ 1 # 2
  OBVIOUS
<1>5. /\ 1 \in DOMAIN e.ch /\ 2 \in DOMAIN e.ch /\ l \in IdsIn(e.ctx) /\ r \in IdsIn(e.ctx)
      /\ Decay(e.ctx, l) \in IdsIn(e.ctx) /\ Decay(e.ctx, r) \in IdsIn(e.ctx)
  BY <1>2, <1>4, OperandKnown
<1>6. CASE EvalCmp(e, l, r) = Fail(e)
  BY <1>1, <1>2, <1>6, Failing
<1>7. CASE Address(e, l) /\ Address(e, r) /\ ~ IsVoid(e.ctx, g)
  <2>1. g \in {Decay(e.ctx, l), Decay(e.ctx, r)}
    <3>1. ~ SameFunc(e.ctx, l, r)
      BY <1>7 DEF SameFunc, Address, IsFunc, IsPtr, IsArray
    <3>2. g \in {Decay(e.ctx, l), Decay(e.ctx, r), VoidId(e.ctx)}
      BY <1>3, <3>1 DEF GreaterType
    <3>3. IsVoid(e.ctx, VoidId(e.ctx))
      BY <1>1, CtxIsGood, VoidFound
    <3>4. QED
      BY <1>7, <3>2, <3>3
  <2>2. g \in IdsIn(e.ctx) /\ (IsPtr(e.ctx, g) \/ IsArray(e.ctx, g))
    BY <1>5, <1>7, <2>1 DEF Address
  <2>3. PICK p : p = Expect(e, 1, g)
    OBVIOUS
  <2>4. /\ After(e, p) /\ p.ctx = e.ctx /\ DOMAIN p.ch = DOMAIN e.ch
        /\ p.ch[1] = g /\ p.ch[2] = e.ch[2]
    BY <1>1, <1>4, <1>5, <2>2, <2>3, Expecting
  <2>5. PICK q : q = Expect(p, 2, g)
    OBVIOUS
  <2>6. After(e, q) /\ q.ctx = e.ctx /\ q.ch[1] = g /\ q.ch[2] = g
    <3>1. 1 \in DOMAIN p.ch /\ 2 \in DOMAIN p.ch /\ g \in IdsIn(p.ctx)
      BY <1>5, <2>2, <2>4
    <3>2. QED
      BY <1>1, <1>4, <2>4, <2>5, <3>1, Expecting
  <2>7. PICK f : f = Give(q, BoolId)
    OBVIOUS
  <2>8. After(e, f) /\ f.ctx = e.ctx /\ f.ch[1] = g /\ f.ch[2] = g /\ f.ret = BoolId
    BY <2>6, <2>7, Giving
  <2>9. EvalCmp(e, l, r) = f
    BY <1>3, <1>7, <2>3, <2>5, <2>7, Zenon DEF EvalCmp
  <2>10. BoolId \in IdsIn(f.ctx) /\ LlvmInt(f.ctx, BoolId)
    BY <1>1, <2>8, IntIsLlvmInt DEF BoolId
  <2>11. ~ IsError(f.ctx, f.ret)
    BY <2>8, <2>10 DEF LlvmInt, IsPrim, IsError
  <2>12. Answers(f.ctx, op, e.ch, f.ch, f.ret)
    BY <2>2, <2>8, <2>10 DEF Answers, UpdateOps, CmpOps, IntOps, LogicOps, UnaryOps
  <2>13. op # "Call"
    BY DEF CmpOps
  <2>14. QED
    BY <1>2, <2>8, <2>9, <2>10, <2>11, <2>12, <2>13, Settled
<1>8. QED
  BY <1>3, <1>6, <1>7, Zenon DEF EvalCmp

-----------------------------------------------------------------------------
(* Calls. *)

\* The type that is called, and its parameters and result.
LEMMA CalleeKnown ==
    ASSUME NEW c, CtxOK(c), NEW x \in IdsIn(c), KindOf(c, Callee(c, x)) \in {"Func", "MemFunc"}
    PROVE  LET fn == Callee(c, x)
               ps == Params(c, fn)
               ret == Last(c.id_ptr_table[fn].args) IN
           /\ fn \in IdsIn(c)
           /\ IsSeq(ps) /\ Len(ps) \in Nat
           /\ \A i \in 1 .. Len(ps) : ps[i] \in IdsIn(c)
           /\ ret \in IdsIn(c) /\ KindOf(c, ret) \in Lowered
<1>1. PICK fn : fn = Callee(c, x)
  OBVIOUS
<1>2. PICK d : d = Decay(c, x)
  OBVIOUS
<1>3. d \in IdsIn(c)
  BY <1>2, DecayKnown
<1>4. fn \in IdsIn(c)
  <2>1. CASE IsPtr(c, d) /\ IsFunc(c, Sub(c, d))
    <3>1. fn = Sub(c, d)
      BY <1>1, <1>2, <2>1 DEF Callee
    <3>2. QED
      BY <1>3, <2>1, <3>1, SubKnown DEF IsPtr
  <2>2. CASE ~ (IsPtr(c, d) /\ IsFunc(c, Sub(c, d)))
    BY <1>1, <1>2, <1>3, <2>2 DEF Callee
  <2>3. QED
    BY <2>1, <2>2
<1>5. PICK t : t = c.id_ptr_table[fn]
  OBVIOUS
<1>6. /\ fn \in IdsOf(c) /\ IdsIn(c) = IdsOf(c) /\ t \in Type /\ c.tp_counter \in Nat
      /\ fn \in Nat /\ fn < c.tp_counter
  BY <1>4, <1>5, IdsNumbered
<1>7. Part(c, t) /\ Supported(c, t, fn)
  BY <1>4, <1>5, <1>6 DEF CtxOK, GoodContext, WellFounded, PartsOK, IdsIn
<1>8. \A k \in DOMAIN t.args : t.args[k] \in IdsIn(c)
  BY <1>6, <1>7 DEF Supported, IdsOf
<1>9. t.kind \in {"Func", "MemFunc"}
  BY <1>1, <1>5 DEF KindOf
<1>10. PICK xs : xs = t.args
  OBVIOUS
<1>11. xs \in Seq(Nat)
  BY <1>6, <1>10 DEF Type
<1>12. IsSeq(xs) /\ Len(xs) \in Nat /\ DOMAIN xs = 1 .. Len(xs)
       /\ \A k \in 1 .. Len(xs) : xs[k] \in IdsIn(c)
  BY <1>8, <1>10, <1>11, SeqIsSeq, SeqShape
<1>13. PICK n \in Nat : n = Len(xs) /\ n >= 1 /\ (t.kind # "Func" => n >= 2)
  BY <1>7, <1>9, <1>10, <1>12 DEF Part
<1>14. Last(xs) \in IdsIn(c) /\ KindOf(c, Last(xs)) \in Lowered
  <2>1. Last(xs) = xs[Len(xs)]
    BY DEF Last
  <2>2. QED
    BY <1>7, <1>9, <1>10, <1>12, <1>13, <2>1 DEF Part
<1>15. PICK ps : ps = Params(c, fn)
  OBVIOUS
<1>16. IsSeq(ps) /\ Len(ps) \in Nat /\ \A i \in 1 .. Len(ps) : ps[i] \in IdsIn(c)
  <2>1. CASE t.kind = "Func"
    <3>1. ps = Front(xs)
      BY <1>5, <1>10, <1>15, <2>1 DEF Params
    <3>2. /\ IsSeq(ps) /\ Len(ps) = n - 1
          /\ \A i \in 1 .. n - 1 : ps[i] = xs[i]
      <4>1. Len(xs) # 0
        BY <1>13
      <4>2. QED
        BY <1>12, <1>13, <3>1, <4>1, FrontShape
    <3>3. QED
      BY <1>12, <1>13, <3>2
  <2>2. CASE t.kind # "Func"
    <3>1. PICK u : u = Tail(xs)
      OBVIOUS
    <3>2. /\ IsSeq(u) /\ Len(u) = n - 1
          /\ \A i \in 1 .. n - 1 : u[i] = xs[i + 1]
      <4>1. Len(xs) # 0
        BY <1>13
      <4>2. QED
        BY <1>12, <1>13, <3>1, <4>1, TailShape
    <3>3. ps = Front(u)
      BY <1>5, <1>10, <1>15, <2>2, <3>1 DEF Params
    <3>4. Len(u) # 0
      BY <1>12, <1>13, <2>2, <3>2
    <3>5. /\ IsSeq(ps) /\ Len(ps) = Len(u) - 1
          /\ \A i \in 1 .. Len(u) - 1 : ps[i] = u[i]
      BY <3>2, <3>3, <3>4, FrontShape
    <3>6. ASSUME NEW i \in 1 .. Len(ps) PROVE ps[i] \in IdsIn(c)
      <4>1. i \in 1 .. Len(u) - 1 /\ i \in 1 .. n - 1 /\ i + 1 \in 1 .. n
        BY <1>13, <3>2, <3>5
      <4>2. QED
        BY <1>12, <1>13, <3>2, <3>5, <4>1
    <3>7. QED
      BY <1>12, <1>13, <2>2, <3>2, <3>5, <3>6
  <2>3. QED
    BY <2>1, <2>2
<1>17. QED
  BY <1>1, <1>4, <1>5, <1>10, <1>14, <1>15, <1>16

\* The promotion of a primitive has 32 bits at least.
LEMMA PromotedWide ==
    ASSUME NEW p \in PrimRecord
    PROVE  Promoted(p) = [kind |-> Promoted(p).kind, siz |-> Promoted(p).siz,
                          unsig |-> Promoted(p).unsig]
           /\ Promoted(p).siz >= 32
<1>1. p.siz \in Nat
  BY DEF PrimRecord
<1>2. PICK lim : lim = (IF p.kind = FloatKind THEN 64 ELSE 32) /\ lim \in Nat /\ lim >= 32
  OBVIOUS
<1>3. PICK q : q = [kind |-> IF p.kind > IntKind THEN p.kind ELSE IntKind,
                    siz |-> IF p.siz > lim THEN p.siz ELSE lim,
                    unsig |-> p.unsig]
  OBVIOUS
<1>4. Promoted(p) = q
  BY <1>2, <1>3, Zenon DEF Promoted
<1>5. QED
  BY <1>1, <1>2, <1>3, <1>4

\* What a variadic argument is passed as.
LEMMA UpperKnown ==
    ASSUME NEW c, CtxOK(c), "Call" \in Ops, NEW t \in IdsIn(c)
    PROVE  LET u == UpperType(c, t) IN
           u \in IdsIn(c) /\ (IsPrim(c, u) => PrimOf(c, u).siz >= 32)
<1>1. PICK d : d = Decay(c, t)
  OBVIOUS
<1>2. d \in IdsIn(c)
  BY <1>1, DecayKnown
<1>3. CASE ~ IsPrim(c, d)
  BY <1>1, <1>2, <1>3 DEF UpperType
<1>4. CASE IsPrim(c, d)
  <2>1. PICK p : p = Promoted(PrimOf(c, d))
    OBVIOUS
  <2>2. IsPrimId(d) /\ PrimOf(c, d) = PrimList[d + 1] /\ PrimList[d + 1] \in PrimRecord
    BY <1>2, <1>4, PrimEntry
  <2>3. Listing(p.kind, p.siz, p.unsig)
    BY <2>1, <2>2, OperatorsAssumption DEF IsPrimId
  <2>4. p.siz >= 32
    BY <2>1, <2>2, PromotedWide
  <2>5. PICK u : u = PrimId(p.kind, p.siz, p.unsig)
    OBVIOUS
  <2>6. u \in IdsIn(c) /\ PrimOf(c, u).siz = p.siz
    BY <2>3, <2>5, PrimIdKnown
  <2>7. UpperType(c, t) = u
    BY <1>1, <1>4, <2>1, <2>5 DEF UpperType
  <2>8. QED
    BY <2>4, <2>6, <2>7
<1>5. QED
  BY <1>3, <1>4

\* The context after one more argument.
Upper(c, args, n, i, before) ==
    IF i < n THEN c
    ELSE IF IsArray(c, Decay(c, args[i]))
         THEN GetOrCreate(before, PtrTo(Sub(c, Decay(c, args[i]))))
         ELSE before

\* The contexts after the first m arguments.
Uppers(f, c, args, n, m) == f = [i \in 0 .. m |-> Upper(c, args, n, i, f[i - 1])]

\* There are such contexts.
LEMMA UppersExist ==
    ASSUME NEW c, NEW args, NEW n \in Nat, n >= 1
    PROVE  \A m \in Nat : \E f : Uppers(f, c, args, n, m)
<1> DEFINE T == {m \in Nat : \E f : Uppers(f, c, args, n, m)}
<1>1. 0 \in T
  <2>1. PICK f : f = [i \in 0 .. 0 |-> c]
    OBVIOUS
  <2>2. \A i \in 0 .. 0 : Upper(c, args, n, i, f[i - 1]) = c
    BY DEF Upper
  <2>3. Uppers(f, c, args, n, 0)
    BY <2>1, <2>2 DEF Uppers
  <2>4. QED
    BY <2>3
<1>2. ASSUME NEW m \in Nat, m \in T PROVE m + 1 \in T
  <2>1. PICK f : Uppers(f, c, args, n, m)
    BY <1>2
  <2>2. PICK v : v = Upper(c, args, n, m + 1, f[m])
    OBVIOUS
  <2>3. PICK g : g = [i \in 0 .. m + 1 |-> IF i = m + 1 THEN v ELSE f[i]]
    OBVIOUS
  <2>4. /\ g[m + 1] = v /\ g[m] = f[m]
        /\ \A i \in 0 .. m : g[i] = f[i]
        /\ \A i \in 1 .. m : g[i - 1] = f[i - 1]
    BY <2>3
  <2>5. ASSUME NEW i \in 0 .. m PROVE g[i] = Upper(c, args, n, i, g[i - 1])
    <3>1. f[i] = Upper(c, args, n, i, f[i - 1])
      BY <2>1, Zenon DEF Uppers
    <3>2. CASE i = 0
      <4>1. \A b : Upper(c, args, n, i, b) = c
        BY <3>2 DEF Upper
      <4>2. QED
        BY <2>4, <3>1, <4>1
    <3>3. CASE i # 0
      <4>1. i \in 1 .. m
        BY <3>3
      <4>2. QED
        BY <2>4, <3>1, <4>1
    <3>4. QED
      BY <3>2, <3>3
  <2>6. g[m + 1] = Upper(c, args, n, m + 1, g[(m + 1) - 1])
    BY <2>2, <2>4
  <2>7. \A i \in 0 .. m + 1 : g[i] = Upper(c, args, n, i, g[i - 1])
    BY <2>5, <2>6
  <2>8. Uppers(g, c, args, n, m + 1)
    BY <2>3, <2>7 DEF Uppers
  <2>9. QED
    BY <2>8
<1>3. \A m \in Nat : m \in T
  <2> HIDE DEF T
  <2>1. QED
    BY <1>1, <1>2, Inductive
<1>4. QED
  BY <1>3

\* The variadic arguments leave a good context.
LEMMA WithUpperGrows ==
    ASSUME NEW c, CtxOK(c), NEW args, IsSeq(args),
           \A i \in DOMAIN args : args[i] \in IdsIn(c), NEW n \in Nat, n >= 1
    PROVE  Grown(c, WithUpper(c, args, n))
<1>1. PICK m \in Nat : m = Len(args) /\ DOMAIN args = 1 .. m
  BY SeqShape
<1>2. PICK f : f = CHOOSE g : Uppers(g, c, args, n, m)
  OBVIOUS
<1>3. WithUpper(c, args, n) = f[m]
  BY <1>1, <1>2, Zenon DEF WithUpper, Uppers, Upper
<1>4. Uppers(f, c, args, n, m)
  BY <1>1, <1>2, UppersExist
<1>5. \A i \in 0 .. m : f[i] = Upper(c, args, n, i, f[i - 1])
  BY <1>4, Zenon DEF Uppers
<1> DEFINE T == {i \in Nat : i <= m => Grown(c, f[i])}
<1>6. Grown(c, c)
  BY DEF Grown, Extends
<1>7. 0 \in T
  <2>1. f[0] = c
    BY <1>1, <1>5 DEF Upper
  <2>2. QED
    BY <1>6, <2>1
<1>8. ASSUME NEW i \in Nat, i \in T PROVE i + 1 \in T
  <2>1. SUFFICES ASSUME i + 1 <= m PROVE Grown(c, f[i + 1])
    OBVIOUS
  <2>2. Grown(c, f[i])
    BY <1>1, <1>8, <2>1
  <2>3. i + 1 \in 0 .. m /\ i + 1 \in 1 .. m /\ (i + 1) - 1 = i
    BY <1>1, <2>1
  <2>4. f[i + 1] = Upper(c, args, n, i + 1, f[i])
    BY <1>5, <2>3
  <2>5. PICK d : d = Decay(c, args[i + 1])
    OBVIOUS
  <2>6. d \in IdsIn(c)
    BY <1>1, <2>3, <2>5, DecayKnown
  <2>7. CASE ~ (i + 1 < n) /\ IsArray(c, d)
    <3>1. f[i + 1] = GetOrCreate(f[i], PtrTo(Sub(c, d)))
      BY <2>4, <2>5, <2>7, Zenon DEF Upper
    <3>2. Sub(c, d) \in IdsIn(c) /\ KindOf(c, Sub(c, d)) \in Lowered \ {"Ref"}
      BY <2>6, <2>7, SubKnown DEF IsArray
    <3>3. Sub(c, d) \in IdsIn(f[i]) /\ KindOf(f[i], Sub(c, d)) \in Lowered \ {"Ref"}
      BY <2>2, <3>2, OldTypes DEF Grown, Same
    <3>4. Grown(f[i], f[i + 1])
      BY <2>2, <3>1, <3>3, Candidates, Adding DEF Grown
    <3>5. QED
      BY <2>2, <3>4, GrownOn
  <2>8. CASE ~ (~ (i + 1 < n) /\ IsArray(c, d))
    <3>1. f[i + 1] \in {c, f[i]}
      BY <2>4, <2>5, <2>8 DEF Upper
    <3>2. QED
      BY <1>6, <2>2, <3>1
  <2>9. QED
    BY <2>7, <2>8
<1>9. m \in T
  <2> HIDE DEF T
  <2>1. QED
    BY <1>7, <1>8, Inductive
<1>10. QED
  BY <1>1, <1>3, <1>9

\* A function stays the one that is called.
LEMMA CalleeKept ==
    ASSUME NEW c, CtxOK(c), NEW d, Extends(c, d), NEW x \in IdsIn(c)
    PROVE  Callee(d, x) = Callee(c, x)
<1>1. PICK y : y = Decay(c, x)
  OBVIOUS
<1>2. y \in IdsIn(c)
  BY <1>1, DecayKnown
<1>3. Same(c, d, x) /\ Same(c, d, y)
  BY <1>2, OldTypes
<1>4. IsPtr(c, y) => Same(c, d, Sub(c, y))
  BY <1>2, SubKnown, OldTypes DEF IsPtr
<1>5. Decay(d, x) = y /\ Sub(d, y) = Sub(c, y)
      /\ (IsPtr(d, y) <=> IsPtr(c, y))
      /\ (IsPtr(c, y) => (IsFunc(d, Sub(c, y)) <=> IsFunc(c, Sub(c, y))))
  BY <1>1, <1>3, <1>4 DEF Same, IsPtr, IsFunc
<1>6. QED
  BY <1>1, <1>5, Zenon DEF Callee

\* Conversions expected of several operands.
LEMMA ExpectingEach ==
    ASSUME NEW e, Fresh(e), NEW f, After(e, f), NEW ts,
           \A i \in DOMAIN ts : ts[i] \in IdsIn(f.ctx),
           \A i \in DOMAIN ts \cap DOMAIN f.ch : f.ch[i] = e.ch[i],
           DOMAIN ts \subseteq DOMAIN f.ch \/ f.errs
    PROVE  LET g == ExpectEach(f, ts) IN
           /\ After(e, g)
           /\ g.ctx = f.ctx /\ g.ret = f.ret
           /\ f.errs => g.errs
           /\ DOMAIN g.ch = DOMAIN f.ch
           /\ \A i \in DOMAIN f.ch : g.ch[i] = IF i \in DOMAIN ts THEN ts[i] ELSE f.ch[i]
<1> DEFINE g == ExpectEach(f, ts)
           Bad == \E i \in DOMAIN ts \cap DOMAIN f.ch :
                     f.ch[i] # ts[i] /\ ~ IsConvertable(f.ctx, f.ch[i], ts[i])
           Out == ~ DOMAIN ts \subseteq DOMAIN f.ch
<1>1. /\ Len(f.ch) \in Nat /\ DOMAIN f.ch = 1 .. Len(f.ch)
  BY SeqShape DEF After
<1>2. /\ DOMAIN g = EvalFields /\ g.ctx = f.ctx /\ g.ret = f.ret
      /\ g.ch = [i \in DOMAIN f.ch |-> IF i \in DOMAIN ts THEN ts[i] ELSE f.ch[i]]
      /\ g.errs = (f.errs \/ Bad)
      /\ g.oob = (f.oob \/ Out)
  <2>1. g = [f EXCEPT !.oob = @ \/ Out,
                      !.ch = [i \in DOMAIN f.ch |-> IF i \in DOMAIN ts THEN ts[i] ELSE f.ch[i]],
                      !.errs = @ \/ Bad]
    BY DEF ExpectEach
  <2>2. DOMAIN f = EvalFields
    BY DEF After
  <2> HIDE DEF g, Bad, Out
  <2>3. QED
    BY <2>1, <2>2 DEF EvalFields
<1>3. PICK s : s = g.ch
  OBVIOUS
<1>4. f.errs \in BOOLEAN /\ f.oob \in BOOLEAN /\ (f.oob => f.errs) /\ (Out => f.errs)
  BY DEF After
<1> HIDE DEF g
<1>5. /\ s = [i \in 1 .. Len(f.ch) |-> s[i]]
      /\ \A i \in DOMAIN f.ch : s[i] = IF i \in DOMAIN ts THEN ts[i] ELSE f.ch[i]
  BY <1>1, <1>2, <1>3
<1>6. IsSeq(s) /\ Len(s) = Len(f.ch) /\ DOMAIN s = DOMAIN f.ch
  BY <1>1, <1>5, FunctionShape
<1>7. \A i \in DOMAIN s : s[i] \in IdsIn(f.ctx)
  BY <1>5, <1>6 DEF After
<1>8. ~ Bad => \A i \in DOMAIN ts \cap DOMAIN f.ch :
                  s[i] = f.ch[i] \/ IsConvertable(f.ctx, f.ch[i], s[i])
  BY <1>5
<1> HIDE DEF Bad, Out
<1>9. /\ g.errs \in BOOLEAN /\ g.oob \in BOOLEAN
      /\ g.oob => g.errs
      /\ f.errs => g.errs
      /\ ~ g.errs => ~ f.errs /\ ~ Bad
  BY <1>2, <1>4, Zenon
<1>10. ~ g.errs => \A i \in DOMAIN s : s[i] = e.ch[i] \/ IsConvertable(f.ctx, e.ch[i], s[i])
  BY <1>5, <1>6, <1>8, <1>9 DEF After
<1>11. After(e, g)
  BY <1>2, <1>3, <1>6, <1>7, <1>9, <1>10 DEF After
<1>12. QED
  BY <1>2, <1>3, <1>5, <1>6, <1>9, <1>11 DEF g

\* Calls.
LEMMA CallEnds ==
    ASSUME NEW e, Fresh(e), Len(e.ch) >= 1, "Call" \in Ops
    PROVE  LET f == EvalCall(e, e.ch) IN Ends(e, "Call", f)
<1> DEFINE c == e.ctx
           args == e.ch
<1>1. After(e, e) /\ CtxOK(c)
  BY AtFirst DEF Fresh
<1>2. PICK m \in Nat : m = Len(args) /\ DOMAIN args = 1 .. m /\ m >= 1
  BY SeqShape DEF Fresh
<1>3. /\ 1 \in DOMAIN args /\ args[1] \in IdsIn(c) /\ Decay(c, args[1]) \in IdsIn(c)
      /\ \A i \in DOMAIN args : args[i] \in IdsIn(c)
  BY <1>1, <1>2, DecayKnown DEF Fresh
<1>4. PICK x, fn : x = Decay(c, args[1]) /\ fn = Callee(c, args[1])
  OBVIOUS
<1>5. PICK f : f = IF fn # x THEN Expect(e, 1, x) ELSE e
  OBVIOUS
<1>6. /\ After(e, f) /\ f.ctx = c /\ DOMAIN f.ch = DOMAIN args
      /\ \A i \in DOMAIN args : i # 1 => f.ch[i] = args[i]
  <2>1. CASE fn # x
    BY <1>1, <1>3, <1>4, <1>5, <2>1, Expecting
  <2>2. CASE fn = x
    BY <1>1, <1>5, <2>2
  <2>3. QED
    BY <2>1, <2>2
<1>7. CASE KindOf(c, fn) \notin {"Func", "MemFunc"}
  <2>1. EvalCall(e, args) = Fail(f)
    BY <1>4, <1>5, <1>7, Zenon DEF EvalCall
  <2>2. QED
    BY <1>6, <2>1, Failing
<1>8. CASE KindOf(c, fn) \in {"Func", "MemFunc"}
  <2>1. PICK ps : ps = Params(c, fn)
    OBVIOUS
  <2>2. PICK ret : ret = Last(c.id_ptr_table[fn].args)
    OBVIOUS
  <2>3. /\ fn \in IdsIn(c)
        /\ IsSeq(ps) /\ Len(ps) \in Nat
        /\ \A i \in 1 .. Len(ps) : ps[i] \in IdsIn(c)
        /\ ret \in IdsIn(c) /\ KindOf(c, ret) \in Lowered
    BY <1>1, <1>3, <1>4, <1>8, <2>1, <2>2, CalleeKnown
  <2>4. PICK n \in Nat : n = Len(ps) + 1 /\ n >= 1
    BY <2>3
  <2>5. PICK g : g = IF IsCallable(c, fn, Len(args) - 1) THEN f ELSE Report(f)
    OBVIOUS
  <2>6. /\ After(e, g) /\ g.ctx = c /\ g.ch = f.ch
        /\ ~ g.errs => IsCallable(c, fn, m - 1)
    <3>1. PICK r : r = Report(f)
      OBVIOUS
    <3>2. After(e, r) /\ r.ctx = c /\ r.ch = f.ch /\ r.errs = TRUE
      BY <1>6, <3>1, Reporting
    <3>3. QED
      BY <1>2, <1>6, <2>5, <3>1, <3>2
  <2>7. IsCallable(c, fn, m - 1) => m >= n /\ (m > n => c.id_ptr_table[fn].flag)
    BY <2>1, <2>3, <2>4 DEF IsCallable
  <2>8. PICK k \in Nat : k = IF m > n THEN m ELSE n
    OBVIOUS
  <2>9. PICK ts : ts = [i \in 2 .. k |-> IF i <= n THEN ps[i - 1] ELSE UpperType(c, args[i])]
    OBVIOUS
  <2>10. /\ DOMAIN ts = 2 .. k
         /\ \A i \in 2 .. k : ts[i] = IF i <= n THEN ps[i - 1] ELSE UpperType(c, args[i])
    BY <2>9
  <2>11. ASSUME NEW i \in 2 .. k
         PROVE  /\ ts[i] \in IdsIn(c)
                /\ i > n /\ IsPrim(c, ts[i]) => PrimOf(c, ts[i]).siz >= 32
    <3>1. CASE i <= n
      <4>1. i - 1 \in 1 .. Len(ps)
        BY <2>3, <2>4, <3>1
      <4>2. QED
        BY <2>3, <2>10, <3>1, <4>1
    <3>2. CASE i > n
      <4>1. args[i] \in IdsIn(c) /\ ts[i] = UpperType(c, args[i])
        BY <1>2, <1>3, <2>8, <2>10, <3>2
      <4>2. QED
        BY <1>1, <4>1, UpperKnown
    <3>3. QED
      BY <3>1, <3>2
  <2>12. PICK h : h = ExpectEach(g, ts)
    OBVIOUS
  <2>13. /\ After(e, h) /\ h.ctx = c /\ (g.errs => h.errs)
         /\ DOMAIN h.ch = DOMAIN args
         /\ \A i \in 2 .. m : h.ch[i] = ts[i]
    <3>1. \A i \in DOMAIN ts : ts[i] \in IdsIn(g.ctx)
      BY <2>6, <2>10, <2>11
    <3>2. \A i \in DOMAIN ts \cap DOMAIN g.ch : g.ch[i] = e.ch[i]
      BY <1>6, <2>6, <2>10
    <3>3. DOMAIN ts \subseteq DOMAIN g.ch \/ g.errs
      BY <1>2, <1>6, <2>6, <2>7, <2>8, <2>10
    <3>4. Fresh(e)
      OBVIOUS
    <3>5. /\ After(e, h) /\ h.ctx = g.ctx
          /\ g.errs => h.errs
          /\ DOMAIN h.ch = DOMAIN g.ch
          /\ \A i \in DOMAIN g.ch : h.ch[i] = IF i \in DOMAIN ts THEN ts[i] ELSE g.ch[i]
      <4> HIDE DEF c, args
      <4>1. QED
        BY <2>6, <2>12, <3>1, <3>2, <3>3, <3>4, ExpectingEach
    <3>6. \A i \in 2 .. m : i \in DOMAIN ts /\ i \in DOMAIN args
      BY <1>2, <2>8, <2>10
    <3>7. QED
      BY <1>6, <2>6, <3>5, <3>6
  <2>14. PICK u : u = WithUpper(c, args, n + 1)
    OBVIOUS
  <2>15. Grown(c, u)
    BY <1>1, <1>3, <2>4, <2>14, WithUpperGrows DEF Fresh
  <2>16. PICK v : v = [h EXCEPT !.ctx = u]
    OBVIOUS
  <2>17. After(e, v) /\ v.ctx = u /\ v.ch = h.ch /\ v.errs = h.errs
    <3>1. DOMAIN h = EvalFields
      BY <2>13 DEF After
    <3>2. /\ DOMAIN v = EvalFields /\ v.ctx = u /\ v.ch = h.ch /\ v.errs = h.errs
          /\ v.oob = h.oob
      BY <2>16, <3>1 DEF EvalFields
    <3>3. Grown(h.ctx, v.ctx)
      BY <2>13, <2>15, <3>2
    <3>4. QED
      BY <2>13, <3>2, <3>3, Growing
  <2>18. PICK w : w = Give(v, ret)
    OBVIOUS
  <2>19. After(e, w) /\ w.ctx = u /\ w.ch = h.ch /\ w.errs = h.errs /\ w.ret = ret
    BY <2>17, <2>18, Giving
  <2>20. EvalCall(e, args) = w
    BY <1>4, <1>5, <1>8, <2>1, <2>2, <2>4, <2>5, <2>8, <2>9, <2>12, <2>14, <2>16, <2>18,
       <1>2, Zenon DEF EvalCall
  <2>21. CtxOK(u) /\ Extends(c, u)
    BY <2>15 DEF Grown
  <2>22. /\ ret \in IdsIn(u) /\ ~ IsError(u, ret)
         /\ KindOf(u, fn) = KindOf(c, fn) /\ u.id_ptr_table[fn] = c.id_ptr_table[fn]
    BY <2>3, <2>21, OldTypes DEF Same, IsError, Lowered
  <2>23. Callee(u, args[1]) = fn /\ Params(u, fn) = ps
    BY <1>1, <1>3, <1>4, <2>1, <2>21, <2>22, CalleeKept DEF Params
  <2>24. Len(w.ch) = m /\ Len(w.ch) \in Nat
    BY <1>2, <2>19 DEF After
  <2>25. ~ w.errs => Passes(u, args, w.ch)
    <3>1. SUFFICES ASSUME ~ w.errs PROVE Passes(u, args, w.ch)
      OBVIOUS
    <3>2. m >= n /\ (m > n => c.id_ptr_table[fn].flag)
      BY <2>6, <2>7, <2>13, <2>19, <3>1
    <3>3. ASSUME NEW i \in 2 .. m
          PROVE  IF i <= n THEN w.ch[i] = ps[i - 1]
                 ELSE IsPrim(u, w.ch[i]) => PrimOf(u, w.ch[i]).siz >= 32
      <4>1. i \in 2 .. k
        BY <2>8
      <4>2. w.ch[i] = ts[i]
        BY <2>13, <2>19
      <4>3. Same(c, u, ts[i])
        BY <2>11, <2>21, <4>1, OldTypes
      <4>4. CASE i <= n
        BY <2>10, <4>1, <4>2, <4>4
      <4>5. CASE i > n
        BY <2>4, <2>11, <4>1, <4>2, <4>3, <4>5 DEF Same, IsPrim
      <4>6. QED
        BY <2>4, <4>4, <4>5
    <3>4. QED
      BY <1>8, <2>4, <2>22, <2>23, <2>24, <3>2, <3>3 DEF Passes
  <2>26. Answers(u, "Call", args, w.ch, w.ret)
    BY DEF Answers, UpdateOps, CmpOps, IntOps, LogicOps, UnaryOps
  <2>27. Ends(e, "Call", w)
    BY <2>19, <2>22, <2>25, <2>26 DEF Ends, Outcome, After
  <2>28. QED
    BY <2>20, <2>27
<1>9. QED
  BY <1>7, <1>8

-----------------------------------------------------------------------------
(* sp_op_eval. *)

\* An evaluation starts with the operands as they were written.
LEMMA Starting ==
    ASSUME OpInv, node.pc = "scan"
    PROVE  /\ Fresh(Start) /\ Start.ctx = ctx /\ Start.ch = node.args
           /\ ~ Poisoned /\ node.op # "Call" => Operands(Start, Len(node.args))
<1>1. Start.ctx = ctx /\ Start.ch = node.args
  BY DEF Start, OpInv
<1>2. DOMAIN Start = EvalFields /\ Start.errs = FALSE /\ Start.oob = FALSE
  BY DEF Start, EvalFields
<1>3. CtxOK(ctx) /\ OperandsFit(ctx, node.op, node.args)
  BY DEF OpInv
<1>4. \A i \in DOMAIN node.args : node.args[i] \in IdsIn(ctx)
  BY <1>3 DEF OperandsFit, ValuesIn, Lowers, IdsIn
<1>5. Fresh(Start)
  BY <1>1, <1>2, <1>3, <1>4 DEF Fresh, OperandsFit
<1>6. ~ Poisoned /\ node.op # "Call" => Operands(Start, Len(node.args))
  BY <1>1, <1>5, NoError DEF Operands
<1>7. QED
  BY <1>1, <1>5, <1>6

\* The listings that an operator relies on.
LEMMA Listings ==
    ASSUME NEW op \in Ops
    PROVE  /\ op \in CmpOps \cup LogicOps \cup {"Not"} => Listing(BoolKind, 8, 1)
           /\ op \in {"At", "Add", "Sub"} => Listing(IntKind, 64, 0)
           /\ op = "Length" => Listing(IntKind, 32, 0)
<1>1. /\ Ops \cap (CmpOps \cup LogicOps \cup {"Not"}) # {} => Listing(BoolKind, 8, 1)
      /\ Ops \cap {"At", "Add", "Sub"} # {} => Listing(IntKind, 64, 0)
      /\ "Length" \in Ops => Listing(IntKind, 32, 0)
  BY OperatorsAssumption
<1>2. QED
  BY <1>1

\* What sp_op_eval does, by operator.
LEMMA SpecialCases ==
    ASSUME NEW e, NEW args, NEW op
    PROVE  /\ op = "Assign" => SpecialEval(e, op, args) = EvalAssign(e, args[1])
           /\ op \in UpdateOps => SpecialEval(e, op, args) = EvalUpdate(e, args[1])
           /\ op = "At" => SpecialEval(e, op, args) = EvalAt(e, args[1])
           /\ op = "Add" => SpecialEval(e, op, args) = EvalAdd(e, args[1], args[2])
           /\ op = "Sub" => SpecialEval(e, op, args) = EvalSub(e, args[1], args[2])
           /\ op = "Ref" => SpecialEval(e, op, args) = EvalRef(e, args[1])
           /\ op = "DeRef" => SpecialEval(e, op, args) = EvalDeRef(e, args[1])
           /\ op \in CmpOps => SpecialEval(e, op, args) = EvalCmp(e, args[1], args[2])
           /\ op = "Convert" => SpecialEval(e, op, args) = EvalCast(e, args[1], args[2])
           /\ op = "Call" => SpecialEval(e, op, args) = EvalCall(e, args)
           /\ op = "Length" => SpecialEval(e, op, args) = EvalLength(e, args[1])
           /\ op \notin {"Assign", "At", "Add", "Sub", "Ref", "DeRef", "Convert", "Call", "Length"}
                     \cup UpdateOps \cup CmpOps => SpecialEval(e, op, args) = Fail(e)
<1>1. /\ "Assign" \notin UpdateOps \cup CmpOps /\ "At" \notin UpdateOps \cup CmpOps
      /\ "Add" \notin UpdateOps \cup CmpOps /\ "Sub" \notin UpdateOps \cup CmpOps
      /\ "Ref" \notin UpdateOps \cup CmpOps /\ "DeRef" \notin UpdateOps \cup CmpOps
      /\ "Convert" \notin UpdateOps \cup CmpOps /\ "Call" \notin UpdateOps \cup CmpOps
      /\ "Length" \notin UpdateOps \cup CmpOps /\ UpdateOps \cap CmpOps = {}
  BY DEF UpdateOps, CmpOps
<1>2. QED
  BY <1>1 DEF SpecialEval

\* An operator without an implementation that fits.
LEMMA SpecialEnds ==
    ASSUME OpInv, Scanned, node.id = -1
    PROVE  LET f == SpecialEval(Start, node.op, node.args) IN Ends(Start, node.op, f)
<1>1. PICK e : e = Start
  OBVIOUS
<1>2. PICK op : op = node.op
  OBVIOUS
<1>3. PICK f : f = SpecialEval(e, op, e.ch)
  OBVIOUS
<1>4. node.pc = "scan" /\ ~ Poisoned /\ op \in Ops
  BY <1>2 DEF Scanned, OpInv
<1>5. Fresh(e) /\ e.ctx = ctx /\ e.ch = node.args /\ After(e, e)
  BY <1>1, <1>4, Starting, AtFirst
<1>6. /\ op # "Call" => Operands(e, Len(e.ch))
      /\ op \in Binary => Len(e.ch) = 2
      /\ op \in Unary => Len(e.ch) = 1
      /\ op = "Call" => Len(e.ch) >= 1
  BY <1>1, <1>2, <1>4, <1>5, Starting DEF OpInv, OperandsFit
<1>7. op \in Binary \cup Unary \cup {"Call"} /\ "Call" \notin Binary \cup Unary
  BY <1>4, OperatorsAssumption
  DEF Binary, Unary, MathOps, IntOps, LogicOps, CmpOps, UpdateOps, UnaryOps
<1>8. /\ op \in StoreOps \cup CmpOps \cup {"At", "Add", "Sub", "Convert"} => Operands(e, 2)
      /\ op \in {"Ref", "DeRef", "Length"} => Operands(e, 1)
  <2>1. StoreOps \cup CmpOps \cup {"At", "Add", "Sub", "Convert"} \subseteq Binary
    BY DEF StoreOps, Binary, MathOps
  <2>2. {"Ref", "DeRef", "Length"} \subseteq Unary
    BY DEF Unary
  <2>3. QED
    BY <1>6, <1>7, <2>1, <2>2
<1>9. CASE op \in UpdateOps
  <2>1. op \in StoreOps /\ f = EvalUpdate(e, e.ch[1])
    BY <1>3, <1>9, SpecialCases DEF StoreOps
  <2>2. QED
    BY <1>1, <1>2, <1>3, <1>5, <1>8, <2>1, StoreEnds
<1>10. CASE op = "Assign"
  <2>1. op \in StoreOps /\ f = EvalAssign(e, e.ch[1])
    BY <1>3, <1>10, SpecialCases DEF StoreOps
  <2>2. QED
    BY <1>1, <1>2, <1>3, <1>5, <1>8, <2>1, StoreEnds
<1>11. CASE op \in {"At", "Add", "Sub"}
  <2>1. Operands(e, 2) /\ Listing(IntKind, 64, 0)
    BY <1>4, <1>8, <1>11, Listings
  <2>2. /\ op = "At" => f = EvalAt(e, e.ch[1])
        /\ op = "Add" => f = EvalAdd(e, e.ch[1], e.ch[2])
        /\ op = "Sub" => f = EvalSub(e, e.ch[1], e.ch[2])
    BY <1>3, SpecialCases
  <2>3. QED
    BY <1>1, <1>2, <1>3, <1>5, <1>11, <2>1, <2>2, AtEnds, AddEnds, SubEnds
<1>12. CASE op \in {"Ref", "DeRef"}
  <2>1. Operands(e, 1)
    BY <1>8, <1>12
  <2>2. /\ op = "Ref" => f = EvalRef(e, e.ch[1])
        /\ op = "DeRef" => f = EvalDeRef(e, e.ch[1])
    BY <1>3, SpecialCases
  <2>3. QED
    BY <1>1, <1>2, <1>3, <1>5, <1>12, <2>1, <2>2, RefEnds, DeRefEnds
<1>13. CASE op \in CmpOps
  <2>1. Operands(e, 2) /\ Listing(BoolKind, 8, 1)
    BY <1>4, <1>8, <1>13, Listings
  <2>2. f = EvalCmp(e, e.ch[1], e.ch[2])
    BY <1>3, <1>13, SpecialCases
  <2>3. QED
    BY <1>1, <1>2, <1>3, <1>5, <1>13, <2>1, <2>2, CmpEnds
<1>14. CASE op \in {"Convert", "Length"}
  <2>1. /\ op = "Convert" => f = EvalCast(e, e.ch[1], e.ch[2])
        /\ op = "Length" => f = EvalLength(e, e.ch[1])
    BY <1>3, SpecialCases
  <2>2. op = "Length" => Listing(IntKind, 32, 0)
    BY <1>4, Listings
  <2>3. QED
    BY <1>1, <1>2, <1>3, <1>5, <1>8, <1>14, <2>1, <2>2, OtherEnds
<1>15. CASE op = "Call"
  <2>1. f = EvalCall(e, e.ch)
    BY <1>3, <1>15, SpecialCases
  <2>2. QED
    BY <1>1, <1>2, <1>3, <1>4, <1>5, <1>6, <1>15, <2>1, CallEnds
<1>16. CASE op \notin {"Assign", "At", "Add", "Sub", "Ref", "DeRef", "Convert", "Call", "Length"}
                   \cup UpdateOps \cup CmpOps
  <2>1. f = Fail(e)
    BY <1>3, <1>16, SpecialCases
  <2>2. QED
    BY <1>1, <1>2, <1>3, <1>5, <2>1, Failing
<1>17. QED
  BY <1>9, <1>10, <1>11, <1>12, <1>13, <1>14, <1>15, <1>16

-----------------------------------------------------------------------------
(* The implementation that is picked. *)

\* An operand that decays to a primitive below cond converts to cond.
LEMMA Fits ==
    ASSUME CtxOK(ctx), NEW x \in Lowers(ctx), NEW q, IsPrimId(q),
           IsPrimId(Decay(ctx, x)), Decay(ctx, x) = q \/ Leq(Decay(ctx, x), q)
    PROVE  IsConvertable(ctx, x, q)
<1>1. PICK d : d = Decay(ctx, x)
  OBVIOUS
<1>2. ConvInv
  BY CtxIsGood
<1>3. d \in IdsIn(ctx) /\ IsPrim(ctx, d)
  BY <1>1, PrimEntry
<1>4. Leq(d, q)
  BY <1>1, LeqTotal
<1>5. KindOf(ctx, d) \in Lowered \ {"Ref"}
  BY <1>3 DEF IsPrim, Lowered
<1>6. IsConvertable(ctx, d, q)
  BY <1>3, <1>4, <1>5, ToPrim
<1>7. QED
  BY <1>1, <1>2, <1>6, ThroughReference

\* The greater of two primitives is their common type.
LEMMA CommonPrim ==
    ASSUME CtxOK(ctx), NEW x \in Lowers(ctx), NEW y \in Lowers(ctx),
           IsPrimId(Decay(ctx, x)), IsPrimId(Decay(ctx, y))
    PROVE  GreaterType(ctx, x, y) = GreaterOf(Decay(ctx, x), Decay(ctx, y))
<1>1. PICK a, b : a = Decay(ctx, x) /\ b = Decay(ctx, y)
  OBVIOUS
<1>2. /\ a \in IdsIn(ctx) /\ IsPrim(ctx, a) /\ KindOf(ctx, a) \in Lowered \ {"Ref"}
      /\ b \in IdsIn(ctx) /\ IsPrim(ctx, b) /\ KindOf(ctx, b) \in Lowered \ {"Ref"}
  BY <1>1, PrimEntry DEF IsPrim, Lowered
<1>3. ~ SameFunc(ctx, x, y)
  BY <1>1, <1>2 DEF SameFunc, IsFunc, IsPrim
<1>4. /\ IsConvertable(ctx, a, b) <=> Leq(a, b)
      /\ IsConvertable(ctx, b, a) <=> Leq(b, a)
  BY <1>1, <1>2, ToPrim
<1>5. Leq(a, a) /\ (a # b => (Leq(a, b) <=> ~ Leq(b, a)))
  BY <1>1, LeqTotal
<1>6. QED
  BY <1>1, <1>3, <1>4, <1>5 DEF GreaterType, GreaterOf

\* The answer of the implementation is a primitive.
LEMMA ImplAnswer ==
    ASSUME CtxOK(ctx), NEW op \in Ops, NEW cond, IsPrimId(cond)
    PROVE  ImplRet(op, cond) \in IdsIn(ctx) /\ IsPrim(ctx, ImplRet(op, cond))
<1>1. cond \in IdsIn(ctx) /\ IsPrim(ctx, cond)
  BY PrimEntry
<1>2. op \in CmpOps => BoolId \in IdsIn(ctx) /\ IsPrim(ctx, BoolId)
  BY Listings, PrimIdKnown DEF BoolId
<1>3. QED
  BY <1>1, <1>2 DEF ImplRet

\* What holds of an evaluation f that picked an implementation.
FitsAll(f, op, args) ==
    IsError(f.ctx, f.ret) \/
        /\ f.errs = FALSE /\ f.ctx = ctx
        /\ \A i, j \in DOMAIN f.ch : f.ch[i] = f.ch[j]
        /\ op \in MathOps \cup CmpOps \cup IntOps =>
              f.ch[1] = GreaterType(ctx, args[1], args[2])

\* What choose comes to.
LEMMA ChooseEnds ==
    ASSUME OpInv, ScanInv, Scanned, node.id # -1
    PROVE  LET cond == Conds(node.op)[node.id + 1]
               f == IF node.cnt > 1 THEN Fail(Start)
                    ELSE Give(ExpectAll(Start, cond), ImplRet(node.op, cond)) IN
           Ends(Start, node.op, f) /\ FitsAll(f, node.op, node.args)
<1>1. PICK e : e = Start
  OBVIOUS
<1>2. PICK op : op = node.op
  OBVIOUS
<1>3. PICK cond : cond = Conds(node.op)[node.id + 1]
  OBVIOUS
<1>4. PICK args : args = node.args
  OBVIOUS
<1>5. Winner(op, args, cond, node.cnt)
  BY <1>2, <1>3, <1>4, Picked
<1>6. /\ op \in BuiltInOps /\ IsPrimId(cond) /\ node.cnt \in Nat /\ node.cnt # 1
      /\ op \in IntOps => cond + 1 \in IntPrims
      /\ op \in BoolOps => PrimList[cond + 1].kind = BoolKind
      /\ \A i \in DOMAIN args : IsPrimId(Decay(ctx, args[i]))
            /\ (Decay(ctx, args[i]) = cond \/ Leq(Decay(ctx, args[i]), cond))
      /\ node.cnt = 0 /\ op \in MathOps \cup CmpOps \cup IntOps =>
            cond = GreaterOf(Decay(ctx, args[1]), Decay(ctx, args[2]))
  BY <1>5, Zenon DEF Winner
<1>7. op # "Call"
  BY <1>6 DEF BuiltInOps, MathOps, CmpOps, IntOps, LogicOps, UnaryOps
<1>8. node.pc = "scan" /\ ~ Poisoned /\ op \in Ops /\ CtxOK(ctx)
  BY <1>2 DEF Scanned, OpInv
<1>9. /\ Fresh(e) /\ e.ctx = ctx /\ e.ch = args /\ After(e, e)
      /\ \A i \in DOMAIN args : args[i] \in Lowers(ctx)
      /\ op \in MathOps \cup CmpOps \cup IntOps => 1 \in DOMAIN args /\ 2 \in DOMAIN args
  <2>1. /\ \A i \in DOMAIN args : args[i] \in Lowers(ctx)
        /\ DOMAIN args = 1 .. Len(args)
        /\ op \in Binary => Len(args) = 2
    BY <1>2, <1>4, <1>7, <1>8, NoError
  <2>2. Fresh(e) /\ e.ctx = ctx /\ e.ch = args
    BY <1>1, <1>4, <1>8, Starting
  <2>3. After(e, e)
    BY <2>2, AtFirst
  <2>4. op \in MathOps \cup CmpOps \cup IntOps => 1 \in DOMAIN args /\ 2 \in DOMAIN args
    BY <2>1 DEF Binary
  <2>5. QED
    BY <2>1, <2>2, <2>3, <2>4
<1>10. CASE node.cnt > 1
  BY <1>1, <1>2, <1>9, <1>10, Failing DEF FitsAll
<1>11. CASE ~ (node.cnt > 1)
  <2>1. node.cnt = 0
    BY <1>6, <1>11
  <2>2. PICK ts : ts = [i \in DOMAIN e.ch |-> cond]
    OBVIOUS
  <2>3. cond \in IdsIn(ctx) /\ IsPrim(ctx, cond) /\ PrimOf(ctx, cond) = PrimList[cond + 1]
    BY <1>6, <1>8, PrimEntry
  <2>4. PICK g : g = ExpectEach(e, ts)
    OBVIOUS
  <2>5. /\ After(e, g) /\ g.ctx = ctx /\ DOMAIN g.ch = DOMAIN args
        /\ \A i \in DOMAIN args : g.ch[i] = cond
    <3>1. DOMAIN ts = DOMAIN e.ch /\ \A i \in DOMAIN ts : ts[i] = cond
      BY <2>2
    <3>2. \A i \in DOMAIN ts : ts[i] \in IdsIn(e.ctx)
      BY <1>9, <2>3, <3>1
    <3>3. /\ After(e, g)
          /\ g.ctx = e.ctx /\ DOMAIN g.ch = DOMAIN e.ch
          /\ \A i \in DOMAIN e.ch : g.ch[i] = IF i \in DOMAIN ts THEN ts[i] ELSE e.ch[i]
      BY <1>9, <2>4, <3>1, <3>2, ExpectingEach
    <3>4. QED
      BY <1>9, <3>1, <3>3
  <2>6. g.errs = FALSE
    <3>1. \A i \in DOMAIN args : IsConvertable(ctx, args[i], cond)
      BY <1>6, <1>8, <1>9, Fits
    <3>2. g.errs = (e.errs \/ \E i \in DOMAIN ts \cap DOMAIN e.ch :
                        e.ch[i] # ts[i] /\ ~ IsConvertable(e.ctx, e.ch[i], ts[i]))
      <4>1. PICK bad : bad = \E i \in DOMAIN ts \cap DOMAIN e.ch :
                        e.ch[i] # ts[i] /\ ~ IsConvertable(e.ctx, e.ch[i], ts[i])
        OBVIOUS
      <4>2. PICK out : out = ~ DOMAIN ts \subseteq DOMAIN e.ch
        OBVIOUS
      <4>3. PICK cs : cs = [i \in DOMAIN e.ch |-> IF i \in DOMAIN ts THEN ts[i] ELSE e.ch[i]]
        OBVIOUS
      <4>4. g = [e EXCEPT !.oob = @ \/ out, !.ch = cs, !.errs = @ \/ bad]
        BY <2>4, <4>1, <4>2, <4>3, Zenon DEF ExpectEach
      <4>5. DOMAIN e = EvalFields
        BY <1>9 DEF Fresh
      <4>6. g.errs = (e.errs \/ bad)
        BY <4>4, <4>5 DEF EvalFields
      <4>7. QED
        BY <4>1, <4>6
    <3>3. DOMAIN ts = DOMAIN args /\ \A i \in DOMAIN ts : ts[i] = cond
      BY <1>9, <2>2
    <3>4. e.errs = FALSE
      BY <1>9 DEF Fresh
    <3>5. QED
      BY <1>9, <3>1, <3>2, <3>3, <3>4
  <2>7. PICK r : r = ImplRet(op, cond)
    OBVIOUS
  <2>8. r \in IdsIn(ctx) /\ ~ IsError(ctx, r)
    BY <1>6, <1>8, <2>7, ImplAnswer DEF IsPrim, IsError
  <2>9. PICK f : f = Give(g, r)
    OBVIOUS
  <2>10. After(e, f) /\ f.ctx = ctx /\ f.ch = g.ch /\ f.errs = FALSE /\ f.ret = r
    BY <2>5, <2>6, <2>9, Giving
  <2>11. op \in IntOps \cup LogicOps \cup {"Not"} => LlvmInt(ctx, cond)
    BY <1>6, <2>3 DEF LlvmInt, BoolOps, IntPrims, IntKind, BoolKind, FloatKind
  <2>12. BuiltIn(ctx, op, f.ch, r)
    BY <1>6, <2>3, <2>5, <2>7, <2>10, <2>11 DEF BuiltIn
  <2>13. Ends(e, op, f)
    BY <1>7, <2>8, <2>10, <2>12 DEF Ends, Outcome, After
  <2>14. op \in MathOps \cup CmpOps \cup IntOps => f.ch[1] = GreaterType(ctx, args[1], args[2])
    BY <1>6, <1>8, <1>9, <2>1, <2>5, <2>10, CommonPrim
  <2>15. FitsAll(f, op, args)
    BY <2>5, <2>10, <2>14 DEF FitsAll
  <2>16. Give(ExpectAll(e, cond), ImplRet(op, cond)) = f
    BY <2>2, <2>4, <2>7, <2>9 DEF ExpectAll
  <2>17. QED
    BY <1>1, <1>2, <1>3, <1>4, <1>11, <2>13, <2>15, <2>16
<1>12. QED
  BY <1>10, <1>11

-----------------------------------------------------------------------------
(* What a program declares. *)

\* At the start only the primitives and void are registered.
LEMMA InitCtx == Init => CtxOK(ctx)
<1> SUFFICES ASSUME Init PROVE CtxOK(ctx)
  OBVIOUS
<1>1. GoodContext(ctx) /\ PrimsListed(ctx)
  BY InitGood, InitListed DEF IInv
<1>2. ctx.id_ptr_table = Put(InitPrims, NPrim, Tp("Void", <<>>, 0, FALSE))
      /\ ctx.tp_counter = NPrim + 1
  BY DEF Init
<1>3. /\ DOMAIN ctx.id_ptr_table = 0 .. NPrim
      /\ \A i \in 0 .. NPrim - 1 : ctx.id_ptr_table[i] = Tp("Prim", <<>>, i + 1, FALSE)
      /\ ctx.id_ptr_table[NPrim] = Tp("Void", <<>>, 0, FALSE)
  BY <1>2, FirstEntries
<1>4. NPrim \in Nat
  BY TypeTableAssumption
<1>5. VoidKnown(ctx)
  <2>1. NPrim \in IdsOf(ctx)
    BY <1>2, <1>4 DEF IdsOf
  <2>2. UniqueName(Tp("Void", <<>>, 0, FALSE), NPrim) = <<"Void", <<>>, 0>>
    BY DEF UniqueName, Shape, Tp, Nominal
  <2>3. QED
    BY <1>1, <1>3, <2>1, <2>2 DEF GoodContext, Findable, VoidKnown
<1>6. PrimsKnown(ctx)
  <2>1. ASSUME NEW i \in 1 .. NPrim
        PROVE  i - 1 \in 0 .. NPrim - 1 /\ i - 1 \in 0 .. NPrim /\ (i - 1) + 1 = i
    BY <1>4
  <2>2. QED
    BY <1>3, <2>1 DEF PrimsKnown
<1>7. ASSUME NEW i \in 0 .. NPrim PROVE Part(ctx, ctx.id_ptr_table[i])
  <2>1. ctx.id_ptr_table[i].kind \in {"Prim", "Void"}
    <3>1. CASE i = NPrim
      BY <1>3, <3>1 DEF Tp
    <3>2. CASE i \in 0 .. NPrim - 1
      <4>1. ctx.id_ptr_table[i] = Tp("Prim", <<>>, i + 1, FALSE)
        BY <1>3, <3>2
      <4>2. QED
        BY <4>1 DEF Tp
    <3>3. QED
      BY <1>4, <3>1, <3>2
  <2>2. QED
    BY <2>1 DEF Part, DeclaredKinds
<1>8. QED
  BY <1>1, <1>3, <1>5, <1>6, <1>7 DEF CtxOK, PartsOK

\* Of a type that has values a reference, a pointer or an array may be declared.
LEMMA SubFits ==
    ASSUME CtxOK(ctx), NEW s \in Lowers(ctx), NEW kind \in {"Ref", "Pointer", "Array"},
           NEW n \in Nat, NEW flag \in BOOLEAN
    PROVE  Candidate(ctx, Tp(kind, <<Decay(ctx, s)>>, n, flag))
<1>1. PICK d : d = Decay(ctx, s)
  OBVIOUS
<1>2. d \in IdsIn(ctx) /\ KindOf(ctx, d) \in Lowered \ {"Ref"}
  <2>1. s \in IdsIn(ctx) /\ KindOf(ctx, Decay(ctx, s)) \in Lowered
    BY DEF Lowers, IdsIn
  <2>2. QED
    BY <1>1, <2>1, DecayKnown
<1>3. d \in Nat /\ d < ctx.tp_counter /\ ctx.tp_counter \in Nat
      /\ ctx.id_ptr_table[d].kind # "Ref"
  BY <1>2, IdsNumbered DEF KindOf
<1>4. Candidate(ctx, Tp(kind, <<d>>, n, flag))
  BY <1>2, <1>3
  DEF Candidate, Tp, Type, Kind, Leaf, Nominal, Supported, HasSubtype, Listed, Part, DeclaredKinds
<1>5. QED
  BY <1>1, <1>4

\* A primitive.
LEMMA PrimFits ==
    ASSUME CtxOK(ctx), NEW p \in 1 .. NPrim
    PROVE  Candidate(ctx, Tp("Prim", <<>>, p, FALSE))
<1>1. ctx.tp_counter \in Nat /\ p \in Nat
  BY IdsNumbered, TypeTableAssumption
<1>2. QED
  BY <1>1
  DEF Candidate, Tp, Type, Kind, Leaf, Nominal, Supported, HasSubtype, Listed, Part, DeclaredKinds

\* A function.
LEMMA FuncFits ==
    ASSUME CtxOK(ctx), NEW ps \in Lists, NEW ret \in Lowers(ctx), NEW vary \in BOOLEAN
    PROVE  Candidate(ctx, FuncTp(ps, ret, vary))
<1>1. PICK t : t = FuncTp(ps, ret, vary)
  OBVIOUS
<1>2. IInv /\ Ids = IdsIn(ctx)
  BY CtxIsGood DEF ConvInv
<1>3. ret \in Ids /\ KindOf(ctx, ret) \in Lowered
  BY <1>2 DEF Lowers, IdsIn
<1>4. t \in Type /\ HasSubtype(t) /\ Supported(ctx, t, ctx.tp_counter)
  BY <1>1, <1>2, <1>3, FuncSupported
<1>5. t.kind = "Func" /\ t.args = Append(ps, ret)
  BY <1>1 DEF FuncTp, Tp
<1>6. ps \in Seq(Ids)
  BY ListsAreSeqs
<1>7. Len(Append(ps, ret)) >= 1 /\ Last(Append(ps, ret)) = ret
  <2>1. Len(Append(ps, ret)) = Len(ps) + 1 /\ Len(ps) \in Nat
        /\ Append(ps, ret)[Len(ps) + 1] = ret
    BY <1>6
  <2>2. QED
    BY <2>1 DEF Last
<1>8. Part(ctx, t) /\ Listed(t) /\ t.kind \notin Nominal
  BY <1>3, <1>5, <1>7 DEF Part, Listed, Nominal, DeclaredKinds
<1>9. QED
  BY <1>1, <1>4, <1>8 DEF Candidate

\* What is in front goes with Tail.
LEMMA HeadGoes ==
    ASSUME NEW S, NEW x \in S, NEW zs \in Seq(S)
    PROVE  Tail(<<x>> \o zs) = zs
<1>1. PICK n \in Nat : n = Len(zs)
  OBVIOUS
<1>2. PICK xs : xs = <<x>> \o zs
  OBVIOUS
<1>3. <<x>> \in Seq(S) /\ Len(<<x>>) = 1
  OBVIOUS
<1>4. xs \in Seq(S) /\ Len(xs) = n + 1 /\ \A i \in 1 .. n : xs[i + 1] = zs[i]
  BY <1>1, <1>2, <1>3
<1>5. PICK ts : ts = Tail(xs)
  OBVIOUS
<1>6. ts \in Seq(S) /\ Len(ts) = n /\ \A i \in 1 .. n : ts[i] = xs[i + 1]
  BY <1>1, <1>4, <1>5
<1>7. ts = zs
  BY <1>1, <1>4, <1>6
<1>8. QED
  BY <1>2, <1>5, <1>7

\* A member function, after the function with its parameters and result.
LEMMA MemFuncFits ==
    ASSUME CtxOK(ctx), NEW parent \in Lowers(ctx), NEW ret \in Lowers(ctx), NEW ps \in Lists
    PROVE  LET c == GetOrCreate(ctx, FuncTp(ps, ret, FALSE))
               m == Tp("MemFunc", <<parent>> \o ps \o <<ret>>, 0, FALSE) IN
           Grown(ctx, c) /\ Candidate(c, m)
<1>1. PICK fn : fn = FuncTp(ps, ret, FALSE)
  OBVIOUS
<1>2. PICK c : c = GetOrCreate(ctx, fn)
  OBVIOUS
<1>3. PICK xs : xs = <<parent>> \o ps \o <<ret>>
  OBVIOUS
<1>4. PICK m : m = Tp("MemFunc", xs, 0, FALSE)
  OBVIOUS
<1>5. Candidate(ctx, fn) /\ fn.kind = "Func"
  BY <1>1, FuncFits DEF FuncTp, Tp
<1>6. Grown(ctx, c)
  BY <1>2, <1>5, Adding
<1>7. CtxOK(c) /\ Extends(ctx, c)
  BY <1>6 DEF Grown
<1>8. parent \in IdsIn(ctx) /\ ret \in IdsIn(ctx) /\ KindOf(ctx, ret) \in Lowered
      /\ IdsIn(ctx) \subseteq Nat
  BY IdsNumbered DEF Lowers, IdsIn
<1>9. ps \in Seq(IdsIn(ctx))
  BY ListsAreSeqs DEF Ids, IdsIn
<1>10. /\ xs \in Seq(IdsIn(ctx)) /\ Len(xs) >= 2 /\ Tail(xs) = Append(ps, ret)
       /\ Last(xs) = ret
  <2>1. PICK n \in Nat : n = Len(ps)
    BY <1>9
  <2>2. xs \in Seq(IdsIn(ctx)) /\ Len(xs) = n + 2 /\ xs[n + 2] = ret
    BY <1>3, <1>8, <1>9, <2>1
  <2>3. Tail(xs) = Append(ps, ret)
    <3>1. PICK zs : zs = ps \o <<ret>>
      OBVIOUS
    <3>2. zs \in Seq(IdsIn(ctx)) /\ zs = Append(ps, ret)
      BY <1>8, <1>9, <3>1
    <3>3. xs = <<parent>> \o zs
      BY <1>3, <1>8, <1>9, <3>1
    <3>4. Tail(xs) = zs
      BY <1>8, <3>2, <3>3, HeadGoes
    <3>5. QED
      BY <3>2, <3>4
  <2>4. QED
    BY <2>1, <2>2, <2>3 DEF Last
<1>11. m.kind = "MemFunc" /\ m.args = xs /\ m \in Type
  <2>1. xs \in Seq(Nat)
    BY <1>8, <1>10
  <2>2. QED
    BY <1>4, <2>1 DEF Tp, Type, Kind, Leaf, Nominal
<1>12. \E j \in IdsOf(c) : c.id_ptr_table[j] = Tp("Func", Tail(m.args), 0, FALSE)
  <2>1. fn = Tp("Func", Tail(m.args), 0, FALSE)
    BY <1>1, <1>10, <1>11 DEF FuncTp
  <2>2. GoodContext(ctx) /\ GoodContext(c) /\ fn \in Type
    BY <1>5, <1>7 DEF CtxOK, Candidate
  <2>3. QED
    BY <1>2, <1>5, <2>1, <2>2, FuncFound
<1>13. \A k \in DOMAIN m.args : m.args[k] \in IdsIn(c)
  <2>1. \A k \in DOMAIN xs : xs[k] \in IdsIn(ctx)
    BY <1>10
  <2>2. QED
    BY <1>7, <1>11, <2>1, OldTypes DEF Same
<1>14. HasSubtype(m) /\ Supported(c, m, c.tp_counter)
  BY <1>7, <1>11, <1>12, <1>13, IdsNumbered, MemFuncSupported DEF CtxOK
<1>15. KindOf(c, ret) \in Lowered
  BY <1>7, <1>8, OldTypes DEF Same
<1>16. Part(c, m) /\ Listed(m) /\ m.kind \notin Nominal
  BY <1>10, <1>11, <1>15 DEF Part, Listed, Nominal, DeclaredKinds
<1>17. QED
  BY <1>1, <1>2, <1>3, <1>4, <1>6, <1>11, <1>14, <1>16 DEF Candidate

\* The types of a call's arguments make a tuple.
LEMMA TupleFits ==
    ASSUME CtxOK(ctx), NEW xs, IsSeq(xs), Len(xs) >= 1, \A i \in DOMAIN xs : xs[i] \in IdsIn(ctx)
    PROVE  Candidate(ctx, Tp("Tuple", Tail(xs), 0, FALSE))
<1>1. PICK n \in Nat : n = Len(xs) /\ n >= 1 /\ DOMAIN xs = 1 .. n
  BY SeqShape
<1>2. PICK u : u = Tail(xs)
  OBVIOUS
<1>3. /\ IsSeq(u) /\ Len(u) = n - 1
      /\ \A i \in 1 .. n - 1 : u[i] = xs[i + 1]
  <2>1. Len(xs) # 0
    BY <1>1
  <2>2. QED
    BY <1>1, <1>2, <2>1, TailShape
<1>4. DOMAIN u = 1 .. n - 1
  BY <1>3, SeqShape
<1>5. \A i \in DOMAIN u : u[i] \in IdsIn(ctx)
  <2>1. \A i \in 1 .. n - 1 : i + 1 \in 1 .. n
    BY <1>1
  <2>2. QED
    BY <1>1, <1>3, <1>4, <2>1
<1>6. /\ ctx.tp_counter \in Nat
      /\ \A i \in DOMAIN u : u[i] \in Nat /\ u[i] < ctx.tp_counter
  BY <1>5, IdsNumbered
<1>7. u \in Seq(Nat)
  <2>1. u \in Seq(Range(u))
    BY <1>3 DEF IsSeq
  <2>2. Range(u) \subseteq Nat
    BY <1>6 DEF Range
  <2>3. QED
    BY <2>1, <2>2, SeqMonotonic
<1>8. Candidate(ctx, Tp("Tuple", u, 0, FALSE))
  BY <1>6, <1>7
  DEF Candidate, Tp, Type, Kind, Leaf, Nominal, Supported, HasSubtype, Listed, Part, DeclaredKinds
<1>9. QED
  BY <1>2, <1>8

\* A declaration leaves a good context.
LEMMA DeclareGrows == ASSUME CtxOK(ctx), Declare PROVE Grown(ctx, ctx')
<1>1. ASSUME NEW t, Candidate(ctx, t), Serve(ctx, t) PROVE Grown(ctx, ctx')
  <2>1. ctx' = GetOrCreate(ctx, t)
    BY <1>1 DEF Serve
  <2>2. QED
    BY <1>1, <2>1, Adding
<1>2. ASSUME NEW p \in 1 .. NPrim, GetPrim(p) PROVE Grown(ctx, ctx')
  BY <1>1, <1>2, PrimFits DEF GetPrim
<1>3. ASSUME NEW s \in Lowers(ctx), NEW cnst \in BOOLEAN, GetRef(s, cnst) PROVE Grown(ctx, ctx')
  <2>1. 0 \in Nat
    OBVIOUS
  <2>2. QED
    BY <1>1, <1>3, <2>1, SubFits DEF GetRef
<1>4. ASSUME NEW s \in Lowers(ctx), GetPointer(s) PROVE Grown(ctx, ctx')
  <2>1. 0 \in Nat /\ FALSE \in BOOLEAN
    OBVIOUS
  <2>2. QED
    BY <1>1, <1>4, <2>1, SubFits DEF GetPointer
<1>5. ASSUME NEW s \in Lowers(ctx), NEW len \in Lengths, GetArray(s, len) PROVE Grown(ctx, ctx')
  <2>1. len \in Nat /\ FALSE \in BOOLEAN
    BY TypeTableAssumption
  <2>2. QED
    BY <1>1, <1>5, <2>1, SubFits DEF GetArray
<1>6. ASSUME NEW ps \in Lists, NEW ret \in Lowers(ctx), NEW vary \in BOOLEAN,
             GetFunc(ps, ret, vary)
      PROVE  Grown(ctx, ctx')
  BY <1>1, <1>6, FuncFits DEF GetFunc
<1>7. ASSUME NEW parent \in Lowers(ctx), NEW ret \in Lowers(ctx), NEW ps \in Lists,
             GetMemFunc(parent, ps, ret)
      PROVE  Grown(ctx, ctx')
  <2>1. PICK c : c = GetOrCreate(ctx, FuncTp(ps, ret, FALSE))
    OBVIOUS
  <2>2. PICK m : m = Tp("MemFunc", <<parent>> \o ps \o <<ret>>, 0, FALSE)
    OBVIOUS
  <2>3. Grown(ctx, c) /\ Candidate(c, m)
    BY <2>1, <2>2, MemFuncFits
  <2>4. ctx' = GetOrCreate(c, m)
    BY <1>7, <2>1, <2>2 DEF GetMemFunc, Serve
  <2>5. Grown(c, ctx')
    BY <2>3, <2>4, Adding DEF Grown
  <2>6. QED
    BY <2>3, <2>5, GrownOn
<1>8. QED
  BY <1>2, <1>3, <1>4, <1>5, <1>6, <1>7 DEF Declare

-----------------------------------------------------------------------------
(* The invariant of operator resolution. *)

NodeFields == {"pc", "op", "args", "cur", "cnt", "weight", "id", "ch", "ret", "errs", "oob"}

\* A node while its evaluation has not ended.
LEMMA Waiting ==
    ASSUME NEW n, DOMAIN n = NodeFields, CtxOK(ctx'), node' = n, n.pc = "scan",
           n.op \in Ops, OperandsFit(ctx', n.op, n.args),
           n.ch = n.args, n.errs = FALSE, n.oob = FALSE, n.ret = -1, Poisoned' => n.id = -1
    PROVE  OpInv'
<1>1. DOMAIN Idle = NodeFields
  BY DEF Idle, NodeFields
<1>2. QED
  BY <1>1 DEF OpInv

\* A node when it has ended.
LEMMA Ended ==
    ASSUME NEW n, DOMAIN n = NodeFields, CtxOK(ctx'), node' = n, n.pc = "done",
           n.op \in Ops, OperandsFit(ctx', n.op, n.args),
           Skipped(ctx', n) \/ Outcome(ctx', n.op, n.args, n)
    PROVE  OpInv'
<1>1. DOMAIN Idle = NodeFields
  BY DEF Idle, NodeFields
<1>2. QED
  BY <1>1 DEF OpInv

\* No node.
LEMMA Idling == ASSUME CtxOK(ctx'), node' = Idle PROVE OpInv' /\ ChosenFits'
<1>1. node'.pc = "idle"
  BY DEF Idle
<1>2. QED
  BY <1>1 DEF OpInv, ChosenFits, Chosen

\* The operands stay what they are.
LEMMA OperandsKept ==
    ASSUME NEW c, CtxOK(c), NEW d, Grown(c, d), NEW op, NEW args, OperandsFit(c, op, args)
    PROVE  OperandsFit(d, op, args)
<1>1. \A i \in DOMAIN args : args[i] \in ValuesIn(d)
  BY OldValues DEF Grown, OperandsFit
<1>2. QED
  BY <1>1 DEF OperandsFit

\* An expression is written.
LEMMA BeginKeeps ==
    ASSUME OpInv, NEW op \in Ops, NEW args, OperandsFit(ctx, op, args), Begin(op, args)
    PROVE  OpInv' /\ ChosenFits'
<1>1. CtxOK(ctx)
  BY DEF OpInv
<1>2. Grown(ctx, ctx')
  <2>1. CASE op = "Call"
    <3>1. \A i \in DOMAIN args : args[i] \in IdsIn(ctx)
      BY DEF OperandsFit, ValuesIn, Lowers, IdsIn
    <3>2. PICK t : t = Tp("Tuple", Tail(args), 0, FALSE)
      OBVIOUS
    <3>3. Candidate(ctx, t)
      BY <1>1, <2>1, <3>1, <3>2, TupleFits DEF OperandsFit
    <3>4. ctx' = GetOrCreate(ctx, t)
      BY <2>1, <3>2 DEF Begin
    <3>5. QED
      BY <1>1, <3>3, <3>4, Adding
  <2>2. CASE op # "Call"
    BY <1>1, <2>2 DEF Begin, Grown, Extends
  <2>3. QED
    BY <2>1, <2>2
<1>3. PICK n : n = node'
  OBVIOUS
<1>4. /\ DOMAIN n = NodeFields /\ n.pc = "scan" /\ n.op = op /\ n.args = args /\ n.ch = args
      /\ n.errs = FALSE /\ n.oob = FALSE /\ n.ret = -1 /\ n.id = -1
  BY <1>3 DEF Begin, Idle, NodeFields
<1>5. CtxOK(ctx') /\ OperandsFit(ctx', op, args)
  BY <1>1, <1>2, OperandsKept DEF Grown
<1>6. OpInv'
  BY <1>3, <1>4, <1>5, Waiting
<1>7. ChosenFits'
  BY <1>3, <1>4 DEF ChosenFits, Chosen
<1>8. QED
  BY <1>6, <1>7

\* The error of an operand is passed on.
LEMMA PropagateKeeps == ASSUME OpInv, Propagate PROVE OpInv' /\ ChosenFits'
<1>1. /\ CtxOK(ctx) /\ node.pc = "scan" /\ Poisoned
      /\ node.op \in Ops /\ OperandsFit(ctx, node.op, node.args)
      /\ node.ch = node.args /\ node.errs = FALSE /\ node.oob = FALSE /\ node.id = -1
  BY DEF OpInv, Propagate
<1>2. DOMAIN node = NodeFields
  BY DEF OpInv, Idle, NodeFields
<1>3. PICK d : d = ctx'
  OBVIOUS
<1>4. PICK n : n = node'
  OBVIOUS
<1>5. Candidate(ctx, ErrorTp)
  BY <1>1, Candidates
<1>6. /\ DOMAIN n = NodeFields /\ n.pc = "done" /\ n.op = node.op /\ n.args = node.args
      /\ n.ch = node.args /\ n.errs = FALSE /\ n.oob = FALSE /\ n.id = -1
      /\ n.ret = Answer(ctx, ErrorTp)
  BY <1>1, <1>2, <1>4 DEF Propagate, NodeFields
<1>7. d = GetOrCreate(ctx, ErrorTp)
  BY <1>3 DEF Propagate
<1>8. /\ Grown(ctx, d) /\ n.ret \in IdsIn(d)
      /\ SameType(ErrorTp, d.id_ptr_table[n.ret])
  BY <1>1, <1>5, <1>6, <1>7, Adding
<1>9. IsError(d, n.ret)
  BY <1>8 DEF SameType, IsError, KindOf, ErrorTp, Tp
<1>10. CtxOK(d) /\ Extends(ctx, d) /\ OperandsFit(d, n.op, n.args)
  BY <1>1, <1>6, <1>8, OperandsKept DEF Grown
<1>11. \E i \in DOMAIN n.args : IsError(d, n.args[i]) /\ (n.op = "Call" => i = 1)
  <2>1. PICK i \in DOMAIN node.args : IsError(ctx, node.args[i]) /\ (node.op = "Call" => i = 1)
    BY <1>1 DEF Poisoned
  <2>2. node.args[i] \in ValuesIn(ctx)
    BY <1>1 DEF OperandsFit
  <2>3. IsError(d, node.args[i])
    BY <1>1, <1>10, <2>1, <2>2, OldValues
  <2>4. QED
    BY <1>6, <2>1, <2>3
<1>12. Skipped(d, n)
  BY <1>6, <1>8, <1>9, <1>11 DEF Skipped
<1>13. OpInv'
  BY <1>1, <1>3, <1>4, <1>6, <1>10, <1>12, Ended
<1>14. ChosenFits'
  BY <1>4, <1>6 DEF ChosenFits, Chosen
<1>15. QED
  BY <1>13, <1>14

\* One more candidate is weighed.
LEMMA ScanKeepsNode == ASSUME OpInv, Scan PROVE OpInv' /\ ChosenFits'
<1>1. /\ CtxOK(ctx) /\ node.pc = "scan" /\ ~ Poisoned /\ ctx' = ctx
      /\ node.op \in Ops /\ OperandsFit(ctx, node.op, node.args)
      /\ node.ch = node.args /\ node.errs = FALSE /\ node.oob = FALSE /\ node.ret = -1
  BY DEF OpInv, Scan
<1>2. DOMAIN node = NodeFields
  BY DEF OpInv, Idle, NodeFields
<1>3. PICK n : n = node'
  OBVIOUS
<1>4. \E cur, id, weight, cnt :
         n = [node EXCEPT !.cur = cur, !.id = id, !.weight = weight, !.cnt = cnt]
  BY <1>3, Zenon DEF Scan
<1>5. /\ DOMAIN n = NodeFields /\ n.pc = "scan" /\ n.op = node.op /\ n.args = node.args
      /\ n.ch = node.args /\ n.errs = FALSE /\ n.oob = FALSE /\ n.ret = -1
  BY <1>1, <1>2, <1>4 DEF NodeFields
<1>6. ~ Poisoned'
  BY <1>1, <1>3, <1>5 DEF Poisoned
<1>7. OpInv'
  BY <1>1, <1>3, <1>5, <1>6, Waiting
<1>8. ChosenFits'
  BY <1>3, <1>5 DEF ChosenFits, Chosen
<1>9. QED
  BY <1>7, <1>8

\* An evaluation ends.
LEMMA CloseKeeps ==
    ASSUME OpInv, node.pc = "scan", NEW f, Ends(Start, node.op, f), Close(f)
    PROVE  /\ OpInv'
           /\ node'.id = node.id /\ node'.op = node.op /\ node'.args = node.args
           /\ node'.ch = f.ch /\ node'.ret = f.ret /\ node'.errs = f.errs
<1>1. /\ CtxOK(ctx) /\ node.op \in Ops /\ OperandsFit(ctx, node.op, node.args)
  BY DEF OpInv
<1>2. DOMAIN node = NodeFields
  BY DEF OpInv, Idle, NodeFields
<1>3. PICK n : n = node'
  OBVIOUS
<1>4. /\ DOMAIN n = NodeFields /\ n.pc = "done" /\ n.op = node.op /\ n.args = node.args
      /\ n.ch = f.ch /\ n.errs = f.errs /\ n.oob = f.oob /\ n.id = node.id /\ n.ret = f.ret
  BY <1>2, <1>3 DEF Close, NodeFields
<1>5. ctx' = f.ctx
  BY DEF Close
<1>6. Start.ctx = ctx /\ Start.ch = node.args
  BY Starting
<1>7. Grown(ctx, f.ctx) /\ Outcome(f.ctx, node.op, node.args, f)
  BY <1>6 DEF Ends, After
<1>8. CtxOK(f.ctx) /\ OperandsFit(f.ctx, n.op, n.args)
  BY <1>1, <1>4, <1>7, OperandsKept DEF Grown
<1>9. Outcome(f.ctx, n.op, n.args, n)
  BY <1>4, <1>7 DEF Outcome
<1>10. OpInv'
  BY <1>1, <1>3, <1>4, <1>5, <1>8, <1>9, Ended
<1>11. QED
  BY <1>3, <1>4, <1>10

\* An implementation is chosen.
LEMMA ChooseKeeps == ASSUME OpInv, ScanInv, Choose PROVE OpInv' /\ ChosenFits'
<1>1. PICK cond : cond = Conds(node.op)[node.id + 1]
  OBVIOUS
<1>2. PICK f : f = IF node.cnt > 1 THEN Fail(Start)
                   ELSE Give(ExpectAll(Start, cond), ImplRet(node.op, cond))
  OBVIOUS
<1>3. Scanned /\ node.id # -1 /\ node.pc = "scan"
  BY DEF Choose, Scanned
<1>4. Close(f)
  BY <1>1, <1>2 DEF Choose
<1>5. Ends(Start, node.op, f) /\ FitsAll(f, node.op, node.args)
  BY <1>1, <1>2, <1>3, ChooseEnds
<1>6. /\ OpInv'
      /\ node'.id = node.id /\ node'.op = node.op /\ node'.args = node.args
      /\ node'.ch = f.ch /\ node'.ret = f.ret /\ node'.errs = f.errs
  BY <1>3, <1>4, <1>5, CloseKeeps
<1>7. ctx' = f.ctx
  BY <1>4 DEF Close
<1>8. ChosenFits'
  <2>1. CASE IsError(f.ctx, f.ret)
    BY <1>6, <1>7, <2>1 DEF ChosenFits, Chosen
  <2>2. CASE ~ IsError(f.ctx, f.ret)
    <3>1. /\ f.errs = FALSE /\ ctx' = ctx
          /\ \A i, j \in DOMAIN f.ch : f.ch[i] = f.ch[j]
          /\ node.op \in MathOps \cup CmpOps \cup IntOps =>
                f.ch[1] = GreaterType(ctx, node.args[1], node.args[2])
      BY <1>5, <1>7, <2>2 DEF FitsAll
    <3>2. QED
      BY <1>6, <3>1 DEF ChosenFits
  <2>3. QED
    BY <2>1, <2>2
<1>9. QED
  BY <1>6, <1>8

\* No implementation fits.
LEMMA SpecialKeeps == ASSUME OpInv, Special PROVE OpInv' /\ ChosenFits'
<1>1. PICK f : f = SpecialEval(Start, node.op, node.args)
  OBVIOUS
<1>2. Scanned /\ node.id = -1 /\ node.pc = "scan" /\ Close(f)
  BY <1>1 DEF Special, Scanned
<1>3. Ends(Start, node.op, f)
  BY <1>1, <1>2, SpecialEnds
<1>4. OpInv' /\ node'.id = -1
  BY <1>2, <1>3, CloseKeeps
<1>5. QED
  BY <1>4 DEF ChosenFits, Chosen

OpIInv == OpInv /\ ScanInv /\ ChosenFits

\* It holds at the start.
LEMMA OpInitInv == OpInit => OpIInv
<1> SUFFICES ASSUME OpInit PROVE OpIInv
  OBVIOUS
<1>1. CtxOK(ctx) /\ node = Idle
  BY InitCtx DEF OpInit
<1>2. /\ DOMAIN node = DOMAIN Idle /\ node.pc = "idle" /\ node.cur = 0
      /\ node.id = -1 /\ node.weight = Reject /\ node.cnt = 0
  BY <1>1 DEF Idle
<1>3. ScanInv
  BY <1>2 DEF ScanInv, LocalsOK, ScanFindsLeast, Reject
<1>4. OpInv /\ ChosenFits
  BY <1>1, <1>2 DEF OpInv, ChosenFits, Chosen
<1>5. QED
  BY <1>3, <1>4 DEF OpIInv

\* Every step keeps it.
LEMMA OpInvKept == OpIInv /\ [OpNext]_vars => OpIInv'
<1> SUFFICES ASSUME OpIInv, [OpNext]_vars PROVE OpInv' /\ ChosenFits'
  BY ScanInvKept DEF OpIInv
<1>1. OpInv /\ ScanInv /\ ChosenFits /\ CtxOK(ctx)
  BY DEF OpIInv, OpInv
<1>2. ASSUME Declare PROVE OpInv' /\ ChosenFits'
  <2>1. Grown(ctx, ctx') /\ node' = Idle
    BY <1>1, <1>2, DeclareGrows DEF Declare
  <2>2. QED
    BY <2>1, Idling DEF Grown
<1>3. ValuesIn(ctx) = Values
  BY DEF ValuesIn, Values, IdsIn, Ids
<1>4. /\ Binary \cap Unary = {} /\ "Call" \notin Binary \cup Unary
  BY DEF Binary, Unary, MathOps, IntOps, LogicOps, CmpOps, UpdateOps, UnaryOps
<1>5. ASSUME NEW op \in Ops \cap Binary, NEW a \in Values, NEW b \in Values,
             Begin(op, <<a, b>>)
      PROVE  OpInv' /\ ChosenFits'
  <2>1. <<a, b>> \in Seq(Values)
    OBVIOUS
  <2>2. IsSeq(<<a, b>>)
    BY <2>1, SeqIsSeq
  <2>3. OperandsFit(ctx, op, <<a, b>>)
    BY <1>3, <1>4, <2>2 DEF OperandsFit
  <2>4. QED
    BY <1>1, <1>5, <2>3, BeginKeeps
<1>6. ASSUME NEW op \in Ops \cap Unary, NEW a \in Values, Begin(op, <<a>>)
      PROVE  OpInv' /\ ChosenFits'
  <2>1. <<a>> \in Seq(Values)
    OBVIOUS
  <2>2. IsSeq(<<a>>)
    BY <2>1, SeqIsSeq
  <2>3. OperandsFit(ctx, op, <<a>>)
    BY <1>3, <1>4, <2>2 DEF OperandsFit
  <2>4. QED
    BY <1>1, <1>6, <2>3, BeginKeeps
<1>7. ASSUME NEW op \in Ops \cap {"Call"}, NEW f \in Values, NEW xs \in Lists,
             \A i \in DOMAIN xs : xs[i] \in Values, Begin(op, <<f>> \o xs)
      PROVE  OpInv' /\ ChosenFits'
  <2>1. xs \in Seq(Ids)
    BY ListsAreSeqs
  <2>2. xs \in Seq(Values)
    <3>1. PICK n \in Nat : n = Len(xs) /\ xs = [i \in 1 .. n |-> xs[i]] /\ DOMAIN xs = 1 .. n
      BY <2>1
    <3>2. xs \in [1 .. n -> Values]
      BY <1>7, <3>1
    <3>3. QED
      BY <3>2, SeqDef
  <2>3. PICK args : args = <<f>> \o xs
    OBVIOUS
  <2>4. args \in Seq(Values) /\ Len(args) >= 1
    BY <2>2, <2>3
  <2>5. IsSeq(args) /\ \A i \in DOMAIN args : args[i] \in Values
    BY <2>4, SeqIsSeq
  <2>6. OperandsFit(ctx, op, args)
    BY <1>3, <1>4, <2>4, <2>5 DEF OperandsFit
  <2>7. QED
    BY <1>1, <1>7, <2>3, <2>6, BeginKeeps
<1>8. ASSUME Finish PROVE OpInv' /\ ChosenFits'
  <2>1. CtxOK(ctx') /\ node' = Idle
    BY <1>1, <1>8 DEF Finish
  <2>2. QED
    BY <2>1, Idling
<1>9. ASSUME UNCHANGED vars PROVE OpInv' /\ ChosenFits'
  <2>1. ctx' = ctx /\ node' = node
    BY <1>9 DEF vars
  <2>2. QED
    BY <1>1, <2>1 DEF OpInv, Poisoned, ChosenFits, Chosen
<1>10. QED
  BY <1>1, <1>2, <1>5, <1>6, <1>7, <1>8, <1>9, PropagateKeeps, ScanKeepsNode, ChooseKeeps,
     SpecialKeeps DEF OpNext

\* The invariant of the specification.
THEOREM OpIInvHolds == OpSpec => []OpIInv
BY OpInitInv, OpInvKept, PTL DEF OpSpec

-----------------------------------------------------------------------------
(* What follows from it. *)

\* A tie of two is never silent: no operands fit exactly two implementations
\* best, whatever the primitives, so the ambiguity test cnt > 1 misses none.
THEOREM NoSilentTieHolds == OpSpec => []NoSilentTie
<1>1. OpIInv => NoSilentTie
  <2> SUFFICES ASSUME OpIInv, Scanned, node.id # -1 PROVE node.cnt # 1
    BY DEF NoSilentTie
  <2>1. Winner(node.op, node.args, Conds(node.op)[node.id + 1], node.cnt)
    BY Picked DEF OpIInv
  <2>2. QED
    BY <2>1, Zenon DEF Winner
<1>2. QED
  BY <1>1, OpIInvHolds, PTL

\* A built-in implementation that is picked fits, and is that of the common
\* type of its operands.
THEOREM ChosenFitsHolds == OpSpec => []ChosenFits
<1>1. OpIInv => ChosenFits
  BY DEF OpIInv
<1>2. QED
  BY <1>1, OpIInvHolds, PTL

\* The evaluation of operands that are all right.
LEMMA Evaluated ==
    ASSUME OpInv, node.pc = "done", ~ Poisoned
    PROVE  Outcome(ctx, node.op, node.args, node)
  BY DEF OpInv, Skipped, Poisoned

\* Every operator has an operand.
LEMMA FirstOperand ==
    ASSUME OpInv, node.pc # "idle"
    PROVE  /\ 1 \in DOMAIN node.args /\ DOMAIN node.args = 1 .. Len(node.args)
           /\ IsSeq(node.args) /\ Len(node.args) \in Nat
           /\ node.op \in Ops
           /\ node.op \in Binary => 2 \in DOMAIN node.args
<1>1. OperandsFit(ctx, node.op, node.args) /\ node.op \in Ops
  BY DEF OpInv
<1>2. PICK n \in Nat : n = Len(node.args) /\ DOMAIN node.args = 1 .. n
  BY <1>1, SeqShape DEF OperandsFit
<1>3. node.op \in Binary \cup Unary \cup {"Call"}
  BY <1>1, OperatorsAssumption
<1>4. n >= 1 /\ (node.op \in Binary => n = 2)
  BY <1>1, <1>2, <1>3 DEF OperandsFit
<1>5. 1 \in 1 .. n /\ (node.op \in Binary => 2 \in 1 .. n)
  BY <1>4
<1>6. IsSeq(node.args)
  BY <1>1 DEF OperandsFit
<1>7. QED
  BY <1>1, <1>2, <1>5, <1>6

\* An answer of the error type is never silent.
THEOREM ErrorsReportedHolds == OpSpec => []ErrorsReported
<1>1. OpIInv => ErrorsReported
  <2> SUFFICES ASSUME OpIInv, node.pc = "done", IsError(ctx, node.ret)
               PROVE  node.errs \/ \E i \in DOMAIN node.args : IsError(ctx, node.args[i])
    BY DEF ErrorsReported
  <2>1. OpInv
    BY DEF OpIInv
  <2>2. CASE Poisoned
    BY <2>2 DEF Poisoned
  <2>3. CASE ~ Poisoned
    <3>1. ~ IsError(ctx, node.args[1]) => node.errs
      BY <2>1, <2>3, Evaluated DEF Outcome
    <3>2. node.pc # "idle"
      OBVIOUS
    <3>3. 1 \in DOMAIN node.args
      BY <2>1, <3>2, FirstOperand
    <3>4. QED
      BY <3>1, <3>3
  <2>4. QED
    BY <2>2, <2>3
<1>2. QED
  BY <1>1, OpIInvHolds, PTL

\* The arguments of a call that goes through are those of its function.
LEMMA MatchingCalls == OpInv => CallMatches
<1> SUFFICES ASSUME OpInv, node.pc = "done", ~ node.errs, ~ Poisoned, node.op = "Call"
             PROVE  LET fn   == Callee(ctx, node.args[1])
                        ps   == Params(ctx, fn)
                        args == Tail(node.ch) IN
                    /\ KindOf(ctx, fn) \in {"Func", "MemFunc"}
                    /\ Len(args) >= Len(ps)
                    /\ Len(args) > Len(ps) => ctx.id_ptr_table[fn].flag
                    /\ \A i \in DOMAIN args :
                          IF i <= Len(ps) THEN args[i] = ps[i]
                          ELSE IsPrim(ctx, args[i]) => PrimOf(ctx, args[i]).siz >= 32
  BY DEF CallMatches
<1>0. node.pc # "idle"
  OBVIOUS
<1>1. Outcome(ctx, node.op, node.args, node)
  BY Evaluated
<1>2. Passes(ctx, node.args, node.ch) /\ IsSeq(node.ch) /\ Len(node.ch) = Len(node.args)
  BY <1>1 DEF Outcome
<1>3. PICK fn : fn = Callee(ctx, node.args[1])
  OBVIOUS
<1>4. PICK ps : ps = Params(ctx, fn)
  OBVIOUS
<1>5. /\ KindOf(ctx, fn) \in {"Func", "MemFunc"}
      /\ Len(node.ch) >= Len(ps) + 1
      /\ Len(node.ch) > Len(ps) + 1 => ctx.id_ptr_table[fn].flag
      /\ \A i \in 2 .. Len(node.ch) :
            IF i <= Len(ps) + 1 THEN node.ch[i] = ps[i - 1]
            ELSE IsPrim(ctx, node.ch[i]) => PrimOf(ctx, node.ch[i]).siz >= 32
  BY <1>2, <1>3, <1>4, Zenon DEF Passes
<1>6. PICK m \in Nat : m = Len(node.ch) /\ m >= 1
  BY <1>0, <1>2, FirstOperand
<1>7. PICK k \in Nat : k = Len(ps)
  <2>1. 1 \in DOMAIN node.args /\ node.args[1] \in IdsIn(ctx) /\ CtxOK(ctx)
    BY <1>0, FirstOperand DEF OpInv, OperandsFit, ValuesIn, Lowers, IdsIn
  <2>2. QED
    BY <1>3, <1>4, <1>5, <2>1, CalleeKnown
<1>8. PICK args : args = Tail(node.ch)
  OBVIOUS
<1>9. IsSeq(args) /\ Len(args) = m - 1 /\ \A i \in 1 .. m - 1 : args[i] = node.ch[i + 1]
  <2>1. Len(node.ch) # 0
    BY <1>6
  <2>2. QED
    BY <1>2, <1>6, <1>8, <2>1, TailShape
<1>10. DOMAIN args = 1 .. m - 1
  BY <1>9, SeqShape
<1>11. ASSUME NEW i \in DOMAIN args
       PROVE  IF i <= k THEN args[i] = ps[i]
              ELSE IsPrim(ctx, args[i]) => PrimOf(ctx, args[i]).siz >= 32
  <2>1. i \in Nat /\ i + 1 \in 2 .. m /\ (i + 1) - 1 = i /\ args[i] = node.ch[i + 1]
    BY <1>6, <1>9, <1>10
  <2>2. CASE i <= k
    <3>1. node.ch[i + 1] = ps[(i + 1) - 1]
      BY <1>5, <1>6, <1>7, <2>1, <2>2
    <3>2. QED
      BY <2>1, <2>2, <3>1
  <2>3. CASE ~ (i <= k)
    <3>1. IsPrim(ctx, node.ch[i + 1]) => PrimOf(ctx, node.ch[i + 1]).siz >= 32
      BY <1>5, <1>6, <1>7, <2>1, <2>3
    <3>2. QED
      BY <2>1, <2>3, <3>1
  <2>4. QED
    BY <2>2, <2>3
<1>12. /\ Len(args) >= k /\ (Len(args) > k => ctx.id_ptr_table[fn].flag)
  BY <1>5, <1>6, <1>7, <1>9
<1>13. QED
  BY <1>3, <1>4, <1>5, <1>7, <1>8, <1>11, <1>12

-----------------------------------------------------------------------------
(* The generator. *)

\* What a value converts to has values, but for the error type.
LEMMA ConvertsToValue ==
    ASSUME NEW c, CtxOK(c), NEW a \in Lowers(c), NEW b \in IdsIn(c), IsConvertable(c, a, b),
           ~ IsError(c, b)
    PROVE  b \in Lowers(c)
<1>1. PICK d : d = Decay(c, a)
  OBVIOUS
<1>2. KindOf(c, d) \in Lowered /\ (b = a \/ ConvertsPlain(c, d, b))
  BY <1>1 DEF Lowers, IsConvertable
<1>3. b = d => KindOf(c, b) \in Lowered
  BY <1>2
<1>4. ConvertsPlain(c, d, b) => KindOf(c, b) \in Lowered
  BY <1>2, <1>3
  DEF ConvertsPlain, WithTrait, PrimConverts, PtrConverts, FuncConverts, IsPrim, IsPtr, IsVoid,
      IsError, Lowered
<1>5. QED
  BY <1>2, <1>4, LowersKnown

\* The kinds LLVM sees.
LEMMA LlvmKinds ==
    ASSUME NEW c, NEW t
    PROVE  /\ LlvmInt(c, t) => LlvmKind(c, t) = "int"
           /\ IsPrim(c, t) => LlvmKind(c, t) \in {"int", "float"}
           /\ IsPtr(c, t) \/ IsRef(c, t) => LlvmKind(c, t) = "pointer"
  BY DEF LlvmInt, LlvmKind, IsPrim, IsPtr, IsRef

\* An accepted operator: its operands, as the generator gets them.
LEMMA Accepts ==
    ASSUME OpInv, Generates
    PROVE  /\ Outcome(ctx, node.op, node.args, node) /\ node.errs = FALSE
           /\ DOMAIN node.ch = DOMAIN node.args
           /\ \A i \in DOMAIN node.ch :
                 node.args[i] \in Lowers(ctx) /\ node.ch[i] \in Lowers(ctx)
<1>1. CtxOK(ctx) /\ OperandsFit(ctx, node.op, node.args) /\ node.pc = "done"
  BY DEF OpInv, Generates
<1>2. Skipped(ctx, node) \/ Outcome(ctx, node.op, node.args, node)
  BY <1>1 DEF OpInv
<1>3. ~ Skipped(ctx, node)
  BY DEF Generates, Skipped
<1>4. Outcome(ctx, node.op, node.args, node)
  BY <1>2, <1>3
<1>5. node.errs = FALSE
  BY <1>4 DEF Outcome, Generates
<1>6. DOMAIN node.ch = DOMAIN node.args
  BY <1>1, <1>4, SeqShape DEF Outcome, OperandsFit
<1>7. ASSUME NEW i \in DOMAIN node.ch
      PROVE  node.args[i] \in Lowers(ctx) /\ node.ch[i] \in Lowers(ctx)
  <2>1. /\ ~ IsError(ctx, node.args[i]) /\ ~ IsError(ctx, node.ch[i])
        /\ node.args[i] \in Lowers(ctx)
    BY <1>1, <1>6 DEF Generates, OperandsFit, ValuesIn
  <2>2. /\ node.ch[i] \in IdsIn(ctx)
        /\ node.ch[i] = node.args[i] \/ IsConvertable(ctx, node.args[i], node.ch[i])
    BY <1>4, <1>5 DEF Outcome
  <2>3. QED
    BY <1>1, <2>1, <2>2, ConvertsToValue
<1>8. QED
  BY <1>4, <1>5, <1>6, <1>7

\* The operands are generated.
LEMMA OperandsHaveCode ==
    ASSUME OpInv, Generates, ~ OperatorGap
    PROVE  OperandsGenerate(ctx, node)
<1> SUFFICES ASSUME NEW i \in DOMAIN node.ch, node.ch[i] # node.args[i]
             PROVE  GenConvert(ctx, node.args[i], node.ch[i]) = "value"
  BY DEF OperandsGenerate
<1>1. /\ node.args[i] \in Lowers(ctx) /\ node.ch[i] \in Lowers(ctx)
      /\ IsConvertable(ctx, node.args[i], node.ch[i])
  BY Accepts DEF Outcome
<1>2. ~ Gap(ctx, node.args[i], node.ch[i])
  BY DEF OperatorGap, OperandGap
<1>3. AcceptedGenerates
  BY CtxIsGood, AcceptedHasCode DEF OpInv
<1>4. "expect" \in Site /\ Accepted(ctx, "expect", node.args[i], node.ch[i])
  BY <1>1 DEF Site, Accepted
<1>5. QED
  BY <1>1, <1>2, <1>3, <1>4 DEF AcceptedGenerates

\* The code of an operator, by operator.
LEMMA GenCases ==
    ASSUME NEW c, NEW n, 1 \in DOMAIN n.ch
    PROVE  LET k1 == LlvmKind(c, n.ch[1])
               k2 == LlvmKind(c, n.ch[2])
               res == LlvmKind(c, n.ret)
               op == n.op
               g == GenOperator(c, n) IN
           /\ op \in MathOps \cup IntOps \cup LogicOps /\ 2 \in DOMAIN n.ch =>
                 g = GenMath(op, k1, k2, res)
           /\ op \in UnaryOps => g = GenUnary(op, k1)
           /\ op \in CmpOps => g = GenCmp(LlvmKind(c, GreaterType(c, n.ch[1], n.ch[2])))
           /\ op \in UpdateOps \cup {"Assign"} => g = k1
           /\ op = "At" => g = GenAt(k1, IsArray(c, Decay(c, n.ch[1])))
           /\ op \in {"Ref", "DeRef"} => g = k1
           /\ op = "Call" => g = res
           /\ op = "Convert" =>
                 g = IF GenConvert(c, n.args[1], n.ret) = "value" THEN res ELSE "throws"
<1>1. PICK k : k = [i \in DOMAIN n.ch |-> LlvmKind(c, n.ch[i])]
  OBVIOUS
<1>2. k[1] = LlvmKind(c, n.ch[1]) /\ (2 \in DOMAIN n.ch => k[2] = LlvmKind(c, n.ch[2]))
  BY <1>1
<1>3. PICK res : res = LlvmKind(c, n.ret)
  OBVIOUS
<1>4. PICK op : op = n.op
  OBVIOUS
<1>5. GenOperator(c, n) =
        CASE op \in MathOps \cup IntOps \cup LogicOps -> GenMath(op, k[1], k[2], res)
          [] op \in UnaryOps                         -> GenUnary(op, k[1])
          [] op \in CmpOps -> GenCmp(LlvmKind(c, GreaterType(c, n.ch[1], n.ch[2])))
          [] op \in UpdateOps \cup {"Assign"}         -> k[1]
          [] op = "At"              -> GenAt(k[1], IsArray(c, Decay(c, n.ch[1])))
          [] op \in {"Ref", "DeRef"}                  -> k[1]
          [] op = "Length"                            -> "assertion"
          [] op = "Call"                              -> res
          [] op = "Convert" ->
                IF GenConvert(c, n.args[1], n.ret) = "value" THEN res ELSE "throws"
  BY <1>1, <1>3, <1>4, Zenon DEF GenOperator
<1>6. QED
  BY <1>2, <1>3, <1>4, <1>5 DEF MathOps, IntOps, LogicOps, UnaryOps, CmpOps, UpdateOps

\* The code of a built-in implementation.
LEMMA BuiltInHasCode ==
    ASSUME OpInv, Generates, ~ OperatorGap, BuiltIn(ctx, node.op, node.ch, node.ret)
    PROVE  GenOperator(ctx, node) = LlvmKind(ctx, node.ret)
<1>1. PICK op : op = node.op
  OBVIOUS
<1>2. PICK cond \in IdsIn(ctx) :
        /\ op \in BuiltInOps /\ IsPrim(ctx, cond)
        /\ \A i \in DOMAIN node.ch : node.ch[i] = cond
        /\ node.ret = ImplRet(op, cond)
        /\ op \in IntOps \cup LogicOps \cup {"Not"} => LlvmInt(ctx, cond)
  BY <1>1, Zenon DEF BuiltIn
<1>0. node.pc # "idle"
  BY DEF Generates
<1>3. 1 \in DOMAIN node.ch /\ (op \notin UnaryOps => 2 \in DOMAIN node.ch)
  <2>1. DOMAIN node.ch = DOMAIN node.args
    BY Accepts
  <2>2. op \notin UnaryOps => op \in Binary
    BY <1>2 DEF BuiltInOps, Binary
  <2>3. QED
    BY <1>0, <1>1, <2>1, <2>2, FirstOperand
<1>4. PICK k : k = LlvmKind(ctx, cond)
  OBVIOUS
<1>5. /\ k \in {"int", "float"} /\ (LlvmInt(ctx, cond) => k = "int")
  BY <1>2, <1>4, LlvmKinds
<1>6. LlvmKind(ctx, node.ch[1]) = k /\ (op \notin UnaryOps => LlvmKind(ctx, node.ch[2]) = k)
  BY <1>2, <1>3, <1>4
<1>7. CASE op \in CmpOps
  <2>1. op \notin UnaryOps /\ node.ret = BoolId
    BY <1>2, <1>7 DEF ImplRet, CmpOps, UnaryOps
  <2>2. LlvmInt(ctx, BoolId)
    <3>1. op \in Ops /\ CtxOK(ctx)
      BY <1>0, <1>1, FirstOperand DEF OpInv
    <3>2. QED
      BY <1>7, <3>1, Listings, IntIsLlvmInt DEF BoolId
  <2>3. GreaterType(ctx, node.ch[1], node.ch[2]) = cond
    BY <1>2, <1>3, <2>1 DEF GreaterType, SameFunc, IsPrim, IsFunc, Decay, KindOf
  <2>4. GenOperator(ctx, node) = GenCmp(k)
    BY <1>1, <1>3, <1>4, <1>7, <2>3, GenCases
  <2>5. QED
    BY <1>5, <2>1, <2>2, <2>4, LlvmKinds DEF GenCmp, Numeric
<1>8. CASE op \in UnaryOps
  <2>1. GenOperator(ctx, node) = GenUnary(op, k)
    BY <1>1, <1>3, <1>6, <1>8, GenCases
  <2>2. node.ret = cond
    BY <1>2, <1>8 DEF ImplRet, CmpOps, UnaryOps
  <2>3. op = "Neg" => k # "float"
    BY <1>1, <1>6 DEF OperatorGap, FloatNeg
  <2>4. QED
    BY <1>2, <1>4, <1>5, <1>8, <2>1, <2>2, <2>3 DEF GenUnary, UnaryOps
<1>9. CASE op \in MathOps \cup IntOps \cup LogicOps
  <2>1. op \notin UnaryOps /\ node.ret = cond
    BY <1>2, <1>9 DEF ImplRet, CmpOps, UnaryOps, MathOps, IntOps, LogicOps
  <2>2. GenOperator(ctx, node) = GenMath(op, k, k, k)
    BY <1>1, <1>3, <1>4, <1>6, <1>9, <2>1, GenCases
  <2>3. op \in IntOps => k = "int"
    BY <1>2, <1>5
  <2>4. GenMath(op, k, k, k) = k
    BY <1>5, <1>9, <2>3 DEF GenMath, GenAdd, GenSub, Numeric, MathOps, IntOps, LogicOps
  <2>5. QED
    BY <1>4, <2>1, <2>2, <2>4
<1>10. QED
  BY <1>2, <1>7, <1>8, <1>9 DEF BuiltInOps

\* The code of what sp_op_eval answers.
LEMMA AnswersHaveCode ==
    ASSUME OpInv, Generates, ~ OperatorGap, Answers(ctx, node.op, node.args, node.ch, node.ret)
    PROVE  GenOperator(ctx, node) = LlvmKind(ctx, node.ret)
<1>1. PICK op : op = node.op
  OBVIOUS
<1>2. node.pc # "idle" /\ CtxOK(ctx)
  BY DEF Generates, OpInv
<1>3. /\ 1 \in DOMAIN node.args /\ op \in Ops
      /\ op \in Binary => 2 \in DOMAIN node.args
  BY <1>1, <1>2, FirstOperand
<1>4. DOMAIN node.ch = DOMAIN node.args
  BY Accepts
<1>5. PICK k1 : k1 = LlvmKind(ctx, node.ch[1])
  OBVIOUS
<1>6. PICK k2 : k2 = LlvmKind(ctx, node.ch[2])
  OBVIOUS
<1>7. PICK res : res = LlvmKind(ctx, node.ret)
  OBVIOUS
<1>8. PICK g : g = GenOperator(ctx, node)
  OBVIOUS
<1>9. CASE op \in UpdateOps \cup {"Assign"}
  <2>1. node.ret = node.ch[1]
    BY <1>1, <1>9 DEF Answers
  <2>2. g = k1
    BY <1>1, <1>3, <1>4, <1>5, <1>8, <1>9, GenCases
  <2>3. QED
    BY <1>5, <1>8, <2>1, <2>2
<1>10. CASE op = "At"
  <2>1. IsPtr(ctx, node.ch[1]) \/ IsRef(ctx, node.ch[1])
    <3>1. CASE IsPtr(ctx, node.ch[1])
      BY <3>1
    <3>2. CASE IsArray(ctx, Decay(ctx, node.args[1])) /\ node.ch[1] = node.args[1]
      <4>1. ~ IsArray(ctx, node.args[1])
        BY <1>1, <1>10 DEF OperatorGap, ArrayValueAt
      <4>2. IsRef(ctx, node.args[1])
        BY <3>2, <4>1 DEF Decay, IsRef, KindOf
      <4>3. QED
        BY <3>2, <4>2
    <3>3. QED
      BY <1>1, <1>10, <3>1, <3>2 DEF Answers
  <2>2. k1 = "pointer" /\ res = "pointer"
    BY <1>1, <1>5, <1>7, <1>10, <2>1, LlvmKinds DEF Answers
  <2>3. g = GenAt(k1, IsArray(ctx, Decay(ctx, node.ch[1])))
    BY <1>1, <1>3, <1>4, <1>5, <1>8, <1>10, GenCases
  <2>4. QED
    BY <1>7, <1>8, <2>2, <2>3 DEF GenAt
<1>11. CASE op \in {"Ref", "DeRef"}
  <2>1. k1 = "pointer" /\ res = "pointer"
    BY <1>1, <1>5, <1>7, <1>11, LlvmKinds DEF Answers
  <2>2. g = k1
    BY <1>1, <1>3, <1>4, <1>5, <1>8, <1>11, GenCases
  <2>3. QED
    BY <1>7, <1>8, <2>1, <2>2
<1>12. CASE op = "Add"
  <2>1. res = "pointer" /\ {k1, k2} = {"pointer", "int"}
    BY <1>1, <1>5, <1>6, <1>7, <1>12, LlvmKinds DEF Answers
  <2>2. op \in Binary
    BY <1>12 DEF Binary, MathOps
  <2>3. g = GenMath(op, k1, k2, res)
    BY <1>1, <1>3, <1>4, <1>5, <1>6, <1>7, <1>8, <1>12, <2>2, GenCases DEF MathOps
  <2>4. GenMath(op, k1, k2, res) = GenAdd(k1, k2, res)
    BY <1>12 DEF GenMath, IntOps, LogicOps
  <2>5. GenAdd(k1, k2, res) = "pointer"
    BY <2>1 DEF GenAdd, Numeric
  <2>6. QED
    BY <1>7, <1>8, <2>1, <2>3, <2>4, <2>5
<1>13. CASE op = "Sub"
  <2>1. ~ IsArray(ctx, Decay(ctx, node.args[1]))
    BY <1>1, <1>13 DEF OperatorGap, ArrayMinus
  <2>2. /\ k1 = "pointer"
        /\ (k2 = "int" /\ res = "pointer") \/ (k2 = "pointer" /\ res = "int")
    BY <1>1, <1>5, <1>6, <1>7, <1>13, <2>1, LlvmKinds DEF Answers
  <2>3. op \in Binary
    BY <1>13 DEF Binary, MathOps
  <2>4. g = GenMath(op, k1, k2, res)
    BY <1>1, <1>3, <1>4, <1>5, <1>6, <1>7, <1>8, <1>13, <2>3, GenCases DEF MathOps
  <2>5. GenMath(op, k1, k2, res) = GenSub(k1, k2, res)
    BY <1>13 DEF GenMath, IntOps, LogicOps
  <2>6. GenSub(k1, k2, res) = res
    BY <2>2 DEF GenSub
  <2>7. QED
    BY <1>7, <1>8, <2>4, <2>5, <2>6
<1>14. CASE op \in CmpOps
  <2>1. node.ch[1] = node.ch[2] /\ LlvmInt(ctx, node.ret)
    BY <1>1, <1>14 DEF Answers
  <2>2. IsPtr(ctx, node.ch[1])
    BY <1>1, <1>14 DEF Answers, OperatorGap, ArrayCmp
  <2>3. GreaterType(ctx, node.ch[1], node.ch[2]) = node.ch[1]
    BY <2>1, <2>2 DEF GreaterType, SameFunc, IsPtr, IsFunc, Decay, KindOf
  <2>4. g = GenCmp(k1)
    BY <1>1, <1>3, <1>4, <1>5, <1>8, <1>14, <2>3, GenCases
  <2>5. k1 = "pointer" /\ res = "int"
    BY <1>5, <1>7, <2>1, <2>2, LlvmKinds
  <2>6. QED
    BY <1>7, <1>8, <2>4, <2>5 DEF GenCmp, Numeric
<1>15. CASE op = "Call"
  <2>1. g = res
    BY <1>1, <1>3, <1>4, <1>7, <1>8, <1>15, GenCases
  <2>2. QED
    BY <1>7, <1>8, <2>1
<1>16. CASE op = "Convert"
  <2>1. node.ret = node.args[2] /\ IsForceConvertable(ctx, node.args[1], node.ret)
    BY <1>1, <1>16 DEF Answers
  <2>2. 2 \in DOMAIN node.args
    BY <1>3, <1>16 DEF Binary
  <2>3. node.args[1] \in Lowers(ctx) /\ node.ret \in Lowers(ctx)
    BY <1>3, <1>4, <2>1, <2>2, Accepts
  <2>4. ~ Gap(ctx, node.args[1], node.ret)
    BY <1>1, <1>16 DEF OperatorGap, OperandGap
  <2>5. AcceptedGenerates
    BY <1>2, CtxIsGood, AcceptedHasCode
  <2>6. "cast" \in Site /\ Accepted(ctx, "cast", node.args[1], node.ret)
    BY <2>1 DEF Site, Accepted
  <2>7. GenConvert(ctx, node.args[1], node.ret) = "value"
    BY <2>3, <2>4, <2>5, <2>6 DEF AcceptedGenerates
  <2>8. g = IF GenConvert(ctx, node.args[1], node.ret) = "value" THEN res ELSE "throws"
    BY <1>1, <1>3, <1>4, <1>7, <1>8, <1>16, GenCases
  <2>9. QED
    BY <1>7, <1>8, <2>7, <2>8
<1>17. op # "Length" /\ op \notin {"Mul", "Div"} \cup IntOps \cup LogicOps \cup UnaryOps
  BY <1>1 DEF OperatorGap, Answers
<1>18. op \in Binary \cup Unary \cup {"Call"}
  BY <1>3, OperatorsAssumption
<1>19. QED
  BY <1>9, <1>10, <1>11, <1>12, <1>13, <1>14, <1>15, <1>16, <1>17, <1>18
  DEF Binary, Unary, MathOps

\* An accepted operator is generated, and its value has the LLVM type of the
\* answer, but for the named gaps.
LEMMA OperatorsHaveCode == OpInv => OperatorGenerates
<1> SUFFICES ASSUME OpInv, Generates, ~ OperatorGap
             PROVE  /\ OperandsGenerate(ctx, node)
                    /\ GenOperator(ctx, node) = LlvmKind(ctx, node.ret)
  BY DEF OperatorGenerates
<1>1. /\ BuiltIn(ctx, node.op, node.ch, node.ret)
         \/ Answers(ctx, node.op, node.args, node.ch, node.ret)
  BY Accepts DEF Outcome
<1>2. QED
  BY <1>1, OperandsHaveCode, BuiltInHasCode, AnswersHaveCode

\* The checker and the generator agree on operators.
THEOREM OperatorGeneratesHolds == OpSpec => []OperatorGenerates
<1>1. OpIInv => OperatorGenerates
  BY OperatorsHaveCode DEF OpIInv
<1>2. QED
  BY <1>1, OpIInvHolds, PTL

\* An accepted call has the arguments its function takes.
THEOREM CallMatchesHolds == OpSpec => []CallMatches
<1>1. OpIInv => CallMatches
  BY MatchingCalls DEF OpIInv
<1>2. QED
  BY <1>1, OpIInvHolds, PTL

\* An accepted call is generated, and a parameter without an argument is
\* looked for only after the error has been reported.
THEOREM CallGeneratesHolds == OpSpec => []CallGenerates
<1>1. OpIInv => CallGenerates
  <2> SUFFICES ASSUME OpInv PROVE CallGenerates
    BY DEF OpIInv
  <2>1. CASE node.pc = "idle"
    <3>1. node = Idle
      BY <2>1 DEF OpInv
    <3>2. node.oob = FALSE
      BY <3>1 DEF Idle
    <3>3. QED
      BY <3>2, MatchingCalls, OperatorsHaveCode DEF CallGenerates
  <2>2. CASE node.pc # "idle"
    <3>1. node.oob => node.errs
      BY <2>2 DEF OpInv, Skipped, Outcome
    <3>2. QED
      BY <3>1, MatchingCalls, OperatorsHaveCode DEF CallGenerates
  <2>3. QED
    BY <2>1, <2>2
<1>2. QED
  BY <1>1, OpIInvHolds, PTL

-----------------------------------------------------------------------------
(* The node under evaluation. *)

\* Every list has a length, that of an operator without implementations too.
LEMMA CondsCounted == ASSUME NEW op PROVE Len(Conds(op)) \in Nat
<1>1. PICK s : s = Conds(op)
  OBVIOUS
<1>2. CASE op \in AllPrimOps
  <2>1. NPrim \in Nat /\ s = [i \in 1 .. NPrim |-> s[i]]
    BY <1>1, <1>2, CondsCases, TypeTableAssumption DEF PrimIds
  <2>2. QED
    BY <1>1, <2>1, FunctionShape
<1>3. CASE op \in IntOps
  <2>1. ListsInts(s, NPrim)
    BY <1>1, <1>3, CondsCases, IntsListed
  <2>2. QED
    BY <1>1, <2>1, SeqShape DEF ListsInts
<1>4. CASE op \in BoolOps
  BY <1>4, CondsCases
<1>5. CASE op \notin BuiltInOps
  BY <1>5, CondsCases
<1>6. QED
  BY <1>2, <1>3, <1>4, <1>5 DEF BuiltInOps, AllPrimOps, BoolOps, UnaryOps

\* How far the scan is, and what it has found.
Bounds ==
    /\ node.cur <= Len(Conds(node.op))
    /\ node.weight <= Reject
    /\ node.cnt <= node.cur

\* A node that has not been scanned.
LEMMA FreshInBounds ==
    ASSUME node'.cur = 0, node'.weight = Reject, node'.cnt = 0
    PROVE  Bounds'
<1>1. Len(Conds(node'.op)) \in Nat
  BY CondsCounted
<1>2. QED
  BY <1>1 DEF Bounds, Reject

\* Every step keeps to the bounds.
LEMMA BoundsKept == OpIInv /\ Bounds /\ [OpNext]_vars => Bounds'
<1> SUFFICES ASSUME OpIInv, Bounds, [OpNext]_vars PROVE Bounds'
  OBVIOUS
<1>1. DOMAIN node = NodeFields
  BY DEF OpIInv, OpInv, Idle, NodeFields
<1>2. ASSUME node' = Idle PROVE Bounds'
  <2>1. node'.cur = 0 /\ node'.weight = Reject /\ node'.cnt = 0
    BY <1>2 DEF Idle
  <2>2. QED
    BY <2>1, FreshInBounds
<1>3. ASSUME Declare \/ Finish PROVE Bounds'
  BY <1>2, <1>3 DEF Declare, Finish
<1>4. ASSUME NEW op, NEW args, Begin(op, args) PROVE Bounds'
  <2>1. node'.cur = 0 /\ node'.weight = Reject /\ node'.cnt = 0
    BY <1>4 DEF Begin, Idle
  <2>2. QED
    BY <2>1, FreshInBounds
<1>5. ASSUME node'.cur = node.cur, node'.weight = node.weight, node'.cnt = node.cnt,
             node'.op = node.op
      PROVE  Bounds'
  BY <1>5 DEF Bounds
<1>6. ASSUME Propagate PROVE Bounds'
  BY <1>1, <1>5, <1>6 DEF Propagate, NodeFields
<1>7. ASSUME NEW e, Close(e) PROVE Bounds'
  BY <1>1, <1>5, <1>7 DEF Close, NodeFields
<1>8. ASSUME Choose \/ Special PROVE Bounds'
  BY <1>7, <1>8 DEF Choose, Special
<1>9. ASSUME Scan PROVE Bounds'
  <2>1. PICK nw : nw = Weight(ctx, node.args, Conds(node.op)[node.cur + 1])
    OBVIOUS
  <2>2. nw \in Nat
    BY <2>1, WeightIsNat
  <2>3. PICK k : k = Len(Conds(node.op))
    OBVIOUS
  <2>4. k \in Nat /\ node.cur \in Nat /\ node.weight \in Nat /\ node.cnt \in Nat
    BY <2>3, CondsCounted DEF OpIInv, ScanInv, LocalsOK
  <2>5. /\ node'.op = node.op /\ node.cur < k
        /\ node'.cur = node.cur + 1
        /\ node'.weight = IF nw < node.weight THEN nw ELSE node.weight
        /\ node'.cnt = IF nw < node.weight THEN 0
                       ELSE IF nw = node.weight THEN node.cnt + 1 ELSE node.cnt
    BY <1>1, <1>9, <2>1, <2>2, <2>3, <2>4 DEF Scan, NodeFields
  <2>6. node.weight <= Reject /\ node.cnt <= node.cur
    BY DEF Bounds
  <2>7. node'.cur <= k /\ node'.weight <= Reject /\ node'.cnt <= node'.cur
    BY <2>2, <2>4, <2>5, <2>6 DEF Reject
  <2>8. QED
    BY <2>3, <2>5, <2>7 DEF Bounds
<1>10. ASSUME UNCHANGED vars PROVE Bounds'
  BY <1>5, <1>10 DEF vars
<1>11. QED
  BY <1>3, <1>4, <1>6, <1>8, <1>9, <1>10 DEF OpNext

\* The node under evaluation is one: its scan stays within the list, its weight
\* and ties within their bounds, its operands are as many as were written and
\* its answer is a type that is registered.
THEOREM NodeOKHolds == OpSpec => []NodeOK
<1>1. OpInit => Bounds
  <2> SUFFICES ASSUME OpInit PROVE Bounds
    OBVIOUS
  <2>1. node.cur = 0 /\ node.weight = Reject /\ node.cnt = 0
    BY DEF OpInit, Idle
  <2>2. Len(Conds(node.op)) \in Nat
    BY CondsCounted
  <2>3. QED
    BY <2>1, <2>2 DEF Bounds, Reject
<1>2. OpIInv /\ Bounds => NodeOK
  <2> SUFFICES ASSUME OpIInv, Bounds PROVE NodeOK
    OBVIOUS
  <2>1. OpInv /\ LocalsOK /\ CtxOK(ctx) /\ node.pc \in {"idle", "scan", "done"}
    BY DEF OpIInv, ScanInv, OpInv
  <2>2. PICK k \in Nat : k = Len(Conds(node.op))
    BY CondsCounted
  <2>3. /\ node.cur \in Nat /\ node.cur <= k
        /\ node.id \in Int /\ -1 <= node.id /\ node.id < node.cur
        /\ node.weight \in Nat /\ node.weight <= Reject
        /\ node.cnt \in Nat /\ node.cnt <= node.cur
    BY <2>1, <2>2 DEF LocalsOK, Bounds
  <2>4. /\ node.cur \in 0 .. k /\ node.id \in -1 .. node.cur - 1
        /\ node.weight \in 0 .. Reject /\ node.cnt \in 0 .. node.cur
    <3>1. PICK r \in Nat : r = Reject
      BY DEF Reject
    <3>2. node.cur \in 0 .. k
      BY <2>2, <2>3
    <3>3. node.id \in -1 .. node.cur - 1
      BY <2>3
    <3>4. node.weight \in 0 .. r
      BY <2>3, <3>1
    <3>5. node.cnt \in 0 .. node.cur
      BY <2>3
    <3>6. QED
      BY <3>1, <3>2, <3>3, <3>4, <3>5
  <2>5. Len(node.ch) = Len(node.args) /\ (node.ret = -1 \/ node.ret \in IdsIn(ctx))
    <3>1. CASE node.pc = "idle"
      <4>1. node = Idle
        BY <2>1, <3>1 DEF OpInv
      <4>2. node.ch = node.args /\ node.ret = -1
        BY <4>1 DEF Idle
      <4>3. QED
        BY <4>2
    <3>2. CASE node.pc = "scan"
      BY <2>1, <3>2 DEF OpInv
    <3>3. CASE node.pc = "done"
      BY <2>1, <3>3 DEF OpInv, Skipped, Outcome
    <3>4. QED
      BY <2>1, <3>1, <3>2, <3>3
  <2>6. node.ret \in -1 .. ctx.tp_counter - 1
    <3>1. /\ ctx.tp_counter \in Nat
          /\ \A a \in IdsIn(ctx) : a \in Nat /\ a < ctx.tp_counter
      BY <2>1, IdsNumbered
    <3>2. QED
      BY <2>5, <3>1
  <2>7. QED
    BY <2>1, <2>2, <2>4, <2>5, <2>6 DEF NodeOK
<1>3. QED
  BY <1>1, <1>2, BoundsKept, OpIInvHolds, PTL DEF OpSpec

-----------------------------------------------------------------------------
(* What parse_string reads. *)

\* The loop of parse_string at i: what it reads there, and what it reads behind.
ReadAt(text, i, next, after) ==
    IF i > Len(text) THEN <<>>
    ELSE IF text[i] # "backslash" THEN <<text[i]>> \o next
    ELSE IF i = Len(text) THEN <<Throws>>
    ELSE LET e == Escaped("quote", text[i + 1]) IN
         IF e # Throws THEN <<e>> \o after ELSE <<text[i]>> \o next

Reads(f, text) == f = [i \in 1 .. Len(text) + 1 |-> ReadAt(text, i, f[i + 1], f[i + 2])]

\* A reading that is right at the last m places and behind them.
ReadsLast(f, text, m) ==
    LET n == Len(text) IN
    /\ f = [i \in 1 .. n + 1 |-> f[i]]
    /\ \A i \in (n + 1 - m) .. n + 1 : f[i] = ReadAt(text, i, f[i + 1], f[i + 2])

\* The loop ends for every text.
LEMMA ReadingExists ==
    ASSUME NEW text, Len(text) \in Nat
    PROVE  \E f : Reads(f, text)
<1>1. PICK n \in Nat : n = Len(text)
  OBVIOUS
<1> DEFINE T == {m \in Nat : m <= n => \E f : ReadsLast(f, text, m)}
<1> HIDE DEF T
<1>2. 0 \in T
  <2>1. PICK f : f = [i \in 1 .. n + 1 |-> <<>>]
    OBVIOUS
  <2>2. f = [i \in 1 .. n + 1 |-> f[i]] /\ f[n + 1] = <<>>
    BY <2>1
  <2>3. ReadAt(text, n + 1, f[n + 2], f[n + 3]) = <<>>
    BY <1>1 DEF ReadAt
  <2>4. \A i \in (n + 1 - 0) .. n + 1 : i = n + 1 /\ i + 1 = n + 2 /\ i + 2 = n + 3
    OBVIOUS
  <2>5. ReadsLast(f, text, 0)
    BY <1>1, <2>2, <2>3, <2>4 DEF ReadsLast
  <2>6. QED
    BY <2>5 DEF T
<1>3. ASSUME NEW m \in Nat, m \in T PROVE m + 1 \in T
  <2>1. SUFFICES ASSUME m + 1 <= n PROVE \E g : ReadsLast(g, text, m + 1)
    BY DEF T
  <2>2. m <= n
    BY <2>1
  <2>3. PICK f : ReadsLast(f, text, m)
    BY <1>3, <2>2 DEF T
  <2>4. PICK p \in Nat : p = n - m /\ p >= 1 /\ p <= n
    BY <2>1
  <2>5. \A i \in p + 1 .. n + 1 : f[i] = ReadAt(text, i, f[i + 1], f[i + 2])
    <3>1. n + 1 - m = p + 1
      BY <2>4
    <3>2. QED
      BY <1>1, <2>3, <3>1 DEF ReadsLast
  <2>6. PICK x : x = ReadAt(text, p, f[p + 1], f[p + 2])
    OBVIOUS
  <2>7. PICK g : g = [i \in 1 .. n + 1 |-> IF i = p THEN x ELSE f[i]]
    OBVIOUS
  <2>8. g = [i \in 1 .. n + 1 |-> g[i]]
    BY <2>4, <2>7
  <2>9. g[p] = x /\ \A i \in p + 1 .. n + 1 : g[i] = f[i]
    BY <2>4, <2>7
  <2>10. ASSUME NEW i \in p .. n + 1 PROVE g[i] = ReadAt(text, i, g[i + 1], g[i + 2])
    <3>1. CASE i = n + 1
      <4>1. g[i] = f[i] /\ f[i] = ReadAt(text, i, f[i + 1], f[i + 2])
        BY <2>4, <2>9, <2>5, <3>1
      <4>2. i > Len(text)
        BY <1>1, <3>1
      <4>3. QED
        BY <4>1, <4>2 DEF ReadAt
    <3>2. CASE i = n
      <4>1. g[i + 1] = f[i + 1] /\ i = Len(text)
        BY <1>1, <2>4, <2>9, <3>2
      <4>2. g[i] = ReadAt(text, i, f[i + 1], f[i + 2])
        <5>1. CASE i = p
          BY <2>6, <2>9, <5>1
        <5>2. CASE i # p
          BY <2>4, <2>9, <2>5, <5>2
        <5>3. QED
          BY <5>1, <5>2
      <4>3. ~ (i > Len(text))
        BY <1>1, <4>1
      <4>4. QED
        BY <4>1, <4>2, <4>3 DEF ReadAt
    <3>3. CASE i < n
      <4>1. g[i + 1] = f[i + 1] /\ g[i + 2] = f[i + 2]
        BY <2>4, <2>9, <3>3
      <4>2. g[i] = ReadAt(text, i, f[i + 1], f[i + 2])
        <5>1. CASE i = p
          BY <2>6, <2>9, <5>1
        <5>2. CASE i # p
          BY <2>4, <2>9, <2>5, <5>2
        <5>3. QED
          BY <5>1, <5>2
      <4>3. QED
        BY <4>1, <4>2
    <3>4. QED
      BY <2>4, <3>1, <3>2, <3>3
  <2>11. n + 1 - (m + 1) = p
    BY <2>4
  <2>12. ReadsLast(g, text, m + 1)
    BY <1>1, <2>8, <2>10, <2>11 DEF ReadsLast
  <2>13. QED
    BY <2>12
<1>4. \A m \in Nat : m \in T
  BY <1>2, <1>3, Inductive
<1>5. PICK f : ReadsLast(f, text, n)
  <2>1. n \in T
    BY <1>4
  <2>2. QED
    BY <2>1 DEF T
<1>6. /\ f = [i \in 1 .. n + 1 |-> f[i]]
      /\ \A i \in 1 .. n + 1 : f[i] = ReadAt(text, i, f[i + 1], f[i + 2])
  <2>1. n + 1 - n = 1
    OBVIOUS
  <2>2. QED
    BY <1>1, <1>5, <2>1 DEF ReadsLast
<1>7. [i \in 1 .. n + 1 |-> f[i]] = [i \in 1 .. n + 1 |-> ReadAt(text, i, f[i + 1], f[i + 2])]
  BY <1>6
<1>8. Reads(f, text)
  BY <1>1, <1>6, <1>7 DEF Reads
<1>9. QED
  BY <1>8

\* What parse_string answers is such a reading.
LEMMA ReadingKnown ==
    ASSUME NEW text, Len(text) \in Nat
    PROVE  \E f : Reads(f, text) /\ parse_string(text) = f[1]
<1>1. PICK f : f = CHOOSE g : Reads(g, text)
  OBVIOUS
<1>2. parse_string(text) = f[1]
  BY <1>1, Zenon DEF parse_string, Reads, ReadAt
<1>3. Reads(f, text)
  BY <1>1, ReadingExists
<1>4. QED
  BY <1>2, <1>3

\* What FlattenSeq computes.
Joins(f, us) == f = [i \in 1 .. Len(us) |-> IF i = 1 THEN us[i] ELSE f[i - 1] \o us[i]]

JoinAt(us, i, before) == IF i = 1 THEN us[i] ELSE before \o us[i]

\* A join that is right at the first m places.
JoinsFirst(f, us, m) ==
    /\ f = [i \in 1 .. Len(us) |-> f[i]]
    /\ \A i \in 1 .. m : f[i] = JoinAt(us, i, f[i - 1])

\* FlattenSeq has an answer for every sequence.
LEMMA JoiningExists ==
    ASSUME NEW us, Len(us) \in Nat
    PROVE  \E f : Joins(f, us)
<1>1. PICK n \in Nat : n = Len(us)
  OBVIOUS
<1> DEFINE T == {m \in Nat : m <= n => \E f : JoinsFirst(f, us, m)}
<1> HIDE DEF T
<1>2. 0 \in T
  <2>1. PICK f : f = [i \in 1 .. n |-> <<>>]
    OBVIOUS
  <2>2. f = [i \in 1 .. n |-> f[i]]
    BY <2>1
  <2>3. JoinsFirst(f, us, 0)
    BY <1>1, <2>2 DEF JoinsFirst
  <2>4. QED
    BY <2>3 DEF T
<1>3. ASSUME NEW m \in Nat, m \in T PROVE m + 1 \in T
  <2>1. SUFFICES ASSUME m + 1 <= n PROVE \E g : JoinsFirst(g, us, m + 1)
    BY DEF T
  <2>2. PICK f : JoinsFirst(f, us, m)
    BY <1>3, <2>1 DEF T
  <2>3. PICK x : x = JoinAt(us, m + 1, f[m])
    OBVIOUS
  <2>4. PICK g : g = [i \in 1 .. n |-> IF i = m + 1 THEN x ELSE f[i]]
    OBVIOUS
  <2>5. g = [i \in 1 .. n |-> g[i]]
    BY <2>4
  <2>6. g[m + 1] = x /\ \A i \in 1 .. m : g[i] = f[i]
    BY <2>1, <2>4
  <2>7. ASSUME NEW i \in 1 .. m + 1 PROVE g[i] = JoinAt(us, i, g[i - 1])
    <3>1. CASE i = m + 1
      <4>1. g[i] = JoinAt(us, i, f[i - 1])
        BY <2>3, <2>6, <3>1
      <4>2. i # 1 => g[i - 1] = f[i - 1]
        BY <2>6, <3>1
      <4>3. QED
        BY <4>1, <4>2 DEF JoinAt
    <3>2. CASE i # m + 1
      <4>1. i \in 1 .. m /\ g[i] = f[i]
        BY <2>6, <3>2
      <4>2. f[i] = JoinAt(us, i, f[i - 1])
        BY <2>2, <4>1 DEF JoinsFirst
      <4>3. i # 1 => g[i - 1] = f[i - 1]
        BY <2>6, <4>1
      <4>4. QED
        BY <4>1, <4>2, <4>3 DEF JoinAt
    <3>3. QED
      BY <3>1, <3>2
  <2>8. JoinsFirst(g, us, m + 1)
    BY <1>1, <2>5, <2>7 DEF JoinsFirst
  <2>9. QED
    BY <2>8
<1>4. n \in T
  BY <1>2, <1>3, Inductive
<1>5. PICK f : JoinsFirst(f, us, n)
  BY <1>4 DEF T
<1>6. \A i \in 1 .. n : f[i] = JoinAt(us, i, f[i - 1])
  BY <1>5 DEF JoinsFirst
<1>7. f = [i \in 1 .. n |-> f[i]]
  BY <1>1, <1>5 DEF JoinsFirst
<1>8. [i \in 1 .. n |-> f[i]] = [i \in 1 .. n |-> JoinAt(us, i, f[i - 1])]
  BY <1>6
<1>9. Joins(f, us)
  BY <1>1, <1>7, <1>8 DEF Joins, JoinAt
<1>10. QED
  BY <1>9

\* The first j units, as text.
Starts(P, us, S) ==
    LET n == Len(us) IN
    /\ P[0] = <<>>
    /\ \A j \in 0 .. n : P[j] \in Seq(S)
    /\ \A j \in 1 .. n : P[j] = P[j - 1] \o us[j]

\* The text of a string grows by one unit after the other.
LEMMA TextGrows ==
    ASSUME NEW S, NEW us \in Seq(Seq(S))
    PROVE  \E P : Starts(P, us, S) /\ Text(us) = P[Len(us)]
<1>1. PICK n \in Nat : n = Len(us)
  OBVIOUS
<1>2. \A i \in 1 .. n : us[i] \in Seq(S)
  BY <1>1
<1>3. PICK f : f = CHOOSE g : Joins(g, us)
  OBVIOUS
<1>4. Joins(f, us)
  BY <1>1, <1>3, JoiningExists
<1>5. n # 0 => Text(us) = f[n]
  BY <1>1, <1>3, Zenon DEF Text, FlattenSeq, Joins
<1>6. n = 0 => Text(us) = <<>>
  <2>1. ASSUME n = 0 PROVE us = <<>>
    BY <1>1, <2>1, EmptySeq
  <2>2. QED
    BY <1>1, <2>1 DEF Text, FlattenSeq
<1>7. PICK P : P = [j \in 0 .. n |-> IF j = 0 THEN <<>> ELSE f[j]]
  OBVIOUS
<1>8. P[0] = <<>> /\ \A j \in 1 .. n : P[j] = f[j]
  BY <1>7
<1>9. \A i \in 1 .. n : f[i] = JoinAt(us, i, f[i - 1])
  BY <1>1, <1>4 DEF Joins, JoinAt
<1>10. ASSUME NEW j \in 1 .. n PROVE P[j] = P[j - 1] \o us[j]
  <2>1. f[j] = JoinAt(us, j, f[j - 1]) /\ P[j] = f[j] /\ us[j] \in Seq(S)
    BY <1>2, <1>8, <1>9
  <2>2. CASE j = 1
    <3>1. P[j - 1] = <<>>
      BY <1>8, <2>2
    <3>2. <<>> \o us[j] = us[j]
      BY <2>1, ConcatEmptySeq
    <3>3. QED
      BY <2>1, <2>2, <3>1, <3>2 DEF JoinAt
  <2>3. CASE j # 1
    <3>1. j - 1 \in 1 .. n /\ P[j - 1] = f[j - 1]
      BY <1>8, <2>3
    <3>2. QED
      BY <2>1, <2>3, <3>1 DEF JoinAt
  <2>4. QED
    BY <2>2, <2>3
<1> DEFINE T == {j \in Nat : j <= n => P[j] \in Seq(S)}
<1> HIDE DEF T
<1>11. 0 \in T
  <2>1. <<>> \in Seq(S)
    BY EmptySeq
  <2>2. QED
    BY <1>8, <2>1 DEF T
<1>12. ASSUME NEW j \in Nat, j \in T PROVE j + 1 \in T
  <2>1. SUFFICES ASSUME j + 1 <= n PROVE P[j + 1] \in Seq(S)
    BY DEF T
  <2>2. P[j] \in Seq(S)
    BY <1>12, <2>1 DEF T
  <2>3. j + 1 \in 1 .. n /\ (j + 1) - 1 = j
    BY <2>1
  <2>4. P[j + 1] = P[j] \o us[j + 1] /\ us[j + 1] \in Seq(S)
    BY <1>2, <1>10, <2>3
  <2>5. QED
    BY <2>2, <2>4, ConcatProperties
<1>13. \A j \in Nat : j \in T
  BY <1>11, <1>12, Inductive
<1>14. \A j \in 0 .. n : P[j] \in Seq(S)
  BY <1>13 DEF T
<1>15. Starts(P, us, S)
  BY <1>1, <1>8, <1>10, <1>14 DEF Starts
<1>16. Text(us) = P[n]
  BY <1>5, <1>6, <1>8
<1>17. QED
  BY <1>1, <1>15, <1>16

\* A sequence behind another.
LEMMA Appended ==
    ASSUME NEW S, NEW p \in Seq(S), NEW q \in Seq(S), NEW a \in Nat, NEW b \in Nat,
           Len(p) = a, Len(q) = b, NEW w, w = p \o q
    PROVE  /\ w \in Seq(S) /\ Len(w) = a + b
           /\ \A i \in 1 .. a : w[i] = p[i]
           /\ \A i \in 1 .. b : w[a + i] = q[i]
<1>1. /\ w \in Seq(S) /\ Len(w) = a + b
      /\ \A i \in 1 .. a + b : w[i] = IF i <= a THEN p[i] ELSE q[i - a]
  BY ConcatProperties
<1>2. \A i \in 1 .. a : i \in 1 .. a + b /\ i <= a
  OBVIOUS
<1>3. \A i \in 1 .. b : a + i \in 1 .. a + b /\ ~ (a + i <= a) /\ (a + i) - a = i
  OBVIOUS
<1>4. \A i \in 1 .. a : w[i] = p[i]
  BY <1>1, <1>2
<1>5. ASSUME NEW i \in 1 .. b PROVE w[a + i] = q[i]
  <2>1. a + i \in 1 .. a + b /\ ~ (a + i <= a) /\ (a + i) - a = i
    BY <1>3
  <2>2. w[a + i] = IF a + i <= a THEN p[a + i] ELSE q[(a + i) - a]
    BY <1>1, <2>1
  <2>3. QED
    BY <2>1, <2>2
<1>6. QED
  BY <1>1, <1>4, <1>5

\* The first j units begin the text.
LEMMA StartsBegin ==
    ASSUME NEW S, NEW us \in Seq(Seq(S)), NEW P, Starts(P, us, S), NEW j \in 0 .. Len(us)
    PROVE  /\ Len(P[j]) \in Nat /\ Len(P[j]) <= Len(P[Len(us)])
           /\ \A i \in 1 .. Len(P[j]) : P[Len(us)][i] = P[j][i]
<1>1. PICK n \in Nat : n = Len(us)
  OBVIOUS
<1>2. \A k \in 0 .. n : P[k] \in Seq(S) /\ Len(P[k]) \in Nat
  BY <1>1 DEF Starts
<1> DEFINE Begins(k) == /\ Len(P[k]) <= Len(P[n])
                        /\ \A i \in 1 .. Len(P[k]) : P[n][i] = P[k][i]
           T == {d \in Nat : d <= n => Begins(n - d)}
<1>3. 0 \in T
  <2>1. n - 0 = n /\ Len(P[n]) \in Nat
    BY <1>2
  <2>2. QED
    BY <2>1
<1>4. ASSUME NEW d \in Nat, d \in T PROVE d + 1 \in T
  <2>1. SUFFICES ASSUME d + 1 <= n PROVE Begins(n - (d + 1))
    OBVIOUS
  <2>2. PICK k \in Nat : k = n - d /\ k - 1 = n - (d + 1) /\ k \in 1 .. n /\ k - 1 \in 0 .. n
    BY <2>1
  <2>3. Begins(k)
    BY <1>4, <2>1, <2>2
  <2>4. PICK w : w = P[k]
    OBVIOUS
  <2>5. PICK p : p = P[k - 1]
    OBVIOUS
  <2>6. PICK q : q = us[k]
    OBVIOUS
  <2>7. w = p \o q
    <3>1. \A i \in 1 .. Len(us) : P[i] = P[i - 1] \o us[i]
      BY DEF Starts
    <3>2. P[k] = P[k - 1] \o us[k]
      BY <1>1, <2>2, <3>1
    <3>3. QED
      BY <2>4, <2>5, <2>6, <3>2
  <2>8. p \in Seq(S)
    BY <1>2, <2>2, <2>5
  <2>9. q \in Seq(S)
    BY <1>1, <2>2, <2>6
  <2>10. PICK a \in Nat : a = Len(p)
    BY <2>8
  <2>11. PICK b \in Nat : b = Len(q)
    BY <2>9
  <2>12. Len(w) = a + b /\ \A i \in 1 .. a : w[i] = p[i]
    BY <2>7, <2>8, <2>9, <2>10, <2>11, Appended
  <2>13. \A i \in 1 .. a : P[n][i] = P[k - 1][i]
    <3>1. \A i \in 1 .. a : i \in 1 .. a + b
      BY <2>11
    <3>2. QED
      BY <2>3, <2>4, <2>5, <2>12, <3>1
  <2>14. Len(P[k - 1]) <= Len(P[n])
    <3>1. Len(P[n]) \in Nat
      BY <1>2
    <3>2. QED
      BY <2>3, <2>4, <2>5, <2>10, <2>11, <2>12, <3>1
  <2>15. QED
    BY <2>2, <2>5, <2>13, <2>14, <2>10
<1>5. n - j \in T
  <2> HIDE DEF T
  <2>1. \A d \in Nat : d \in T
    BY <1>3, <1>4, Inductive
  <2>2. n - j \in Nat
    BY <1>1
  <2>3. QED
    BY <2>1, <2>2
<1>6. Begins(j)
  <2>1. n - (n - j) = j /\ n - j <= n /\ n - j \in Nat
    BY <1>1
  <2>2. QED
    BY <1>5, <2>1
<1>7. QED
  BY <1>1, <1>2, <1>6

\* One character in front of others.
LEMMA InFront ==
    ASSUME NEW S, NEW x \in S, NEW s \in Seq(S), NEW n \in Nat, Len(s) = n,
           NEW w, w = <<x>> \o s
    PROVE  /\ w \in Seq(S) /\ Len(w) = n + 1
           /\ w[1] = x /\ \A i \in 1 .. n : w[i + 1] = s[i]
<1>1. PICK o : o = <<x>>
  OBVIOUS
<1>2. o \in Seq(S)
  BY <1>1
<1>3. Len(o) = 1 /\ o[1] = x
  BY <1>1
<1>4. w = o \o s
  BY <1>1
<1>5. /\ w \in Seq(S) /\ Len(w) = 1 + n
      /\ \A i \in 1 .. 1 : w[i] = o[i]
      /\ \A i \in 1 .. n : w[1 + i] = s[i]
  BY <1>2, <1>3, <1>4, Appended
<1>6. \A i \in 1 .. n : i + 1 = 1 + i
  OBVIOUS
<1>7. QED
  BY <1>3, <1>5, <1>6

\* A unit is one character, or a backslash and one character.
LEMMA UnitForms ==
    ASSUME NEW u \in StringUnits
    PROVE  /\ u \in Seq(Chars) /\ Meaning(u) # Throws
           /\ \/ Len(u) = 1 /\ u[1] # "backslash" /\ Meaning(u) = u[1]
              \/ Len(u) = 2 /\ u[1] = "backslash" /\ Meaning(u) = Escaped("quote", u[2])
<1>1. CASE u \in {<<c>> : c \in Chars \ {"quote", "backslash"}}
  <2>1. PICK c \in Chars \ {"quote", "backslash"} : u = <<c>>
    BY <1>1
  <2>2. u \in Seq(Chars) /\ Len(u) = 1 /\ u[1] = c
    BY <2>1
  <2>3. u # <<"backslash", "letter">>
    BY <2>2
  <2>4. Meaning(u) = c
    BY <2>2, <2>3 DEF Meaning
  <2>5. QED
    BY <2>1, <2>2, <2>4 DEF Chars, Throws
<1>2. CASE u \in {<<"backslash", c>> : c \in {"quote", "backslash", "letter"}}
  <2>1. PICK c \in {"quote", "backslash", "letter"} : u = <<"backslash", c>>
    BY <1>2
  <2>2. u \in Seq(Chars) /\ Len(u) = 2 /\ u[1] = "backslash" /\ u[2] = c
    BY <2>1 DEF Chars
  <2>3. u = <<"backslash", "letter">> <=> c = "letter"
    BY <2>1, <2>2
  <2>4. Meaning(u) = IF c = "letter" THEN "control" ELSE c
    BY <2>2, <2>3 DEF Meaning
  <2>5. Escaped("quote", c) = IF c = "letter" THEN "control" ELSE c
    BY <2>1 DEF Escaped
  <2>6. QED
    BY <2>1, <2>2, <2>4, <2>5 DEF Throws
<1>3. QED
  BY <1>1, <1>2 DEF StringUnits, UnitsOf

\* Every string that passes the lexer has a value, one character for each unit.
LEMMA StringsRead ==
    ASSUME NEW us \in Seq(StringUnits)
    PROVE  StringRead(us)
<1>1. PICK n \in Nat : n = Len(us)
  OBVIOUS
<1>2. \A k \in 1 .. n : us[k] \in StringUnits
  BY <1>1
<1>3. us \in Seq(Seq(Chars))
  <2>1. StringUnits \subseteq Seq(Chars)
    BY UnitForms
  <2>2. QED
    BY <2>1
<1>4. PICK P : Starts(P, us, Chars) /\ Text(us) = P[n]
  BY <1>1, <1>3, TextGrows
<1>5. PICK text : text = Text(us)
  OBVIOUS
<1>6. PICK N \in Nat : N = Len(text)
  BY <1>1, <1>4, <1>5 DEF Starts
<1>7. PICK f : Reads(f, text) /\ parse_string(text) = f[1]
  BY <1>6, ReadingKnown
<1>8. \A i \in 1 .. N + 1 : f[i] = ReadAt(text, i, f[i + 1], f[i + 2])
  BY <1>6, <1>7 DEF Reads
<1>9. \A j \in 0 .. n : /\ Len(P[j]) \in Nat /\ Len(P[j]) <= N
                       /\ \A i \in 1 .. Len(P[j]) : text[i] = P[j][i]
  BY <1>1, <1>3, <1>4, <1>5, <1>6, StartsBegin
<1> DEFINE M == {Meaning(us[k]) : k \in 1 .. n}
           Behind(d) == LET s == f[Len(P[n - d]) + 1] IN
                        /\ s \in Seq(M) /\ Len(s) = d
                        /\ \A i \in 1 .. d : s[i] = Meaning(us[n - d + i])
           T == {d \in Nat : d <= n => Behind(d)}
<1>10. 0 \in T
  <2>1. n - 0 = n /\ P[n] = text
    BY <1>4, <1>5
  <2>2. N + 1 \in 1 .. N + 1 /\ N + 1 > Len(text)
    BY <1>6
  <2>3. f[N + 1] = <<>>
    BY <1>8, <2>2 DEF ReadAt
  <2>4. <<>> \in Seq(M) /\ Len(<<>>) = 0
    BY EmptySeq
  <2>5. \A i \in 1 .. 0 : FALSE
    OBVIOUS
  <2>6. f[Len(P[n - 0]) + 1] = <<>>
    BY <1>5, <1>6, <2>1, <2>3
  <2> HIDE DEF M
  <2>7. Behind(0)
    BY <2>4, <2>5, <2>6
  <2> HIDE DEF Behind
  <2>8. QED
    BY <2>7
<1>11. ASSUME NEW d \in Nat, d \in T PROVE d + 1 \in T
  <2>1. SUFFICES ASSUME d + 1 <= n PROVE Behind(d + 1)
    OBVIOUS
  <2>2. PICK k \in Nat : k = n - d /\ k - 1 = n - (d + 1) /\ k \in 1 .. n /\ k - 1 \in 0 .. n
    BY <2>1
  <2>3. PICK s : s = f[Len(P[k]) + 1]
    OBVIOUS
  <2>4. s \in Seq(M) /\ Len(s) = d /\ \A i \in 1 .. d : s[i] = Meaning(us[k + i])
    BY <1>11, <2>1, <2>2, <2>3
  <2>5. PICK u : u = us[k]
    OBVIOUS
  <2>6. PICK x : x = Meaning(u)
    OBVIOUS
  <2>7. x \in M
    BY <2>2, <2>5, <2>6
  <2> HIDE DEF M, T
  <2>8. /\ u \in Seq(Chars) /\ x # Throws
        /\ \/ Len(u) = 1 /\ u[1] # "backslash" /\ x = u[1]
           \/ Len(u) = 2 /\ u[1] = "backslash" /\ x = Escaped("quote", u[2])
    BY <1>2, <2>2, <2>5, <2>6, UnitForms
  <2>9. P[k] = P[k - 1] \o u /\ P[k - 1] \in Seq(Chars)
    BY <1>1, <1>4, <2>2, <2>5 DEF Starts
  <2>10. PICK a \in Nat : a = Len(P[k - 1])
    BY <2>9
  <2>11. PICK b \in Nat : b = Len(u) /\ b \in {1, 2}
    BY <2>8
  <2>12. /\ Len(P[k]) = a + b
         /\ \A i \in 1 .. b : P[k][a + i] = u[i]
    BY <2>8, <2>9, <2>10, <2>11, Appended
  <2>13. /\ a + b <= N /\ a + 1 \in 1 .. N + 1 /\ ~ (a + 1 > N)
         /\ text[a + 1] = u[1]
         /\ b = 2 => text[a + 2] = u[2]
    <3>1. k \in 0 .. n
      BY <2>2
    <3>2. a + b <= N /\ \A i \in 1 .. a + b : text[i] = P[k][i]
      BY <1>9, <2>12, <3>1
    <3>3. 1 \in 1 .. b /\ a + 1 \in 1 .. a + b
      BY <2>11
    <3>4. b = 2 => 2 \in 1 .. b /\ a + 2 \in 1 .. a + b
      BY <2>11
    <3>5. text[a + 1] = u[1]
      BY <2>12, <3>2, <3>3
    <3>6. b = 2 => text[a + 2] = u[2]
      BY <2>12, <3>2, <3>4
    <3>7. a + b <= N /\ a + 1 \in 1 .. N + 1 /\ ~ (a + 1 > N)
      BY <2>11, <3>2
    <3>8. QED
      BY <3>5, <3>6, <3>7
  <2>14. f[a + 1] = ReadAt(text, a + 1, f[a + 2], f[a + 3])
    <3>1. (a + 1) + 1 = a + 2 /\ (a + 1) + 2 = a + 3
      BY <2>10
    <3>2. QED
      BY <1>8, <2>13, <3>1
  <2>15. f[a + 1] = <<x>> \o s
    <3>1. CASE b = 1
      <4>1. x = u[1] /\ u[1] # "backslash" /\ s = f[a + 2]
        <5>1. (a + 1) + 1 = a + 2
          BY <2>10
        <5>2. QED
          BY <2>3, <2>8, <2>11, <2>12, <3>1, <5>1
      <4>2. text[a + 1] = x /\ text[a + 1] # "backslash"
        BY <2>13, <4>1
      <4>3. QED
        BY <1>6, <2>13, <2>14, <4>1, <4>2 DEF ReadAt
    <3>2. CASE b = 2
      <4>1. x = Escaped("quote", u[2]) /\ u[1] = "backslash" /\ s = f[a + 3]
        <5>1. (a + 2) + 1 = a + 3
          BY <2>10
        <5>2. QED
          BY <2>3, <2>8, <2>11, <2>12, <3>2, <5>1
      <4>2. text[a + 1] = "backslash" /\ x = Escaped("quote", text[(a + 1) + 1]) /\ a + 1 # N
        <5>1. (a + 1) + 1 = a + 2
          BY <2>10
        <5>2. QED
          BY <2>13, <3>2, <4>1, <5>1
      <4>3. QED
        BY <1>6, <2>8, <2>13, <2>14, <4>1, <4>2 DEF ReadAt
    <3>3. QED
      BY <2>11, <3>1, <3>2
  <2>16. PICK w : w = f[a + 1]
    OBVIOUS
  <2>17. w \in Seq(M) /\ Len(w) = d + 1 /\ w[1] = x /\ \A i \in 1 .. d : w[i + 1] = s[i]
    <3>1. w = <<x>> \o s
      BY <2>15, <2>16
    <3>2. s \in Seq(M) /\ Len(s) = d
      BY <2>4
    <3>3. QED
      BY <2>7, <3>1, <3>2, InFront
  <2>18. ASSUME NEW i \in 1 .. d + 1 PROVE w[i] = Meaning(us[n - (d + 1) + i])
    <3>1. CASE i = 1
      <4>1. n - (d + 1) + i = k
        BY <2>2, <3>1
      <4>2. QED
        BY <2>5, <2>6, <2>17, <3>1, <4>1
    <3>2. CASE i # 1
      <4>1. PICK h \in 1 .. d : h + 1 = i
        BY <3>2
      <4>2. n - (d + 1) + i = k + h
        BY <2>2, <4>1
      <4>3. QED
        BY <2>4, <2>17, <4>1, <4>2
    <3>3. QED
      BY <3>1, <3>2
  <2>19. w = f[Len(P[n - (d + 1)]) + 1]
    BY <2>2, <2>10, <2>16
  <2>20. QED
    BY <2>17, <2>18, <2>19
<1>12. n \in T
  <2> HIDE DEF T
  <2>1. QED
    BY <1>10, <1>11, Inductive
<1>13. Behind(n)
  BY <1>12
<1>14. Len(P[n - n]) + 1 = 1
  <2>1. n - n = 0 /\ P[0] = <<>> /\ Len(<<>>) = 0
    BY <1>4 DEF Starts
  <2>2. QED
    BY <2>1
<1>15. PICK s : s = f[1]
  OBVIOUS
<1>16. s \in Seq(M) /\ Len(s) = n /\ \A i \in 1 .. n : s[i] = Meaning(us[i])
  <2>1. \A i \in 1 .. n : n - n + i = i
    OBVIOUS
  <2> HIDE DEF M
  <2>2. QED
    BY <1>13, <1>14, <1>15, <2>1
<1> HIDE DEF M
<1>17. s = [i \in 1 .. n |-> Meaning(us[i])]
  BY <1>16
<1>18. DOMAIN us = 1 .. n
  BY <1>1
<1>19. QED
  BY <1>5, <1>7, <1>15, <1>17, <1>18 DEF StringRead

-----------------------------------------------------------------------------
(* The evaluation of an initial value. *)

InstFields == {"ctx", "ret", "errs", "convs", "consts", "stores"}

\* What a value can be of, maybe through a reference.
ValueKinds == {"Prim", "Void", "Func", "Pointer", "Array", "Struct"}

IsValue(c, t) == t \in IdsIn(c) /\ KindOf(c, Decay(c, t)) \in ValueKinds

TypePair(c, v) == v[1] \in IdsIn(c) /\ v[2] \in IdsIn(c)

\* A conversion that was accepted.
Converts(c, v) ==
    /\ IsValue(c, v[1]) /\ IsValue(c, v[2])
    /\ v[1] # v[2] /\ IsConvertable(c, v[1], v[2])

\* A literal of the kind has a constant of type t.
ConstantOf(c, kind, units, t) ==
    /\ kind \in {"int", "neg", "bool"} => LlvmInt(c, t)
    /\ kind = "double" => LlvmFloat(c, t)
    /\ kind = "null" => IsPtr(c, t)
    /\ kind = "char" => LlvmInt(c, t) /\ CharRead(units[1])
    /\ kind = "string" => /\ StringRead(units)
                          /\ IsArray(c, Decay(c, t))
                          /\ c.id_ptr_table[Decay(c, t)].n = Len(units) + 1

ConstantIn(c, k) ==
    /\ DOMAIN k = {"kind", "bits", "units", "as", "into"}
    /\ k.bits \in Nat
    /\ k.as \in IdsIn(c) /\ k.into \in IdsIn(c)
    /\ ConstantOf(c, k.kind, k.units, k.as)

\* What holds between two steps of the evaluation e that began in context b.
Evaluates(b, e) ==
    /\ DOMAIN e = InstFields
    /\ Grown(b, e.ctx)
    /\ e.errs \in BOOLEAN
    /\ \A k \in e.consts : ConstantIn(e.ctx, k)
    /\ \A v \in e.convs \cup e.stores : TypePair(e.ctx, v)
    /\ ~ e.errs => \A v \in e.convs : Converts(e.ctx, v)

\* The value has a type; it can be a value unless an error was reported.
HasType(e) == e.ret \in IdsIn(e.ctx) /\ (~ e.errs => IsValue(e.ctx, e.ret))

\* No trait is registered, so nothing converts by one.
LEMMA NoTraits ==
    ASSUME NEW c, CtxOK(c), NEW b \in IdsIn(c), NEW a
    PROVE  ~ WithTrait(c, a, b) /\ ~ IsTrait(c, b)
  BY DEF CtxOK, PartsOK, Part, DeclaredKinds, WithTrait, IsTrait, KindOf, IdsIn

\* What is a value has a value type, and what it decays to, too.
LEMMA ValueLowers ==
    ASSUME NEW c, CtxOK(c), NEW t, IsValue(c, t)
    PROVE  /\ t \in IdsIn(c) /\ Decay(c, t) \in IdsIn(c)
           /\ KindOf(c, Decay(c, t)) \in ValueKinds /\ KindOf(c, t) \in ValueKinds \cup {"Ref"}
           /\ Decay(c, Decay(c, t)) = Decay(c, t)
           /\ IsValue(c, Decay(c, t))
           /\ t \in Lowers(c)
<1>1. t \in IdsIn(c) /\ KindOf(c, Decay(c, t)) \in ValueKinds
  BY DEF IsValue
<1>2. /\ Decay(c, t) \in IdsIn(c) /\ Decay(c, Decay(c, t)) = Decay(c, t)
      /\ ~ IsRef(c, t) => Decay(c, t) = t
  BY <1>1, DecayKnown
<1>3. KindOf(c, t) \in ValueKinds \cup {"Ref"}
  BY <1>1, <1>2 DEF IsRef
<1>4. KindOf(c, t) \in Lowered /\ KindOf(c, Decay(c, t)) \in Lowered
  BY <1>1, <1>3 DEF ValueKinds, Lowered
<1>5. QED
  BY <1>1, <1>2, <1>3, <1>4 DEF IsValue, Lowers, IdsIn

\* What was a value before the context grew is one.
LEMMA ValueKept ==
    ASSUME NEW c, CtxOK(c), NEW d, Extends(c, d), NEW t, IsValue(c, t)
    PROVE  IsValue(d, t) /\ Same(c, d, t) /\ Same(c, d, Decay(c, t))
<1>1. t \in IdsIn(c) /\ Decay(c, t) \in IdsIn(c) /\ KindOf(c, Decay(c, t)) \in ValueKinds
  BY ValueLowers
<1>2. Same(c, d, t) /\ Same(c, d, Decay(c, t))
  BY <1>1, OldTypes
<1>3. QED
  BY <1>1, <1>2 DEF Same, IsValue

\* Constants stay what they are.
LEMMA ConstantKept ==
    ASSUME NEW c, CtxOK(c), NEW d, Extends(c, d), NEW k, ConstantIn(c, k)
    PROVE  ConstantIn(d, k)
<1>1. k.as \in IdsIn(c) /\ k.into \in IdsIn(c) /\ Decay(c, k.as) \in IdsIn(c)
  BY DecayKnown DEF ConstantIn
<1>2. Same(c, d, k.as) /\ Same(c, d, k.into) /\ Same(c, d, Decay(c, k.as))
  BY <1>1, OldTypes
<1>3. ConstantOf(d, k.kind, k.units, k.as)
  BY <1>2 DEF ConstantIn, ConstantOf, Same, LlvmInt, LlvmFloat, IsPtr, IsArray, IsPrim
<1>4. QED
  BY <1>2, <1>3 DEF ConstantIn, Same

\* Nothing that was found changes when only the context, the type and the report do.
LEMMA Moving ==
    ASSUME NEW b, NEW e, Evaluates(b, e), NEW g, DOMAIN g = InstFields,
           Grown(e.ctx, g.ctx), g.errs \in BOOLEAN, e.errs => g.errs,
           g.consts = e.consts, g.convs = e.convs, g.stores = e.stores
    PROVE  Evaluates(b, g)
<1>1. CtxOK(e.ctx) /\ Extends(e.ctx, g.ctx) /\ Grown(b, g.ctx)
  BY GrownOn DEF Evaluates, Grown
<1>2. \A k \in g.consts : ConstantIn(g.ctx, k)
  BY <1>1, ConstantKept DEF Evaluates
<1>3. \A v \in g.convs \cup g.stores : TypePair(g.ctx, v)
  BY <1>1, OldTypes DEF Evaluates, TypePair, Same
<1>4. ASSUME ~ g.errs, NEW v \in g.convs PROVE Converts(g.ctx, v)
  <2>1. Converts(e.ctx, v)
    BY <1>4 DEF Evaluates
  <2>2. v[1] \in IdsIn(e.ctx) /\ v[2] \in IdsIn(e.ctx)
    BY <2>1 DEF Converts, IsValue
  <2>3. IsConvertable(g.ctx, v[1], v[2])
    BY <1>1, <2>1, <2>2, OldConversions DEF Converts
  <2>4. QED
    BY <1>1, <2>1, <2>3, ValueKept DEF Converts
<1>5. QED
  BY <1>1, <1>2, <1>3, <1>4 DEF Evaluates

\* It moves to another type.
LEMMA OfTypeKeeps ==
    ASSUME NEW b, NEW e, Evaluates(b, e), NEW t
    PROVE  LET g == OfType(e, t) IN
           /\ Evaluates(b, g) /\ g.ret = t /\ g.ctx = e.ctx /\ g.errs = e.errs
           /\ g.consts = e.consts /\ g.convs = e.convs /\ g.stores = e.stores
<1> DEFINE g == OfType(e, t)
<1>1. DOMAIN e = InstFields
  BY DEF Evaluates
<1>2. /\ DOMAIN g = InstFields /\ g.ret = t /\ g.ctx = e.ctx /\ g.errs = e.errs
      /\ g.consts = e.consts /\ g.convs = e.convs /\ g.stores = e.stores
  BY <1>1 DEF OfType, InstFields
<1> HIDE DEF g
<1>3. Grown(e.ctx, g.ctx) /\ e.errs \in BOOLEAN
  BY <1>2 DEF Evaluates, Grown, Extends
<1>4. Evaluates(b, g)
  BY <1>2, <1>3, Moving
<1>5. QED
  BY <1>2, <1>4 DEF g

\* A type that is built on another; a reference may be const.
BuiltOn(kind, x, n, cnst) == Tp(kind, <<x>>, n, cnst = "const")

\* References, pointers and arrays are candidates.
LEMMA BuiltOnLowered ==
    ASSUME NEW c, CtxOK(c), NEW x \in IdsIn(c), KindOf(c, x) \in Lowered \ {"Ref"},
           NEW kind \in {"Ref", "Pointer", "Array"}, NEW n \in Nat, NEW cnst
    PROVE  Candidate(c, BuiltOn(kind, x, n, cnst))
<1>1. x \in Nat /\ x < c.tp_counter /\ c.tp_counter \in Nat
  BY IdsNumbered
<1>2. c.id_ptr_table[x].kind # "Ref" /\ KindOf(c, x) \in Lowered
  BY DEF KindOf
<1>3. PICK t : t = BuiltOn(kind, x, n, cnst)
  OBVIOUS
<1>4. /\ t.kind = kind /\ t.args = <<x>> /\ t.n = n
      /\ t = [kind |-> kind, args |-> <<x>>, n |-> n, flag |-> cnst = "const"]
  BY <1>3 DEF BuiltOn, Tp
<1>5. t \in Type
  BY <1>1, <1>4 DEF Type, Kind, Leaf, Nominal
<1>6. /\ Supported(c, t, c.tp_counter) /\ HasSubtype(t) /\ Listed(t) /\ Part(c, t)
      /\ t.kind \notin Nominal
  <2>1. /\ t.kind \in {"Ref", "Pointer", "Array"}
        /\ DOMAIN t.args = {1} /\ t.args[1] = x
    BY <1>4
  <2>2. Supported(c, t, c.tp_counter)
    BY <1>1, <1>2, <2>1 DEF Supported
  <2>3. HasSubtype(t) /\ Listed(t) /\ Part(c, t) /\ t.kind \notin Nominal
    BY <1>2, <2>1 DEF HasSubtype, Listed, Part, DeclaredKinds, Nominal
  <2>4. QED
    BY <2>2, <2>3
<1>7. QED
  BY <1>3, <1>5, <1>6 DEF Candidate

\* Such a type is registered, or was.
LEMMA Registering ==
    ASSUME NEW b, NEW e, Evaluates(b, e), NEW x \in IdsIn(e.ctx),
           KindOf(e.ctx, x) \in Lowered \ {"Ref"},
           NEW kind \in {"Ref", "Pointer", "Array"}, NEW n \in Nat, NEW cnst,
           NEW g, g = Obtain(e, BuiltOn(kind, x, n, cnst))
    PROVE  /\ Evaluates(b, g) /\ Grown(e.ctx, g.ctx) /\ g.ret \in IdsIn(g.ctx)
           /\ KindOf(g.ctx, g.ret) = kind /\ Sub(g.ctx, g.ret) = x
           /\ g.ctx.id_ptr_table[g.ret].n = n
           /\ g.errs = e.errs
           /\ g.consts = e.consts /\ g.convs = e.convs /\ g.stores = e.stores
<1>1. PICK t : t = BuiltOn(kind, x, n, cnst)
  OBVIOUS
<1>2. CtxOK(e.ctx) /\ DOMAIN e = InstFields /\ e.errs \in BOOLEAN
  BY DEF Evaluates, Grown
<1>3. Candidate(e.ctx, t) /\ t.kind = kind /\ t.args = <<x>> /\ t.n = n
  BY <1>1, <1>2, BuiltOnLowered DEF BuiltOn, Tp
<1>4. g = Obtain(e, t)
  BY <1>1
<1>5. /\ DOMAIN g = InstFields /\ g.ctx = GetOrCreate(e.ctx, t) /\ g.ret = Answer(e.ctx, t)
      /\ g.errs = e.errs
      /\ g.consts = e.consts /\ g.convs = e.convs /\ g.stores = e.stores
  BY <1>2, <1>4 DEF Obtain, InstFields
<1>6. Grown(e.ctx, g.ctx) /\ g.ret \in IdsIn(g.ctx) /\ SameType(t, g.ctx.id_ptr_table[g.ret])
  BY <1>2, <1>3, <1>5, Adding
<1>7. Evaluates(b, g)
  BY <1>2, <1>5, <1>6, Moving
<1>8. KindOf(g.ctx, g.ret) = kind /\ Sub(g.ctx, g.ret) = x /\ g.ctx.id_ptr_table[g.ret].n = n
  <2>1. PICK u : u = g.ctx.id_ptr_table[g.ret]
    OBVIOUS
  <2>2. u.kind = kind /\ u.args = <<x>> /\ u.n = n
    BY <1>3, <1>6, <2>1 DEF SameType
  <2>3. QED
    BY <2>1, <2>2 DEF KindOf, Sub
<1>9. QED
  BY <1>5, <1>6, <1>7, <1>8

\* What is built on a value is one.
LEMMA Obtaining ==
    ASSUME NEW b, NEW e, Evaluates(b, e), NEW x \in IdsIn(e.ctx), KindOf(e.ctx, x) \in ValueKinds,
           NEW kind \in {"Ref", "Pointer", "Array"}, NEW n \in Nat, NEW cnst,
           NEW g, g = Obtain(e, BuiltOn(kind, x, n, cnst))
    PROVE  /\ Evaluates(b, g) /\ Grown(e.ctx, g.ctx) /\ IsValue(g.ctx, g.ret)
           /\ KindOf(g.ctx, g.ret) = kind /\ Sub(g.ctx, g.ret) = x
           /\ g.ctx.id_ptr_table[g.ret].n = n
           /\ g.errs = e.errs
           /\ g.consts = e.consts /\ g.convs = e.convs /\ g.stores = e.stores
<1>1. KindOf(e.ctx, x) \in Lowered \ {"Ref"}
  BY DEF ValueKinds, Lowered
<1>2. /\ Evaluates(b, g) /\ Grown(e.ctx, g.ctx) /\ g.ret \in IdsIn(g.ctx)
      /\ KindOf(g.ctx, g.ret) = kind /\ Sub(g.ctx, g.ret) = x
      /\ g.ctx.id_ptr_table[g.ret].n = n
      /\ g.errs = e.errs
      /\ g.consts = e.consts /\ g.convs = e.convs /\ g.stores = e.stores
  BY <1>1, Registering
<1>3. x \in IdsIn(g.ctx) /\ KindOf(g.ctx, x) \in ValueKinds
  BY <1>2, OldTypes DEF Grown, Same
<1>4. Decay(g.ctx, g.ret) = IF kind = "Ref" THEN x ELSE g.ret
  BY <1>2 DEF Decay, KindOf, Sub
<1>5. IsValue(g.ctx, g.ret)
  BY <1>2, <1>3, <1>4 DEF IsValue, ValueKinds
<1>6. QED
  BY <1>2, <1>5

\* A value is refused: the error type, and a report.
LEMMA Refusing ==
    ASSUME NEW b, NEW e, Evaluates(b, e)
    PROVE  LET g == Refuse(e) IN
           Evaluates(b, g) /\ Grown(e.ctx, g.ctx) /\ HasType(g) /\ g.errs = TRUE
<1>1. PICK d : d = [e EXCEPT !.errs = TRUE]
  OBVIOUS
<1>2. CtxOK(e.ctx) /\ DOMAIN e = InstFields
  BY DEF Evaluates, Grown
<1>3. /\ DOMAIN d = InstFields /\ d.ctx = e.ctx /\ d.errs = TRUE
      /\ d.consts = e.consts /\ d.convs = e.convs /\ d.stores = e.stores
  BY <1>1, <1>2 DEF InstFields
<1>4. PICK g : g = Obtain(d, FailedTp)
  OBVIOUS
<1>5. /\ DOMAIN g = InstFields /\ g.ctx = GetOrCreate(e.ctx, FailedTp)
      /\ g.ret = Answer(e.ctx, FailedTp) /\ g.errs = TRUE
      /\ g.consts = e.consts /\ g.convs = e.convs /\ g.stores = e.stores
  BY <1>3, <1>4 DEF Obtain, InstFields
<1>6. Candidate(e.ctx, FailedTp)
  <2>1. FailedTp = ErrorTp
    BY DEF FailedTp, ErrorTp
  <2>2. QED
    BY <1>2, <2>1, Candidates
<1>7. Grown(e.ctx, g.ctx) /\ g.ret \in IdsIn(g.ctx)
  BY <1>2, <1>5, <1>6, Adding
<1>8. Evaluates(b, g)
  BY <1>5, <1>7, Moving
<1>9. QED
  BY <1>1, <1>4, <1>5, <1>7, <1>8 DEF Refuse, HasType

\* All constants go where the value goes.
Into(consts, t) == {[k EXCEPT !.into = t] : k \in consts}

\* What a value converts to is a type of values.
LEMMA ValueReached ==
    ASSUME NEW c, CtxOK(c), NEW a, IsValue(c, a), NEW t \in IdsIn(c), ~ IsError(c, t),
           IsConvertable(c, a, t)
    PROVE  IsValue(c, t)
<1>1. PICK x : x = Decay(c, a)
  OBVIOUS
<1>2. x \in IdsIn(c) /\ KindOf(c, x) \in ValueKinds /\ IsValue(c, x)
  BY <1>1, ValueLowers
<1>3. ~ WithTrait(c, x, t) /\ (~ IsRef(c, t) => Decay(c, t) = t)
  BY NoTraits, DecayKnown
<1>4. CASE IsRef(c, a) /\ a = t
  BY <1>4
<1>5. CASE ConvertsPlain(c, x, t)
  <2>1. x = t \/ KindOf(c, t) \in {"Prim", "Void", "Pointer"}
    BY <1>2, <1>3, <1>5
    DEF ConvertsPlain, ValueKinds, PrimConverts, PtrConverts, FuncConverts, IsVoid, IsPrim, IsPtr
  <2>2. CASE x = t
    BY <1>2, <2>2
  <2>3. CASE KindOf(c, t) \in {"Prim", "Void", "Pointer"}
    BY <1>3, <2>3 DEF IsValue, ValueKinds, IsRef
  <2>4. QED
    BY <2>1, <2>2, <2>3
<1>6. QED
  BY <1>1, <1>4, <1>5 DEF IsConvertable

\* A value is converted, if it has another type.
LEMMA Converting ==
    ASSUME NEW b, NEW e, Evaluates(b, e), HasType(e), NEW t \in IdsIn(e.ctx),
           ~ e.errs => ~ IsError(e.ctx, t)
    PROVE  LET g == Convert(e, t) IN
           /\ Evaluates(b, g) /\ HasType(g)
           /\ g.ctx = e.ctx /\ g.ret = t /\ g.stores = e.stores
           /\ e.errs => g.errs
           /\ ~ g.errs => e.ret = t \/ IsConvertable(e.ctx, e.ret, t)
           /\ e.ret = t => g = e
           /\ e.ret # t => g.consts = Into(e.consts, t)
<1>1. CASE e.ret = t
  BY <1>1 DEF Convert
<1>2. CASE e.ret # t
  <2>1. PICK g : g = Convert(e, t)
    OBVIOUS
  <2>2. DOMAIN e = InstFields /\ e.errs \in BOOLEAN
    BY DEF Evaluates
  <2>3. /\ DOMAIN g = InstFields /\ g.ctx = e.ctx /\ g.ret = t /\ g.stores = e.stores
        /\ g.errs = (e.errs \/ ~ IsConvertable(e.ctx, e.ret, t))
        /\ g.convs = e.convs \cup {<<e.ret, t>>}
        /\ g.consts = Into(e.consts, t)
    BY <1>2, <2>1, <2>2 DEF Convert, InstFields, Into
  <2>4. g.errs \in BOOLEAN /\ (~ g.errs => ~ e.errs /\ IsConvertable(e.ctx, e.ret, t))
    BY <2>2, <2>3
  <2>5. ASSUME NEW k \in g.consts PROVE ConstantIn(g.ctx, k)
    <3>1. PICK k0 \in e.consts : k = [k0 EXCEPT !.into = t]
      BY <2>3 DEF Into
    <3>2. ConstantIn(e.ctx, k0)
      BY DEF Evaluates
    <3>3. QED
      BY <2>3, <3>1, <3>2 DEF ConstantIn
  <2>6. \A v \in g.convs \cup g.stores : TypePair(g.ctx, v)
    BY <2>3 DEF Evaluates, TypePair, HasType
  <2>7. ASSUME ~ g.errs PROVE IsValue(e.ctx, e.ret) /\ IsValue(e.ctx, t)
    <3>1. CtxOK(e.ctx) /\ IsValue(e.ctx, e.ret) /\ ~ IsError(e.ctx, t)
      BY <2>4, <2>7 DEF Evaluates, Grown, HasType
    <3>2. QED
      BY <2>4, <2>7, <3>1, ValueReached
  <2>8. ASSUME ~ g.errs, NEW v \in g.convs PROVE Converts(g.ctx, v)
    BY <1>2, <2>3, <2>4, <2>8, <2>7 DEF Evaluates, Converts
  <2>9. Evaluates(b, g)
    BY <2>3, <2>4, <2>5, <2>6, <2>8 DEF Evaluates
  <2>10. HasType(g)
    BY <2>3, <2>7 DEF HasType
  <2>11. QED
    BY <1>2, <2>1, <2>3, <2>4, <2>9, <2>10
<1>3. QED
  BY <1>1, <1>2

\* What converts to a reference is that reference; what an array or a struct
\* converts to is no primitive, and an array only ever becomes a pointer.
LEMMA ConvertsTo ==
    ASSUME NEW c, CtxOK(c), NEW a, IsValue(c, a), NEW t, IsValue(c, t),
           IsConvertable(c, a, t)
    PROVE  /\ IsRef(c, t) => a = t
           /\ IsArray(c, a) => a = t \/ IsPtr(c, t)
           /\ KindOf(c, a) = "Struct" => a = t
           /\ IsVoid(c, t) => IsVoid(c, Decay(c, a))
           /\ ~ IsFunc(c, t) \/ Decay(c, a) = t
<1>1. PICK x : x = Decay(c, a)
  OBVIOUS
<1>2. /\ t \in IdsIn(c) /\ KindOf(c, x) \in ValueKinds
      /\ KindOf(c, t) \in ValueKinds \cup {"Ref"}
      /\ ~ IsRef(c, a) => x = a
  BY <1>1, ValueLowers, DecayKnown
<1>3. ~ WithTrait(c, x, t) /\ ~ IsError(c, t)
  BY <1>2, NoTraits DEF IsError, ValueKinds
<1>4. CASE IsRef(c, a) /\ a = t
  BY <1>1, <1>2, <1>4 DEF IsRef, IsArray, IsVoid, IsFunc
<1>5. CASE ConvertsPlain(c, x, t)
  BY <1>1, <1>2, <1>3, <1>5
  DEF ConvertsPlain, ValueKinds, PrimConverts, PtrConverts, FuncConverts,
      IsRef, IsArray, IsVoid, IsFunc, IsPrim, IsPtr
<1>6. QED
  BY <1>1, <1>4, <1>5 DEF IsConvertable

-----------------------------------------------------------------------------
(* Literals and names. *)

\* The types of the literals are primitives of the list.
LEMMA LiteralTypes ==
    ASSUME NEW c, CtxOK(c)
    PROVE  /\ \A t \in {IntId, DoubleId, CharId, TruthId} : IsValue(c, t) /\ IsPrim(c, t)
           /\ PrimOf(c, IntId).kind = IntKind
           /\ PrimOf(c, DoubleId).kind = FloatKind /\ PrimOf(c, DoubleId).siz = 64
           /\ PrimOf(c, CharId).kind = CharKind
           /\ PrimOf(c, TruthId).kind = BoolKind
<1>1. NPrim \in Nat
  BY TypeTableAssumption
<1>2. ASSUME NEW kind, NEW siz, [kind |-> kind, siz |-> siz, unsig |-> 0] \in LiteralPrims
      PROVE  LET t == PrimNamed(kind, siz) IN
             /\ IsPrimId(t)
             /\ PrimList[t + 1].kind = kind /\ PrimList[t + 1].siz = siz
  <2>1. PICK r : r = [kind |-> kind, siz |-> siz, unsig |-> 0]
    OBVIOUS
  <2>2. PICK i \in 1 .. NPrim : PrimList[i] = r
    BY <1>2, <2>1, InstancesAssumption
  <2>3. i - 1 \in 0 .. NPrim - 1 /\ PrimList[(i - 1) + 1] = r
    BY <1>1, <2>2
  <2>4. PICK t : t = PrimNamed(kind, siz)
    OBVIOUS
  <2>5. t \in 0 .. NPrim - 1 /\ PrimList[t + 1] = r
    BY <2>1, <2>3, <2>4 DEF PrimNamed
  <2>6. r.kind = kind /\ r.siz = siz
    BY <2>1
  <2>7. QED
    BY <1>1, <2>4, <2>5, <2>6 DEF IsPrimId
<1>3. IsPrimId(TruthId) /\ PrimList[TruthId + 1].kind = BoolKind
  <2>1. PICK i \in 1 .. NPrim : PrimList[i].kind = BoolKind
    BY InstancesAssumption
  <2>2. i - 1 \in 0 .. NPrim - 1 /\ PrimList[(i - 1) + 1].kind = BoolKind
    BY <1>1, <2>1
  <2>3. TruthId \in 0 .. NPrim - 1 /\ PrimList[TruthId + 1].kind = BoolKind
    BY <2>2 DEF TruthId
  <2>4. QED
    BY <1>1, <2>3 DEF IsPrimId
<1>4. /\ IsPrimId(IntId) /\ PrimList[IntId + 1].kind = IntKind
      /\ IsPrimId(DoubleId) /\ PrimList[DoubleId + 1].kind = FloatKind
      /\ PrimList[DoubleId + 1].siz = 64
      /\ IsPrimId(CharId) /\ PrimList[CharId + 1].kind = CharKind
  BY <1>2 DEF IntId, DoubleId, CharId, LiteralPrims
<1>5. ASSUME NEW t, IsPrimId(t)
      PROVE  IsValue(c, t) /\ IsPrim(c, t) /\ PrimOf(c, t) = PrimList[t + 1]
  <2>1. t \in IdsIn(c) /\ IsPrim(c, t) /\ PrimOf(c, t) = PrimList[t + 1]
    BY <1>5, PrimEntry
  <2>2. Decay(c, t) = t
    BY <2>1, DecayKnown DEF IsPrim, IsRef
  <2>3. QED
    BY <2>1, <2>2 DEF IsValue, IsPrim, ValueKinds
<1>6. QED
  BY <1>3, <1>4, <1>5

\* Void is registered.
LEMMA VoidIsValue ==
    ASSUME NEW c, CtxOK(c)
    PROVE  IsValue(c, VoidId(c)) /\ IsVoid(c, VoidId(c))
<1> DEFINE v == VoidId(c)
           t == c.id_ptr_table[v]
<1>1. v \in IdsOf(c) /\ t \in Type
  BY DEF CtxOK, VoidKnown, VoidId, GoodContext, WellTyped
<1>2. UniqueName(t, v) = <<"Void", <<>>, 0>>
  BY DEF CtxOK, VoidKnown, VoidId, GoodContext, Sound
<1> HIDE DEF v
<1>3. t.kind = "Void"
  BY <1>1, <1>2 DEF UniqueName, Shape, Nominal, Type
<1>4. v \in IdsIn(c) /\ IsVoid(c, v)
  BY <1>1, <1>3, IdsNumbered DEF IsVoid, KindOf
<1>5. Decay(c, v) = v
  BY <1>4, DecayKnown DEF IsVoid, IsRef
<1>6. QED
  BY <1>4, <1>5 DEF IsValue, IsVoid, ValueKinds, v

\* What is written: the types of names and calls are those of the context.
LEMMA LeafKnown ==
    ASSUME CtxOK(ctx), NEW v \in Leaves
    PROVE  /\ v.kind \in {"int", "neg", "double", "bool", "null", "char", "string", "name", "call"}
           /\ v.bits \in Nat
           /\ v.kind = "char" => CharRead(v.units[1])
           /\ v.kind = "string" => v.units \in Seq(StringUnits)
           /\ v.kind \in {"name", "call"} =>
                 v.of \in IdsIn(ctx) /\ KindOf(ctx, v.of) \in ValueKinds
<1>1. ASSUME NEW kind \in {"int", "neg", "double"}, NEW n \in IntBits \cup DoubleBits,
             v = Literal(kind, n, <<>>)
      PROVE  v.kind = kind /\ v.bits \in Nat
  BY <1>1, InstancesAssumption DEF Literal
<1>2. ASSUME NEW kind \in {"bool", "null"}, v = Literal(kind, 1, <<>>)
      PROVE  v.kind = kind /\ v.bits \in Nat
  BY <1>2 DEF Literal
<1>3. ASSUME NEW u \in Characters, v = Literal("char", 1, <<u>>)
      PROVE  v.kind = "char" /\ v.bits \in Nat /\ CharRead(v.units[1])
  <2>1. v.kind = "char" /\ v.bits = 1 /\ v.units = <<u>>
    BY <1>3 DEF Literal
  <2>2. CharRead(u)
    BY InstancesAssumption, LiteralsRead
  <2>3. QED
    BY <2>1, <2>2
<1>4. ASSUME NEW us \in Strings, v = Literal("string", 1, us)
      PROVE  v.kind = "string" /\ v.bits \in Nat /\ v.units \in Seq(StringUnits)
  BY <1>4, InstancesAssumption DEF Literal
<1>5. ASSUME NEW kind \in {"name", "call"}, NEW t \in Declarable \cup Functions \cup {VoidId(ctx)},
             v = Value(kind, t)
      PROVE  /\ v.kind = kind /\ v.bits \in Nat
             /\ v.of \in IdsIn(ctx) /\ KindOf(ctx, v.of) \in ValueKinds
  <2>1. v.kind = kind /\ v.bits = 0 /\ v.of = t
    BY <1>5 DEF Value
  <2>2. t \in IdsIn(ctx) /\ KindOf(ctx, t) # "Trait"
    BY NoTraits, VoidIsValue DEF Declarable, Functions, Ids, IdsIn, IsValue, IsTrait
  <2>3. KindOf(ctx, t) \in ValueKinds
    BY <2>2, VoidIsValue DEF Declarable, Functions, IsFunc, IsVoid, ValueKinds
  <2>4. QED
    BY <2>1, <2>2, <2>3
<1>6. \/ \E n \in IntBits : v = Literal("int", n, <<>>)
      \/ \E n \in IntBits : v = Literal("neg", n, <<>>)
      \/ \E n \in DoubleBits : v = Literal("double", n, <<>>)
      \/ v = Literal("bool", 1, <<>>) \/ v = Literal("null", 1, <<>>)
      \/ \E u \in Characters : v = Literal("char", 1, <<u>>)
      \/ \E us \in Strings : v = Literal("string", 1, us)
      \/ \E t \in Declarable \cup Functions : v = Value("name", t)
      \/ \E t \in Declarable \cup {VoidId(ctx)} : v = Value("call", t)
  BY DEF Leaves, AllLiterals
<1>7. QED
  BY <1>1, <1>2, <1>3, <1>4, <1>5, <1>6

\* The type of a value that nothing is assumed of.
LEMMA PlainKnown ==
    ASSUME CtxOK(ctx), NEW v \in Leaves, NEW e, Evaluates(ctx, e)
    PROVE  LET g == Plain(e, v) IN
           /\ Evaluates(ctx, g) /\ Grown(e.ctx, g.ctx) /\ IsValue(g.ctx, g.ret)
           /\ g.errs = e.errs
           /\ g.consts = e.consts /\ g.convs = e.convs /\ g.stores = e.stores
           /\ ConstantOf(g.ctx, v.kind, v.units, g.ret)
           /\ v.kind = "int" => g.ret = IntId
           /\ v.kind = "double" => g.ret = DoubleId
<1> DEFINE Known(g) ==
           /\ Evaluates(ctx, g) /\ Grown(e.ctx, g.ctx) /\ IsValue(g.ctx, g.ret)
           /\ g.errs = e.errs
           /\ g.consts = e.consts /\ g.convs = e.convs /\ g.stores = e.stores
<1>1. CtxOK(e.ctx) /\ Extends(ctx, e.ctx) /\ Grown(e.ctx, e.ctx)
  BY DEF Evaluates, Grown, Extends
<1>2. ASSUME NEW t, IsValue(e.ctx, t) PROVE Known(OfType(e, t)) /\ OfType(e, t).ret = t
                                           /\ OfType(e, t).ctx = e.ctx
  <2>1. PICK g : g = OfType(e, t)
    OBVIOUS
  <2>2. /\ Evaluates(ctx, g) /\ g.ret = t /\ g.ctx = e.ctx /\ g.errs = e.errs
        /\ g.consts = e.consts /\ g.convs = e.convs /\ g.stores = e.stores
    BY <2>1, OfTypeKeeps
  <2>3. QED
    BY <1>1, <1>2, <2>1, <2>2
<1>3. ASSUME v.kind \in {"name", "call"}
      PROVE  v.of \in IdsIn(e.ctx) /\ KindOf(e.ctx, v.of) \in ValueKinds /\ IsValue(e.ctx, v.of)
  <2>1. v.of \in IdsIn(ctx) /\ KindOf(ctx, v.of) \in ValueKinds
    BY <1>3, LeafKnown
  <2>2. v.of \in IdsIn(e.ctx) /\ KindOf(e.ctx, v.of) \in ValueKinds
    BY <1>1, <2>1, OldTypes DEF Same
  <2>3. Decay(e.ctx, v.of) = v.of
    BY <1>1, <2>2, DecayKnown DEF IsRef, ValueKinds
  <2>4. QED
    BY <2>2, <2>3 DEF IsValue
<1> HIDE DEF Known
<1>4. CASE v.kind \in {"int", "neg"}
  <2>1. Plain(e, v) = OfType(e, IntId)
    BY <1>4 DEF Plain
  <2>2. IsValue(e.ctx, IntId) /\ LlvmInt(e.ctx, IntId)
    BY <1>1, LiteralTypes DEF LlvmInt, IntKind, FloatKind
  <2>3. QED
    BY <1>2, <1>4, <2>1, <2>2 DEF Known, ConstantOf
<1>5. CASE v.kind = "double"
  <2>1. Plain(e, v) = OfType(e, DoubleId)
    BY <1>5 DEF Plain
  <2>2. IsValue(e.ctx, DoubleId) /\ LlvmFloat(e.ctx, DoubleId)
    BY <1>1, LiteralTypes DEF LlvmFloat
  <2>3. QED
    BY <1>2, <1>5, <2>1, <2>2 DEF Known, ConstantOf
<1>6. CASE v.kind = "bool"
  <2>1. Plain(e, v) = OfType(e, TruthId)
    BY <1>6 DEF Plain
  <2>2. IsValue(e.ctx, TruthId) /\ LlvmInt(e.ctx, TruthId)
    BY <1>1, LiteralTypes DEF LlvmInt, BoolKind, FloatKind
  <2>3. QED
    BY <1>2, <1>6, <2>1, <2>2 DEF Known, ConstantOf
<1>7. CASE v.kind = "char"
  <2>1. Plain(e, v) = OfType(e, CharId)
    BY <1>7 DEF Plain
  <2>2. IsValue(e.ctx, CharId) /\ LlvmInt(e.ctx, CharId)
    BY <1>1, LiteralTypes DEF LlvmInt, CharKind, FloatKind
  <2>3. CharRead(v.units[1])
    BY <1>7, LeafKnown
  <2>4. QED
    BY <1>2, <1>7, <2>1, <2>2, <2>3 DEF Known, ConstantOf
<1>8. CASE v.kind = "call"
  <2>1. Plain(e, v) = OfType(e, v.of)
    BY <1>8 DEF Plain
  <2>2. QED
    BY <1>2, <1>3, <1>8, <2>1 DEF Known, ConstantOf
<1>9. CASE v.kind = "null"
  <2>1. PICK x : x = VoidId(e.ctx)
    OBVIOUS
  <2>2. x \in IdsIn(e.ctx) /\ KindOf(e.ctx, x) \in ValueKinds
    BY <1>1, <2>1, VoidIsValue DEF IsValue, IsVoid, ValueKinds
  <2>3. PICK g : g = Obtain(e, BuiltOn("Pointer", x, 0, "plain"))
    OBVIOUS
  <2>4. Plain(e, v) = g
    BY <1>9, <2>1, <2>3 DEF Plain, PtrTo, BuiltOn
  <2>5. Known(g) /\ KindOf(g.ctx, g.ret) = "Pointer"
    <3>1. PICK kind \in {"Ref", "Pointer", "Array"} : kind = "Pointer"
      OBVIOUS
    <3>2. PICK n \in Nat : n = 0
      OBVIOUS
    <3>3. PICK cnst : cnst = "plain"
      OBVIOUS
    <3>4. g = Obtain(e, BuiltOn(kind, x, n, cnst))
      BY <2>3, <3>1, <3>2, <3>3
    <3>5. Known(g) /\ KindOf(g.ctx, g.ret) = kind
      BY <2>2, <3>4, Obtaining DEF Known
    <3>6. QED
      BY <3>1, <3>5
  <2>6. QED
    BY <1>9, <2>4, <2>5 DEF Known, ConstantOf, IsPtr
<1>10. CASE v.kind = "name"
  <2>1. PICK g : g = Obtain(e, BuiltOn("Ref", v.of, 0, "plain"))
    OBVIOUS
  <2>2. Plain(e, v) = g
    BY <1>10, <2>1 DEF Plain, BuiltOn
  <2>3. Known(g)
    BY <1>3, <1>10, <2>1, Obtaining DEF Known
  <2>4. QED
    BY <1>10, <2>2, <2>3 DEF Known, ConstantOf
<1>11. CASE v.kind = "string"
  <2>1. v.units \in Seq(StringUnits) /\ StringRead(v.units)
    BY <1>11, LeafKnown, StringsRead
  <2>2. PICK n : n = Len(parse_string(Text(v.units))) + 1
    OBVIOUS
  <2>3. n = Len(v.units) + 1 /\ n \in Nat
    <3>1. PICK s : s = [i \in DOMAIN v.units |-> Meaning(v.units[i])]
      OBVIOUS
    <3>2. Len(s) = Len(v.units) /\ Len(v.units) \in Nat
      <4>1. PICK m \in Nat : m = Len(v.units)
        BY <2>1
      <4>2. DOMAIN s = 1 .. m
        BY <2>1, <3>1, <4>1
      <4>3. s \in Seq({Meaning(v.units[i]) : i \in DOMAIN v.units})
        BY <2>1, <3>1, <4>1
      <4>4. QED
        BY <4>1, <4>2, <4>3
    <3>3. QED
      BY <2>1, <2>2, <3>1, <3>2 DEF StringRead
  <2>4. CharId \in IdsIn(e.ctx) /\ KindOf(e.ctx, CharId) \in ValueKinds
    BY <1>1, LiteralTypes DEF IsValue, IsPrim, ValueKinds
  <2>5. PICK a : a = Obtain(e, BuiltOn("Array", CharId, n, "plain"))
    OBVIOUS
  <2>6. Known(a) /\ KindOf(a.ctx, a.ret) = "Array" /\ a.ctx.id_ptr_table[a.ret].n = n
    <3>1. PICK m \in Nat : m = n
      BY <2>3
    <3>2. a = Obtain(e, BuiltOn("Array", CharId, m, "plain"))
      BY <2>5, <3>1
    <3> HIDE <2>2, <2>3
    <3>3. /\ Evaluates(ctx, a) /\ Grown(e.ctx, a.ctx) /\ IsValue(a.ctx, a.ret)
          /\ KindOf(a.ctx, a.ret) = "Array" /\ a.ctx.id_ptr_table[a.ret].n = m
          /\ a.errs = e.errs
          /\ a.consts = e.consts /\ a.convs = e.convs /\ a.stores = e.stores
      BY <2>4, <3>2, Obtaining
    <3>4. QED
      BY <3>1, <3>3 DEF Known
  <2>7. Evaluates(ctx, a) /\ a.ret \in IdsIn(a.ctx) /\ KindOf(a.ctx, a.ret) \in ValueKinds
        /\ Grown(e.ctx, a.ctx)
    BY <2>6 DEF Known, IsValue, ValueKinds
  <2>8. PICK g : g = Obtain(a, BuiltOn("Ref", a.ret, 0, "const"))
    OBVIOUS
  <2>9. /\ Evaluates(ctx, g) /\ Grown(a.ctx, g.ctx) /\ IsValue(g.ctx, g.ret)
        /\ KindOf(g.ctx, g.ret) = "Ref" /\ Sub(g.ctx, g.ret) = a.ret
        /\ g.errs = a.errs
        /\ g.consts = a.consts /\ g.convs = a.convs /\ g.stores = a.stores
    BY <2>7, <2>8, Obtaining
  <2>10. Grown(e.ctx, g.ctx)
    BY <2>7, <2>9, GrownOn
  <2>11. Known(g)
    BY <2>6, <2>9, <2>10 DEF Known
  <2>12. Decay(g.ctx, g.ret) = a.ret
    BY <2>9 DEF Decay, KindOf, Sub
  <2>13. KindOf(g.ctx, a.ret) = "Array" /\ g.ctx.id_ptr_table[a.ret].n = n
    BY <2>6, <2>7, <2>9, OldTypes DEF Same, Grown
  <2>14. Plain(e, v) = g
    BY <1>11, <2>2, <2>5, <2>8 DEF Plain, ObtainString, ConstRef, BuiltOn
  <2>15. QED
    BY <1>11, <2>1, <2>3, <2>11, <2>12, <2>13, <2>14 DEF Known, ConstantOf, IsArray
<1>12. QED
  BY <1>4, <1>5, <1>6, <1>7, <1>8, <1>9, <1>10, <1>11, LeafKnown

-----------------------------------------------------------------------------
\* The constant of a literal, as it is made.
ConstantFor(v, t) ==
    [kind |-> v.kind, bits |-> v.bits, units |-> v.units, as |-> t, into |-> t]

\* A number takes the type it is assumed of, or is an int or a double first.
NumberOf(c, v, assum, t) ==
    /\ v.kind = "int" => \/ t = assum
                         \/ assum = NoType \/ ~ IsPrim(c, assum)
                         \/ PrimOf(c, assum).kind = FloatKind
    /\ v.kind = "double" => t = assum \/ t = DoubleId

\* What a value is when a type is assumed, or none.
LEMMA AssumedKnown ==
    ASSUME CtxOK(ctx), NEW v \in Leaves, NEW e, Evaluates(ctx, e),
           NEW assum \in IdsIn(e.ctx) \cup {NoType}, NEW p, p = Assumed(e, v, assum)
    PROVE  /\ Evaluates(ctx, p) /\ Grown(e.ctx, p.ctx) /\ IsValue(p.ctx, p.ret)
           /\ p.errs = e.errs /\ p.convs = e.convs /\ p.stores = e.stores
           /\ p.consts = e.consts \cup {ConstantFor(v, p.ret)}
           /\ NumberOf(p.ctx, v, assum, p.ret)
<1> DEFINE Known(g) ==
           /\ Evaluates(ctx, g) /\ Grown(e.ctx, g.ctx) /\ IsValue(g.ctx, g.ret)
           /\ g.errs = e.errs
           /\ g.consts = e.consts /\ g.convs = e.convs /\ g.stores = e.stores
           /\ ConstantOf(g.ctx, v.kind, v.units, g.ret)
           /\ NumberOf(g.ctx, v, assum, g.ret)
<1>1. CtxOK(e.ctx) /\ Extends(ctx, e.ctx) /\ Grown(e.ctx, e.ctx)
  BY DEF Evaluates, Grown, Extends
<1>2. PICK g : g = IF assum # NoType /\ Takes(e.ctx, v, assum) THEN OfType(e, assum) ELSE Plain(e, v)
  OBVIOUS
<1>3. ASSUME assum # NoType, Takes(e.ctx, v, assum) PROVE Known(g)
  <2>1. g = OfType(e, assum) /\ assum \in IdsIn(e.ctx)
    BY <1>2, <1>3
  <2>2. IsPrim(e.ctx, assum) \/ IsPtr(e.ctx, assum)
    BY <1>3 DEF Takes
  <2>3. IsValue(e.ctx, assum)
    BY <1>1, <2>1, <2>2, DecayKnown DEF IsValue, ValueKinds, IsPrim, IsPtr, IsRef
  <2>4. ConstantOf(e.ctx, v.kind, v.units, assum) /\ NumberOf(e.ctx, v, assum, assum)
    BY <1>3 DEF Takes, ConstantOf, NumberOf, LlvmInt, LlvmFloat, IntKind, FloatKind
  <2>5. /\ Evaluates(ctx, g) /\ g.ret = assum /\ g.ctx = e.ctx /\ g.errs = e.errs
        /\ g.consts = e.consts /\ g.convs = e.convs /\ g.stores = e.stores
    BY <2>1, OfTypeKeeps
  <2>6. QED
    BY <1>1, <2>3, <2>4, <2>5
<1>4. ASSUME ~ (assum # NoType /\ Takes(e.ctx, v, assum)) PROVE Known(g)
  <2>1. g = Plain(e, v)
    BY <1>2, <1>4
  <2>2. /\ Evaluates(ctx, g) /\ Grown(e.ctx, g.ctx) /\ IsValue(g.ctx, g.ret)
        /\ g.errs = e.errs
        /\ g.consts = e.consts /\ g.convs = e.convs /\ g.stores = e.stores
        /\ ConstantOf(g.ctx, v.kind, v.units, g.ret)
        /\ v.kind = "int" => g.ret = IntId
        /\ v.kind = "double" => g.ret = DoubleId
    BY <2>1, PlainKnown
  <2>3. ASSUME v.kind = "int", assum # NoType
        PROVE  ~ IsPrim(g.ctx, assum) \/ PrimOf(g.ctx, assum).kind = FloatKind
    <3>1. assum \in IdsIn(e.ctx)
      BY <2>3
    <3>2. Same(e.ctx, g.ctx, assum)
      BY <2>2, <3>1, OldTypes DEF Grown
    <3>3. ~ (IsPrim(e.ctx, assum) /\ PrimOf(e.ctx, assum).kind <= IntKind)
      BY <1>4, <2>3 DEF Takes
    <3>4. ASSUME IsPrim(e.ctx, assum) PROVE PrimOf(e.ctx, assum).kind \in 0 .. 3
      BY <1>1, <3>1, <3>4, PrimEntry DEF PrimRecord
    <3>5. QED
      BY <3>2, <3>3, <3>4 DEF Same, IsPrim, IntKind, FloatKind
  <2>4. QED
    BY <2>2, <2>3 DEF NumberOf
<1> HIDE DEF Known
<1>5. Known(g)
  BY <1>3, <1>4
<1>6. p = Made(g, v)
  BY <1>2 DEF Assumed
<1>7. PICK k : k = ConstantFor(v, g.ret)
  OBVIOUS
<1>8. DOMAIN g = InstFields
  BY <1>5 DEF Known, Evaluates
<1>9. /\ DOMAIN p = InstFields /\ p.ctx = g.ctx /\ p.ret = g.ret /\ p.errs = g.errs
      /\ p.convs = g.convs /\ p.stores = g.stores
      /\ p.consts = g.consts \cup {k}
  BY <1>6, <1>7, <1>8 DEF Made, InstFields, ConstantFor
<1>10. ConstantIn(g.ctx, k)
  <2>1. /\ DOMAIN k = {"kind", "bits", "units", "as", "into"}
        /\ k.kind = v.kind /\ k.bits = v.bits /\ k.units = v.units
        /\ k.as = g.ret /\ k.into = g.ret
    BY <1>7 DEF ConstantFor
  <2>2. v.bits \in Nat
    BY LeafKnown
  <2>3. QED
    BY <1>5, <2>1, <2>2 DEF Known, ConstantIn, IsValue
<1>11. Evaluates(ctx, p)
  BY <1>5, <1>9, <1>10 DEF Known, Evaluates
<1>12. QED
  BY <1>5, <1>7, <1>9, <1>11 DEF Known

-----------------------------------------------------------------------------
(* Arrays. *)

\* A number is of the type it is stored as, or was what it is assumed to be by
\* the language: an int, where no integer is stored, or a double.
KeptNow(c, k) ==
    /\ k.kind = "int" => \/ k.as = k.into \/ ~ IsPrim(c, k.into)
                         \/ PrimOf(c, k.into).kind = FloatKind
    /\ k.kind = "double" => k.as = k.into \/ k.as = DoubleId

AllKept(e) == \A k \in e.consts : KeptNow(e.ctx, k)

\* The numbers of a context are those of a greater one.
LEMMA NumbersKept ==
    ASSUME NEW c, CtxOK(c), NEW d, Extends(c, d), NEW k, ConstantIn(c, k), KeptNow(c, k)
    PROVE  KeptNow(d, k)
<1>1. Same(c, d, k.into)
  BY OldTypes DEF ConstantIn
<1>2. QED
  BY <1>1 DEF KeptNow, Same, IsPrim

\* A value that is expected to be of type t is assumed to be, and converted.
LEMMA Demanding ==
    ASSUME CtxOK(ctx), NEW v \in Leaves, NEW e, Evaluates(ctx, e), AllKept(e),
           NEW t \in IdsIn(e.ctx), ~ IsError(e.ctx, t), NEW g, g = Demand(e, v, t)
    PROVE  /\ Evaluates(ctx, g) /\ Grown(e.ctx, g.ctx) /\ AllKept(g)
           /\ g.ret = t /\ g.stores = e.stores
           /\ e.errs => g.errs
<1>1. PICK f : f = [e EXCEPT !.consts = {}]
  OBVIOUS
<1>2. DOMAIN e = InstFields /\ CtxOK(e.ctx)
  BY DEF Evaluates, Grown
<1>3. /\ DOMAIN f = InstFields /\ f.ctx = e.ctx /\ f.errs = e.errs
      /\ f.convs = e.convs /\ f.stores = e.stores /\ f.consts = {}
  BY <1>1, <1>2 DEF InstFields
<1>4. Evaluates(ctx, f)
  BY <1>3 DEF Evaluates
<1>5. PICK p : p = Assumed(f, v, t)
  OBVIOUS
<1>6. /\ Evaluates(ctx, p) /\ Grown(f.ctx, p.ctx) /\ IsValue(p.ctx, p.ret)
      /\ p.errs = f.errs /\ p.stores = f.stores
      /\ p.consts = f.consts \cup {ConstantFor(v, p.ret)}
      /\ NumberOf(p.ctx, v, t, p.ret)
  <2>1. t \in IdsIn(f.ctx) \cup {NoType}
    BY <1>3
  <2>2. QED
    BY <1>4, <1>5, <2>1, AssumedKnown
<1>7. t \in IdsIn(p.ctx) /\ ~ IsError(p.ctx, t) /\ Extends(f.ctx, p.ctx)
  BY <1>3, <1>6, OldTypes DEF Grown, Same, IsError
<1>8. HasType(p)
  BY <1>6 DEF HasType, IsValue
<1>9. PICK q : q = Convert(p, t)
  OBVIOUS
<1>10. /\ Evaluates(ctx, q) /\ q.ctx = p.ctx /\ q.ret = t /\ q.stores = p.stores
       /\ p.errs => q.errs
       /\ p.ret = t => q = p
       /\ p.ret # t => q.consts = Into(p.consts, t)
  BY <1>6, <1>7, <1>8, <1>9, Converting
<1>11. ASSUME NEW k \in q.consts PROVE KeptNow(q.ctx, k)
  <2>1. PICK k0 : k0 = ConstantFor(v, p.ret)
    OBVIOUS
  <2>2. /\ DOMAIN k0 = {"kind", "bits", "units", "as", "into"}
        /\ k0.kind = v.kind /\ k0.as = p.ret /\ k0.into = p.ret
    BY <2>1 DEF ConstantFor
  <2>3. p.consts = {k0}
    BY <1>3, <1>6, <2>1
  <2>4. CASE p.ret = t
    BY <1>10, <2>2, <2>3, <2>4 DEF KeptNow
  <2>5. CASE p.ret # t
    <3>1. k = [k0 EXCEPT !.into = t]
      BY <1>10, <2>3, <2>5 DEF Into
    <3>2. k.kind = v.kind /\ k.as = p.ret /\ k.into = t
      BY <2>2, <3>1
    <3>3. t # NoType
      BY <1>2, IdsNumbered DEF NoType
    <3>4. QED
      BY <1>6, <1>10, <2>5, <3>2, <3>3 DEF KeptNow, NumberOf
  <2>6. QED
    BY <2>4, <2>5
<1>12. g = [q EXCEPT !.consts = @ \cup e.consts]
  BY <1>1, <1>5, <1>9 DEF Demand
<1>13. DOMAIN q = InstFields
  BY <1>10 DEF Evaluates
<1>14. /\ DOMAIN g = InstFields /\ g.ctx = q.ctx /\ g.ret = q.ret /\ g.errs = q.errs
       /\ g.convs = q.convs /\ g.stores = q.stores
       /\ g.consts = q.consts \cup e.consts
  BY <1>12, <1>13 DEF InstFields
<1>15. Grown(e.ctx, g.ctx) /\ Extends(e.ctx, g.ctx)
  BY <1>3, <1>6, <1>10, <1>14 DEF Grown
<1>16. ASSUME NEW k \in e.consts PROVE ConstantIn(g.ctx, k) /\ KeptNow(g.ctx, k)
  <2>1. ConstantIn(e.ctx, k) /\ KeptNow(e.ctx, k)
    BY DEF Evaluates, AllKept
  <2>2. QED
    BY <1>2, <1>15, <2>1, ConstantKept, NumbersKept
<1>17. Evaluates(ctx, g)
  BY <1>10, <1>14, <1>16 DEF Evaluates
<1>18. AllKept(g)
  BY <1>11, <1>14, <1>16 DEF AllKept
<1>19. QED
  BY <1>3, <1>6, <1>10, <1>14, <1>15, <1>17, <1>18

\* An array is given two elements at most.
Elements(vs) == Len(vs) \in {0, 1, 2} /\ \A i \in 1 .. Len(vs) : vs[i] \in Leaves

\* All elements of an array are.
LEMMA DemandingEach ==
    ASSUME CtxOK(ctx), NEW vs, Elements(vs), NEW e, Evaluates(ctx, e), AllKept(e),
           NEW t \in IdsIn(e.ctx), ~ IsError(e.ctx, t), NEW g, g = DemandEach(e, vs, t)
    PROVE  /\ Evaluates(ctx, g) /\ Grown(e.ctx, g.ctx) /\ AllKept(g)
           /\ g.stores = e.stores
           /\ e.errs => g.errs
<1>1. CASE Len(vs) = 1
  <2>1. g = Demand(e, vs[1], t) /\ vs[1] \in Leaves
    BY <1>1 DEF DemandEach, Elements
  <2>2. QED
    BY <2>1, Demanding
<1>2. CASE Len(vs) = 2
  <2>1. Len(vs) = 2 /\ vs[1] \in Leaves /\ vs[2] \in Leaves
    BY <1>2 DEF Elements
  <2>2. PICK f : f = Demand(e, vs[1], t)
    OBVIOUS
  <2>3. g = Demand(f, vs[2], t)
    BY <1>2, <2>2 DEF DemandEach
  <2>4. /\ Evaluates(ctx, f) /\ Grown(e.ctx, f.ctx) /\ AllKept(f)
        /\ f.stores = e.stores
        /\ e.errs => f.errs
    BY <2>1, <2>2, Demanding
  <2>5. t \in IdsIn(f.ctx) /\ ~ IsError(f.ctx, t)
    BY <2>4, OldTypes DEF Grown, Same, IsError
  <2>6. /\ Evaluates(ctx, g) /\ Grown(f.ctx, g.ctx) /\ AllKept(g)
        /\ g.stores = f.stores
        /\ f.errs => g.errs
    BY <2>1, <2>3, <2>4, <2>5, Demanding
  <2>7. Grown(e.ctx, g.ctx)
    BY <2>4, <2>6, GrownOn
  <2>8. QED
    BY <2>4, <2>6, <2>7
<1>3. CASE Len(vs) = 0
  <2>1. g = e
    BY <1>3 DEF DemandEach
  <2>2. Grown(e.ctx, e.ctx)
    BY DEF Evaluates, Grown, Extends
  <2>3. QED
    BY <2>1, <2>2
<1>4. QED
  BY <1>1, <1>2, <1>3 DEF Elements

\* A double that nothing was assumed of is a double first.
Doubles(e) == \A k \in e.consts : k.kind = "double" => k.as = DoubleId

\* An element of a type that was found goes to the common one.
LEMMA ConvertingFrom ==
    ASSUME NEW b, NEW e, Evaluates(b, e), Doubles(e), NEW r, IsValue(e.ctx, r),
           NEW t \in IdsIn(e.ctx), ~ IsError(e.ctx, t), NEW g, g = ConvertFrom(e, r, t)
    PROVE  /\ Evaluates(b, g) /\ g.ctx = e.ctx /\ Doubles(g)
           /\ g.stores = e.stores /\ (e.errs => g.errs)
<1>1. PICK f : f = OfType(e, r)
  OBVIOUS
<1>2. /\ Evaluates(b, f) /\ f.ret = r /\ f.ctx = e.ctx /\ f.errs = e.errs
      /\ f.consts = e.consts /\ f.stores = e.stores
  BY <1>1, OfTypeKeeps
<1>3. HasType(f) /\ t \in IdsIn(f.ctx) /\ ~ IsError(f.ctx, t)
  BY <1>2 DEF HasType, IsValue
<1>4. g = Convert(f, t)
  BY <1>1 DEF ConvertFrom
<1>5. /\ Evaluates(b, g) /\ g.ctx = f.ctx /\ g.stores = f.stores
      /\ f.errs => g.errs
      /\ f.ret = t => g = f
      /\ f.ret # t => g.consts = Into(f.consts, t)
  BY <1>2, <1>3, <1>4, Converting
<1>6. ASSUME NEW k \in g.consts, k.kind = "double" PROVE k.as = DoubleId
  <2>1. CASE f.ret = t
    BY <1>2, <1>5, <1>6, <2>1 DEF Doubles
  <2>2. CASE f.ret # t
    <3>1. PICK k0 \in f.consts : k = [k0 EXCEPT !.into = t]
      BY <1>5, <2>2 DEF Into
    <3>2. DOMAIN k0 = {"kind", "bits", "units", "as", "into"}
      BY <1>2 DEF Evaluates, ConstantIn
    <3>3. k0.kind = "double" => k0.as = DoubleId
      BY <1>2 DEF Doubles
    <3>4. QED
      BY <1>6, <3>1, <3>2, <3>3
  <2>3. QED
    BY <2>1, <2>2
<1>7. QED
  BY <1>2, <1>5, <1>6 DEF Doubles

\* The types that were found of the elements.
Found(c, rets) == Len(rets) \in {1, 2} /\ \A i \in 1 .. Len(rets) : IsValue(c, rets[i])

\* The elements, converted one after the other.
LEMMA ConvertingEach ==
    ASSUME NEW b, NEW e, Evaluates(b, e), Doubles(e), NEW rets, Found(e.ctx, rets),
           NEW t \in IdsIn(e.ctx), ~ IsError(e.ctx, t), NEW g, g = ConvertEach(e, rets, t)
    PROVE  /\ Evaluates(b, g) /\ g.ctx = e.ctx /\ Doubles(g)
           /\ g.stores = e.stores /\ (e.errs => g.errs)
<1>1. CASE Len(rets) = 1
  <2>1. g = ConvertFrom(e, rets[1], t) /\ IsValue(e.ctx, rets[1])
    BY <1>1 DEF ConvertEach, Found
  <2>2. QED
    BY <2>1, ConvertingFrom
<1>2. CASE Len(rets) # 1
  <2>1. Len(rets) = 2 /\ IsValue(e.ctx, rets[1]) /\ IsValue(e.ctx, rets[2])
    BY <1>2 DEF Found
  <2>2. PICK f : f = ConvertFrom(e, rets[1], t)
    OBVIOUS
  <2>3. g = ConvertFrom(f, rets[2], t)
    BY <1>2, <2>2 DEF ConvertEach
  <2>4. /\ Evaluates(b, f) /\ f.ctx = e.ctx /\ Doubles(f)
        /\ f.stores = e.stores /\ (e.errs => f.errs)
    BY <2>1, <2>2, ConvertingFrom
  <2>5. IsValue(f.ctx, rets[2]) /\ t \in IdsIn(f.ctx) /\ ~ IsError(f.ctx, t)
    BY <2>1, <2>4
  <2>6. /\ Evaluates(b, g) /\ g.ctx = f.ctx /\ Doubles(g)
        /\ g.stores = f.stores /\ (f.errs => g.errs)
    BY <2>3, <2>4, <2>5, ConvertingFrom
  <2>7. QED
    BY <2>4, <2>6
<1>3. QED
  BY <1>1, <1>2

\* What infer_array answers: an array of n, or an error.
ArrayOf(e, n) == ~ e.errs => IsArray(e.ctx, e.ret) /\ e.ctx.id_ptr_table[e.ret].n = n

\* The values go to the common type.
LEMMA GoingToCommon ==
    ASSUME NEW b, NEW com, Evaluates(b, com), Doubles(com), IsValue(com.ctx, com.ret),
           NEW rets, Found(com.ctx, rets), NEW g, g = ToCommon(com, rets)
    PROVE  /\ Evaluates(b, g) /\ HasType(g) /\ Doubles(g)
           /\ g.stores = com.stores /\ (com.errs => g.errs)
           /\ ArrayOf(g, Len(rets))
<1>1. PICK t : t = Decay(com.ctx, com.ret)
  OBVIOUS
<1>2. CtxOK(com.ctx) /\ com.errs \in BOOLEAN
  BY DEF Evaluates, Grown
<1>3. t \in IdsIn(com.ctx) /\ KindOf(com.ctx, t) \in ValueKinds /\ ~ IsError(com.ctx, t)
  BY <1>1, <1>2, ValueLowers DEF IsError, ValueKinds
<1>4. CASE IsVoid(com.ctx, t)
  <2>1. g = Refuse(com)
    BY <1>1, <1>4 DEF ToCommon
  <2>2. Evaluates(b, g) /\ HasType(g) /\ g.errs = TRUE
    BY <2>1, Refusing
  <2>3. g.consts = com.consts /\ g.stores = com.stores
    <3>1. DOMAIN com = InstFields
      BY DEF Evaluates
    <3>2. QED
      BY <2>1, <3>1 DEF Refuse, Obtain, InstFields
  <2>4. QED
    BY <1>2, <2>2, <2>3 DEF Doubles, ArrayOf
<1>5. CASE ~ IsVoid(com.ctx, t)
  <2>1. PICK f : f = ConvertEach(com, rets, t)
    OBVIOUS
  <2>2. /\ Evaluates(b, f) /\ f.ctx = com.ctx /\ Doubles(f)
        /\ f.stores = com.stores /\ (com.errs => f.errs)
    BY <1>3, <2>1, ConvertingEach
  <2>3. PICK n \in Nat : n = Len(rets)
    BY DEF Found
  <2>4. g = Obtain(f, BuiltOn("Array", t, n, "plain"))
    BY <1>1, <1>5, <2>1, <2>3 DEF ToCommon, BuiltOn
  <2>5. t \in IdsIn(f.ctx) /\ KindOf(f.ctx, t) \in ValueKinds
    BY <1>3, <2>2
  <2>6. /\ Evaluates(b, g) /\ IsValue(g.ctx, g.ret)
        /\ KindOf(g.ctx, g.ret) = "Array"
        /\ g.ctx.id_ptr_table[g.ret].n = n
        /\ g.errs = f.errs
        /\ g.consts = f.consts /\ g.stores = f.stores
    BY <2>2, <2>4, <2>5, Obtaining
  <2>7. HasType(g)
    BY <2>6 DEF HasType, IsValue
  <2>8. QED
    BY <2>2, <2>3, <2>6, <2>7 DEF Doubles, ArrayOf, IsArray
<1>6. QED
  BY <1>4, <1>5

\* The common type of two values.
LEMMA FindingCommon ==
    ASSUME NEW b, NEW one, NEW two, Evaluates(b, two), IsValue(two.ctx, one.ret),
           IsValue(two.ctx, two.ret), NEW g, g = Common(one, two)
    PROVE  /\ Evaluates(b, g) /\ Grown(two.ctx, g.ctx) /\ IsValue(g.ctx, g.ret)
           /\ g.errs = two.errs /\ g.consts = two.consts /\ g.stores = two.stores
<1>1. PICK c : c = two.ctx
  OBVIOUS
<1>2. PICK x : x = Decay(c, one.ret)
  OBVIOUS
<1>3. PICK y : y = Decay(c, two.ret)
  OBVIOUS
<1>4. CtxOK(c) /\ DOMAIN two = InstFields /\ two.errs \in BOOLEAN
  BY <1>1 DEF Evaluates, Grown
<1>5. /\ IsValue(c, x) /\ IsValue(c, y) /\ x \in IdsIn(c) /\ KindOf(c, x) \in ValueKinds
  BY <1>1, <1>2, <1>3, <1>4, ValueLowers
<1>6. /\ DOMAIN g = InstFields /\ g.ctx = WithGreater(c, one.ret, two.ret)
      /\ g.ret = GreaterType(c, one.ret, two.ret)
      /\ g.errs = two.errs /\ g.consts = two.consts
      /\ g.convs = two.convs /\ g.stores = two.stores
  BY <1>1, <1>4 DEF Common, InstFields
<1>7. CASE SameFunc(c, one.ret, two.ret)
  <2>1. PICK f : f = Obtain(two, BuiltOn("Pointer", x, 0, "plain"))
    OBVIOUS
  <2>2. /\ Evaluates(b, f) /\ Grown(two.ctx, f.ctx) /\ IsValue(f.ctx, f.ret)
        /\ f.errs = two.errs
        /\ f.consts = two.consts /\ f.convs = two.convs /\ f.stores = two.stores
    BY <1>1, <1>5, <2>1, Obtaining
  <2>3. PICK tp : tp = PtrTo(x)
    OBVIOUS
  <2>4. tp = BuiltOn("Pointer", x, 0, "plain")
    BY <2>3 DEF PtrTo, BuiltOn
  <2>5. f.ctx = GetOrCreate(c, tp) /\ f.ret = Answer(c, tp)
    BY <1>1, <1>4, <2>1, <2>4 DEF Obtain, InstFields
  <2>6. g.ctx = f.ctx /\ g.ret = f.ret
    BY <1>2, <1>6, <1>7, <2>3, <2>5 DEF WithGreater, GreaterType
  <2>7. Evaluates(b, g)
    BY <1>6, <2>2, <2>6 DEF Evaluates
  <2>8. QED
    BY <1>6, <2>2, <2>6, <2>7
<1>8. CASE ~ SameFunc(c, one.ret, two.ret)
  <2>1. g.ctx = c /\ g.ret \in {x, y, VoidId(c)}
    BY <1>2, <1>3, <1>6, <1>8 DEF WithGreater, GreaterType
  <2>2. IsValue(c, g.ret)
    BY <1>4, <1>5, <2>1, VoidIsValue
  <2>3. Evaluates(b, g)
    BY <1>1, <1>6, <2>1 DEF Evaluates
  <2>4. Grown(c, c)
    BY <1>4 DEF Grown, Extends
  <2>5. QED
    BY <1>1, <1>6, <2>1, <2>2, <2>3, <2>4
<1>9. QED
  BY <1>7, <1>8

\* infer_array with nothing assumed.
LEMMA InferringCommon ==
    ASSUME CtxOK(ctx), NEW vs, Elements(vs), Len(vs) # 0, NEW e, Evaluates(ctx, e), Doubles(e),
           NEW g, g = InferCommon(e, vs)
    PROVE  /\ Evaluates(ctx, g) /\ HasType(g) /\ Doubles(g)
           /\ g.stores = e.stores /\ (e.errs => g.errs)
           /\ ArrayOf(g, Len(vs))
<1>1. ASSUME NEW f, Evaluates(ctx, f), Doubles(f), NEW i \in 1 .. Len(vs),
             NEW p, p = Assumed(f, vs[i], NoType)
      PROVE  /\ Evaluates(ctx, p) /\ Grown(f.ctx, p.ctx) /\ IsValue(p.ctx, p.ret)
             /\ Doubles(p) /\ p.errs = f.errs /\ p.stores = f.stores
  <2>1. vs[i] \in Leaves /\ NoType \in IdsIn(f.ctx) \cup {NoType} /\ CtxOK(f.ctx)
    BY <1>1 DEF Elements, Evaluates, Grown
  <2>2. /\ Evaluates(ctx, p) /\ Grown(f.ctx, p.ctx) /\ IsValue(p.ctx, p.ret)
        /\ p.errs = f.errs /\ p.stores = f.stores
        /\ p.consts = f.consts \cup {ConstantFor(vs[i], p.ret)}
        /\ NumberOf(p.ctx, vs[i], NoType, p.ret)
    BY <1>1, <2>1, AssumedKnown
  <2>3. p.ret # NoType
    BY <2>2, IdsNumbered DEF IsValue, NoType, Grown
  <2>4. PICK k : k = ConstantFor(vs[i], p.ret)
    OBVIOUS
  <2>5. k.kind = vs[i].kind /\ k.as = p.ret
    BY <2>4 DEF ConstantFor
  <2>6. Doubles(p)
    BY <1>1, <2>2, <2>3, <2>4, <2>5 DEF Doubles, NumberOf
  <2>7. QED
    BY <2>2, <2>6
<1>2. PICK one : one = Assumed(e, vs[1], NoType)
  OBVIOUS
<1>3. 1 \in 1 .. Len(vs) /\ (Len(vs) = 2 => 2 \in 1 .. Len(vs)) /\ Len(vs) \in {1, 2}
  BY DEF Elements
<1>4. /\ Evaluates(ctx, one) /\ Grown(e.ctx, one.ctx) /\ IsValue(one.ctx, one.ret)
      /\ Doubles(one) /\ one.errs = e.errs /\ one.stores = e.stores
  BY <1>1, <1>2, <1>3
<1>5. CASE Len(vs) = 1
  <2>1. PICK rets : rets = <<one.ret>>
    OBVIOUS
  <2>2. g = ToCommon(one, rets)
    BY <1>2, <1>5, <2>1 DEF InferCommon, InferRest
  <2>3. Len(rets) = 1 /\ rets[1] = one.ret
    BY <2>1
  <2>4. Found(one.ctx, rets)
    BY <1>4, <2>3 DEF Found
  <2>5. /\ Evaluates(ctx, g) /\ HasType(g) /\ Doubles(g)
        /\ g.stores = one.stores /\ (one.errs => g.errs)
        /\ ArrayOf(g, Len(rets))
    BY <1>4, <2>2, <2>4, GoingToCommon
  <2>6. Len(rets) = Len(vs)
    BY <1>5, <2>3
  <2>7. QED
    BY <1>4, <2>5, <2>6
<1>6. CASE Len(vs) = 2
  <2>1. PICK two : two = Assumed(one, vs[2], NoType)
    OBVIOUS
  <2>2. /\ Evaluates(ctx, two) /\ Grown(one.ctx, two.ctx) /\ IsValue(two.ctx, two.ret)
        /\ Doubles(two) /\ two.errs = one.errs /\ two.stores = one.stores
    BY <1>1, <1>3, <1>4, <1>6, <2>1
  <2>3. IsValue(two.ctx, one.ret)
    BY <1>4, <2>2, ValueKept DEF Evaluates, Grown
  <2>4. PICK com : com = Common(one, two)
    OBVIOUS
  <2>5. /\ Evaluates(ctx, com) /\ Grown(two.ctx, com.ctx) /\ IsValue(com.ctx, com.ret)
        /\ com.errs = two.errs /\ com.consts = two.consts /\ com.stores = two.stores
    BY <2>2, <2>3, <2>4, FindingCommon
  <2>6. IsValue(com.ctx, one.ret) /\ IsValue(com.ctx, two.ret)
    BY <2>2, <2>3, <2>5, ValueKept DEF Evaluates, Grown
  <2>7. PICK rets : rets = <<one.ret, two.ret>>
    OBVIOUS
  <2>8. g = ToCommon(com, rets)
    BY <1>2, <1>6, <2>1, <2>4, <2>7 DEF InferCommon, InferRest, InferTwo
  <2>9. Len(rets) = 2 /\ rets[1] = one.ret /\ rets[2] = two.ret
    BY <2>7
  <2>10. Found(com.ctx, rets)
    BY <2>6, <2>9 DEF Found
  <2>11. Doubles(com)
    BY <2>2, <2>5 DEF Doubles
  <2>12. /\ Evaluates(ctx, g) /\ HasType(g) /\ Doubles(g)
         /\ g.stores = com.stores /\ (com.errs => g.errs)
         /\ ArrayOf(g, Len(rets))
    BY <2>5, <2>8, <2>10, <2>11, GoingToCommon
  <2>13. Len(rets) = Len(vs)
    BY <1>6, <2>9
  <2>14. QED
    BY <1>4, <2>2, <2>5, <2>12, <2>13
<1>7. QED
  BY <1>3, <1>5, <1>6

\* infer_array with an array type that is assumed.
LEMMA InferringLike ==
    ASSUME CtxOK(ctx), NEW vs, Elements(vs), NEW e, Evaluates(ctx, e), AllKept(e),
           NEW t \in IdsIn(e.ctx), IsArray(e.ctx, t), NEW g, g = InferLike(e, vs, t)
    PROVE  /\ Evaluates(ctx, g) /\ HasType(g) /\ AllKept(g)
           /\ g.stores = e.stores /\ (e.errs => g.errs)
           /\ IsArray(g.ctx, g.ret) /\ g.ctx.id_ptr_table[g.ret].n >= Len(vs)
<1>1. PICK s : s = Sub(e.ctx, t)
  OBVIOUS
<1>2. CtxOK(e.ctx)
  BY DEF Evaluates, Grown
<1>3. s \in IdsIn(e.ctx) /\ KindOf(e.ctx, s) \in Lowered \ {"Ref"}
  BY <1>1, <1>2, SubKnown DEF IsArray
<1>4. PICK m \in Nat : m = e.ctx.id_ptr_table[t].n
  BY <1>2, IdsNumbered DEF Type
<1>5. PICK n \in Nat : n = InferredLength(Len(vs), m) /\ n >= Len(vs)
  BY DEF InferredLength, Elements
<1>6. PICK arr : arr = Obtain(e, BuiltOn("Array", s, n, "plain"))
  OBVIOUS
<1>7. /\ Evaluates(ctx, arr) /\ Grown(e.ctx, arr.ctx) /\ arr.ret \in IdsIn(arr.ctx)
      /\ KindOf(arr.ctx, arr.ret) = "Array"
      /\ arr.ctx.id_ptr_table[arr.ret].n = n
      /\ arr.errs = e.errs /\ arr.consts = e.consts /\ arr.stores = e.stores
  BY <1>3, <1>6, Registering
<1>8. AllKept(arr)
  <2>1. \A k \in e.consts : ConstantIn(e.ctx, k) /\ KeptNow(e.ctx, k)
    BY DEF Evaluates, AllKept
  <2>2. Extends(e.ctx, arr.ctx)
    BY <1>7 DEF Grown
  <2>3. QED
    BY <1>2, <1>7, <2>1, <2>2, NumbersKept DEF AllKept
<1>9. s \in IdsIn(arr.ctx) /\ ~ IsError(arr.ctx, s)
  BY <1>3, <1>7, OldTypes DEF Grown, Same, IsError, Lowered
<1>10. PICK f : f = DemandEach(arr, vs, s)
  OBVIOUS
<1>11. /\ Evaluates(ctx, f) /\ Grown(arr.ctx, f.ctx) /\ AllKept(f)
       /\ f.stores = arr.stores /\ (arr.errs => f.errs)
  BY <1>7, <1>8, <1>9, <1>10, DemandingEach
<1>12. g = OfType(f, arr.ret)
  BY <1>1, <1>4, <1>5, <1>6, <1>10 DEF InferLike, BuiltOn
<1>13. /\ Evaluates(ctx, g) /\ g.ret = arr.ret /\ g.ctx = f.ctx /\ g.errs = f.errs
       /\ g.consts = f.consts /\ g.stores = f.stores
  BY <1>11, <1>12, OfTypeKeeps
<1>14. Same(arr.ctx, f.ctx, arr.ret)
  BY <1>7, <1>11, OldTypes DEF Grown
<1>15. /\ g.ret \in IdsIn(g.ctx) /\ KindOf(g.ctx, g.ret) = "Array"
       /\ g.ctx.id_ptr_table[g.ret].n = n
  BY <1>7, <1>13, <1>14 DEF Same
<1>16. IsValue(g.ctx, g.ret)
  <2>1. Decay(g.ctx, g.ret) = g.ret
    BY <1>15 DEF Decay, KindOf
  <2>2. QED
    BY <1>15, <2>1 DEF IsValue, ValueKinds
<1>17. QED
  BY <1>5, <1>7, <1>11, <1>13, <1>15, <1>16 DEF AllKept, HasType, IsArray

-----------------------------------------------------------------------------
(* The declaration. *)

\* What a variable is declared of.
VarKinds == {"Prim", "Pointer", "Array", "Struct"}

\* What a variable is of.
LEMMA DeclarableKnown ==
    ASSUME CtxOK(ctx), NEW t \in Declarable
    PROVE  t \in IdsIn(ctx) /\ t # NoType /\ KindOf(ctx, t) \in VarKinds
<1>1. t \in IdsIn(ctx) /\ KindOf(ctx, t) \in VarKinds \cup {"Trait"}
  BY DEF Declarable, Ids, IdsIn, VarKinds
<1>2. KindOf(ctx, t) # "Trait"
  BY <1>1, NoTraits DEF IsTrait
<1>3. t # NoType
  BY <1>1, IdsNumbered DEF NoType
<1>4. QED
  BY <1>1, <1>2, <1>3

\* What it takes from its value: nothing but what a value can be, and no function.
LEMMA TakingType ==
    ASSUME NEW b, NEW e, Evaluates(b, e), HasType(e), NEW a, a = AutoType(e)
    PROVE  /\ Evaluates(b, a) /\ Grown(e.ctx, a.ctx) /\ a.ret \in IdsIn(a.ctx)
           /\ a.errs = e.errs /\ a.consts = e.consts /\ a.stores = e.stores
           /\ ~ e.errs => KindOf(a.ctx, a.ret) \in VarKinds \cup {"Void"}
           /\ KindOf(e.ctx, e.ret) \in {"Array", "Struct"} => a.ret = e.ret
<1>1. PICK t : t = Decay(e.ctx, e.ret)
  OBVIOUS
<1>2. CtxOK(e.ctx) /\ e.ret \in IdsIn(e.ctx)
  BY DEF Evaluates, Grown, HasType
<1>3. t \in IdsIn(e.ctx) /\ (~ IsRef(e.ctx, e.ret) => t = e.ret)
      /\ (~ e.errs => KindOf(e.ctx, t) \in ValueKinds)
  BY <1>1, <1>2, DecayKnown DEF HasType, IsValue
<1>4. CASE IsFunc(e.ctx, t)
  <2>1. a = Obtain(e, BuiltOn("Pointer", t, 0, "plain"))
    BY <1>1, <1>4 DEF AutoType, PtrTo, BuiltOn
  <2>2. KindOf(e.ctx, t) \in ValueKinds
    BY <1>4 DEF IsFunc, ValueKinds
  <2>3. /\ Evaluates(b, a) /\ Grown(e.ctx, a.ctx) /\ IsValue(a.ctx, a.ret)
        /\ KindOf(a.ctx, a.ret) = "Pointer"
        /\ a.errs = e.errs /\ a.consts = e.consts /\ a.stores = e.stores
    BY <1>3, <2>1, <2>2, Obtaining
  <2>4. KindOf(e.ctx, e.ret) \notin {"Array", "Struct"}
    BY <1>3, <1>4 DEF IsFunc, IsRef
  <2>5. QED
    BY <2>3, <2>4 DEF IsValue, VarKinds
<1>5. CASE ~ IsFunc(e.ctx, t)
  <2>1. a = OfType(e, t)
    BY <1>1, <1>5 DEF AutoType
  <2>2. /\ Evaluates(b, a) /\ a.ret = t /\ a.ctx = e.ctx /\ a.errs = e.errs
        /\ a.consts = e.consts /\ a.stores = e.stores
    BY <2>1, OfTypeKeeps
  <2>3. Grown(e.ctx, a.ctx)
    BY <1>2, <2>2 DEF Grown, Extends
  <2>4. ~ e.errs => KindOf(e.ctx, t) \in VarKinds \cup {"Void"}
    BY <1>3, <1>5 DEF IsFunc, ValueKinds, VarKinds
  <2>5. KindOf(e.ctx, e.ret) \in {"Array", "Struct"} => t = e.ret
    BY <1>3 DEF IsRef
  <2>6. QED
    BY <1>3, <2>2, <2>3, <2>4, <2>5
<1>6. QED
  BY <1>4, <1>5

\* The value is converted to the type of the variable.
LEMMA Finishing ==
    ASSUME NEW b, NEW e, Evaluates(b, e), HasType(e), NEW t \in IdsIn(e.ctx) \cup {NoType},
           t # NoType => KindOf(e.ctx, t) \in VarKinds,
           NEW r, r = ConvertTo(IF t = NoType THEN AutoType(e) ELSE OfType(e, t), e)
    PROVE  /\ Evaluates(b, r) /\ HasType(r) /\ Grown(e.ctx, r.ctx)
           /\ r.stores = e.stores /\ (e.errs => r.errs)
           /\ r.ret = e.ret => r.consts = e.consts
           /\ r.ret # e.ret => r.consts = Into(e.consts, r.ret)
           /\ t # NoType => r.ret = t /\ r.ctx = e.ctx
           /\ ~ r.errs =>
                 /\ KindOf(r.ctx, r.ret) \in VarKinds \cup {"Void"}
                 /\ t # NoType => e.ret = t \/ IsConvertable(e.ctx, e.ret, t)
                 /\ t = NoType /\ KindOf(e.ctx, e.ret) \in {"Array", "Struct"} => r.ret = e.ret
<1>1. PICK a : a = IF t = NoType THEN AutoType(e) ELSE OfType(e, t)
  OBVIOUS
<1>2. CtxOK(e.ctx) /\ e.ret \in IdsIn(e.ctx) /\ e.errs \in BOOLEAN
  BY DEF Evaluates, Grown, HasType
<1>3. /\ Evaluates(b, a) /\ Grown(e.ctx, a.ctx) /\ a.ret \in IdsIn(a.ctx)
      /\ a.errs = e.errs /\ a.consts = e.consts /\ a.stores = e.stores
      /\ ~ e.errs => KindOf(a.ctx, a.ret) \in VarKinds \cup {"Void"}
      /\ t = NoType /\ KindOf(e.ctx, e.ret) \in {"Array", "Struct"} => a.ret = e.ret
      /\ t # NoType => a.ret = t /\ a.ctx = e.ctx
  <2>1. CASE t = NoType
    BY <1>1, <2>1, TakingType
  <2>2. CASE t # NoType
    <3>1. a = OfType(e, t)
      BY <1>1, <2>2
    <3>2. /\ Evaluates(b, a) /\ a.ret = t /\ a.ctx = e.ctx /\ a.errs = e.errs
          /\ a.consts = e.consts /\ a.stores = e.stores
      BY <3>1, OfTypeKeeps
    <3>3. Grown(e.ctx, a.ctx)
      BY <1>2, <3>2 DEF Grown, Extends
    <3>4. QED
      BY <2>2, <3>2, <3>3
  <2>3. QED
    BY <2>1, <2>2
<1>4. PICK f : f = OfType(a, e.ret)
  OBVIOUS
<1>5. /\ Evaluates(b, f) /\ f.ret = e.ret /\ f.ctx = a.ctx /\ f.errs = a.errs
      /\ f.consts = a.consts /\ f.stores = a.stores
  BY <1>3, <1>4, OfTypeKeeps
<1>6. Extends(e.ctx, a.ctx) /\ e.ret \in IdsIn(a.ctx)
  BY <1>2, <1>3, OldTypes DEF Grown, Same
<1>7. HasType(f)
  BY <1>2, <1>3, <1>5, <1>6, ValueKept DEF HasType
<1>8. a.ret \in IdsIn(f.ctx) /\ (~ f.errs => ~ IsError(f.ctx, a.ret))
  BY <1>3, <1>5 DEF IsError, VarKinds
<1>9. r = Convert(f, a.ret)
  BY <1>1, <1>4 DEF ConvertTo
<1>10. /\ Evaluates(b, r) /\ HasType(r)
       /\ r.ctx = f.ctx /\ r.ret = a.ret /\ r.stores = f.stores
       /\ f.errs => r.errs
       /\ ~ r.errs => f.ret = a.ret \/ IsConvertable(f.ctx, f.ret, a.ret)
       /\ f.ret = a.ret => r = f
       /\ f.ret # a.ret => r.consts = Into(f.consts, a.ret)
  BY <1>5, <1>7, <1>8, <1>9, Converting
<1>11. r.errs \in BOOLEAN
  BY <1>10 DEF Evaluates
<1>12. QED
  BY <1>2, <1>3, <1>5, <1>10, <1>11

\* A number is stored as it is, or as the language says.
KeptAs(c, t, k) ==
    \/ ~ IsPrim(c, k.into)
    \/ KeptNow(c, k)
    \/ t = NoType /\ (k.kind = "double" => k.as = DoubleId)

\* What a declaration of type t, or none, comes to when nothing is reported.
Meets(r, given, t) ==
    ~ r.errs =>
        /\ KindOf(r.ctx, r.ret) \in VarKinds \cup {"Void", "Ref"}
        /\ IsVoid(r.ctx, r.ret) => t = NoType
        /\ IsRef(r.ctx, r.ret) => r.convs = {}
        /\ IsArray(r.ctx, Decay(r.ctx, r.ret)) => given <= Length(r.ctx, r.ret)
        /\ \A k \in r.consts : KeptAs(r.ctx, t, k)

Finishes(r, given, t) == Evaluates(ctx, r) /\ HasType(r) /\ Meets(r, given, t)

\* Nothing was read at the start.
LEMMA Unknown ==
    ASSUME CtxOK(ctx)
    PROVE  /\ Evaluates(ctx, Unread) /\ Unread.ctx = ctx
           /\ Unread.errs = FALSE /\ Unread.consts = {} /\ Unread.convs = {} /\ Unread.stores = {}
  BY DEF Unread, Evaluates, InstFields, Grown, Extends

\* The length of an array is a number.
LEMMA LengthIsNat ==
    ASSUME NEW c, CtxOK(c), NEW t \in IdsIn(c)
    PROVE  /\ Length(c, t) \in Nat
           /\ IsArray(c, t) => Length(c, t) = c.id_ptr_table[t].n
<1>1. PICK d : d = Decay(c, t)
  OBVIOUS
<1>2. d \in IdsIn(c) /\ (~ IsRef(c, t) => d = t)
  BY <1>1, DecayKnown
<1>3. c.id_ptr_table[d].n \in Nat
  BY <1>2, IdsNumbered DEF Type
<1>4. IsArray(c, t) => d = t
  BY <1>2 DEF IsArray, IsRef
<1>5. QED
  BY <1>1, <1>3, <1>4 DEF Length

\* A variable with one value.
LEMMA DeclaringOne ==
    ASSUME CtxOK(ctx), NEW v \in Leaves, NEW t \in Declarable \cup {NoType},
           NEW e, e = Assumed(Unread, v, t),
           NEW r, r = ConvertTo(IF t = NoType THEN AutoType(e) ELSE OfType(e, t), e)
    PROVE  Finishes(r, 0, t)
<1>1. t # NoType => t \in IdsIn(ctx) /\ KindOf(ctx, t) \in VarKinds
  BY DeclarableKnown
<1>2. /\ Evaluates(ctx, e) /\ Grown(ctx, e.ctx) /\ IsValue(e.ctx, e.ret)
      /\ e.consts = Unread.consts \cup {ConstantFor(v, e.ret)}
      /\ NumberOf(e.ctx, v, t, e.ret)
  <2>1. Evaluates(ctx, Unread) /\ t \in IdsIn(Unread.ctx) \cup {NoType} /\ Unread.ctx = ctx
    BY <1>1, Unknown
  <2>2. QED
    BY <2>1, AssumedKnown
<1>3. PICK k0 : k0 = ConstantFor(v, e.ret)
  OBVIOUS
<1>4. /\ e.consts = {k0} /\ DOMAIN k0 = {"kind", "bits", "units", "as", "into"}
      /\ k0.kind = v.kind /\ k0.as = e.ret /\ k0.into = e.ret
  BY <1>2, <1>3, Unknown DEF ConstantFor
<1>5. t # NoType => t \in IdsIn(e.ctx) /\ KindOf(e.ctx, t) \in VarKinds
  BY <1>1, <1>2, OldTypes DEF Grown, Same
<1>6. HasType(e)
  BY <1>2 DEF HasType, IsValue
<1>7. /\ Evaluates(ctx, r) /\ HasType(r)
      /\ r.ret = e.ret => r.consts = e.consts
      /\ r.ret # e.ret => r.consts = Into(e.consts, r.ret)
      /\ t # NoType => r.ret = t /\ r.ctx = e.ctx
      /\ ~ r.errs => KindOf(r.ctx, r.ret) \in VarKinds \cup {"Void"}
  BY <1>2, <1>5, <1>6, Finishing
<1>8. ASSUME NEW k \in r.consts PROVE KeptAs(r.ctx, t, k)
  <2>1. k.kind = v.kind /\ k.as = e.ret /\ k.into = r.ret
    <3>1. CASE r.ret = e.ret
      BY <1>4, <1>7, <3>1
    <3>2. CASE r.ret # e.ret
      <4>1. k = [k0 EXCEPT !.into = r.ret]
        BY <1>4, <1>7, <3>2 DEF Into
      <4>2. QED
        BY <1>4, <4>1
    <3>3. QED
      BY <3>1, <3>2
  <2>2. CASE t = NoType
    <3>1. e.ret # NoType
      BY <1>2, IdsNumbered DEF IsValue, NoType, Grown
    <3>2. QED
      BY <1>2, <2>1, <2>2, <3>1 DEF NumberOf, KeptAs
  <2>3. CASE t # NoType
    BY <1>2, <1>7, <2>1, <2>3 DEF NumberOf, KeptAs, KeptNow
  <2>4. QED
    BY <2>2, <2>3
<1>9. CtxOK(r.ctx) /\ r.ret \in IdsIn(r.ctx)
  BY <1>7 DEF Evaluates, Grown, HasType
<1>10. 0 <= Length(r.ctx, r.ret)
  BY <1>9, LengthIsNat
<1>11. t # NoType => KindOf(r.ctx, r.ret) \in VarKinds
  BY <1>5, <1>7
<1>12. Meets(r, 0, t)
  BY <1>7, <1>8, <1>10, <1>11 DEF Meets, IsVoid, IsRef, VarKinds
<1>13. QED
  BY <1>7, <1>12 DEF Finishes

\* A reference: it is bound to a variable, and nothing is converted.
LEMMA DeclaringRef ==
    ASSUME CtxOK(ctx), NEW v \in Leaves, NEW t \in Declarable,
           NEW o, o = Obtain(Unread, BuiltOn("Ref", t, 0, "plain")),
           NEW e, e = Assumed(o, v, o.ret),
           NEW r, r = ConvertTo(OfType(e, o.ret), e)
    PROVE  o.ret # NoType /\ Finishes(r, 0, o.ret)
<1>1. t \in IdsIn(ctx) /\ KindOf(ctx, t) \in ValueKinds
  BY DeclarableKnown DEF VarKinds, ValueKinds
<1>2. Evaluates(ctx, Unread) /\ Unread.ctx = ctx /\ Unread.convs = {}
  BY Unknown
<1>3. /\ Evaluates(ctx, o) /\ Grown(Unread.ctx, o.ctx) /\ IsValue(o.ctx, o.ret)
      /\ KindOf(o.ctx, o.ret) = "Ref" /\ o.convs = Unread.convs /\ o.consts = Unread.consts
  BY <1>1, <1>2, Obtaining
<1>4. o.ret \in IdsIn(o.ctx) /\ o.ret # NoType
  BY <1>3, IdsNumbered DEF IsValue, NoType, Grown
<1>5. /\ Evaluates(ctx, e) /\ Grown(o.ctx, e.ctx) /\ IsValue(e.ctx, e.ret)
      /\ e.convs = o.convs
      /\ e.consts = o.consts \cup {ConstantFor(v, e.ret)}
  BY <1>3, <1>4, AssumedKnown
<1>6. IsValue(e.ctx, o.ret) /\ Same(o.ctx, e.ctx, o.ret)
  BY <1>3, <1>5, ValueKept DEF Grown
<1>7. PICK a : a = OfType(e, o.ret)
  OBVIOUS
<1>8. /\ Evaluates(ctx, a) /\ a.ret = o.ret /\ a.ctx = e.ctx /\ a.errs = e.errs
      /\ a.consts = e.consts /\ a.convs = e.convs
  BY <1>5, <1>7, OfTypeKeeps
<1>9. PICK f : f = OfType(a, e.ret)
  OBVIOUS
<1>10. /\ Evaluates(ctx, f) /\ f.ret = e.ret /\ f.ctx = a.ctx /\ f.errs = a.errs
       /\ f.consts = a.consts /\ f.convs = a.convs
  BY <1>8, <1>9, OfTypeKeeps
<1>11. r = Convert(f, o.ret)
  BY <1>7, <1>8, <1>9 DEF ConvertTo
<1>12. /\ HasType(f) /\ o.ret \in IdsIn(f.ctx) /\ ~ IsError(f.ctx, o.ret)
       /\ IsValue(f.ctx, f.ret) /\ IsValue(f.ctx, o.ret) /\ IsRef(f.ctx, o.ret)
  BY <1>3, <1>5, <1>6, <1>8, <1>10 DEF HasType, IsValue, Same, IsError, IsRef
<1>13. /\ Evaluates(ctx, r) /\ HasType(r)
       /\ r.ctx = f.ctx /\ r.ret = o.ret
       /\ ~ r.errs => f.ret = o.ret \/ IsConvertable(f.ctx, f.ret, o.ret)
       /\ f.ret = o.ret => r = f
  BY <1>10, <1>11, <1>12, Converting
<1>14. CtxOK(f.ctx) /\ CtxOK(r.ctx) /\ r.ret \in IdsIn(r.ctx)
  BY <1>10, <1>13 DEF Evaluates, Grown, HasType
<1>15. ASSUME ~ r.errs PROVE r = f
  <2>1. f.ret = o.ret
    BY <1>12, <1>13, <1>14, <1>15, ConvertsTo
  <2>2. QED
    BY <1>13, <2>1
<1>16. ASSUME r = f, NEW k \in r.consts PROVE KeptAs(r.ctx, o.ret, k)
  <2>1. PICK k0 : k0 = ConstantFor(v, e.ret)
    OBVIOUS
  <2>2. k0.as = e.ret /\ k0.into = e.ret
    BY <2>1 DEF ConstantFor
  <2>3. k = k0
    BY <1>2, <1>3, <1>5, <1>8, <1>10, <1>16, <2>1, Unknown
  <2>4. QED
    BY <2>2, <2>3 DEF KeptAs, KeptNow
<1>17. KindOf(r.ctx, r.ret) = "Ref"
  BY <1>12, <1>13 DEF IsRef
<1>18. 0 <= Length(r.ctx, r.ret)
  BY <1>14, LengthIsNat
<1>19. r = f => r.convs = {}
  BY <1>2, <1>3, <1>5, <1>8, <1>10
<1>20. Meets(r, 0, o.ret)
  BY <1>15, <1>16, <1>17, <1>18, <1>19 DEF Meets, IsVoid
<1>21. QED
  BY <1>4, <1>13, <1>20 DEF Finishes

\* An array: it has the length of what is declared, or of what is given.
LEMMA DeclaringArray ==
    ASSUME CtxOK(ctx), NEW vs, Elements(vs), NEW t \in Declarable \cup {NoType},
           Len(vs) # 0 \/ (t # NoType /\ IsArray(ctx, t)),
           NEW e, e = Array(Unread, vs, t),
           NEW r, r = ConvertTo(IF t = NoType THEN AutoType(e) ELSE OfType(e, t), e)
    PROVE  Finishes(r, Len(vs), t)
<1>1. t # NoType => t \in IdsIn(ctx) /\ KindOf(ctx, t) \in VarKinds
  BY DeclarableKnown
<1>2. /\ Evaluates(ctx, Unread) /\ Unread.ctx = ctx /\ Unread.consts = {}
      /\ AllKept(Unread) /\ Doubles(Unread)
  BY Unknown DEF AllKept, Doubles
<1> DEFINE Like == t # NoType /\ IsArray(ctx, t)
<1>3. /\ Evaluates(ctx, e) /\ HasType(e)
      /\ Like => AllKept(e) /\ IsArray(e.ctx, e.ret)
                 /\ e.ctx.id_ptr_table[e.ret].n >= Len(vs)
      /\ ~ Like => Doubles(e) /\ ArrayOf(e, Len(vs))
  <2>1. CASE Like
    <3>1. e = InferLike(Unread, vs, t)
      BY <1>2, <2>1 DEF Array
    <3>2. t \in IdsIn(Unread.ctx) /\ IsArray(Unread.ctx, t)
      BY <1>1, <1>2, <2>1
    <3>3. /\ Evaluates(ctx, e) /\ HasType(e) /\ AllKept(e)
          /\ IsArray(e.ctx, e.ret) /\ e.ctx.id_ptr_table[e.ret].n >= Len(vs)
      BY <1>2, <3>1, <3>2, InferringLike
    <3>4. QED
      BY <2>1, <3>3
  <2>2. CASE ~ Like
    <3>1. e = InferCommon(Unread, vs)
      BY <1>2, <2>2 DEF Array
    <3>2. Evaluates(ctx, e) /\ HasType(e) /\ Doubles(e) /\ ArrayOf(e, Len(vs))
      BY <1>2, <2>2, <3>1, InferringCommon
    <3>3. QED
      BY <2>2, <3>2
  <2>3. QED
    BY <2>1, <2>2
<1>4. CtxOK(e.ctx) /\ Extends(ctx, e.ctx) /\ e.ret \in IdsIn(e.ctx)
  BY <1>3 DEF Evaluates, Grown, HasType
<1>5. t # NoType => /\ t \in IdsIn(e.ctx) /\ KindOf(e.ctx, t) \in VarKinds
                    /\ IsArray(e.ctx, t) <=> IsArray(ctx, t)
  BY <1>1, <1>4, OldTypes DEF Same, IsArray
<1>6. /\ Evaluates(ctx, r) /\ HasType(r) /\ Grown(e.ctx, r.ctx)
      /\ e.errs => r.errs
      /\ r.ret = e.ret => r.consts = e.consts
      /\ r.ret # e.ret => r.consts = Into(e.consts, r.ret)
      /\ t # NoType => r.ret = t /\ r.ctx = e.ctx
      /\ ~ r.errs =>
            /\ KindOf(r.ctx, r.ret) \in VarKinds \cup {"Void"}
            /\ t # NoType => e.ret = t \/ IsConvertable(e.ctx, e.ret, t)
            /\ t = NoType /\ KindOf(e.ctx, e.ret) \in {"Array", "Struct"} => r.ret = e.ret
  <2>1. t \in IdsIn(e.ctx) \cup {NoType} /\ (t # NoType => KindOf(e.ctx, t) \in VarKinds)
    BY <1>5
  <2>2. QED
    BY <1>3, <2>1, Finishing
<1>7. CtxOK(r.ctx) /\ Extends(e.ctx, r.ctx) /\ r.ret \in IdsIn(r.ctx)
  BY <1>6 DEF Grown, HasType
<1>8. ASSUME ~ r.errs PROVE /\ IsArray(e.ctx, e.ret) /\ IsValue(e.ctx, e.ret)
                           /\ e.ctx.id_ptr_table[e.ret].n >= Len(vs)
  <2>1. ~ e.errs
    BY <1>6, <1>8
  <2>2. Len(vs) \in Nat
    BY DEF Elements
  <2>3. QED
    BY <1>3, <2>1, <2>2 DEF ArrayOf, HasType
<1>9. ASSUME ~ r.errs, t # NoType PROVE e.ret = t \/ (IsPtr(e.ctx, t) /\ ~ Like)
  <2>1. IsValue(e.ctx, t)
    <3>1. Decay(e.ctx, t) = t
      BY <1>4, <1>5, <1>9, DecayKnown DEF IsRef, VarKinds
    <3>2. QED
      BY <1>5, <1>9, <3>1 DEF IsValue, VarKinds, ValueKinds
  <2>2. e.ret = t \/ IsPtr(e.ctx, t)
    BY <1>4, <1>6, <1>8, <1>9, <2>1, ConvertsTo
  <2>3. QED
    BY <1>5, <2>2 DEF IsArray, IsPtr
<1>10. ASSUME ~ r.errs PROVE r.ret = e.ret \/ IsPtr(r.ctx, r.ret)
  <2>1. CASE t = NoType
    BY <1>6, <1>8, <1>10, <2>1 DEF IsArray
  <2>2. CASE t # NoType
    BY <1>6, <1>9, <1>10, <2>2
  <2>3. QED
    BY <2>1, <2>2
<1>11. ASSUME ~ r.errs, IsArray(r.ctx, Decay(r.ctx, r.ret))
       PROVE  Len(vs) <= Length(r.ctx, r.ret)
  <2>1. r.ret = e.ret
    <3>1. IsPtr(r.ctx, r.ret) => Decay(r.ctx, r.ret) = r.ret
      BY <1>7, DecayKnown DEF IsPtr, IsRef
    <3>2. QED
      BY <1>10, <1>11, <3>1 DEF IsPtr, IsArray
  <2>2. Same(e.ctx, r.ctx, e.ret)
    BY <1>4, <1>7, OldTypes
  <2>3. IsArray(r.ctx, r.ret) /\ r.ctx.id_ptr_table[r.ret].n >= Len(vs)
    BY <1>8, <1>11, <2>1, <2>2 DEF Same, IsArray
  <2>4. PICK n \in Nat : n = r.ctx.id_ptr_table[r.ret].n /\ n = Length(r.ctx, r.ret)
    BY <1>7, <2>3, LengthIsNat
  <2>5. PICK m \in Nat : m = Len(vs)
    BY DEF Elements
  <2>6. QED
    BY <2>3, <2>4, <2>5
<1>12. ASSUME ~ r.errs, NEW k \in r.consts PROVE KeptAs(r.ctx, t, k)
  <2>1. CASE r.ret = e.ret
    <3>1. k \in e.consts
      BY <1>6, <1>12, <2>1
    <3>2. CASE t = NoType
      BY <1>3, <3>1, <3>2 DEF Doubles, KeptAs
    <3>3. CASE t # NoType
      <4>1. e.ret = t /\ r.ctx = e.ctx /\ Like
        BY <1>5, <1>6, <1>8, <1>12, <2>1, <3>3
      <4>2. QED
        BY <1>3, <3>1, <4>1 DEF AllKept, KeptAs
    <3>4. QED
      BY <3>2, <3>3
  <2>2. CASE r.ret # e.ret
    <3>1. IsPtr(r.ctx, r.ret)
      BY <1>10, <1>12, <2>2
    <3>2. PICK k0 \in e.consts : k = [k0 EXCEPT !.into = r.ret]
      BY <1>6, <1>12, <2>2 DEF Into
    <3>3. DOMAIN k0 = {"kind", "bits", "units", "as", "into"}
      BY <1>3 DEF Evaluates, ConstantIn
    <3>4. k.into = r.ret
      BY <3>2, <3>3
    <3>5. QED
      BY <3>1, <3>4 DEF KeptAs, IsPrim, IsPtr
  <2>3. QED
    BY <2>1, <2>2
<1>13. t # NoType => KindOf(r.ctx, r.ret) \in VarKinds
  BY <1>5, <1>6
<1>14. Meets(r, Len(vs), t)
  BY <1>6, <1>11, <1>12, <1>13 DEF Meets, IsVoid, IsRef, VarKinds
<1>15. QED
  BY <1>6, <1>14 DEF Finishes

\* A struct of one member.
LEMMA DeclaringStruct ==
    ASSUME CtxOK(ctx), NEW v \in Leaves, NEW t \in Declarable \cup {NoType},
           NEW m \in Declarable, NEW st \in Structs,
           NEW e, e = Struct(Unread, v, m, st),
           NEW r, r = ConvertTo(IF t = NoType THEN AutoType(e) ELSE OfType(e, t), e)
    PROVE  Finishes(r, 0, t)
<1>1. t # NoType => t \in IdsIn(ctx) /\ KindOf(ctx, t) \in VarKinds
  BY DeclarableKnown
<1>2. m \in IdsIn(ctx) /\ st \in IdsIn(ctx) /\ KindOf(ctx, st) = "Struct"
  BY DeclarableKnown DEF Structs, Ids, IdsIn
<1>3. PICK p : p = Assumed(Unread, v, m)
  OBVIOUS
<1>4. Unread.consts = {} /\ Unread.stores = {} /\ Unread.convs = {} /\ Unread.errs = FALSE
  BY Unknown
<1>5. /\ Evaluates(ctx, p) /\ Grown(ctx, p.ctx) /\ IsValue(p.ctx, p.ret)
      /\ p.consts = Unread.consts \cup {ConstantFor(v, p.ret)}
      /\ p.errs = FALSE
  <2>1. Evaluates(ctx, Unread) /\ m \in IdsIn(Unread.ctx) \cup {NoType} /\ Unread.ctx = ctx
    BY <1>2, Unknown
  <2>2. QED
    BY <1>3, <1>4, <2>1, AssumedKnown
<1>6. PICK k0 : k0 = ConstantFor(v, p.ret)
  OBVIOUS
<1>7. p.consts = {k0} /\ k0.as = p.ret /\ k0.into = p.ret
  BY <1>4, <1>5, <1>6 DEF ConstantFor
<1>8. /\ m \in IdsIn(p.ctx) /\ st \in IdsIn(p.ctx) /\ KindOf(p.ctx, st) = "Struct"
      /\ CtxOK(p.ctx)
  BY <1>2, <1>5, OldTypes DEF Grown, Same
<1>9. IsValue(p.ctx, st)
  BY <1>8, DecayKnown DEF IsValue, ValueKinds, IsRef
<1>10. /\ Evaluates(ctx, e) /\ HasType(e) /\ e.consts = p.consts
       /\ ~ e.errs => e.ret = st /\ e.ctx = p.ctx
  <2>1. CASE IsConvertable(p.ctx, p.ret, m)
    <3>1. PICK f : f = [p EXCEPT !.stores = StoredAs(p, m)]
      OBVIOUS
    <3>2. DOMAIN p = InstFields
      BY <1>5 DEF Evaluates
    <3>3. /\ DOMAIN f = InstFields /\ f.ctx = p.ctx /\ f.errs = p.errs
          /\ f.convs = p.convs /\ f.consts = p.consts /\ f.stores = {<<p.ret, m>>}
      BY <3>1, <3>2 DEF InstFields, StoredAs
    <3>4. \A w \in f.stores : TypePair(f.ctx, w)
      BY <1>5, <1>8, <3>3 DEF TypePair, IsValue
    <3>5. Evaluates(ctx, f)
      BY <1>5, <3>3, <3>4 DEF Evaluates
    <3>6. e = OfType(f, st)
      BY <1>3, <2>1, <3>1 DEF Struct, Match
    <3>7. Evaluates(ctx, e) /\ e.ret = st /\ e.ctx = f.ctx /\ e.consts = f.consts
      BY <3>5, <3>6, OfTypeKeeps
    <3>8. HasType(e)
      BY <1>9, <3>3, <3>7 DEF HasType, IsValue
    <3>9. QED
      BY <3>3, <3>7, <3>8
  <2>2. CASE ~ IsConvertable(p.ctx, p.ret, m)
    <3>1. e = Refuse(p)
      BY <1>3, <2>2 DEF Struct, Match
    <3>2. Evaluates(ctx, e) /\ HasType(e) /\ e.errs = TRUE
      BY <1>5, <3>1, Refusing
    <3>3. e.consts = p.consts
      <4>1. DOMAIN p = InstFields
        BY <1>5 DEF Evaluates
      <4>2. QED
        BY <3>1, <4>1 DEF Refuse, Obtain, InstFields
    <3>4. QED
      BY <3>2, <3>3
  <2>3. QED
    BY <2>1, <2>2
<1>11. CtxOK(e.ctx) /\ Extends(ctx, e.ctx)
  BY <1>10 DEF Evaluates, Grown
<1>12. t # NoType => t \in IdsIn(e.ctx) /\ KindOf(e.ctx, t) \in VarKinds
  BY <1>1, <1>11, OldTypes DEF Same
<1>13. /\ Evaluates(ctx, r) /\ HasType(r)
       /\ e.errs => r.errs
       /\ r.ret = e.ret => r.consts = e.consts
       /\ t # NoType => r.ret = t /\ r.ctx = e.ctx
       /\ ~ r.errs =>
             /\ KindOf(r.ctx, r.ret) \in VarKinds \cup {"Void"}
             /\ t # NoType => e.ret = t \/ IsConvertable(e.ctx, e.ret, t)
             /\ t = NoType /\ KindOf(e.ctx, e.ret) \in {"Array", "Struct"} => r.ret = e.ret
  <2>1. t \in IdsIn(e.ctx) \cup {NoType} /\ (t # NoType => KindOf(e.ctx, t) \in VarKinds)
    BY <1>12
  <2>2. QED
    BY <1>10, <2>1, Finishing
<1>14. ASSUME ~ r.errs PROVE r.consts = {k0}
  <2>1. e.ret = st /\ KindOf(e.ctx, e.ret) = "Struct" /\ IsValue(e.ctx, e.ret)
    BY <1>8, <1>9, <1>10, <1>13, <1>14
  <2>2. r.ret = e.ret
    <3>1. CASE t = NoType
      BY <1>13, <1>14, <2>1, <3>1
    <3>2. CASE t # NoType
      <4>1. Decay(e.ctx, t) = t
        BY <1>11, <1>12, <3>2, DecayKnown DEF IsRef, VarKinds
      <4>2. IsValue(e.ctx, t)
        BY <1>12, <3>2, <4>1 DEF IsValue, VarKinds, ValueKinds
      <4>3. e.ret = t
        BY <1>11, <1>13, <1>14, <2>1, <3>2, <4>2, ConvertsTo
      <4>4. QED
        BY <1>13, <3>2, <4>3
    <3>3. QED
      BY <3>1, <3>2
  <2>3. QED
    BY <1>7, <1>10, <1>13, <2>2
<1>15. KeptAs(r.ctx, t, k0)
  BY <1>7 DEF KeptAs, KeptNow
<1>16. CtxOK(r.ctx) /\ r.ret \in IdsIn(r.ctx)
  BY <1>13 DEF Evaluates, Grown, HasType
<1>17. 0 <= Length(r.ctx, r.ret)
  BY <1>16, LengthIsNat
<1>18. t # NoType => KindOf(r.ctx, r.ret) \in VarKinds
  BY <1>12, <1>13
<1>19. Meets(r, 0, t)
  BY <1>13, <1>14, <1>15, <1>17, <1>18 DEF Meets, IsVoid, IsRef, VarKinds
<1>20. QED
  BY <1>13, <1>19 DEF Finishes

-----------------------------------------------------------------------------
(* The invariant of declarations. *)

\* What is known of a declaration.
DeclFits(c, d) ==
    /\ d.type \in IdsIn(c)
    /\ d.given \in Nat /\ d.length = Length(c, d.type)
    /\ \A k \in d.consts : ConstantIn(c, k)
    /\ \A v \in d.convs \cup d.stores : TypePair(c, v)
    /\ ~ d.errs =>
          /\ \A v \in d.convs : Converts(c, v)
          /\ KindOf(c, d.type) \in VarKinds \cup {"Void", "Ref"}
          /\ IsVoid(c, d.type) => d.declared = NoType
          /\ IsRef(c, d.type) => d.convs = {}
          /\ IsArray(c, Decay(c, d.type)) => d.given <= d.length
          /\ \A k \in d.consts : KeptAs(c, d.declared, k)

InstInv == CtxOK(ctx) /\ (decl # NoDecl => DeclFits(ctx, decl))

\* A declaration that is finished.
LEMMA DeclaredFits ==
    ASSUME NEW r, NEW given \in Nat, NEW t, Finishes(r, given, t), Declared(r, given, t)
    PROVE  InstInv'
<1>1. ctx' = r.ctx
  BY DEF Declared
<1>2. /\ decl'.declared = t /\ decl'.type = r.ret /\ decl'.given = given
      /\ decl'.length = Length(r.ctx, r.ret) /\ decl'.errs = r.errs
      /\ decl'.convs = r.convs /\ decl'.consts = r.consts /\ decl'.stores = r.stores
  BY DEF Declared
<1>3. Evaluates(ctx, r) /\ HasType(r) /\ Meets(r, given, t)
  BY DEF Finishes
<1>4. CtxOK(r.ctx)
  BY <1>3 DEF Evaluates, Grown
<1>5. PICK d : d = decl'
  OBVIOUS
<1>6. DeclFits(r.ctx, d)
  BY <1>2, <1>3, <1>5 DEF DeclFits, Meets, Evaluates, HasType
<1>7. DeclFits(ctx, decl)'
  BY <1>1, <1>5, <1>6
<1>8. QED
  BY <1>1, <1>4, <1>7 DEF InstInv

\* A list without elements.
LEMMA NoElementsGiven ==
    ASSUME NEW vs, vs = <<>>
    PROVE  Elements(vs) /\ Len(vs) = 0
<1>1. Len(vs) = 0 /\ 1 .. 0 = {}
  OBVIOUS
<1>2. QED
  BY <1>1 DEF Elements

\* A list of one element.
LEMMA OneElement ==
    ASSUME NEW v \in Leaves, NEW vs, vs = <<v>>
    PROVE  Elements(vs) /\ Len(vs) # 0
  BY DEF Elements

\* A list of two elements.
LEMMA TwoElements ==
    ASSUME NEW v \in Leaves, NEW w \in Leaves, NEW vs, vs = <<v, w>>
    PROVE  Elements(vs) /\ Len(vs) # 0
<1>1. Len(vs) = 2 /\ vs[1] = v /\ vs[2] = w
  OBVIOUS
<1>2. \A i \in 1 .. 2 : i = 1 \/ i = 2
  OBVIOUS
<1>3. QED
  BY <1>1, <1>2 DEF Elements

\* Every declaration.
LEMMA DeclareKeeps == ASSUME CtxOK(ctx), DeclareVariable PROVE InstInv'
<1>1. PICK t \in Declarable \cup {NoType} :
        \/ \E v \in Leaves : DeclareOne(v, t)
        \/ t # NoType /\ \E v \in Leaves : DeclareRef(v, t)
        \/ t # NoType /\ IsArray(ctx, t) /\ DeclareArray(<<>>, t)
        \/ \E v \in Leaves : DeclareArray(<<v>>, t)
        \/ \E v, w \in Leaves : DeclareArray(<<v, w>>, t)
        \/ \E v \in Leaves, m \in Declarable, st \in Structs : DeclareStruct(v, m, st, t)
  BY DEF DeclareVariable
<1>2. ASSUME NEW v \in Leaves, DeclareOne(v, t) PROVE InstInv'
  <2>1. PICK e : e = Assumed(Unread, v, t)
    OBVIOUS
  <2>2. PICK r : r = ConvertTo(IF t = NoType THEN AutoType(e) ELSE OfType(e, t), e)
    OBVIOUS
  <2>3. Declared(r, 0, t)
    BY <1>2, <2>1, <2>2 DEF DeclareOne, VarDecl
  <2>4. Finishes(r, 0, t)
    BY <2>1, <2>2, DeclaringOne
  <2>5. 0 \in Nat
    OBVIOUS
  <2>6. QED
    BY <2>3, <2>4, <2>5, DeclaredFits
<1>3. ASSUME t # NoType, NEW v \in Leaves, DeclareRef(v, t) PROVE InstInv'
  <2>1. PICK o : o = Obtain(Unread, BuiltOn("Ref", t, 0, "plain"))
    OBVIOUS
  <2>2. o = Obtain(Unread, Tp("Ref", <<t>>, 0, FALSE))
    BY <2>1 DEF BuiltOn
  <2>3. PICK e : e = Assumed(o, v, o.ret)
    OBVIOUS
  <2>4. PICK r : r = ConvertTo(OfType(e, o.ret), e)
    OBVIOUS
  <2>5. t \in Declarable
    BY <1>3
  <2>6. o.ret # NoType /\ Finishes(r, 0, o.ret)
    BY <2>1, <2>3, <2>4, <2>5, DeclaringRef
  <2>7. DeclareAs(o, v)
    BY <1>3, <2>2 DEF DeclareRef
  <2>8. VarDecl(e, 0, o.ret)
    BY <2>3, <2>7 DEF DeclareAs
  <2>9. Declared(r, 0, o.ret)
    BY <2>4, <2>6, <2>8 DEF VarDecl
  <2>10. 0 \in Nat
    OBVIOUS
  <2>11. QED
    BY <2>6, <2>9, <2>10, DeclaredFits
<1>4. ASSUME NEW vs, Elements(vs), DeclareArray(vs, t),
             Len(vs) # 0 \/ (t # NoType /\ IsArray(ctx, t))
      PROVE  InstInv'
  <2>1. PICK e : e = Array(Unread, vs, t)
    OBVIOUS
  <2>2. PICK r : r = ConvertTo(IF t = NoType THEN AutoType(e) ELSE OfType(e, t), e)
    OBVIOUS
  <2>3. Declared(r, Len(vs), t)
    BY <1>4, <2>1, <2>2 DEF DeclareArray, VarDecl
  <2>4. Finishes(r, Len(vs), t)
    BY <1>4, <2>1, <2>2, DeclaringArray
  <2>5. Len(vs) \in Nat
    BY <1>4 DEF Elements
  <2>6. QED
    BY <2>3, <2>4, <2>5, DeclaredFits
<1>5. ASSUME NEW v \in Leaves, DeclareArray(<<v>>, t) PROVE InstInv'
  <2>1. PICK vs : vs = <<v>>
    OBVIOUS
  <2>2. Elements(vs) /\ Len(vs) # 0 /\ DeclareArray(vs, t)
    BY <1>5, <2>1, OneElement
  <2>3. QED
    BY <1>4, <2>2
<1>6. ASSUME NEW v \in Leaves, NEW w \in Leaves, DeclareArray(<<v, w>>, t) PROVE InstInv'
  <2>1. PICK vs : vs = <<v, w>>
    OBVIOUS
  <2>2. Elements(vs) /\ Len(vs) # 0 /\ DeclareArray(vs, t)
    BY <1>6, <2>1, TwoElements
  <2>3. QED
    BY <1>4, <2>2
<1>7. ASSUME NEW v \in Leaves, NEW m \in Declarable, NEW st \in Structs, DeclareStruct(v, m, st, t)
      PROVE  InstInv'
  <2>1. PICK e : e = Struct(Unread, v, m, st)
    OBVIOUS
  <2>2. PICK r : r = ConvertTo(IF t = NoType THEN AutoType(e) ELSE OfType(e, t), e)
    OBVIOUS
  <2>3. Declared(r, 0, t)
    BY <1>7, <2>1, <2>2 DEF DeclareStruct, VarDecl
  <2>4. Finishes(r, 0, t)
    BY <1>7, <2>1, <2>2, DeclaringStruct
  <2>5. 0 \in Nat
    OBVIOUS
  <2>6. QED
    BY <2>3, <2>4, <2>5, DeclaredFits
<1>8. ASSUME t # NoType, IsArray(ctx, t), DeclareArray(<<>>, t) PROVE InstInv'
  <2>1. PICK vs : vs = <<>>
    OBVIOUS
  <2>2. Elements(vs) /\ DeclareArray(vs, t)
    BY <1>8, <2>1, NoElementsGiven
  <2>3. QED
    BY <1>4, <1>8, <2>2
<1>9. QED
  BY <1>1, <1>2, <1>3, <1>5, <1>6, <1>7, <1>8

\* A struct is registered under a name of its own.
LEMMA StructGrows ==
    ASSUME CtxOK(ctx), NEW l \in Labels, CreateStruct(l)
    PROVE  Grown(ctx, ctx')
<1>1. PICK t : t = Tp("Struct", <<>>, l, FALSE)
  OBVIOUS
<1>2. /\ t.kind = "Struct" /\ DOMAIN t.args = {} /\ t \in Type
  BY <1>1, TypeTableAssumption DEF Tp, Type, Kind, Nominal
<1>3. Serve(ctx, t)
  BY <1>1 DEF CreateStruct
<1>4. IInv
  BY DEF CtxOK, IInv
<1>5. HasSubtype(t) /\ Supported(ctx, t, ctx.tp_counter)
  BY <1>2 DEF HasSubtype, Supported
<1>6. ctx' = GetOrCreate(ctx, t)
  BY <1>3 DEF Serve
<1>7. GoodContext(ctx') /\ Extends(ctx, ctx')
  BY <1>2, <1>4, <1>5, <1>6, GetOrCreateGood DEF IInv
<1>8. PrimsListed(ctx')
  <2>1. Listed(t)
    BY <1>2 DEF Listed
  <2>2. QED
    BY <1>6, <2>1, CreatesOnly DEF CtxOK
<1>9. ctx'.id_ptr_table = Put(ctx.id_ptr_table, ctx.tp_counter, t)
  <2>1. ~ Registered(ctx, t)
    BY <1>2 DEF Registered, Nominal
  <2>2. QED
    BY <1>6, <2>1 DEF GetOrCreate, Create
<1>10. PICK d : d = ctx'
  OBVIOUS
<1>11. \A a \in IdsIn(d) \ IdsIn(ctx) : d.id_ptr_table[a] = t
  BY <1>9, <1>10 DEF Put, IdsIn
<1>12. Part(d, t)
  BY <1>2 DEF Part, DeclaredKinds
<1>13. CtxOK(d)
  BY <1>7, <1>8, <1>10, <1>11, <1>12, CtxKept
<1>14. QED
  BY <1>7, <1>10, <1>13 DEF Grown

\* What a variable or a function is of can be lowered.
LEMMA NamedLowers ==
    ASSUME CtxOK(ctx), NEW t \in Declarable \cup Functions
    PROVE  t \in Lowers(ctx)
<1>1. t \in IdsIn(ctx) /\ KindOf(ctx, t) \in Lowered
  BY DeclarableKnown DEF VarKinds, Functions, IsFunc, Ids, IdsIn, Lowered
<1>2. QED
  BY <1>1, LowersKnown

\* Every registration.
LEMMA RegisterKeeps == ASSUME CtxOK(ctx), RegisterType PROVE Grown(ctx, ctx')
<1>1. ASSUME NEW t, Candidate(ctx, t), Serve(ctx, t) PROVE Grown(ctx, ctx')
  <2>1. ctx' = GetOrCreate(ctx, t)
    BY <1>1 DEF Serve
  <2>2. QED
    BY <1>1, <2>1, Adding
<1>2. ASSUME NEW t \in Declarable \cup Functions, GetPointer(t) PROVE Grown(ctx, ctx')
  <2>1. 0 \in Nat /\ FALSE \in BOOLEAN /\ t \in Lowers(ctx)
    BY NamedLowers
  <2>2. QED
    BY <1>1, <1>2, <2>1, SubFits DEF GetPointer
<1>3. ASSUME NEW t \in Declarable, NEW len \in Lengths, GetArray(t, len) PROVE Grown(ctx, ctx')
  <2>1. len \in Nat /\ FALSE \in BOOLEAN /\ t \in Lowers(ctx)
    BY TypeTableAssumption, NamedLowers
  <2>2. QED
    BY <1>1, <1>3, <2>1, SubFits DEF GetArray
<1>4. ASSUME NEW t \in Declarable, GetFunc(<<>>, t, FALSE) PROVE Grown(ctx, ctx')
  <2>1. PICK ps : ps = <<>>
    OBVIOUS
  <2>2. ps \in Lists
    <3>1. ps \in [1 .. 0 -> Ids] /\ 0 \in 0 .. MaxArity
      BY <2>1, TypeTableAssumption
    <3>2. QED
      BY <3>1 DEF Lists
  <2>3. t \in Lowers(ctx)
    BY NamedLowers
  <2>4. PICK vary \in BOOLEAN : vary = FALSE
    OBVIOUS
  <2>5. GetFunc(ps, t, vary)
    BY <1>4, <2>1, <2>4
  <2>6. QED
    BY <1>1, <2>2, <2>3, <2>5, FuncFits DEF GetFunc
<1>5. QED
  BY <1>2, <1>3, <1>4, StructGrows DEF RegisterType

\* No declaration at first.
LEMMA InstInitInv == InstInit => InstInv
  BY InitCtx DEF InstInit, InstInv

\* The invariant is inductive.
LEMMA InstInvKept == InstInv /\ [InstNext]_<<ctx, decl>> => InstInv'
<1> SUFFICES ASSUME InstInv, [InstNext]_<<ctx, decl>> PROVE InstInv'
  OBVIOUS
<1>1. CtxOK(ctx)
  BY DEF InstInv
<1>2. CASE RegisterType
  <2>1. CtxOK(ctx')
    BY <1>1, <1>2, RegisterKeeps DEF Grown
  <2>2. decl = NoDecl /\ decl' = decl
    BY <1>2 DEF RegisterType
  <2>3. decl' = NoDecl
    BY <2>2
  <2>4. QED
    BY <2>1, <2>3 DEF InstInv, NoDecl
<1>3. CASE DeclareVariable
  BY <1>1, <1>3, DeclareKeeps
<1>4. CASE UNCHANGED <<ctx, decl>>
  BY <1>4 DEF InstInv
<1>5. CASE Done
  BY <1>4, <1>5 DEF Done
<1>6. QED
  BY <1>2, <1>3, <1>4, <1>5 DEF InstNext

\* The invariant of declarations: the context is canonical, and what VarDecl
\* has evaluated is built of its types, its constants and conversions.
THEOREM InstInvHolds == InstSpec => []InstInv
BY InstInitInv, InstInvKept, PTL DEF InstSpec

-----------------------------------------------------------------------------
(* What follows from it. *)

\* Such a context is of its type.
LEMMA ContextTyped == ASSUME CtxOK(ctx) PROVE TypeOK
  BY DEF CtxOK, GoodContext, WellTyped, TypeOK, Ids, IdsOf

\* The type invariant follows.
LEMMA KnownTypes == ASSUME InstInv PROVE InstancesOK
<1>1. CtxOK(ctx) /\ TypeOK /\ Ids = IdsIn(ctx)
  BY ContextTyped DEF InstInv, Ids, IdsIn
<1>2. CASE decl = NoDecl
  <2>1. decl.consts = {} /\ decl.convs = {} /\ decl.stores = {}
    BY <1>2 DEF NoDecl
  <2>2. QED
    BY <1>1, <1>2, <2>1 DEF InstancesOK
<1>3. CASE decl # NoDecl
  BY <1>1, <1>3 DEF InstInv, DeclFits, InstancesOK, ConstantIn, TypePair
<1>4. QED
  BY <1>2, <1>3

\* gen_literal has its constant.
LEMMA ConstantMade ==
    ASSUME CtxOK(ctx), NEW k, ConstantIn(ctx, k)
    PROVE  IsConstant(k)
<1>1. ConstantOf(ctx, k.kind, k.units, k.as) /\ k.as \in IdsIn(ctx)
  BY DEF ConstantIn
<1>2. k.kind = "string" => Length(ctx, k.as) = Len(k.units) + 1
  BY <1>1 DEF ConstantOf, Length
<1>3. QED
  BY <1>1, <1>2 DEF ConstantOf, IsConstant

\* The constants and the conversions of an initial value have code.
LEMMA ValuesGenerate == ASSUME InstInv PROVE InitGenerates
<1> SUFFICES ASSUME IsGenerated PROVE InitGenerates
  BY DEF InitGenerates
<1>1. CtxOK(ctx) /\ DeclFits(ctx, decl) /\ ~ decl.errs
  BY DEF InstInv, IsGenerated
<1>2. \A k \in decl.consts : IsConstant(k)
  BY <1>1, ConstantMade DEF DeclFits
<1>3. ASSUME NEW v \in decl.convs PROVE Gap(ctx, v[1], v[2]) \/ GenConvert(ctx, v[1], v[2]) = "value"
  <2>1. PICK a : a = v[1]
    OBVIOUS
  <2>2. PICK b : b = v[2]
    OBVIOUS
  <2>3. IsValue(ctx, a) /\ IsValue(ctx, b) /\ a # b /\ IsConvertable(ctx, a, b)
    BY <1>1, <1>3, <2>1, <2>2 DEF DeclFits, Converts
  <2>4. a \in Lowers(ctx) /\ b \in Lowers(ctx)
    BY <1>1, <2>3, ValueLowers
  <2>5. Accepted(ctx, "expect", a, b)
    BY <2>3 DEF Accepted
  <2>6. AcceptedGenerates
    BY <1>1, CtxIsGood, AcceptedHasCode
  <2>7. Gap(ctx, a, b) \/ GenConvert(ctx, a, b) = "value"
    BY <2>4, <2>5, <2>6 DEF AcceptedGenerates, Site
  <2>8. QED
    BY <2>1, <2>2, <2>7
<1>4. IsRef(ctx, decl.type) => decl.convs = {}
  BY <1>1 DEF DeclFits
<1>5. QED
  BY <1>2, <1>3, <1>4 DEF InitGenerates

\* gen_var_decl has something to allocate.
LEMMA TypesAllocate == ASSUME InstInv PROVE VarsAllocate
<1> SUFFICES ASSUME IsGenerated PROVE VarsAllocate
  BY DEF VarsAllocate
<1>1. DeclFits(ctx, decl) /\ ~ decl.errs
  BY DEF InstInv, IsGenerated
<1>2. QED
  BY <1>1 DEF DeclFits, VarsAllocate, IsVoidAuto, IsAllocated, VarKinds, IsVoid

\* gen_array_inst stays inside of the array.
LEMMA ElementsInside == ASSUME InstInv PROVE ElementsFit
<1> SUFFICES ASSUME IsGenerated, IsArray(ctx, Decay(ctx, decl.type)),
                    NEW i \in Written
             PROVE  i <= decl.length
  BY DEF ElementsFit
<1>1. CtxOK(ctx) /\ DeclFits(ctx, decl) /\ ~ decl.errs
  BY DEF InstInv, IsGenerated
<1>2. decl.given \in Nat /\ decl.given <= decl.length /\ decl.length = Length(ctx, decl.type)
      /\ decl.type \in IdsIn(ctx)
  BY <1>1 DEF DeclFits
<1>3. decl.length \in Nat
  BY <1>1, <1>2, LengthIsNat
<1>4. QED
  BY <1>2, <1>3 DEF Written

\* A double keeps 53 bits.
LEMMA DoubleHolds == ASSUME CtxOK(ctx) PROVE Holds(ctx, DoubleId) = 53
<1>1. PrimOf(ctx, DoubleId).kind = FloatKind /\ PrimOf(ctx, DoubleId).siz = 64
  BY LiteralTypes
<1>2. QED
  BY <1>1 DEF Holds, BoolKind, IntKind, CharKind, FloatKind

\* gen_literal makes a number of the type it is stored as.
LEMMA NumbersStored == ASSUME InstInv PROVE LiteralsKept
<1> SUFFICES ASSUME IsGenerated, NEW k \in decl.consts,
                    k.kind \in {"int", "neg", "double"}, IsPrim(ctx, k.into),
                    k.bits <= Holds(ctx, k.into)
             PROVE  k.bits <= Holds(ctx, k.as) \/ IsIntFirst(k) \/ IsRounded(k)
  BY DEF LiteralsKept
<1>1. CtxOK(ctx) /\ DeclFits(ctx, decl) /\ ~ decl.errs
  BY DEF InstInv, IsGenerated
<1>2. k.bits \in Nat /\ KeptAs(ctx, decl.declared, k)
  BY <1>1 DEF DeclFits, ConstantIn
<1>3. CASE k.kind = "neg"
  BY <1>3 DEF IsIntFirst
<1>4. CASE k.kind = "int"
  BY <1>2, <1>4 DEF KeptAs, KeptNow, IsIntFirst
<1>5. CASE k.kind = "double"
  <2>1. k.as = k.into \/ k.as = DoubleId
    BY <1>2, <1>5 DEF KeptAs, KeptNow
  <2>2. k.as = DoubleId => k.bits <= Holds(ctx, k.as) \/ IsRounded(k)
    BY <1>1, <1>2, <1>5, DoubleHolds DEF IsRounded
  <2>3. QED
    BY <2>1, <2>2
<1>6. QED
  BY <1>3, <1>4, <1>5

\* What the checker accepts as a local variable with an initial value,
\* gen_var_decl, gen_literal and gen_convert have an answer for: the gaps that
\* are named apart, for any types, literals and lists of primitives.
THEOREM DeclarationGeneratesHolds == InstSpec => []DeclarationGenerates
<1>1. InstInv => DeclarationGenerates
  BY KnownTypes, ValuesGenerate, TypesAllocate DEF DeclarationGenerates
<1>2. QED
  BY <1>1, InstInvHolds, PTL

\* No element of an array is stored behind it, and a number that its variable
\* can hold is stored as it was written, the gaps that are named apart.
THEOREM ValuesKeptHolds == InstSpec => []ValuesKept
<1>1. InstInv => ValuesKept
  BY ElementsInside, NumbersStored DEF ValuesKept
<1>2. QED
  BY <1>1, InstInvHolds, PTL
=============================================================================
