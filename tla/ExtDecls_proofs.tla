-------------------------- MODULE ExtDecls_proofs --------------------------
(***************************************************************************)
(* Proofs about declarations from the checker to the running program, for  *)
(* programs of any length: what the generator finds is what was declared,  *)
(* tables of implementations are filled, and global variables have their   *)
(* values when they are read.                                              *)
(*                                                                         *)
(* The invariant has a part for each phase.  The tables of the checker     *)
(* have an entry for every declaration in a program without an error, and  *)
(* what an expression uses was opened before it; what is generated is      *)
(* found under its own symbol; and what is still to run finds the          *)
(* variables it may read among those that have their values, or get them   *)
(* before.                                                                 *)
(***************************************************************************)
EXTENDS ExtDecls, SequenceLemmas, TLAPS

NB == Len(Builtins)
N  == Len(prog)

-----------------------------------------------------------------------------
(* The checker. *)

Fields == {"kind", "name", "type", "slots", "use", "path", "init_val"}

\* What a declaration is, in itself.
DeclShape(d) ==
    /\ DOMAIN d = Fields
    /\ d.kind \in Kinds
    /\ d.use.what \in Uses
    /\ IsSeq(d.path)
    /\ d.kind \in {"trait", "impl"} => IsSeq(d.slots)
    /\ d.kind = "var" => d.path = <<>>
    /\ d.kind = "struct" => d.path # <<>>
    /\ d.kind = "impl" /\ d.path = <<>> => d.type \in Types \ Inner

\* It is declared in functions that were there.
PathOK(k) ==
    \A i \in 1 .. Len(prog[k].path) : \E f \in 1 .. N :
        f = prog[k].path[i] /\ f < k /\ prog[f].kind = "fn"

ProgOK ==
    /\ IsSeq(prog) /\ NB <= N
    /\ \A k \in 1 .. N : \A d \in {prog[k]} : DeclShape(d)
    /\ \A k \in 1 .. N : PathOK(k)
    /\ \A k \in 1 .. NB :
        /\ prog[k].kind = "fn" /\ prog[k].name = Builtins[k]
        /\ prog[k].path = <<>> /\ prog[k].use = NoUse

\* The functions around, from the outermost one on.
ScopeOK ==
    /\ IsSeq(scope)
    /\ \A i \in 1 .. Len(scope) : scope[i] \in NB + 1 .. N /\ prog[scope[i]].kind = "fn"
    /\ \A i, j \in 1 .. Len(scope) : i < j => scope[i] < scope[j]
    /\ \A i \in 1 .. Len(scope) : \A v \in 1 .. N : prog[v].kind = "var" => v < scope[i]

\* The walk opens each declaration that generates something once, in order.
WalkOK ==
    /\ IsSeq(walk)
    /\ \A p \in 1 .. Len(walk) : \E k \in NB + 1 .. N : walk[p] = Opens(k) \/ walk[p] = Meets(k)
    /\ \A p, q \in 1 .. Len(walk) : \A j, k \in 1 .. N :
            p < q /\ walk[p] = Opens(j) /\ walk[q] = Opens(k) => j < k
    /\ \A k \in NB + 1 .. N : prog[k].kind # "struct" => \E p \in 1 .. Len(walk) : walk[p] = Opens(k)
    /\ \A k \in 1 .. N : prog[k].use # NoUse => \E p \in 1 .. Len(walk) : walk[p] = Meets(k)
    /\ \A i \in 1 .. Len(scope) : \A p \in 1 .. Len(walk) : walk[p] # Meets(scope[i])

\* What stands in the table for a key says what the key is.
IsKeyOf(key, k) ==
    \/ prog[k].kind \in {"fn", "var"} /\ key = <<prog[k].name>>
    \/ prog[k].kind = "method" /\ key = <<Text[prog[k].type], prog[k].name>>
    \/ prog[k].kind = "impl" /\ Len(key) = 3
    \/ prog[k].kind = "trait" /\ Len(key) = 4

IdsOK ==
    /\ \A e \in ids :
        /\ e.of \in 1 .. N
        /\ e.block = Innermost(prog[e.of].path)
        /\ IsKeyOf(e.key, e.of)
    /\ \A d, e \in ids : d.block = e.block /\ d.key = e.key => d = e

TraitsOK ==
    /\ \A i \in traits :
        /\ i.by \in 1 .. N /\ prog[i.by].kind = "impl" /\ prog[i.by].type = i.type
        /\ i.trait \in 1 .. N /\ prog[i.trait].kind = "trait"
        /\ Len(prog[i.by].slots) = Len(prog[i.trait].slots)
        /\ Range(prog[i.trait].slots) \subseteq Range(prog[i.by].slots)
    /\ \A i, j \in traits : i.by = j.by \/ (i.trait = j.trait /\ i.type = j.type) => i = j

\* In a program without an error every declaration has its entry.
Entered(k) ==
    /\ prog[k].kind \in {"fn", "var", "method"} =>
        \E e \in ids : e.of = k
    /\ prog[k].kind = "impl" => \E i \in traits : i.by = k
    /\ prog[k].kind = "trait" => ~ IsRepeated(prog[k].slots)

AllEntered == ~ errs => \A k \in 1 .. N : Entered(k) /\ ~ IsError(prog[k].use)

\* A use leads to what the checker found: a name to a function or variable
\* of the blocks around, a member function to one of a type that prints alike,
\* a conversion to the implementation.
NameFound(use, k) ==
    \E e \in ids :
        /\ e.key = use.key /\ e.of = use.of
        /\ e.block \in {0, k} \/ \E i \in 1 .. Len(prog[k].path) : prog[k].path[i] = e.block

MethodFound(use) == prog[use.of].kind = "method" /\ prog[use.of].name = use.key[2]

TraitFound(use) ==
    \E i \in traits : i.by = use.of /\ i.type = use.type /\ use.key = <<i.trait, Text[i.type]>>

UseShape(use) ==
    /\ use.what = "none" => use = NoUse
    /\ use.what = "name" => use.key = <<use.key[1]>>
    /\ use.what = "method" => use.key = <<Text[use.type], use.key[2]>>

IsUse(use, k) ==
    /\ use.of \in 0 .. N
    /\ prog[k].kind = "var" => use.of < k
    /\ use.what = "name" /\ use.of # 0 => NameFound(use, k)
    /\ use.what = "method" /\ use.of # 0 => MethodFound(use)
    /\ use.what = "trait" /\ use.of # 0 => TraitFound(use)

UsesOK == \A k \in 1 .. N : \A use \in {prog[k].use} : UseShape(use) /\ IsUse(use, k)

\* What is used was opened before, and the variables up to there too.
IsOpen(k, p) == k \in 1 .. NB \/ \E q \in 1 .. p - 1 : walk[q] = Opens(k)

Precedes(t, k) ==
    \A v \in 1 .. N : prog[v].kind = "var" => (v < t => v < k) /\ (v = t => v <= k)

OrderOK ==
    \A p \in 1 .. Len(walk) : \A k \in 1 .. N : walk[p] = Meets(k) =>
        \A t \in 1 .. N :
            /\ prog[k].use.of = t => IsOpen(t, p)
            /\ IsOpen(t, p) => Precedes(t, k)

DeclInv ==
    /\ ProgOK /\ ScopeOK /\ WalkOK /\ IdsOK /\ TraitsOK
    /\ AllEntered /\ UsesOK /\ OrderOK

-----------------------------------------------------------------------------
(* The generator. *)

Untouched ==
    /\ module = [s \in {<<Builtins[i]>> : i \in 1 .. NB} |->
                    CHOOSE i \in 1 .. NB : <<Builtins[i]>> = s]
    /\ tables = <<>> /\ inits = <<>> /\ main_fn = 0 /\ ~ failed

\* What is generated already.
Done(k) == k \in 1 .. NB \/ \E q \in 1 .. Len(walk) : q <= at /\ walk[q] = Opens(k)

HasSymbol(k) == IsGenerated(k) /\ prog[k].kind \in {"fn", "var", "method"}

SymbolOf(k) == IF prog[k].kind = "method" THEN MethodSymbol(prog[k].type, prog[k].name) ELSE Symbol(k)

ModuleOK ==
    /\ \A s \in DOMAIN module : \E k \in 1 .. N :
        module[s] = k /\ Done(k) /\ HasSymbol(k) /\ s = SymbolOf(k)
    /\ \A k \in 1 .. N : Done(k) /\ HasSymbol(k) =>
        SymbolOf(k) \in DOMAIN module /\ module[SymbolOf(k)] = k

IsTable(k) == prog[k].kind = "impl" /\ prog[k].path = <<>>

TablesOK ==
    /\ \A key \in DOMAIN tables : \E k \in 1 .. N :
        /\ tables[key].by = k /\ tables[key].funs = Table(k)
        /\ Done(k) /\ IsTable(k) /\ key = Key(k)
    /\ \A k \in 1 .. N : Done(k) /\ IsTable(k) =>
        Key(k) \in DOMAIN tables /\ tables[Key(k)].by = k

\* A global variable with an initial value.
HasValue(v) == prog[v].kind = "var" /\ prog[v].init_val

InitsOK ==
    /\ IsSeq(inits)
    /\ \A i \in 1 .. Len(inits) : \E k \in 1 .. N : inits[i] = k /\ Done(k) /\ IsGenerated(k)
    /\ \A i, j \in 1 .. Len(inits) : i < j => inits[i] < inits[j]
    /\ \A v \in 1 .. N : Done(v) /\ HasValue(v) => \E i \in 1 .. Len(inits) : inits[i] = v

MainOK ==
    /\ main_fn \in 0 .. N
    /\ main_fn # 0 => \E k \in 1 .. N :
        main_fn = k /\ prog[k].kind = "fn" /\ prog[k].name = "main" /\ Done(k)

\* What a use leads to was there when it was generated, and stays.
IsTarget(t, k, p) ==
    /\ IsOpen(t, p) /\ IsGenerated(t)
    /\ prog[k].kind = "var" => t # k
    /\ prog[k].use.what = "name" => prog[k].use.key = <<prog[t].name>>
    /\ prog[k].use.what = "method" => prog[t].kind = "method"

TargetsOK ==
    ~ failed =>
        \A p \in 1 .. Len(walk) : p <= at => \A k \in 1 .. N :
            walk[p] = Meets(k) /\ IsGenerated(k) /\ prog[k].use.what \in {"name", "method"}
                => \E t \in 1 .. N : t = Target(k) /\ IsTarget(t, k, p)

GenFacts ==
    /\ ~ errs /\ scope = <<>> /\ failed \in BOOLEAN
    /\ ModuleOK /\ TablesOK /\ InitsOK /\ MainOK /\ TargetsOK

GenInv ==
    /\ at \in 0 .. Len(walk) + 1
    /\ IF at = 0 THEN Untouched ELSE GenFacts

-----------------------------------------------------------------------------
(* The running program. *)

WorkKinds == {"enter", "init", "store", "use"}

WorkOK ==
    /\ IsSeq(work)
    /\ \A i \in 1 .. Len(work) : \E w \in WorkKinds : \E k \in 1 .. N :
        /\ work[i] = <<w, k>> /\ IsGenerated(k)
        /\ w \in {"init", "store"} => k \in Range(inits)

NotBegun == at <= Len(walk) \/ failed => work = <<>> /\ ready = {} /\ early = {}

\* The values that are stored before the i-th thing is done.
Stored(i) == {k \in 1 .. N : \E j \in 1 .. i - 1 : work[j] = Inits(k) \/ work[j] = Stores(k)}

\* What was read too early has no initial value.
NoneEarly == \A v \in early : ~ prog[v].init_val

ReadsOK ==
    ~ NestedMain =>
        /\ NoneEarly
        /\ \A i \in 1 .. Len(work) : \A x \in 1 .. N :
            work[i] \in {Inits(x), Meets(x), Enters(x)} /\ work[i] # Enters(main_fn) =>
                \A v \in 1 .. N : HasValue(v) /\ v < x => v \in ready \cup Stored(i)

OnceOK ==
    ~ MainUsed =>
        /\ \A i \in 1 .. Len(work) : work[i] = Enters(main_fn) => Len(work) = 1 /\ ready = {}
        /\ \A k \in 1 .. N : \A i, j \in 1 .. Len(work) :
            work[i] \in {Inits(k), Stores(k)} =>
                /\ k \notin ready
                /\ work[j] \in {Inits(k), Stores(k)} => i = j

RunInv == NotBegun /\ WorkOK /\ ReadsOK /\ OnceOK

IInv == DeclInv /\ GenInv /\ RunInv

-----------------------------------------------------------------------------
(* Sequences. *)

\* Two elements behind a sequence are appended one after the other.
LEMMA ConcatTwo ==
    ASSUME NEW S, NEW s \in Seq(S), NEW a \in S, NEW b \in S
    PROVE  s \o <<a, b>> = Append(Append(s, a), b)
<1>1. <<a, b>> = Append(<<a>>, b)
    OBVIOUS
<1>2. s \o <<a, b>> = Append(s \o <<a>>, b)
    OBVIOUS
<1>3. s \o <<a>> = Append(s, a)
    OBVIOUS
<1>4. QED  BY <1>2, <1>3

-----------------------------------------------------------------------------
(* A declaration is made. *)

\* Sequences of the model and their lengths.
LEMMA Sizes ==
    ASSUME ProgOK, ScopeOK, WalkOK
    PROVE  /\ N \in Nat /\ DOMAIN prog = 1 .. N /\ New = N + 1 /\ NB \in Nat
           /\ Len(scope) \in Nat /\ (scope = <<>> <=> Len(scope) = 0)
           /\ Len(walk) \in Nat
<1>1. NB \in Nat
    BY ExtAssumption, LenProperties DEF NB, ExtAssumption
<1>2. N \in Nat /\ DOMAIN prog = 1 .. N
    BY SeqShape DEF ProgOK, N
<1>3. Len(scope) \in Nat /\ (scope = <<>> <=> Len(scope) = 0)
    BY SeqShape DEF ScopeOK
<1>4. Len(walk) \in Nat
    BY SeqShape DEF WalkOK
<1>5. QED  BY <1>1, <1>2, <1>3, <1>4 DEF New, N

\* How the walk goes on with a declaration: it is opened, and met if it is
\* done at once.
WalkGoesOn(d) ==
    \/ d.kind = "struct" /\ d.use = NoUse /\ walk' = walk
    \/ d.kind # "struct" /\ d.use = NoUse /\ walk' = Append(walk, Opens(New))
    \/ d.kind \in {"var", "method"} /\ walk' = walk \o <<Opens(New), Meets(New)>>

\* A step that declares d, with entries for keys.
Adds(d, keys) ==
    /\ DeclShape(d) /\ d.path = scope
    /\ prog' = Append(prog, d)
    /\ ids' = ids \cup Ids(keys, New)
    /\ WalkGoesOn(d)
    /\ scope' = IF d.kind = "fn" THEN Append(scope, New) ELSE scope

\* The declarations stay, and d is the last.
LEMMA AddsOne ==
    ASSUME ProgOK, ScopeOK, WalkOK, NEW d, NEW keys, Adds(d, keys)
    PROVE  /\ IsSeq(prog') /\ N' = N + 1 /\ New = N + 1
           /\ \A k \in 1 .. N : prog'[k] = prog[k]
           /\ prog'[N + 1] = d
<1>1. IsSeq(prog) /\ prog' = Append(prog, d)
    BY DEF ProgOK, Adds
<1>2. QED  BY <1>1, AppendShape DEF N, New

\* The walk goes on behind what it was.
LEMMA WalkGrows ==
    ASSUME ProgOK, ScopeOK, WalkOK, NEW d, NEW keys, Adds(d, keys),
           NEW m, m = Len(walk)
    PROVE  /\ m \in Nat /\ IsSeq(walk') /\ Len(walk') \in {m, m + 1, m + 2}
           /\ \A p \in 1 .. m : walk'[p] = walk[p]
           /\ Len(walk') > m => walk'[m + 1] = Opens(N + 1)
           /\ Len(walk') > m + 1 => walk'[m + 2] = Meets(N + 1) /\ d.kind \in {"var", "method"}
           /\ d.kind # "struct" => Len(walk') > m
           /\ d.use # NoUse => Len(walk') > m + 1
<1>1. IsSeq(walk) /\ m \in Nat /\ New = N + 1
    BY Sizes DEF WalkOK
<1>2. CASE d.kind = "struct" /\ d.use = NoUse /\ walk' = walk
    BY <1>1, <1>2
<1>3. CASE d.kind # "struct" /\ d.use = NoUse /\ walk' = Append(walk, Opens(New))
    BY <1>1, <1>3, AppendShape
<1>4. CASE d.kind \in {"var", "method"} /\ walk' = walk \o <<Opens(New), Meets(New)>>
  <2>1. PICK w : w = Append(walk, Opens(New))
    OBVIOUS
  <2>2. IsSeq(w) /\ Len(w) = m + 1 /\ w[m + 1] = Opens(New) /\ \A p \in 1 .. m : w[p] = walk[p]
    BY <1>1, <2>1, AppendShape
  <2>3. walk' = Append(w, Meets(New))
    <3>1. PICK S : S = Range(walk) \cup {Opens(New), Meets(New)}
      OBVIOUS
    <3>2. walk \in Seq(S) /\ Opens(New) \in S /\ Meets(New) \in S
      BY <1>1, <3>1, SeqMonotonic DEF IsSeq
    <3>3. walk \o <<Opens(New), Meets(New)>> = Append(Append(walk, Opens(New)), Meets(New))
      BY <3>2, ConcatTwo
    <3>4. QED  BY <1>4, <2>1, <3>3
  <2>4. /\ IsSeq(walk') /\ Len(walk') = m + 2 /\ walk'[m + 2] = Meets(New)
        /\ \A p \in 1 .. m + 1 : walk'[p] = w[p]
    BY <1>1, <2>2, <2>3, AppendShape
  <2>5. QED  BY <1>1, <1>4, <2>2, <2>4
<1>5. QED  BY <1>2, <1>3, <1>4 DEF Adds, WalkGoesOn

-----------------------------------------------------------------------------
(* The parts of the invariant, when a declaration is made. *)

\* The old declarations keep their shape, and the new one lies in scope.
LEMMA AddsProg ==
    ASSUME ProgOK, ScopeOK, WalkOK, NEW d, NEW keys, Adds(d, keys)
    PROVE  ProgOK'
<1>1. /\ IsSeq(prog') /\ N' = N + 1 /\ New = N + 1
      /\ \A k \in 1 .. N : prog'[k] = prog[k]
      /\ prog'[N + 1] = d
    BY AddsOne
<1>2. N \in Nat /\ NB \in Nat /\ NB <= N /\ NB' = NB /\ Len(scope) \in Nat
    BY Sizes DEF ProgOK, NB
<1>3. \A k \in 1 .. N' : k \in 1 .. N \/ k = N + 1
    BY <1>1, <1>2
<1>4. \A k \in 1 .. N' : DeclShape(prog'[k])
  <2>1. \A k \in 1 .. N : DeclShape(prog[k])
    BY DEF ProgOK
  <2>2. DeclShape(d)
    BY DEF Adds
  <2>3. TAKE k \in 1 .. N'
  <2>4. CASE k \in 1 .. N
    <3>1. prog'[k] = prog[k]
      BY <1>1, <2>4
    <3>2. QED  BY <2>1, <2>4, <3>1
  <2>5. CASE k = N + 1
    BY <1>1, <2>2, <2>5
  <2>6. QED  BY <1>3, <2>4, <2>5
<1>5. ASSUME NEW k \in 1 .. N'
      PROVE  PathOK(k)'
  <2>1. CASE k \in 1 .. N
    <3>1. PathOK(k) /\ prog'[k] = prog[k]
      BY <1>1, <2>1 DEF ProgOK
    <3>2. QED  BY <1>1, <1>2, <3>1 DEF PathOK
  <2>2. CASE k = N + 1
    <3>1. prog'[k].path = scope
      BY <1>1, <2>2 DEF Adds
    <3>2. ASSUME NEW i \in 1 .. Len(scope)
          PROVE  scope[i] \in 1 .. N /\ prog'[scope[i]].kind = "fn" /\ scope[i] < k
      <4>1. scope[i] \in NB + 1 .. N /\ prog[scope[i]].kind = "fn"
        BY DEF ScopeOK
      <4>2. QED  BY <1>1, <1>2, <2>2, <4>1
    <3>3. QED  BY <1>1, <1>2, <3>1, <3>2 DEF PathOK
  <2>3. QED  BY <1>3, <2>1, <2>2
<1>6. \A k \in 1 .. NB : k \in 1 .. N /\ prog'[k] = prog[k]
    BY <1>1, <1>2
<1>7. QED  BY <1>1, <1>2, <1>4, <1>5, <1>6 DEF ProgOK

\* The functions around stay, or are one more.
LEMMA AddsScope ==
    ASSUME ProgOK, ScopeOK, WalkOK, NEW d, NEW keys, Adds(d, keys)
    PROVE  ScopeOK'
<1>1. /\ N' = N + 1 /\ New = N + 1
      /\ \A k \in 1 .. N : prog'[k] = prog[k]
      /\ prog'[N + 1] = d
    BY AddsOne
<1>2. PICK m : m = Len(scope)
    OBVIOUS
<1>3. /\ N \in Nat /\ NB \in Nat /\ NB <= N /\ NB' = NB /\ m \in Nat /\ IsSeq(scope)
      /\ scope = <<>> <=> m = 0
    BY <1>2, Sizes DEF ProgOK, NB, ScopeOK
<1>4. \A i \in 1 .. m :
        /\ scope[i] \in NB + 1 .. N /\ prog[scope[i]].kind = "fn"
        /\ \A v \in 1 .. N : prog[v].kind = "var" => v < scope[i]
        /\ \A j \in 1 .. m : i < j => scope[i] < scope[j]
    BY <1>2 DEF ScopeOK
<1>5. CASE d.kind # "fn"
  <2>1. scope' = scope /\ (d.kind = "var" => m = 0)
    BY <1>3, <1>5 DEF Adds, DeclShape
  <2>2. ASSUME NEW i \in 1 .. m
        PROVE  /\ scope[i] \in NB + 1 .. N' /\ prog'[scope[i]].kind = "fn"
               /\ \A v \in 1 .. N' : prog'[v].kind = "var" => v < scope[i]
    <3>1. scope[i] \in NB + 1 .. N /\ scope[i] \in 1 .. N /\ prog[scope[i]].kind = "fn"
      BY <1>3, <1>4
    <3>2. d.kind # "var"
      BY <1>3, <2>1
    <3>3. \A v \in 1 .. N' : v \in 1 .. N \/ v = N + 1
      BY <1>1, <1>3
    <3>4. scope[i] \in NB + 1 .. N' /\ prog'[scope[i]].kind = "fn"
      BY <1>1, <1>3, <3>1
    <3>5. ASSUME NEW v \in 1 .. N', prog'[v].kind = "var"
          PROVE  v < scope[i]
      <4>1. v \in 1 .. N
        BY <1>1, <3>2, <3>3, <3>5
      <4>2. QED  BY <1>1, <1>4, <3>5, <4>1
    <3>6. QED  BY <3>4, <3>5
  <2>3. QED  BY <1>2, <1>3, <1>4, <2>1, <2>2 DEF ScopeOK
<1>6. CASE d.kind = "fn"
  <2>1. PICK s : s = scope'
    OBVIOUS
  <2>2. s = Append(scope, N + 1)
    BY <1>1, <1>6, <2>1 DEF Adds
  <2>3. /\ IsSeq(s) /\ Len(s) = m + 1 /\ s[m + 1] = N + 1
        /\ \A i \in 1 .. m : s[i] = scope[i]
    BY <1>2, <1>3, <2>2, AppendShape
  <2>4. \A i \in 1 .. m + 1 : i \in 1 .. m \/ i = m + 1
    BY <1>3
  <2>5. \A v \in 1 .. N' : prog'[v].kind = "var" => v \in 1 .. N /\ prog[v].kind = "var"
    <3>1. \A v \in 1 .. N' : v \in 1 .. N \/ v = N + 1
      BY <1>1, <1>3
    <3>2. QED  BY <1>1, <1>6, <3>1
  <2>6. ASSUME NEW i \in 1 .. m + 1
        PROVE  /\ s[i] \in NB + 1 .. N' /\ prog'[s[i]].kind = "fn"
               /\ \A v \in 1 .. N' : prog'[v].kind = "var" => v < s[i]
               /\ \A j \in 1 .. m + 1 : i < j => s[i] < s[j]
    <3>1. CASE i \in 1 .. m
      <4>1. /\ s[i] \in NB + 1 .. N /\ s[i] \in 1 .. N /\ prog[s[i]].kind = "fn"
            /\ \A v \in 1 .. N : prog[v].kind = "var" => v < s[i]
        BY <1>3, <1>4, <2>3, <3>1
      <4>2. \A j \in 1 .. m + 1 : i < j => s[i] < s[j]
        BY <1>3, <1>4, <2>3, <2>4, <3>1, <4>1
      <4>3. QED  BY <1>1, <1>3, <2>5, <4>1, <4>2
    <3>2. CASE i = m + 1
      BY <1>1, <1>3, <1>6, <2>3, <2>5, <3>2
    <3>3. QED  BY <2>4, <3>1, <3>2
  <2>7. QED  BY <2>1, <2>3, <2>6 DEF ScopeOK
<1>7. QED  BY <1>5, <1>6

\* The walk opens the new declaration last.
LEMMA AddsWalk ==
    ASSUME ProgOK, ScopeOK, WalkOK, NEW d, NEW keys, Adds(d, keys)
    PROVE  WalkOK'
<1>1. /\ N' = N + 1 /\ New = N + 1
      /\ \A k \in 1 .. N : prog'[k] = prog[k]
      /\ prog'[N + 1] = d
    BY AddsOne
<1>2. PICK m, r : m = Len(walk) /\ r = Len(walk')
    OBVIOUS
<1>3. /\ N \in Nat /\ NB \in Nat /\ NB <= N /\ NB' = NB
    BY Sizes DEF ProgOK, NB
<1>4. /\ m \in Nat /\ IsSeq(walk') /\ r \in {m, m + 1, m + 2}
      /\ \A p \in 1 .. m : walk'[p] = walk[p]
      /\ r > m => walk'[m + 1] = Opens(N + 1)
      /\ r > m + 1 => walk'[m + 2] = Meets(N + 1) /\ d.kind \in {"var", "method"}
      /\ d.kind # "struct" => r > m
      /\ d.use # NoUse => r > m + 1
    BY <1>2, WalkGrows
<1>5. \A p \in 1 .. r :
        \/ p \in 1 .. m
        \/ p = m + 1 /\ r > m
        \/ p = m + 2 /\ r > m + 1
    BY <1>4
<1>6. \A p \in 1 .. m : p \in 1 .. r
    BY <1>4
<1>7. \A p \in 1 .. m : \E k \in NB + 1 .. N : walk[p] = Opens(k) \/ walk[p] = Meets(k)
    BY <1>2 DEF WalkOK
<1>8. \A p \in 1 .. r : \E k \in NB + 1 .. N' : walk'[p] = Opens(k) \/ walk'[p] = Meets(k)
    BY <1>1, <1>3, <1>4, <1>5, <1>7
<1>9. \A p \in 1 .. m : \A k : walk[p] = Opens(k) \/ walk[p] = Meets(k) => k \in NB + 1 .. N
    BY <1>7 DEF Opens, Meets
<1>10. ASSUME NEW p \in 1 .. r, NEW q \in 1 .. r, NEW j \in 1 .. N', NEW k \in 1 .. N',
              p < q, walk'[p] = Opens(j), walk'[q] = Opens(k)
       PROVE  j < k
  <2>1. q # m + 2 \/ r <= m + 1
    BY <1>4, <1>10 DEF Opens, Meets
  <2>2. CASE q \in 1 .. m
    <3>1. p \in 1 .. m
      BY <1>4, <1>10, <2>2
    <3>2. walk[p] = Opens(j) /\ walk[q] = Opens(k)
      BY <1>4, <1>10, <2>2, <3>1
    <3>3. j \in 1 .. N /\ k \in 1 .. N
      BY <1>3, <1>9, <2>2, <3>1, <3>2
    <3>4. QED  BY <1>2, <1>10, <2>2, <3>1, <3>2, <3>3 DEF WalkOK
  <2>3. CASE q = m + 1 /\ r > m
    <3>1. k = N + 1
      BY <1>4, <1>10, <2>3 DEF Opens
    <3>2. p \in 1 .. m
      BY <1>4, <1>10, <2>3
    <3>3. j \in NB + 1 .. N
      BY <1>4, <1>9, <1>10, <3>2
    <3>4. QED  BY <1>3, <3>1, <3>3
  <2>4. QED  BY <1>4, <1>5, <2>1, <2>2, <2>3
<1>11. ASSUME NEW k \in NB + 1 .. N', prog'[k].kind # "struct"
       PROVE  \E p \in 1 .. r : walk'[p] = Opens(k)
  <2>1. CASE k \in NB + 1 .. N
    <3>1. k \in 1 .. N
      BY <1>3, <2>1
    <3>2. PICK p \in 1 .. m : walk[p] = Opens(k)
      BY <1>1, <1>2, <1>11, <2>1, <3>1 DEF WalkOK
    <3>3. QED  BY <1>4, <1>6, <3>2
  <2>2. CASE k = N + 1
    BY <1>1, <1>4, <1>11, <2>2
  <2>3. QED  BY <1>1, <1>3, <2>1, <2>2
<1>12. ASSUME NEW k \in 1 .. N', prog'[k].use # NoUse
       PROVE  \E p \in 1 .. r : walk'[p] = Meets(k)
  <2>1. CASE k \in 1 .. N
    <3>1. PICK p \in 1 .. m : walk[p] = Meets(k)
      BY <1>1, <1>2, <1>12, <2>1 DEF WalkOK
    <3>2. QED  BY <1>4, <1>6, <3>1
  <2>2. CASE k = N + 1
    BY <1>1, <1>4, <1>12, <2>2
  <2>3. QED  BY <1>1, <1>3, <2>1, <2>2
<1>13. ASSUME NEW i \in 1 .. Len(scope'), NEW p \in 1 .. r
       PROVE  walk'[p] # Meets(scope'[i])
  <2>1. ScopeOK' /\ IsSeq(scope)
    BY AddsScope DEF ScopeOK
  <2>2. PICK n, k : n = Len(scope) /\ k = scope'[i]
    OBVIOUS
  <2>3. n \in Nat /\ k \in NB + 1 .. N' /\ prog'[k].kind = "fn"
    BY <1>3, <2>1, <2>2, SeqShape DEF ScopeOK
  <2>4. \/ i \in 1 .. n /\ k = scope[i]
        \/ k = N + 1
    <3>1. scope' = scope \/ scope' = Append(scope, New)
      BY DEF Adds
    <3>2. CASE scope' = scope
      BY <2>2, <3>2
    <3>3. CASE scope' = Append(scope, New)
      <4>1. Len(scope') = n + 1 /\ scope'[n + 1] = New /\ \A x \in 1 .. n : scope'[x] = scope[x]
        BY <2>1, <2>2, <3>3, AppendShape
      <4>2. i \in 1 .. n \/ i = n + 1
        BY <2>3, <4>1
      <4>3. QED  BY <1>1, <2>2, <4>1, <4>2
    <3>4. QED  BY <3>1, <3>2, <3>3
  <2>5. SUFFICES ASSUME walk'[p] = Meets(k) PROVE FALSE
    BY <2>2
  <2>6. CASE p \in 1 .. m
    <3>1. walk[p] = Meets(k) /\ k \in NB + 1 .. N
      BY <1>4, <1>9, <2>5, <2>6
    <3>2. i \in 1 .. n /\ k = scope[i]
      BY <1>3, <2>4, <3>1
    <3>3. QED  BY <1>2, <2>2, <2>6, <3>1, <3>2 DEF WalkOK
  <2>7. CASE p = m + 1 /\ r > m
    BY <1>4, <2>5, <2>7 DEF Opens, Meets
  <2>8. CASE p = m + 2 /\ r > m + 1
    <3>1. k = N + 1
      BY <1>4, <2>5, <2>8 DEF Meets
    <3>2. QED  BY <1>1, <1>4, <2>3, <2>8, <3>1
  <2>9. QED  BY <1>5, <2>6, <2>7, <2>8
<1>14. QED  BY <1>2, <1>4, <1>8, <1>10, <1>11, <1>12, <1>13 DEF WalkOK

\* What the entries of the new declaration are.
LEMMA IdsMade ==
    ASSUME NEW keys, NEW of, NEW e
    PROVE  e \in Ids(keys, of) <=>
               /\ e.key \in keys /\ ~ Taken(e.key)
               /\ e = [block |-> Innermost(scope), key |-> e.key, of |-> of]
    BY DEF Ids

\* Keys of a declaration are all of its kind.
KeysOf(d, keys) ==
    \A key \in keys :
        \/ d.kind \in {"fn", "var"} /\ key = <<d.name>>
        \/ d.kind = "method" /\ key = <<Text[d.type], d.name>>
        \/ d.kind = "impl" /\ Len(key) = 3
        \/ d.kind = "trait" /\ Len(key) = 4

\* The tables say what their entries are, and have one for a key.
LEMMA AddsIds ==
    ASSUME ProgOK, ScopeOK, WalkOK, IdsOK, NEW d, NEW keys, Adds(d, keys), KeysOf(d, keys)
    PROVE  IdsOK'
<1>1. /\ N' = N + 1 /\ New = N + 1
      /\ \A k \in 1 .. N : prog'[k] = prog[k]
      /\ prog'[N + 1] = d
    BY AddsOne
<1>2. N \in Nat
    BY Sizes
<1>3. \A e \in ids' : \/ e \in ids
                      \/ /\ e.key \in keys /\ ~ Taken(e.key)
                         /\ e.block = Innermost(scope) /\ e.of = N + 1
                         /\ e = [block |-> Innermost(scope), key |-> e.key, of |-> N + 1]
  <2>1. ids' = ids \cup Ids(keys, New)
    BY DEF Adds
  <2>2. TAKE e \in ids'
  <2>3. CASE e \in Ids(keys, New)
    BY <1>1, <2>3, IdsMade
  <2>4. QED  BY <2>1, <2>3
<1>4. ASSUME NEW e \in ids'
      PROVE  /\ e.of \in 1 .. N'
             /\ e.block = Innermost(prog'[e.of].path)
             /\ IsKeyOf(e.key, e.of)'
  <2>1. CASE e \in ids
    <3>1. e.of \in 1 .. N /\ e.block = Innermost(prog[e.of].path) /\ IsKeyOf(e.key, e.of)
      BY <2>1 DEF IdsOK
    <3>2. prog'[e.of] = prog[e.of]
      BY <1>1, <3>1
    <3>3. QED  BY <1>1, <1>2, <3>1, <3>2 DEF IsKeyOf
  <2>2. CASE e \notin ids
    <3>1. e.key \in keys /\ e.block = Innermost(scope) /\ e.of = N + 1
      BY <1>3, <2>2
    <3>2. prog'[e.of] = d /\ d.path = scope
      BY <1>1, <3>1 DEF Adds
    <3>3. QED  BY <1>1, <1>2, <3>1, <3>2 DEF IsKeyOf, KeysOf
  <2>3. QED  BY <2>1, <2>2
<1>5. ASSUME NEW b \in ids', NEW e \in ids', b.block = e.block, b.key = e.key
      PROVE  b = e
  <2>1. CASE b \in ids /\ e \in ids
    BY <1>5, <2>1 DEF IdsOK
  <2>2. CASE b \notin ids /\ e \notin ids
    BY <1>3, <1>5, <2>2
  <2>3. CASE b \in ids /\ e \notin ids
    <3>1. ~ Taken(e.key) /\ e.block = Innermost(scope)
      BY <1>3, <2>3
    <3>2. QED  BY <1>5, <2>3, <3>1 DEF Taken
  <2>4. CASE b \notin ids /\ e \in ids
    <3>1. ~ Taken(b.key) /\ b.block = Innermost(scope)
      BY <1>3, <2>4
    <3>2. QED  BY <1>5, <2>4, <3>1 DEF Taken
  <2>5. QED  BY <2>1, <2>2, <2>3, <2>4
<1>6. QED  BY <1>4, <1>5 DEF IdsOK

\* Implementations stay what they are.
LEMMA AddsTraits ==
    ASSUME ProgOK, ScopeOK, WalkOK, TraitsOK, NEW d, NEW keys, Adds(d, keys), traits' = traits
    PROVE  TraitsOK'
<1>1. /\ N' = N + 1 /\ N \in Nat
      /\ \A k \in 1 .. N : prog'[k] = prog[k]
    BY AddsOne, Sizes
<1>2. ASSUME NEW i \in traits
      PROVE  /\ i.by \in 1 .. N' /\ prog'[i.by].kind = "impl" /\ prog'[i.by].type = i.type
             /\ i.trait \in 1 .. N' /\ prog'[i.trait].kind = "trait"
             /\ Len(prog'[i.by].slots) = Len(prog'[i.trait].slots)
             /\ Range(prog'[i.trait].slots) \subseteq Range(prog'[i.by].slots)
  <2>1. i.by \in 1 .. N /\ i.trait \in 1 .. N
    BY DEF TraitsOK
  <2>2. prog'[i.by] = prog[i.by] /\ prog'[i.trait] = prog[i.trait]
    BY <1>1, <2>1
  <2>3. QED  BY <1>1, <2>1, <2>2 DEF TraitsOK
<1>3. QED  BY <1>2 DEF TraitsOK

\* The uses of old declarations lead where they led.
LEMMA AddsUses ==
    ASSUME ProgOK, ScopeOK, WalkOK, UsesOK, NEW d, NEW keys, Adds(d, keys),
           traits \subseteq traits', UseShape(d.use), NEW n, n = N + 1, IsUse(d.use, n)'
    PROVE  UsesOK'
<1>1. /\ N' = N + 1 /\ N \in Nat
      /\ \A k \in 1 .. N : prog'[k] = prog[k]
      /\ prog'[N + 1] = d
    BY AddsOne, Sizes
<1>2. ids \subseteq ids'
    BY DEF Adds
<1>3. ASSUME NEW k \in 1 .. N, NEW use, use = prog[k].use
      PROVE  UseShape(use) /\ IsUse(use, k)'
  <2>1. UseShape(use) /\ IsUse(use, k)
    BY <1>3 DEF UsesOK
  <2>2. prog'[k] = prog[k] /\ (use.of \in 1 .. N => prog'[use.of] = prog[use.of])
    BY <1>1
  <2>3. NameFound(use, k) => NameFound(use, k)'
    BY <1>2, <2>2 DEF NameFound
  <2>4. TraitFound(use) => TraitFound(use)'
    BY DEF TraitFound
  <2>5. use.of \in 1 .. N /\ MethodFound(use) => MethodFound(use)'
    BY <2>2 DEF MethodFound
  <2>6. use.of \in 0 .. N /\ use.of \in 0 .. N' /\ (use.of # 0 => use.of \in 1 .. N)
    BY <1>1, <2>1 DEF IsUse
  <2>7. QED  BY <2>1, <2>2, <2>3, <2>4, <2>5, <2>6 DEF IsUse
<1>4. \A k \in 1 .. N' : k \in 1 .. N \/ k = N + 1
    BY <1>1
<1>5. ASSUME NEW k \in 1 .. N', NEW use, use = prog'[k].use
      PROVE  UseShape(use) /\ IsUse(use, k)'
  <2>1. CASE k \in 1 .. N
    BY <1>1, <1>3, <1>5, <2>1
  <2>2. CASE k = N + 1
    <3>1. use = d.use
      BY <1>1, <1>5, <2>2
    <3>2. QED  BY <2>2, <3>1
  <2>3. QED  BY <1>4, <2>1, <2>2
<1>6. QED  BY <1>5 DEF UsesOK

\* What is used was opened before.
LEMMA AddsOrder ==
    ASSUME ProgOK, ScopeOK, WalkOK, UsesOK, OrderOK, NEW d, NEW keys, Adds(d, keys),
           d.use.of \in 0 .. N + 1,
           d.use.of # 0 => d.use.of = N + 1 \/ prog[d.use.of].kind # "struct"
    PROVE  OrderOK'
<1>1. /\ N' = N + 1 /\ N \in Nat /\ NB \in Nat /\ NB <= N
      /\ \A k \in 1 .. N : prog'[k] = prog[k]
      /\ prog'[N + 1] = d
    BY AddsOne, Sizes DEF ProgOK
<1>2. PICK m, r, n : m = Len(walk) /\ r = Len(walk') /\ n = N + 1
    OBVIOUS
<1>3. /\ m \in Nat /\ r \in {m, m + 1, m + 2}
      /\ \A p \in 1 .. m : walk'[p] = walk[p]
      /\ r > m => walk'[m + 1] = Opens(N + 1)
      /\ r > m + 1 => walk'[m + 2] = Meets(N + 1) /\ d.kind \in {"var", "method"}
    BY <1>2, WalkGrows
<1>4. \A p \in 1 .. m : \A k : walk[p] = Opens(k) \/ walk[p] = Meets(k) => k \in NB + 1 .. N
    BY <1>2 DEF WalkOK, Opens, Meets
<1>5. ASSUME NEW p \in 1 .. m, NEW k \in 1 .. N', walk'[p] = Meets(k), NEW t \in 1 .. N'
      PROVE  /\ prog'[k].use.of = t => IsOpen(t, p)'
             /\ IsOpen(t, p)' => Precedes(t, k)'
  <2>1. walk[p] = Meets(k) /\ k \in 1 .. N /\ prog'[k] = prog[k]
    BY <1>1, <1>3, <1>4, <1>5
  <2>2. \A q \in 1 .. p - 1 : q \in 1 .. m /\ walk'[q] = walk[q]
    BY <1>3
  <2>3. IsOpen(t, p)' <=> IsOpen(t, p)
    BY <2>2 DEF IsOpen, NB
  <2>4. CASE t \in 1 .. N
    <3>1. /\ prog[k].use.of = t => IsOpen(t, p)
          /\ IsOpen(t, p) => Precedes(t, k)
      BY <1>2, <2>1, <2>4 DEF OrderOK
    <3>2. Precedes(t, k) => Precedes(t, k)'
      <4>1. \A v \in 1 .. N' : v \in 1 .. N \/ v = N + 1
        BY <1>1
      <4>2. QED  BY <1>1, <2>4, <4>1 DEF Precedes
    <3>3. QED  BY <2>1, <2>3, <3>1, <3>2
  <2>5. CASE t = N + 1
    <3>1. ~ IsOpen(t, p)
      BY <1>1, <1>4, <2>2, <2>5 DEF IsOpen
    <3>2. prog[k].use.of # t
      <4>1. prog[k].use.of \in 0 .. N
        BY <2>1 DEF UsesOK, IsUse
      <4>2. QED  BY <1>1, <2>5, <4>1
    <3>3. QED  BY <2>1, <2>3, <3>1, <3>2
  <2>6. QED  BY <1>1, <2>4, <2>5
<1>6. ASSUME NEW t \in 1 .. N', r > m + 1
      PROVE  /\ d.use.of = t => IsOpen(t, m + 2)'
             /\ Precedes(t, n)'
  <2>1. walk'[m + 1] = Opens(N + 1) /\ m + 1 \in 1 .. (m + 2) - 1
    BY <1>3, <1>6
  <2>2. d.use.of = t => IsOpen(t, m + 2)'
    <3>1. CASE t = N + 1
      BY <2>1, <3>1 DEF IsOpen
    <3>2. CASE t # N + 1 /\ d.use.of = t
      <4>1. t \in 1 .. N /\ prog[t].kind # "struct"
        BY <1>1, <3>2
      <4>2. t \in 1 .. NB \/ t \in NB + 1 .. N
        BY <1>1, <4>1
      <4>3. CASE t \in NB + 1 .. N
        <5>1. PICK q \in 1 .. m : walk[q] = Opens(t)
          BY <1>2, <4>1, <4>3 DEF WalkOK
        <5>2. q \in 1 .. (m + 2) - 1 /\ walk'[q] = Opens(t)
          BY <1>3, <5>1
        <5>3. QED  BY <5>2 DEF IsOpen
      <4>4. QED  BY <4>2, <4>3 DEF IsOpen, NB
    <3>3. QED  BY <3>1, <3>2
  <2>3. Precedes(t, n)'
    <3>1. ASSUME NEW v \in 1 .. N'
          PROVE  (v < t => v < n) /\ (v = t => v <= n)
      BY <1>1, <1>2, <3>1
    <3>2. QED  BY <3>1 DEF Precedes
  <2>4. QED  BY <2>2, <2>3
<1>7. ASSUME NEW p \in 1 .. r, NEW k \in 1 .. N', walk'[p] = Meets(k), NEW t \in 1 .. N'
      PROVE  /\ prog'[k].use.of = t => IsOpen(t, p)'
             /\ IsOpen(t, p)' => Precedes(t, k)'
  <2>1. \/ p \in 1 .. m
        \/ p = m + 1 /\ r > m
        \/ p = m + 2 /\ r > m + 1
    BY <1>3
  <2>2. CASE p \in 1 .. m
    BY <1>5, <1>7, <2>2
  <2>3. CASE p = m + 1 /\ r > m
    BY <1>3, <1>7, <2>3 DEF Opens, Meets
  <2>4. CASE p = m + 2 /\ r > m + 1
    <3>1. k = n /\ prog'[k] = d
      BY <1>1, <1>2, <1>3, <1>7, <2>4 DEF Meets
    <3>2. QED  BY <1>6, <2>4, <3>1
  <2>5. QED  BY <2>1, <2>2, <2>3, <2>4
<1>8. QED  BY <1>2, <1>7 DEF OrderOK

\* An entry is made for a key that is free.
LEMMA EntryMade ==
    ASSUME NEW d, NEW keys, Adds(d, keys), NEW key \in keys, ~ Taken(key), NEW n, n = New
    PROVE  \E e \in ids' : e.of = n
<1>1. PICK e : e = [block |-> Innermost(scope), key |-> key, of |-> n]
    OBVIOUS
<1>2. e \in Ids(keys, New)
    BY <1>1, IdsMade
<1>3. QED  BY <1>1, <1>2 DEF Adds

\* Declarations have their entries, and the new one has its own.
LEMMA AddsEntered ==
    ASSUME ProgOK, ScopeOK, WalkOK, AllEntered, NEW d, NEW keys, Adds(d, keys),
           traits \subseteq traits', NEW n, n = N + 1,
           ~ errs' => ~ errs /\ ~ IsError(d.use) /\ Entered(n)'
    PROVE  AllEntered'
<1>1. /\ N' = N + 1 /\ N \in Nat
      /\ \A k \in 1 .. N : prog'[k] = prog[k]
      /\ prog'[N + 1] = d
    BY AddsOne, Sizes
<1>2. ids \subseteq ids'
    BY DEF Adds
<1>3. ASSUME ~ errs', NEW k \in 1 .. N'
      PROVE  Entered(k)' /\ ~ IsError(prog'[k].use)
  <2>1. CASE k \in 1 .. N
    <3>1. Entered(k) /\ ~ IsError(prog[k].use) /\ prog'[k] = prog[k]
      BY <1>1, <1>3, <2>1 DEF AllEntered
    <3>2. Entered(k)'
      BY <1>2, <3>1 DEF Entered
    <3>3. QED  BY <3>1, <3>2
  <2>2. CASE k = n
    BY <1>1, <1>3, <2>2
  <2>3. QED  BY <1>1, <2>1, <2>2
<1>4. QED  BY <1>3 DEF AllEntered

-----------------------------------------------------------------------------
(* What the checker finds. *)

\* The block a declaration is in: the outermost one, or that of a function.
LEMMA BlockOf ==
    ASSUME ProgOK, NEW k \in 1 .. N, NEW b, b = Innermost(prog[k].path)
    PROVE  \/ b = 0 /\ prog[k].path = <<>>
           \/ /\ b \in 1 .. N /\ b < k /\ prog[b].kind = "fn" /\ prog[k].path # <<>>
              /\ \E i \in 1 .. Len(prog[k].path) : prog[k].path[i] = b
<1>1. PICK s : s = prog[k].path
    OBVIOUS
<1>2. IsSeq(s) /\ PathOK(k)
    BY <1>1 DEF ProgOK, DeclShape
<1>3. Len(s) \in Nat /\ (s = <<>> <=> Len(s) = 0)
    BY <1>2, SeqShape
<1>4. CASE s = <<>>
    BY <1>1, <1>4 DEF Innermost
<1>5. CASE s # <<>>
  <2>1. Len(s) \in 1 .. Len(s) /\ b = s[Len(s)]
    BY <1>1, <1>3, <1>5 DEF Innermost, Last
  <2>2. PICK f \in 1 .. N : f = s[Len(s)] /\ f < k /\ prog[f].kind = "fn"
    BY <1>1, <1>2, <2>1 DEF PathOK
  <2>3. QED  BY <1>1, <1>5, <2>1, <2>2
<1>6. QED  BY <1>4, <1>5

\* What a look-up answers is in a table.
LEMMA LooksUp ==
    ASSUME ProgOK, IdsOK, N \in Nat, NEW key, NEW blocks, NEW r, r = LookUp(key, blocks),
           r # 0 \/ \E e \in ids : e.key = key /\ e.block \in blocks
    PROVE  \E e \in ids : e.key = key /\ e.of = r /\ e.block \in blocks
<1>1. PICK found : found = {e \in ids : e.key = key /\ e.block \in blocks}
    OBVIOUS
<1>2. r = IF found = {} THEN 0 ELSE (CHOOSE e \in found : \A d \in found : d.block <= e.block).of
    BY <1>1 DEF LookUp
<1>3. found # {}
    BY <1>1, <1>2
<1>4. \A e \in found : e.block \in 0 .. N
  <2>1. TAKE e \in found
  <2>2. e.of \in 1 .. N /\ e.block = Innermost(prog[e.of].path)
    BY <1>1 DEF IdsOK
  <2>3. QED  BY <2>2, BlockOf
<1>5. PICK P : P = {e.block + 1 : e \in found}
    OBVIOUS
<1>6. P \in SUBSET (1 .. N + 1) /\ P # {} /\ N + 1 \in Nat
    BY <1>3, <1>4, <1>5
<1>7. PICK i \in P : \A j \in P : j <= i
    BY <1>6, Greatest
<1>8. PICK e0 \in found : i = e0.block + 1
    BY <1>5, <1>7
<1>9. \A d \in found : d.block <= e0.block
  <2>1. TAKE d \in found
  <2>2. d.block + 1 <= e0.block + 1
    BY <1>5, <1>7, <1>8
  <2>3. d.block \in 0 .. N /\ e0.block \in 0 .. N
    BY <1>4, <1>8
  <2>4. QED  BY <2>2, <2>3
<1>10. PICK e : e = CHOOSE c \in found : \A d \in found : d.block <= c.block
    OBVIOUS
<1>11. e \in found
    BY <1>9, <1>10
<1>12. r = e.of
    BY <1>2, <1>3, <1>10
<1>13. QED  BY <1>1, <1>11, <1>12

\* The trait of a name that is seen.
LEMMA GetsTrait ==
    ASSUME ProgOK, N \in Nat, DOMAIN prog = 1 .. N, NEW t \in SeenTraits, NEW k, k = get_type(t)
    PROVE  k \in 1 .. N /\ prog[k].kind = "trait"
<1>1. PICK P : P = TraitsSeen(t)
    OBVIOUS
<1>2. P \in SUBSET (1 .. N) /\ P # {}
    BY <1>1 DEF TraitsSeen, SeenTraits
<1>3. \E i \in P : \A j \in P : j <= i
    BY <1>2, Greatest
<1>4. k = CHOOSE i \in P : \A j \in P : j <= i
    BY <1>1 DEF get_type
<1>5. k \in P
    BY <1>3, <1>4
<1>6. QED  BY <1>1, <1>5 DEF TraitsSeen, IsKind

\* What an expression uses, in the block it is checked in.
Finds(use) ==
    /\ use = Use(use.what, use.key, use.of, use.type)
    /\ use.what \in Uses /\ use.of \in 0 .. N
    /\ UseShape(use)
    /\ use.of # 0 => prog[use.of].kind # "struct"
    /\ use.what = "name" /\ use.of # 0 => \E e \in ids :
        e.key = use.key /\ e.of = use.of /\ e.block \in {0, Innermost(scope)}
    /\ use.what = "method" /\ use.of # 0 => MethodFound(use)
    /\ use.what = "trait" /\ use.of # 0 => TraitFound(use)

\* An expression that is checked finds what is declared, in each form.
LEMMA ExpressionsFind ==
    ASSUME ProgOK, ScopeOK, WalkOK, IdsOK, TraitsOK, NEW use \in Expressions
    PROVE  Finds(use)
<1>1. N \in Nat /\ DOMAIN prog = 1 .. N
    BY Sizes
<1>2. CASE use = NoUse
    BY <1>1, <1>2 DEF Finds, NoUse, Use, Uses, UseShape
<1>3. ASSUME NEW n, use = NameUse(n)
      PROVE  Finds(use)
  <2>1. PICK r : r = LookUp(<<n>>, {0, Innermost(scope)})
    OBVIOUS
  <2>2. /\ use.what = "name" /\ use.key = <<n>> /\ use.of = r
        /\ use = Use(use.what, use.key, use.of, use.type)
    BY <1>3, <2>1 DEF NameUse, Use, get_id
  <2>3. CASE r = 0
    BY <1>1, <2>2, <2>3 DEF Finds, Uses, UseShape
  <2>4. CASE r # 0
    <3>1. PICK e \in ids : e.key = <<n>> /\ e.of = r /\ e.block \in {0, Innermost(scope)}
      BY <1>1, <2>1, <2>4, LooksUp
    <3>2. r \in 1 .. N /\ IsKeyOf(e.key, r)
      BY <3>1 DEF IdsOK
    <3>3. prog[r].kind # "struct"
      BY <3>2 DEF IsKeyOf
    <3>4. QED  BY <1>1, <2>2, <3>1, <3>2, <3>3 DEF Finds, Uses, UseShape
  <2>5. QED  BY <2>3, <2>4
<1>4. ASSUME NEW type, NEW f, use = MethodUse(type, f)
      PROVE  Finds(use)
  <2>1. PICK r, key : key = <<Text[type], f>> /\ r = LookUp(key, {0, Innermost(scope)})
    OBVIOUS
  <2>2. /\ use.what = "method" /\ use.key = key /\ use.of = r /\ use.type = type /\ use.key[2] = f
        /\ use = Use(use.what, use.key, use.of, use.type)
    BY <1>4, <2>1 DEF MethodUse, Use, get_id
  <2>3. CASE r = 0
    BY <1>1, <2>1, <2>2, <2>3 DEF Finds, Uses, UseShape
  <2>4. CASE r # 0
    <3>1. PICK e \in ids : e.key = key /\ e.of = r /\ e.block \in {0, Innermost(scope)}
      BY <1>1, <2>1, <2>4, LooksUp
    <3>2. r \in 1 .. N /\ IsKeyOf(e.key, r)
      BY <3>1 DEF IdsOK
    <3>3. prog[r].kind = "method" /\ prog[r].name = f
      BY <2>1, <3>1, <3>2 DEF IsKeyOf
    <3>4. QED  BY <1>1, <2>1, <2>2, <3>2, <3>3 DEF Finds, Uses, UseShape, MethodFound
  <2>5. QED  BY <2>3, <2>4
<1>5. ASSUME NEW t \in SeenTraits, NEW type, use = TraitUse(t, type)
      PROVE  Finds(use)
  <2>1. PICK k, by : k = get_type(t) /\ by = {i \in traits : i.trait = k /\ i.type = type}
    OBVIOUS
  <2>2. /\ use.what = "trait" /\ use.key = <<k, Text[type]>> /\ use.type = type
        /\ use.of = IF by = {} THEN 0 ELSE (CHOOSE i \in by : TRUE).by
        /\ use = Use(use.what, use.key, use.of, use.type)
    BY <1>5, <2>1 DEF TraitUse, Use
  <2>3. CASE by = {}
    BY <1>1, <2>2, <2>3 DEF Finds, Uses, UseShape
  <2>4. CASE by # {}
    <3>1. PICK i : i = CHOOSE x \in by : TRUE
      OBVIOUS
    <3>2. i \in by /\ use.of = i.by
      BY <2>2, <2>4, <3>1
    <3>3. i \in traits /\ i.trait = k /\ i.type = type
      BY <2>1, <3>2
    <3>4. i.by \in 1 .. N /\ prog[i.by].kind = "impl"
      BY <3>3 DEF TraitsOK
    <3>5. TraitFound(use)
      BY <2>2, <3>2, <3>3 DEF TraitFound
    <3>6. QED  BY <1>1, <2>2, <3>2, <3>4, <3>5 DEF Finds, Uses, UseShape
  <2>5. QED  BY <2>3, <2>4
<1>6. QED  BY <1>2, <1>3, <1>4, <1>5 DEF Expressions

-----------------------------------------------------------------------------
(* The declarations. *)

\* What a declaration with an expression uses is found from it.
LEMMA UseOfNew ==
    ASSUME ProgOK, ScopeOK, WalkOK, NEW d, NEW keys, Adds(d, keys), traits \subseteq traits',
           Finds(d.use), NEW n, n = N + 1
    PROVE  IsUse(d.use, n)'
<1>1. /\ N' = n /\ N \in Nat /\ prog'[n] = d
      /\ \A k \in 1 .. N : prog'[k] = prog[k]
    BY AddsOne, Sizes
<1>2. PICK use : use = d.use
    OBVIOUS
<1>3. /\ use.of \in 0 .. N /\ use.of \in 0 .. N' /\ use.of < n
      /\ use.of # 0 => use.of \in 1 .. N /\ prog'[use.of] = prog[use.of]
    BY <1>1, <1>2 DEF Finds
<1>4. use.what = "name" /\ use.of # 0 => NameFound(use, n)'
  <2>1. SUFFICES ASSUME use.what = "name" /\ use.of # 0
                 PROVE  NameFound(use, n)'
    OBVIOUS
  <2>2. PICK e \in ids : e.key = use.key /\ e.of = use.of /\ e.block \in {0, Innermost(scope)}
    BY <1>2, <2>1 DEF Finds
  <2>3. \/ e.block = 0
        \/ \E i \in 1 .. Len(scope) : scope[i] = e.block
    <3>1. CASE scope = <<>>
      BY <2>2, <3>1 DEF Innermost
    <3>2. CASE scope # <<>>
      <4>1. Len(scope) \in 1 .. Len(scope) /\ Innermost(scope) = scope[Len(scope)]
        BY <3>2, Sizes DEF Innermost, Last
      <4>2. QED  BY <2>2, <4>1
    <3>3. QED  BY <3>1, <3>2
  <2>4. e \in ids' /\ prog'[n].path = scope
    BY <1>1 DEF Adds
  <2>5. QED  BY <2>2, <2>3, <2>4 DEF NameFound
<1>5. use.what = "method" /\ use.of # 0 => MethodFound(use)'
    BY <1>2, <1>3 DEF Finds, MethodFound
<1>6. use.what = "trait" /\ use.of # 0 => TraitFound(use)'
    BY <1>2 DEF Finds, TraitFound
<1>7. IsUse(use, n)'
    BY <1>3, <1>4, <1>5, <1>6 DEF IsUse
<1>8. QED  BY <1>2, <1>7

\* The whole invariant, when a declaration is made.
LEMMA AddsAll ==
    ASSUME DeclInv, NEW d, NEW keys, Adds(d, keys), KeysOf(d, keys),
           traits \subseteq traits', TraitsOK', UseShape(d.use),
           NEW n, n = N + 1, IsUse(d.use, n)',
           d.use.of \in 0 .. N + 1,
           d.use.of # 0 => d.use.of = N + 1 \/ prog[d.use.of].kind # "struct",
           ~ errs' => ~ errs /\ ~ IsError(d.use) /\ Entered(n)'
    PROVE  DeclInv'
<1>1. /\ ProgOK /\ ScopeOK /\ WalkOK /\ IdsOK /\ TraitsOK
      /\ AllEntered /\ UsesOK /\ OrderOK
    BY DEF DeclInv
<1>2. ProgOK' /\ ScopeOK' /\ WalkOK'
    BY <1>1, AddsProg, AddsScope, AddsWalk
<1>3. IdsOK'
    BY <1>1, AddsIds
<1>4. AllEntered'
    BY <1>1, AddsEntered
<1>5. UsesOK'
    BY <1>1, AddsUses
<1>6. OrderOK'
    BY <1>1, AddsOrder
<1>7. QED  BY <1>2, <1>3, <1>4, <1>5, <1>6 DEF DeclInv

\* A declaration that uses an expression, or nothing.
LEMMA AddsFinding ==
    ASSUME DeclInv, NEW d, NEW keys, Adds(d, keys), KeysOf(d, keys),
           traits \subseteq traits', TraitsOK', Finds(d.use), NEW n, n = N + 1,
           ~ errs' => ~ errs /\ ~ IsError(d.use) /\ Entered(n)'
    PROVE  DeclInv'
<1>1. ProgOK /\ ScopeOK /\ WalkOK
    BY DEF DeclInv
<1>2. N \in Nat
    BY <1>1, Sizes
<1>3. IsUse(d.use, n)'
    BY <1>1, UseOfNew
<1>4. /\ UseShape(d.use) /\ d.use.of \in 0 .. N + 1
      /\ d.use.of # 0 => prog[d.use.of].kind # "struct"
    BY <1>2 DEF Finds
<1>5. QED  BY <1>3, <1>4, AddsAll

\* What uses nothing.
LEMMA FindsNothing ==
    ASSUME N \in Nat
    PROVE  Finds(NoUse) /\ ~ IsError(NoUse)
    BY DEF Finds, NoUse, Use, Uses, UseShape, IsError

\* A function is opened.
LEMMA FuncDeclKeeps ==
    ASSUME DeclInv, NEW n, FuncDecl(n)
    PROVE  DeclInv'
<1>1. ProgOK /\ ScopeOK /\ WalkOK /\ TraitsOK
    BY DEF DeclInv
<1>2. PICK d, keys, k : d = Declaration("fn", n, "none", <<>>, NoUse) /\ keys = {<<n>>} /\ k = N + 1
    OBVIOUS
<1>3. N \in Nat /\ New = k
    BY <1>1, <1>2, Sizes
<1>4. /\ DOMAIN d = Fields /\ d.kind = "fn" /\ d.name = n /\ d.use = NoUse /\ d.path = scope
    BY <1>2 DEF Declaration, Fields
<1>5. Finds(d.use) /\ ~ IsError(d.use)
    BY <1>3, <1>4, FindsNothing
<1>6. DeclShape(d)
    BY <1>1, <1>4, <1>5 DEF DeclShape, Kinds, Finds, ScopeOK
<1>7. /\ prog' = Append(prog, d) /\ ids' = ids \cup Ids(keys, New)
      /\ errs' = (errs \/ Taken(<<n>>))
      /\ scope' = Append(scope, New) /\ walk' = Append(walk, Opens(New))
      /\ traits' = traits
    BY <1>2 DEF FuncDecl, Declares
<1>8. Adds(d, keys)
    BY <1>4, <1>6, <1>7 DEF Adds, WalkGoesOn
<1>9. KeysOf(d, keys)
    BY <1>2, <1>4 DEF KeysOf
<1>10. TraitsOK'
    BY <1>1, <1>7, <1>8, AddsTraits
<1>11. ~ errs' => ~ errs /\ ~ IsError(d.use) /\ Entered(k)'
  <2>1. SUFFICES ASSUME ~ errs'
                 PROVE  ~ errs /\ Entered(k)'
    BY <1>5
  <2>2. ~ errs /\ ~ Taken(<<n>>) /\ <<n>> \in keys
    BY <1>2, <1>7, <2>1
  <2>3. \E e \in ids' : e.of = k
    BY <1>3, <1>8, <2>2, EntryMade
  <2>4. prog'[k].kind = "fn"
    BY <1>1, <1>2, <1>4, <1>8, AddsOne
  <2>5. QED  BY <2>2, <2>3, <2>4 DEF Entered
<1>12. QED  BY <1>2, <1>5, <1>7, <1>8, <1>9, <1>10, <1>11, AddsFinding

\* A global variable is declared.
LEMMA VarDeclKeeps ==
    ASSUME DeclInv, NEW n, NEW use \in Expressions, VarDecl(n, use)
    PROVE  DeclInv'
<1>1. ProgOK /\ ScopeOK /\ WalkOK /\ IdsOK /\ TraitsOK
    BY DEF DeclInv
<1>2. PICK d, keys, k : d = Variable(n, use, TRUE) /\ keys = {<<n>>} /\ k = N + 1
    OBVIOUS
<1>3. N \in Nat /\ New = k
    BY <1>1, <1>2, Sizes
<1>4. /\ DOMAIN d = Fields /\ d.kind = "var" /\ d.name = n /\ d.use = use /\ d.path = scope
    BY <1>2 DEF Variable, Declaration, Fields
<1>5. Finds(d.use)
    BY <1>1, <1>4, ExpressionsFind
<1>6. /\ prog' = Append(prog, d) /\ ids' = ids \cup Ids(keys, New)
      /\ errs' = (errs \/ IsError(use) \/ Taken(<<n>>))
      /\ scope = <<>> /\ scope' = scope /\ walk' = walk \o <<Opens(New), Meets(New)>>
      /\ traits' = traits
    BY <1>2 DEF VarDecl, Declares
<1>7. DeclShape(d)
    BY <1>1, <1>4, <1>5, <1>6 DEF DeclShape, Kinds, Finds, ScopeOK
<1>8. Adds(d, keys)
    BY <1>4, <1>6, <1>7 DEF Adds, WalkGoesOn
<1>9. KeysOf(d, keys)
    BY <1>2, <1>4 DEF KeysOf
<1>10. TraitsOK'
    BY <1>1, <1>6, <1>8, AddsTraits
<1>11. ~ errs' => ~ errs /\ ~ IsError(d.use) /\ Entered(k)'
  <2>1. SUFFICES ASSUME ~ errs'
                 PROVE  ~ errs /\ ~ IsError(d.use) /\ Entered(k)'
    OBVIOUS
  <2>2. ~ errs /\ ~ IsError(use) /\ ~ Taken(<<n>>) /\ <<n>> \in keys
    BY <1>2, <1>6, <2>1
  <2>3. \E e \in ids' : e.of = k
    BY <1>3, <1>8, <2>2, EntryMade
  <2>4. prog'[k].kind = "var"
    BY <1>1, <1>2, <1>4, <1>8, AddsOne
  <2>5. QED  BY <1>4, <2>2, <2>3, <2>4 DEF Entered
<1>12. QED  BY <1>2, <1>5, <1>6, <1>8, <1>9, <1>10, <1>11, AddsFinding

\* A global variable is declared that has no initial value.
LEMMA VarDeclNoValueKeeps ==
    ASSUME DeclInv, NEW n, NEW typed \in BOOLEAN, VarDeclNoValue(n, typed)
    PROVE  DeclInv'
<1>1. ProgOK /\ ScopeOK /\ WalkOK /\ TraitsOK
    BY DEF DeclInv
<1>2. PICK d, keys, k : d = Variable(n, NoUse, FALSE) /\ keys = (IF typed THEN {<<n>>} ELSE {}) /\ k = N + 1
    OBVIOUS
<1>3. N \in Nat /\ New = k
    BY <1>1, <1>2, Sizes
<1>4. /\ DOMAIN d = Fields /\ d.kind = "var" /\ d.name = n /\ d.use = NoUse /\ d.path = scope
    BY <1>2 DEF Variable, Declaration, Fields
<1>5. Finds(d.use) /\ ~ IsError(d.use)
    BY <1>3, <1>4, FindsNothing
<1>6. /\ prog' = Append(prog, d)
      /\ ids' = IF typed THEN ids \cup Ids({<<n>>}, New) ELSE ids
      /\ errs' = (errs \/ ~ typed \/ Taken(<<n>>))
      /\ scope = <<>> /\ scope' = scope /\ walk' = Append(walk, Opens(New))
      /\ traits' = traits
    BY <1>2 DEF VarDeclNoValue, Declares
<1>7. DeclShape(d)
    BY <1>1, <1>4, <1>5, <1>6 DEF DeclShape, Kinds, Finds, ScopeOK
<1>8. Adds(d, keys)
  <2>1. ids' = ids \cup Ids(keys, New)
    BY <1>2, <1>6 DEF Ids
  <2>2. QED  BY <1>4, <1>6, <1>7, <2>1 DEF Adds, WalkGoesOn
<1>9. KeysOf(d, keys)
    BY <1>2, <1>4 DEF KeysOf
<1>10. TraitsOK'
    BY <1>1, <1>6, <1>8, AddsTraits
<1>11. ~ errs' => ~ errs /\ ~ IsError(d.use) /\ Entered(k)'
  <2>1. SUFFICES ASSUME ~ errs'
                 PROVE  ~ errs /\ Entered(k)'
    BY <1>5
  <2>2. ~ errs /\ ~ Taken(<<n>>) /\ <<n>> \in keys
    BY <1>2, <1>6, <2>1
  <2>3. \E e \in ids' : e.of = k
    BY <1>3, <1>8, <2>2, EntryMade
  <2>4. prog'[k].kind = "var"
    BY <1>1, <1>2, <1>4, <1>8, AddsOne
  <2>5. QED  BY <2>2, <2>3, <2>4 DEF Entered
<1>12. QED  BY <1>2, <1>5, <1>6, <1>8, <1>9, <1>10, <1>11, AddsFinding

\* A type is declared in a function.
LEMMA StructDeclKeeps ==
    ASSUME DeclInv, NEW t, StructDecl(t)
    PROVE  DeclInv'
<1>1. ProgOK /\ ScopeOK /\ WalkOK /\ TraitsOK
    BY DEF DeclInv
<1>2. PICK d, keys, k : d = Declaration("struct", "none", t, <<>>, NoUse) /\ keys = {} /\ k = N + 1
    OBVIOUS
<1>3. N \in Nat /\ New = k
    BY <1>1, <1>2, Sizes
<1>4. /\ DOMAIN d = Fields /\ d.kind = "struct" /\ d.use = NoUse /\ d.path = scope
    BY <1>2 DEF Declaration, Fields
<1>5. Finds(d.use) /\ ~ IsError(d.use)
    BY <1>3, <1>4, FindsNothing
<1>6. /\ prog' = Append(prog, d) /\ ids' = ids /\ errs' = errs
      /\ scope # <<>> /\ scope' = scope /\ walk' = walk /\ traits' = traits
    BY <1>2 DEF StructDecl, Declares
<1>7. DeclShape(d)
    BY <1>1, <1>4, <1>5, <1>6 DEF DeclShape, Kinds, Finds, ScopeOK
<1>8. Adds(d, keys)
  <2>1. Ids(keys, New) = {}
    BY <1>2 DEF Ids
  <2>2. QED  BY <1>4, <1>6, <1>7, <2>1 DEF Adds, WalkGoesOn
<1>9. KeysOf(d, keys)
    BY <1>2 DEF KeysOf
<1>10. TraitsOK'
    BY <1>1, <1>6, <1>8, AddsTraits
<1>11. prog'[k].kind = "struct"
    BY <1>1, <1>2, <1>4, <1>8, AddsOne
<1>12. Entered(k)'
    BY <1>11 DEF Entered
<1>13. QED  BY <1>2, <1>5, <1>6, <1>8, <1>9, <1>10, <1>12, AddsFinding

\* A member function is declared, and may use itself.
LEMMA StructImplKeeps ==
    ASSUME DeclInv, NEW type, NEW f, NEW use \in Expressions, StructImpl(type, f, use)
    PROVE  DeclInv'
<1>1. ProgOK /\ ScopeOK /\ WalkOK /\ IdsOK /\ TraitsOK
    BY DEF DeclInv
<1>2. PICK key, found : key = <<Text[type], f>> /\ found = IF use.what = "method" /\ use.key = key /\ ~ Taken(key)
                                                 THEN [use EXCEPT !.of = New] ELSE use
    OBVIOUS
<1>3. PICK d, keys, k : d = Declaration("method", f, type, <<>>, found) /\ keys = {key} /\ k = N + 1
    OBVIOUS
<1>4. N \in Nat /\ New = k
    BY <1>1, <1>3, Sizes
<1>5. /\ DOMAIN d = Fields /\ d.kind = "method" /\ d.name = f /\ d.type = type
      /\ d.use = found /\ d.path = scope
    BY <1>3 DEF Declaration, Fields
<1>6. /\ prog' = Append(prog, d) /\ ids' = ids \cup Ids(keys, New)
      /\ errs' = (errs \/ IsError(found) \/ Taken(key))
      /\ scope' = scope /\ walk' = walk \o <<Opens(New), Meets(New)>>
      /\ traits' = traits
    BY <1>2, <1>3, Zenon DEF StructImpl, Declares
<1>7. Finds(use)
    BY <1>1, ExpressionsFind
<1>8. /\ found.what = use.what /\ found.key = use.key /\ found.type = use.type
      /\ \/ found = use
         \/ use.what = "method" /\ use.key = key /\ found.of = k
    BY <1>2, <1>4, <1>7 DEF Finds, Use
<1>9. DeclShape(d)
    BY <1>1, <1>5, <1>7, <1>8 DEF DeclShape, Kinds, Finds, ScopeOK
<1>10. Adds(d, keys)
    BY <1>5, <1>6, <1>9 DEF Adds, WalkGoesOn
<1>11. KeysOf(d, keys)
    BY <1>2, <1>3, <1>5 DEF KeysOf
<1>12. TraitsOK'
    BY <1>1, <1>6, <1>10, AddsTraits
<1>13. N' = k /\ prog'[k] = d
    BY <1>1, <1>3, <1>10, AddsOne
<1>14. ~ errs' => ~ errs /\ ~ IsError(d.use) /\ Entered(k)'
  <2>1. SUFFICES ASSUME ~ errs'
                 PROVE  ~ errs /\ ~ IsError(d.use) /\ Entered(k)'
    OBVIOUS
  <2>2. ~ errs /\ ~ IsError(found) /\ ~ Taken(key) /\ key \in keys
    BY <1>3, <1>6, <2>1
  <2>3. \E e \in ids' : e.of = k
    BY <1>4, <1>10, <2>2, EntryMade
  <2>4. QED  BY <1>5, <1>13, <2>2, <2>3 DEF Entered
<1>15. CASE found = use
    BY <1>3, <1>5, <1>6, <1>7, <1>10, <1>11, <1>12, <1>14, <1>15, AddsFinding
<1>16. CASE use.what = "method" /\ use.key = key /\ found.of = k
  <2>1. UseShape(found)
    BY <1>7, <1>8 DEF Finds, UseShape
  <2>2. MethodFound(found)'
    BY <1>2, <1>5, <1>8, <1>13, <1>16 DEF MethodFound
  <2>3. IsUse(found, k)'
    <3>1. found.what = "method" /\ found.of \in 0 .. N' /\ prog'[k].kind = "method"
      BY <1>3, <1>4, <1>5, <1>8, <1>13, <1>16
    <3>2. QED  BY <2>2, <3>1 DEF IsUse
  <2>4. d.use.of \in 0 .. N + 1 /\ d.use.of = N + 1
    BY <1>3, <1>4, <1>5, <1>16
  <2>5. QED  BY <1>3, <1>5, <1>6, <1>10, <1>11, <1>12, <1>14, <2>1, <2>3, <2>4, AddsAll
<1>17. QED  BY <1>8, <1>15, <1>16

\* A trait is declared, or refused.
LEMMA TraitDeclKeeps ==
    ASSUME DeclInv, NEW t, NEW fs \in Lists, TraitDecl(t, fs)
    PROVE  DeclInv'
<1>1. ProgOK /\ ScopeOK /\ WalkOK /\ TraitsOK
    BY DEF DeclInv
<1>2. PICK again : again = \E k \in TraitsSeen(t) : prog[k].path = scope
    OBVIOUS
<1>3. PICK d, keys, k :
        /\ d = Declaration(IF again THEN "refused" ELSE "trait", t, "none", fs, NoUse)
        /\ keys = IF again THEN {} ELSE {<<"trait", t, f, New>> : f \in Range(fs)}
        /\ k = N + 1
    OBVIOUS
<1>4. N \in Nat /\ New = k
    BY <1>1, <1>3, Sizes
<1>5. /\ DOMAIN d = Fields /\ d.kind = (IF again THEN "refused" ELSE "trait")
      /\ d.slots = fs /\ d.use = NoUse /\ d.path = scope
    BY <1>3 DEF Declaration, Fields
<1>6. Finds(d.use) /\ ~ IsError(d.use)
    BY <1>4, <1>5, FindsNothing
<1>7. /\ prog' = Append(prog, d)
      /\ ids' = IF again THEN ids ELSE ids \cup Ids({<<"trait", t, f, New>> : f \in Range(fs)}, New)
      /\ errs' = (errs \/ again \/ IsRepeated(fs))
      /\ scope' = scope /\ walk' = Append(walk, Opens(New)) /\ traits' = traits
    BY <1>2, <1>3, Zenon DEF TraitDecl, Declares
<1>8. IsSeq(fs)
    BY ExtAssumption, SeqIsSeq DEF ExtAssumption
<1>9. DeclShape(d)
    BY <1>1, <1>5, <1>6, <1>8 DEF DeclShape, Kinds, Finds, ScopeOK
<1>10. Adds(d, keys)
  <2>1. again => Ids(keys, New) = {}
    BY <1>3 DEF Ids
  <2>2. ids' = ids \cup Ids(keys, New)
    BY <1>3, <1>7, <2>1
  <2>3. QED  BY <1>5, <1>7, <1>9, <2>2 DEF Adds, WalkGoesOn
<1>11. KeysOf(d, keys)
  <2>1. ASSUME NEW key \in keys
        PROVE  d.kind = "trait" /\ Len(key) = 4
    <3>1. ~ again
      BY <1>3
    <3>2. PICK f : key = <<"trait", t, f, New>>
      BY <1>3, <3>1
    <3>3. QED  BY <1>5, <3>1, <3>2
  <2>2. QED  BY <2>1 DEF KeysOf
<1>12. TraitsOK'
    BY <1>1, <1>7, <1>10, AddsTraits
<1>13. prog'[k] = d
    BY <1>1, <1>3, <1>10, AddsOne
<1>14. ~ errs' => ~ errs /\ Entered(k)'
    BY <1>5, <1>7, <1>13 DEF Entered
<1>15. QED  BY <1>3, <1>6, <1>7, <1>10, <1>11, <1>12, <1>14, AddsFinding

\* Outside of functions only the types declared there are seen.
LEMMA SeenOutside ==
    ASSUME ProgOK, DOMAIN prog = 1 .. N, scope = <<>>, NEW t, TypeSeen(t)
    PROVE  t \notin Inner
<1>1. SUFFICES ASSUME NEW k \in DOMAIN prog, IsKind(k, "struct"), Innermost(prog[k].path) \in Around
               PROVE  FALSE
    BY DEF TypeSeen
<1>2. Around = {0}
    BY DEF Around, Blocks, Range
<1>3. prog[k].kind = "struct" /\ prog[k].path # <<>>
    BY <1>1 DEF IsKind, ProgOK, DeclShape
<1>4. PICK b : b = Innermost(prog[k].path)
    OBVIOUS
<1>5. b # 0
  <2>1. ProgOK /\ k \in 1 .. N
    OBVIOUS
  <2>2. \/ b = 0 /\ prog[k].path = <<>>
        \/ b \in 1 .. N
    BY <1>4, <2>1, BlockOf
  <2>3. QED  BY <1>3, <2>2
<1>6. QED  BY <1>1, <1>2, <1>4, <1>5

\* An implementation is stored once for its trait and its type.
LEMMA AddsImpl ==
    ASSUME ProgOK, ScopeOK, WalkOK, TraitsOK, NEW d, NEW keys, Adds(d, keys),
           NEW g \in 1 .. N, prog[g].kind = "trait", NEW type, NEW n, n = N + 1,
           d.kind = "impl", d.type = type, Len(d.slots) = Len(prog[g].slots),
           Range(prog[g].slots) \subseteq Range(d.slots),
           ~ \E i \in traits : i.trait = g /\ i.type = type,
           traits' = traits \cup {[trait |-> g, type |-> type, by |-> n]}
    PROVE  TraitsOK'
<1>1. /\ N' = N + 1 /\ N \in Nat /\ prog'[n] = d
      /\ \A k \in 1 .. N : prog'[k] = prog[k]
    BY AddsOne, Sizes
<1>2. PICK new : new = [trait |-> g, type |-> type, by |-> n]
    OBVIOUS
<1>3. new.trait = g /\ new.type = type /\ new.by = n /\ traits' = traits \cup {new}
    BY <1>2
<1>4. \A i \in traits : i.by \in 1 .. N /\ i.trait \in 1 .. N
    BY DEF TraitsOK
<1>5. ASSUME NEW i \in traits'
      PROVE  /\ i.by \in 1 .. N' /\ prog'[i.by].kind = "impl" /\ prog'[i.by].type = i.type
             /\ i.trait \in 1 .. N' /\ prog'[i.trait].kind = "trait"
             /\ Len(prog'[i.by].slots) = Len(prog'[i.trait].slots)
             /\ Range(prog'[i.trait].slots) \subseteq Range(prog'[i.by].slots)
  <2>1. CASE i \in traits
    <3>1. prog'[i.by] = prog[i.by] /\ prog'[i.trait] = prog[i.trait]
      BY <1>1, <1>4, <2>1
    <3>2. QED  BY <1>1, <1>4, <2>1, <3>1 DEF TraitsOK
  <2>2. CASE i = new
    <3>1. prog'[g] = prog[g] /\ n \in 1 .. N' /\ g \in 1 .. N'
      BY <1>1
    <3>2. QED  BY <1>1, <1>3, <2>2, <3>1
  <2>3. QED  BY <1>3, <2>1, <2>2
<1>6. ASSUME NEW i \in traits', NEW j \in traits', i.by = j.by \/ (i.trait = j.trait /\ i.type = j.type)
      PROVE  i = j
  <2>1. CASE i \in traits /\ j \in traits
    BY <1>6, <2>1 DEF TraitsOK
  <2>2. \A x \in traits : x.by # new.by /\ ~ (x.trait = new.trait /\ x.type = new.type)
    BY <1>1, <1>3, <1>4
  <2>3. QED  BY <1>3, <1>6, <2>1, <2>2
<1>7. QED  BY <1>5, <1>6 DEF TraitsOK

\* An implementation is made, or refused.
LEMMA TraitImplKeeps ==
    ASSUME DeclInv, NEW t, NEW type \in Types, NEW fs \in Lists, TraitImpl(t, type, fs)
    PROVE  DeclInv'
<1>1. ProgOK /\ ScopeOK /\ WalkOK /\ TraitsOK
    BY DEF DeclInv
<1>2. PICK g, slots : g = get_type(t) /\ slots = prog[g].slots
    OBVIOUS
<1>3. PICK d, keys, k :
        /\ d = Declaration("impl", t, type, fs, NoUse)
        /\ keys = IF IsImpl(t, type, fs) THEN {<<Text[type], t, f>> : f \in Range(slots)} ELSE {}
        /\ k = N + 1
    OBVIOUS
<1>4. N \in Nat /\ New = k /\ DOMAIN prog = 1 .. N
    BY <1>1, <1>3, Sizes
<1>5. /\ DOMAIN d = Fields /\ d.kind = "impl" /\ d.type = type
      /\ d.slots = fs /\ d.use = NoUse /\ d.path = scope
    BY <1>3 DEF Declaration, Fields
<1>6. Finds(d.use) /\ ~ IsError(d.use)
    BY <1>4, <1>5, FindsNothing
<1>7. /\ prog' = Append(prog, d) /\ TypeSeen(type)
      /\ scope' = scope /\ walk' = Append(walk, Opens(New))
    BY <1>3 DEF TraitImpl, Declares
<1>8. IsSeq(fs)
    BY ExtAssumption, SeqIsSeq DEF ExtAssumption
<1>9. DeclShape(d)
  <2>1. d.path = <<>> => type \in Types \ Inner
    BY <1>1, <1>4, <1>5, <1>7, SeenOutside
  <2>2. QED  BY <1>1, <1>5, <1>6, <1>8, <2>1 DEF DeclShape, Kinds, Finds, ScopeOK
<1>10. CASE IsImpl(t, type, fs)
  <2>1. /\ ids' = ids \cup Ids({<<Text[type], t, f>> : f \in Range(slots)}, New)
        /\ errs' = (errs \/ IsRepeated(slots)
                    \/ \E key \in {<<Text[type], t, f>> : f \in Range(slots)} : Taken(key))
        /\ traits' = traits \cup {[trait |-> g, type |-> type, by |-> New]}
    BY <1>2, <1>10, Zenon DEF TraitImpl
  <2>2. Adds(d, keys)
    <3>1. ids' = ids \cup Ids(keys, New)
      BY <1>3, <1>10, <2>1
    <3>2. QED  BY <1>5, <1>7, <1>9, <3>1 DEF Adds, WalkGoesOn
  <2>3. KeysOf(d, keys)
    <3>1. ASSUME NEW key \in keys
          PROVE  d.kind = "impl" /\ Len(key) = 3
      <4>1. PICK f : key = <<Text[type], t, f>>
        BY <1>3, <1>10, <3>1
      <4>2. QED  BY <1>5, <4>1
    <3>2. QED  BY <3>1 DEF KeysOf
  <2>4. g \in 1 .. N /\ prog[g].kind = "trait"
    BY <1>1, <1>2, <1>4, <1>10, GetsTrait DEF IsImpl
  <2>5. TraitsOK'
    <3>1. /\ Len(d.slots) = Len(prog[g].slots)
          /\ Range(prog[g].slots) \subseteq Range(d.slots)
          /\ ~ \E i \in traits : i.trait = g /\ i.type = type
      BY <1>2, <1>5, <1>10 DEF IsImpl
    <3>2. traits' = traits \cup {[trait |-> g, type |-> type, by |-> k]}
      BY <1>4, <2>1
    <3>3. QED  BY <1>1, <1>3, <1>5, <2>2, <2>4, <3>1, <3>2, AddsImpl
  <2>6. prog'[k] = d
    BY <1>1, <1>3, <2>2, AddsOne
  <2>7. Entered(k)'
    <3>1. \E i \in traits' : i.by = k
      <4>1. PICK i : i = [trait |-> g, type |-> type, by |-> New]
        OBVIOUS
      <4>2. i \in traits' /\ i.by = k
        BY <1>4, <2>1, <4>1
      <4>3. QED  BY <4>2
    <3>2. QED  BY <1>5, <2>6, <3>1 DEF Entered
  <2>8. QED  BY <1>3, <1>6, <2>1, <2>2, <2>3, <2>5, <2>7, AddsFinding
<1>11. CASE ~ IsImpl(t, type, fs)
  <2>1. errs' = TRUE /\ ids' = ids /\ traits' = traits
    BY <1>11 DEF TraitImpl
  <2>2. keys = {} /\ Ids(keys, New) = {}
    BY <1>3, <1>11 DEF Ids
  <2>3. Adds(d, keys) /\ KeysOf(d, keys)
    BY <1>5, <1>7, <1>9, <2>1, <2>2 DEF Adds, WalkGoesOn, KeysOf
  <2>4. TraitsOK'
    BY <1>1, <2>1, <2>3, AddsTraits
  <2>5. QED  BY <1>3, <1>6, <2>1, <2>3, <2>4, AddsFinding
<1>12. QED  BY <1>10, <1>11

-----------------------------------------------------------------------------
(* The body of a function ends, with what it uses. *)

\* A step that ends the body of b, the innermost function around.
Ends(use, b) ==
    /\ scope # <<>> /\ b = scope[Len(scope)]
    /\ prog' = [prog EXCEPT ![b] = [@ EXCEPT !.use = use]]
    /\ scope' = Front(scope)
    /\ walk' = Append(walk, Meets(b))
    /\ ids' = ids /\ traits' = traits

\* The declarations stay what they are, but for what b uses.
LEMMA EndsFields ==
    ASSUME ProgOK, ScopeOK, WalkOK, NEW use, NEW b, Ends(use, b)
    PROVE  /\ N' = N /\ IsSeq(prog') /\ b \in NB + 1 .. N /\ prog[b].kind = "fn"
           /\ \A k \in 1 .. N :
                /\ prog'[k].kind = prog[k].kind /\ prog'[k].name = prog[k].name
                /\ prog'[k].type = prog[k].type /\ prog'[k].slots = prog[k].slots
                /\ prog'[k].path = prog[k].path /\ DOMAIN prog'[k] = Fields
                /\ prog'[k].use = IF k = b THEN use ELSE prog[k].use
<1>1. /\ N \in Nat /\ NB \in Nat /\ DOMAIN prog = 1 .. N
      /\ Len(scope) \in Nat /\ (scope = <<>> <=> Len(scope) = 0)
    BY Sizes
<1>2. b \in NB + 1 .. N /\ prog[b].kind = "fn"
    BY <1>1 DEF Ends, ScopeOK
<1>3. PICK P, n : P = prog' /\ n = N
    OBVIOUS
<1>4. P = [prog EXCEPT ![b] = [@ EXCEPT !.use = use]]
    BY <1>3 DEF Ends
<1>5. P = [i \in 1 .. n |-> P[i]] /\ n \in Nat
  <2>1. IsSeq(prog)
    BY DEF ProgOK
  <2>2. prog = [i \in 1 .. n |-> prog[i]]
    BY <1>1, <1>3, <2>1 DEF IsSeq
  <2>3. QED  BY <1>1, <1>3, <1>4, <2>2
<1>6. IsSeq(P) /\ Len(P) = n
    BY <1>5, FunctionShape
<1>7. ASSUME NEW k \in 1 .. N
      PROVE  /\ P[k].kind = prog[k].kind /\ P[k].name = prog[k].name
             /\ P[k].type = prog[k].type /\ P[k].slots = prog[k].slots
             /\ P[k].path = prog[k].path /\ DOMAIN P[k] = Fields
             /\ P[k].use = IF k = b THEN use ELSE prog[k].use
  <2>1. DOMAIN prog[k] = Fields
    BY DEF ProgOK, DeclShape
  <2>2. CASE k = b
    <3>1. P[k] = [prog[k] EXCEPT !.use = use]
      BY <1>1, <1>4, <2>2
    <3>2. QED  BY <2>1, <2>2, <3>1 DEF Fields
  <2>3. CASE k # b
    BY <1>1, <1>4, <2>1, <2>3
  <2>4. QED  BY <2>2, <2>3
<1>8. N' = N
    BY <1>3, <1>6 DEF N
<1>9. QED  BY <1>2, <1>3, <1>6, <1>7, <1>8

\* The declarations and the functions around.
LEMMA EndsProg ==
    ASSUME ProgOK, ScopeOK, WalkOK, NEW use, NEW b, Ends(use, b), use.what \in Uses
    PROVE  ProgOK' /\ ScopeOK'
<1>1. /\ N' = N /\ IsSeq(prog') /\ b \in NB + 1 .. N /\ prog[b].kind = "fn"
      /\ \A k \in 1 .. N :
           /\ prog'[k].kind = prog[k].kind /\ prog'[k].name = prog[k].name
           /\ prog'[k].type = prog[k].type /\ prog'[k].slots = prog[k].slots
           /\ prog'[k].path = prog[k].path /\ DOMAIN prog'[k] = Fields
           /\ prog'[k].use = IF k = b THEN use ELSE prog[k].use
    BY EndsFields
<1>2. PICK m : m = Len(scope)
    OBVIOUS
<1>3. N \in Nat /\ NB \in Nat /\ NB <= N /\ NB' = NB /\ m \in Nat /\ m # 0
    BY <1>2, Sizes DEF ProgOK, NB, Ends
<1>4. \A k \in 1 .. N : DeclShape(prog'[k])
  <2>1. TAKE k \in 1 .. N
  <2>2. DeclShape(prog[k])
    BY DEF ProgOK
  <2>3. prog'[k].use.what \in Uses
    BY <1>1, <2>2 DEF DeclShape
  <2>4. QED  BY <1>1, <2>2, <2>3 DEF DeclShape
<1>5. ASSUME NEW k \in 1 .. N PROVE PathOK(k)'
  <2>1. PathOK(k)
    BY DEF ProgOK
  <2>2. QED  BY <1>1, <2>1 DEF PathOK
<1>6. ASSUME NEW k \in 1 .. NB
      PROVE  /\ prog'[k].kind = "fn" /\ prog'[k].name = Builtins[k]
             /\ prog'[k].path = <<>> /\ prog'[k].use = NoUse
  <2>1. k \in 1 .. N /\ k # b
    BY <1>1, <1>3
  <2>2. QED  BY <1>1, <2>1 DEF ProgOK
<1>7. ProgOK'
    BY <1>1, <1>3, <1>4, <1>5, <1>6 DEF ProgOK
<1>8. PICK s : s = scope'
    OBVIOUS
<1>9. /\ IsSeq(s) /\ Len(s) = m - 1
      /\ \A i \in 1 .. m - 1 : s[i] = scope[i]
  <2>1. s = Front(scope) /\ IsSeq(scope) /\ Len(scope) # 0
    BY <1>2, <1>3, <1>8 DEF Ends, ScopeOK
  <2>2. QED  BY <1>2, <2>1, FrontShape
<1>10. \A i \in 1 .. m - 1 : i \in 1 .. m
    BY <1>3
<1>11. ASSUME NEW i \in 1 .. m - 1
       PROVE  /\ s[i] \in NB + 1 .. N /\ s[i] \in 1 .. N /\ prog[s[i]].kind = "fn"
              /\ \A v \in 1 .. N : prog[v].kind = "var" => v < s[i]
              /\ \A j \in 1 .. m - 1 : i < j => s[i] < s[j]
  <2>1. scope[i] \in NB + 1 .. N /\ scope[i] \in 1 .. N
    BY <1>2, <1>3, <1>10 DEF ScopeOK
  <2>2. QED  BY <1>2, <1>9, <1>10, <2>1 DEF ScopeOK
<1>12. \A i \in 1 .. m - 1 : prog'[s[i]].kind = "fn"
    BY <1>1, <1>11
<1>13. \A v \in 1 .. N' : prog'[v].kind = "var" => prog[v].kind = "var" /\ v \in 1 .. N
    BY <1>1
<1>14. ScopeOK'
    BY <1>1, <1>3, <1>8, <1>9, <1>11, <1>12, <1>13 DEF ScopeOK
<1>15. QED  BY <1>7, <1>14

\* The walk meets b last.
LEMMA EndsWalk ==
    ASSUME ProgOK, ScopeOK, WalkOK, NEW use, NEW b, Ends(use, b)
    PROVE  WalkOK'
<1>1. /\ N' = N /\ b \in NB + 1 .. N
      /\ \A k \in 1 .. N :
           /\ prog'[k].kind = prog[k].kind
           /\ prog'[k].use = IF k = b THEN use ELSE prog[k].use
    BY EndsFields
<1>2. PICK m, r, n : m = Len(walk) /\ r = Len(walk') /\ n = Len(scope)
    OBVIOUS
<1>3. N \in Nat /\ NB \in Nat /\ NB <= N /\ NB' = NB /\ m \in Nat /\ n \in Nat /\ n # 0
    BY <1>2, Sizes DEF ProgOK, NB, Ends
<1>4. /\ IsSeq(walk') /\ r = m + 1 /\ walk'[m + 1] = Meets(b)
      /\ \A p \in 1 .. m : walk'[p] = walk[p]
  <2>1. IsSeq(walk) /\ walk' = Append(walk, Meets(b))
    BY DEF WalkOK, Ends
  <2>2. QED  BY <1>2, <2>1, AppendShape
<1>5. \A p \in 1 .. r : p \in 1 .. m \/ p = m + 1
    BY <1>3, <1>4
<1>6. \A p \in 1 .. m : p \in 1 .. r
    BY <1>3, <1>4
<1>7. \A p \in 1 .. r : \E k \in NB + 1 .. N' : walk'[p] = Opens(k) \/ walk'[p] = Meets(k)
    BY <1>1, <1>2, <1>3, <1>4, <1>5 DEF WalkOK
<1>8. \A p \in 1 .. r : \A k : walk'[p] = Opens(k) => p \in 1 .. m /\ walk[p] = Opens(k)
    BY <1>4, <1>5 DEF Opens, Meets
<1>9. \A p, q \in 1 .. r : \A j, k \in 1 .. N' :
        p < q /\ walk'[p] = Opens(j) /\ walk'[q] = Opens(k) => j < k
    BY <1>1, <1>2, <1>8 DEF WalkOK
<1>10. ASSUME NEW k \in NB + 1 .. N', prog'[k].kind # "struct"
       PROVE  \E p \in 1 .. r : walk'[p] = Opens(k)
  <2>1. k \in 1 .. N /\ prog[k].kind # "struct"
    BY <1>1, <1>3, <1>10
  <2>2. PICK p \in 1 .. m : walk[p] = Opens(k)
    BY <1>1, <1>2, <2>1 DEF WalkOK
  <2>3. QED  BY <1>4, <1>6, <2>2
<1>11. ASSUME NEW k \in 1 .. N', prog'[k].use # NoUse
       PROVE  \E p \in 1 .. r : walk'[p] = Meets(k)
  <2>1. CASE k = b
    <3>1. m + 1 \in 1 .. r
      BY <1>3, <1>4
    <3>2. QED  BY <1>4, <2>1, <3>1
  <2>2. CASE k # b
    <3>1. PICK p \in 1 .. m : walk[p] = Meets(k)
      BY <1>1, <1>2, <1>11, <2>2 DEF WalkOK
    <3>2. QED  BY <1>4, <1>6, <3>1
  <2>3. QED  BY <2>1, <2>2
<1>12. PICK s : s = scope'
    OBVIOUS
<1>13. Len(s) = n - 1 /\ \A i \in 1 .. n - 1 : s[i] = scope[i]
  <2>1. s = Front(scope) /\ IsSeq(scope) /\ Len(scope) # 0
    BY <1>2, <1>3, <1>12 DEF Ends, ScopeOK
  <2>2. QED  BY <1>2, <2>1, FrontShape
<1>14. ASSUME NEW i \in 1 .. n - 1, NEW p \in 1 .. r
       PROVE  walk'[p] # Meets(s[i])
  <2>1. i \in 1 .. n /\ n \in 1 .. n /\ i < n
    BY <1>3
  <2>2. CASE p \in 1 .. m
    BY <1>2, <1>4, <1>13, <2>1, <2>2 DEF WalkOK
  <2>3. CASE p = m + 1
    <3>1. scope[i] < b /\ scope[i] \in NB + 1 .. N
      BY <1>2, <2>1 DEF ScopeOK, Ends
    <3>2. scope[i] # b
      BY <1>1, <1>3, <3>1
    <3>3. QED  BY <1>4, <1>13, <2>3, <3>2 DEF Meets
  <2>4. QED  BY <1>5, <2>2, <2>3
<1>15. QED  BY <1>2, <1>4, <1>7, <1>9, <1>10, <1>11, <1>12, <1>13, <1>14 DEF WalkOK

\* The tables do not change.
LEMMA EndsTables ==
    ASSUME ProgOK, ScopeOK, WalkOK, IdsOK, TraitsOK, NEW use, NEW b, Ends(use, b)
    PROVE  IdsOK' /\ TraitsOK'
<1>1. /\ N' = N
      /\ \A k \in 1 .. N :
           /\ prog'[k].kind = prog[k].kind /\ prog'[k].name = prog[k].name
           /\ prog'[k].type = prog[k].type /\ prog'[k].slots = prog[k].slots
           /\ prog'[k].path = prog[k].path
    BY EndsFields
<1>2. ids' = ids /\ traits' = traits
    BY DEF Ends
<1>3. ASSUME NEW e \in ids
      PROVE  /\ e.of \in 1 .. N'
             /\ e.block = Innermost(prog'[e.of].path)
             /\ IsKeyOf(e.key, e.of)'
  <2>1. e.of \in 1 .. N /\ e.block = Innermost(prog[e.of].path) /\ IsKeyOf(e.key, e.of)
    BY DEF IdsOK
  <2>2. QED  BY <1>1, <2>1 DEF IsKeyOf
<1>4. IdsOK'
    BY <1>2, <1>3 DEF IdsOK
<1>5. ASSUME NEW i \in traits
      PROVE  /\ i.by \in 1 .. N' /\ prog'[i.by].kind = "impl" /\ prog'[i.by].type = i.type
             /\ i.trait \in 1 .. N' /\ prog'[i.trait].kind = "trait"
             /\ Len(prog'[i.by].slots) = Len(prog'[i.trait].slots)
             /\ Range(prog'[i.trait].slots) \subseteq Range(prog'[i.by].slots)
  <2>1. /\ i.by \in 1 .. N /\ prog[i.by].kind = "impl" /\ prog[i.by].type = i.type
        /\ i.trait \in 1 .. N /\ prog[i.trait].kind = "trait"
        /\ Len(prog[i.by].slots) = Len(prog[i.trait].slots)
        /\ Range(prog[i.trait].slots) \subseteq Range(prog[i.by].slots)
    BY DEF TraitsOK
  <2>2. prog'[i.by].slots = prog[i.by].slots /\ prog'[i.trait].slots = prog[i.trait].slots
    BY <1>1, <2>1
  <2>3. /\ Len(prog'[i.by].slots) = Len(prog'[i.trait].slots)
        /\ Range(prog'[i.trait].slots) \subseteq Range(prog'[i.by].slots)
    BY <2>1, <2>2
  <2>4. /\ i.by \in 1 .. N' /\ prog'[i.by].kind = "impl" /\ prog'[i.by].type = i.type
        /\ i.trait \in 1 .. N' /\ prog'[i.trait].kind = "trait"
    BY <1>1, <2>1
  <2>5. QED  BY <2>3, <2>4
<1>6. TraitsOK'
    BY <1>2, <1>5 DEF TraitsOK
<1>7. QED  BY <1>4, <1>6

\* What b uses is found from it, and what others use from them.
LEMMA EndsUses ==
    ASSUME ProgOK, ScopeOK, WalkOK, UsesOK, NEW use, NEW b, Ends(use, b), Finds(use)
    PROVE  UsesOK'
<1>1. /\ N' = N /\ b \in NB + 1 .. N /\ prog[b].kind = "fn"
      /\ \A k \in 1 .. N :
           /\ prog'[k].kind = prog[k].kind /\ prog'[k].name = prog[k].name
           /\ prog'[k].path = prog[k].path
           /\ prog'[k].use = IF k = b THEN use ELSE prog[k].use
    BY EndsFields
<1>2. ids' = ids /\ traits' = traits
    BY DEF Ends
<1>3. N \in Nat /\ NB \in Nat /\ b \in 1 .. N
    BY <1>1, Sizes
<1>4. ASSUME NEW k \in 1 .. N, NEW u, IsUse(u, k)
      PROVE  IsUse(u, k)'
  <2>1. NameFound(u, k) => NameFound(u, k)'
    BY <1>1, <1>2 DEF NameFound
  <2>2. TraitFound(u) => TraitFound(u)'
    BY <1>2 DEF TraitFound
  <2>3. u.of \in 1 .. N /\ MethodFound(u) => MethodFound(u)'
    BY <1>1 DEF MethodFound
  <2>4. u.of \in 0 .. N /\ (u.of # 0 => u.of \in 1 .. N)
    BY <1>3, <1>4 DEF IsUse
  <2>5. QED  BY <1>1, <1>4, <2>1, <2>2, <2>3, <2>4 DEF IsUse
<1>5. UseShape(use) /\ IsUse(use, b)
  <2>1. use.what = "name" /\ use.of # 0 => NameFound(use, b)
    <3>1. Innermost(scope) = b
      BY DEF Ends, Innermost, Last
    <3>2. QED  BY <3>1 DEF Finds, NameFound
  <2>2. prog[b].kind # "var"
    BY <1>1
  <2>3. QED  BY <2>1, <2>2 DEF Finds, IsUse
<1>6. ASSUME NEW k \in 1 .. N, NEW u, u = prog'[k].use
      PROVE  UseShape(u) /\ IsUse(u, k)'
  <2>1. CASE k = b
    BY <1>1, <1>3, <1>4, <1>5, <1>6, <2>1
  <2>2. CASE k # b
    <3>1. u = prog[k].use
      BY <1>1, <1>6, <2>2
    <3>2. UseShape(u) /\ IsUse(u, k)
      BY <3>1 DEF UsesOK
    <3>3. QED  BY <1>4, <3>2
  <2>3. QED  BY <2>1, <2>2
<1>7. QED  BY <1>1, <1>6 DEF UsesOK

\* No variable comes after b: functions hold none.
LEMMA EndsOrder ==
    ASSUME ProgOK, ScopeOK, WalkOK, UsesOK, OrderOK, NEW use, NEW b, Ends(use, b), Finds(use)
    PROVE  OrderOK'
<1>1. /\ N' = N /\ b \in NB + 1 .. N
      /\ \A k \in 1 .. N :
           /\ prog'[k].kind = prog[k].kind
           /\ prog'[k].use = IF k = b THEN use ELSE prog[k].use
    BY EndsFields
<1>2. PICK m, r, n : m = Len(walk) /\ r = Len(walk') /\ n = Len(scope)
    OBVIOUS
<1>3. N \in Nat /\ NB \in Nat /\ NB <= N /\ m \in Nat /\ n \in 1 .. n
    BY <1>2, Sizes DEF ProgOK, NB, Ends
<1>4. /\ r = m + 1 /\ walk'[m + 1] = Meets(b)
      /\ \A p \in 1 .. m : walk'[p] = walk[p]
  <2>1. IsSeq(walk) /\ walk' = Append(walk, Meets(b))
    BY DEF WalkOK, Ends
  <2>2. QED  BY <1>2, <2>1, AppendShape
<1>5. \A t, k \in 1 .. N : Precedes(t, k) => Precedes(t, k)'
    BY <1>1 DEF Precedes
<1>6. ASSUME NEW p \in 1 .. m + 1, NEW t \in 1 .. N
      PROVE  IsOpen(t, p)' <=> IsOpen(t, p)
  <2>1. \A q \in 1 .. p - 1 : walk'[q] = walk[q]
    BY <1>3, <1>4
  <2>2. QED  BY <2>1 DEF IsOpen, NB
<1>7. ASSUME NEW p \in 1 .. m, NEW k \in 1 .. N, walk'[p] = Meets(k), NEW t \in 1 .. N
      PROVE  /\ prog'[k].use.of = t => IsOpen(t, p)'
             /\ IsOpen(t, p)' => Precedes(t, k)'
  <2>1. walk[p] = Meets(k) /\ p \in 1 .. m + 1
    BY <1>3, <1>4, <1>7
  <2>2. k # b
    BY <1>2, <1>3, <2>1 DEF WalkOK, Ends
  <2>3. /\ prog[k].use.of = t => IsOpen(t, p)
        /\ IsOpen(t, p) => Precedes(t, k)
    BY <1>2, <2>1 DEF OrderOK
  <2>4. QED  BY <1>1, <1>5, <1>6, <2>1, <2>2, <2>3
<1>8. ASSUME NEW t \in 1 .. N
      PROVE  /\ use.of = t => IsOpen(t, m + 1)
             /\ Precedes(t, b)
  <2>1. ASSUME use.of = t
        PROVE  IsOpen(t, m + 1)
    <3>1. prog[t].kind # "struct" /\ (t \in 1 .. NB \/ t \in NB + 1 .. N)
      BY <1>3, <2>1 DEF Finds
    <3>2. CASE t \in NB + 1 .. N
      <4>1. PICK q \in 1 .. m : walk[q] = Opens(t)
        BY <1>2, <3>1, <3>2 DEF WalkOK
      <4>2. q \in 1 .. (m + 1) - 1
        BY <1>3
      <4>3. QED  BY <4>1, <4>2 DEF IsOpen
    <3>3. QED  BY <3>1, <3>2 DEF IsOpen
  <2>2. \A v \in 1 .. N : prog[v].kind = "var" => v < b
    BY <1>2, <1>3 DEF ScopeOK, Ends
  <2>3. \A v \in 1 .. N : v < b => v <= b
    BY <1>1, <1>3
  <2>4. QED  BY <2>1, <2>2, <2>3 DEF Precedes
<1>9. ASSUME NEW p \in 1 .. r, NEW k \in 1 .. N, walk'[p] = Meets(k), NEW t \in 1 .. N
      PROVE  /\ prog'[k].use.of = t => IsOpen(t, p)'
             /\ IsOpen(t, p)' => Precedes(t, k)'
  <2>1. p \in 1 .. m \/ p = m + 1
    BY <1>3, <1>4
  <2>2. CASE p = m + 1
    <3>1. k = b /\ p \in 1 .. m + 1
      BY <1>3, <1>4, <1>9, <2>2 DEF Meets
    <3>2. prog'[k].use = use
      BY <1>1, <3>1
    <3>3. QED  BY <1>5, <1>6, <1>8, <2>2, <3>1, <3>2
  <2>3. QED  BY <1>7, <1>9, <2>1, <2>2
<1>10. QED  BY <1>1, <1>2, <1>9 DEF OrderOK

\* The body ends with what it uses.
LEMMA EndBodyKeeps ==
    ASSUME DeclInv, NEW use \in Expressions, EndBody(use)
    PROVE  DeclInv'
<1>1. /\ ProgOK /\ ScopeOK /\ WalkOK /\ IdsOK /\ TraitsOK
      /\ AllEntered /\ UsesOK /\ OrderOK
    BY DEF DeclInv
<1>2. PICK b : b = scope[Len(scope)]
    OBVIOUS
<1>3. Ends(use, b) /\ errs' = (errs \/ IsError(use))
    BY <1>2 DEF EndBody, Ends, Last
<1>4. Finds(use)
    BY <1>1, ExpressionsFind
<1>5. ProgOK' /\ ScopeOK' /\ WalkOK' /\ IdsOK' /\ TraitsOK' /\ UsesOK' /\ OrderOK'
  <2>1. use.what \in Uses
    BY <1>4 DEF Finds
  <2>2. ProgOK' /\ ScopeOK'
    BY <1>1, <1>3, <2>1, EndsProg
  <2>3. WalkOK' /\ IdsOK' /\ TraitsOK'
    BY <1>1, <1>3, EndsWalk, EndsTables
  <2>4. UsesOK' /\ OrderOK'
    BY <1>1, <1>3, <1>4, EndsUses, EndsOrder
  <2>5. QED  BY <2>2, <2>3, <2>4
<1>6. /\ N' = N
      /\ \A k \in 1 .. N :
           /\ prog'[k].kind = prog[k].kind /\ prog'[k].slots = prog[k].slots
           /\ prog'[k].use = IF k = b THEN use ELSE prog[k].use
    BY <1>1, <1>3, EndsFields
<1>7. ids' = ids /\ traits' = traits
    BY <1>3 DEF Ends
<1>8. ASSUME ~ errs', NEW k \in 1 .. N
      PROVE  Entered(k)' /\ ~ IsError(prog'[k].use)
  <2>1. ~ errs /\ ~ IsError(use)
    BY <1>3, <1>8
  <2>2. Entered(k) /\ ~ IsError(prog[k].use)
    BY <1>1, <2>1 DEF AllEntered
  <2>3. QED  BY <1>6, <1>7, <2>1, <2>2 DEF Entered
<1>9. AllEntered'
    BY <1>6, <1>8 DEF AllEntered
<1>10. QED  BY <1>5, <1>9 DEF DeclInv

\* A declaration keeps the tables of the checker.
LEMMA DeclareKeeps ==
    ASSUME DeclInv, Declare
    PROVE  DeclInv'
<1>1. CASE \E n \in Names : FuncDecl(n)
    BY <1>1, FuncDeclKeeps
<1>2. CASE \E use \in Expressions : EndBody(use)
    BY <1>2, EndBodyKeeps
<1>3. CASE \E n \in Names, use \in Expressions : VarDecl(n, use)
    BY <1>3, VarDeclKeeps
<1>4. CASE \E t \in Types : StructDecl(t)
    BY <1>4, StructDeclKeeps
<1>5. CASE \E t \in Types, f \in Funs, use \in Expressions : StructImpl(t, f, use)
    BY <1>5, StructImplKeeps
<1>6. CASE \E t \in Traits, fs \in Lists : TraitDecl(t, fs)
    BY <1>6, TraitDeclKeeps
<1>7. CASE \E t \in Traits, type \in Types, fs \in Lists : TraitImpl(t, type, fs)
    BY <1>7, TraitImplKeeps
<1>8. CASE \E n \in Names, typed \in BOOLEAN : VarDeclNoValue(n, typed)
    BY <1>8, VarDeclNoValueKeeps
<1>9. QED  BY <1>1, <1>2, <1>3, <1>4, <1>5, <1>6, <1>7, <1>8 DEF Declare

\* The other steps leave them alone.
LEMMA DeclStays ==
    ASSUME DeclInv, UNCHANGED declared
    PROVE  DeclInv'
<1>1. /\ prog' = prog /\ walk' = walk /\ ids' = ids /\ scope' = scope
      /\ traits' = traits /\ errs' = errs /\ N' = N /\ NB' = NB
    BY DEF declared, N, NB
<1>2. ProgOK' /\ ScopeOK'
    BY <1>1 DEF DeclInv, ProgOK, ScopeOK, PathOK
<1>3. WalkOK'
    BY <1>1 DEF DeclInv, WalkOK
<1>4. IdsOK' /\ TraitsOK'
    BY <1>1 DEF DeclInv, IdsOK, TraitsOK, IsKeyOf
<1>5. AllEntered'
    BY <1>1 DEF DeclInv, AllEntered, Entered
<1>6. UsesOK'
    BY <1>1 DEF DeclInv, UsesOK, IsUse, NameFound, MethodFound, TraitFound
<1>7. OrderOK'
    BY <1>1 DEF DeclInv, OrderOK, IsOpen, Precedes
<1>8. QED  BY <1>2, <1>3, <1>4, <1>5, <1>6, <1>7 DEF DeclInv

\* The empty sequence.
LEMMA NoElements == IsSeq(<<>>) /\ Len(<<>>) = 0 /\ DOMAIN <<>> = {}
<1>1. <<>> \in Seq({})
    OBVIOUS
<1>2. IsSeq(<<>>)
    BY <1>1, SeqIsSeq
<1>3. QED  BY <1>2

\* The builtin functions are declared and have their entries.
LEMMA DeclInit ==
    ASSUME Init
    PROVE  DeclInv
<1>1. /\ scope = <<>> /\ walk = <<>> /\ traits = {} /\ errs = FALSE
      /\ ids = BuiltinIds
      /\ prog = [i \in DOMAIN Builtins |-> Declaration("fn", Builtins[i], "none", <<>>, NoUse)]
    BY DEF Init
<1>2. PICK P, n : P = prog /\ n = NB
    OBVIOUS
<1>3. n \in Nat /\ DOMAIN Builtins = 1 .. n
    BY <1>2, ExtAssumption, LenProperties DEF NB, ExtAssumption
<1>4. \A i \in 1 .. n :
        /\ P[i].kind = "fn" /\ P[i].name = Builtins[i] /\ P[i].type = "none" /\ P[i].slots = <<>>
        /\ P[i].use = NoUse /\ P[i].path = <<>> /\ DOMAIN P[i] = Fields
    BY <1>1, <1>2, <1>3 DEF Declaration, Fields
<1>5. IsSeq(P) /\ Len(P) = n
  <2>1. P = [i \in 1 .. n |-> P[i]]
    BY <1>1, <1>2, <1>3
  <2>2. QED  BY <1>3, <2>1, FunctionShape
<1>6. N = n /\ N = NB
    BY <1>2, <1>5 DEF N
<1>7. IsSeq(<<>>) /\ Len(<<>>) = 0
    BY NoElements
<1>8. NoUse.what = "none" /\ NoUse.of = 0 /\ "none" \in Uses
    BY DEF NoUse, Use, Uses
<1>9. ProgOK
  <2>1. \A k \in 1 .. N : DeclShape(prog[k])
    BY <1>2, <1>4, <1>6, <1>7, <1>8 DEF DeclShape, Kinds
  <2>2. \A k \in 1 .. N : PathOK(k)
    BY <1>2, <1>4, <1>6, <1>7 DEF PathOK
  <2>3. QED  BY <1>2, <1>3, <1>4, <1>5, <1>6, <2>1, <2>2 DEF ProgOK
<1>10. ScopeOK
    BY <1>1, <1>7 DEF ScopeOK
<1>11. WalkOK
    BY <1>1, <1>2, <1>3, <1>4, <1>6, <1>7 DEF WalkOK
<1>12. \A e \in ids : \E i \in 1 .. n : e.of = i /\ e.block = 0 /\ e.key = <<Builtins[i]>>
                                       /\ e = [block |-> 0, key |-> <<Builtins[i]>>, of |-> i]
    BY <1>1, <1>3 DEF BuiltinIds
<1>13. ASSUME NEW i \in 1 .. n
       PROVE  \E e \in ids : e.of = i
  <2>1. PICK e : e = [block |-> 0, key |-> <<Builtins[i]>>, of |-> i]
    OBVIOUS
  <2>2. e \in ids /\ e.of = i
    BY <1>1, <1>3, <2>1 DEF BuiltinIds
  <2>3. QED  BY <2>2
<1>14. IdsOK
  <2>1. ASSUME NEW e \in ids
        PROVE  e.of \in 1 .. N /\ e.block = Innermost(prog[e.of].path) /\ IsKeyOf(e.key, e.of)
    <3>1. PICK i \in 1 .. n : e.of = i /\ e.block = 0 /\ e.key = <<Builtins[i]>>
      BY <1>12
    <3>2. QED  BY <1>2, <1>4, <1>6, <3>1 DEF Innermost, IsKeyOf
  <2>2. ASSUME NEW d \in ids, NEW e \in ids, d.key = e.key
        PROVE  d = e
    <3>1. PICK i \in 1 .. n : d.key = <<Builtins[i]>> /\ d = [block |-> 0, key |-> <<Builtins[i]>>, of |-> i]
      BY <1>12
    <3>2. PICK j \in 1 .. n : e.key = <<Builtins[j]>> /\ e = [block |-> 0, key |-> <<Builtins[j]>>, of |-> j]
      BY <1>12
    <3>3. Builtins[i] = Builtins[j]
      BY <2>2, <3>1, <3>2
    <3>4. i = j
      BY <1>3, <3>3, ExtAssumption DEF ExtAssumption
    <3>5. QED  BY <3>1, <3>2, <3>4
  <2>3. QED  BY <2>1, <2>2 DEF IdsOK
<1>15. TraitsOK
    BY <1>1 DEF TraitsOK
<1>16. AllEntered
    BY <1>2, <1>4, <1>6, <1>8, <1>13 DEF AllEntered, Entered, IsError
<1>17. UsesOK
  <2>1. UseShape(NoUse)
    BY <1>8 DEF UseShape
  <2>2. \A k \in 1 .. N : IsUse(NoUse, k)
    BY <1>2, <1>3, <1>4, <1>6, <1>8 DEF IsUse
  <2>3. QED  BY <1>2, <1>4, <1>6, <2>1, <2>2 DEF UsesOK
<1>18. OrderOK
    BY <1>1, <1>7 DEF OrderOK
<1>19. QED  BY <1>9, <1>10, <1>11, <1>14, <1>15, <1>16, <1>17, <1>18 DEF DeclInv

-----------------------------------------------------------------------------
(* Symbols and tables stand for one declaration. *)

\* What is generated under a symbol, by its kind.
LEMMA SymbolShape ==
    ASSUME NEW k, HasSymbol(k)
    PROVE  \/ /\ prog[k].kind = "method" /\ prog[k].path = <<>>
              /\ SymbolOf(k) = <<"type", prog[k].type, prog[k].name>>
           \/ /\ prog[k].kind \in {"fn", "var"} /\ prog[k].path = <<>>
              /\ SymbolOf(k) = <<prog[k].name>>
           \/ /\ prog[k].kind \in {"fn", "var"} /\ prog[k].path # <<>>
              /\ SymbolOf(k) = <<prog[k].name, k>>
<1>1. CASE prog[k].kind = "method"
    BY <1>1 DEF HasSymbol, IsGenerated, IsKind, SymbolOf, MethodSymbol
<1>2. CASE prog[k].kind \in {"fn", "var"}
    BY <1>2 DEF SymbolOf, Symbol
<1>3. QED  BY <1>1, <1>2 DEF HasSymbol

\* The entry of a declaration at the outside, in a program without an error.
LEMMA OutsideEntry ==
    ASSUME DeclInv, ~ errs, NEW k \in 1 .. N, prog[k].path = <<>>,
           prog[k].kind \in {"fn", "var", "method"}
    PROVE  \E e \in ids : e.of = k /\ e.block = 0 /\ IsKeyOf(e.key, k)
<1>1. Entered(k) /\ IdsOK
    BY DEF DeclInv, AllEntered
<1>2. PICK e \in ids : e.of = k
    BY <1>1 DEF Entered
<1>3. e.block = Innermost(<<>>) /\ IsKeyOf(e.key, k)
    BY <1>1, <1>2 DEF IdsOK
<1>4. QED  BY <1>2, <1>3 DEF Innermost

\* Two declarations have two symbols.
LEMMA SymbolUnique ==
    ASSUME DeclInv, ~ errs, NEW j \in 1 .. N, NEW k \in 1 .. N,
           HasSymbol(j), HasSymbol(k), SymbolOf(j) = SymbolOf(k)
    PROVE  j = k
<1>1. \A d, e \in ids : d.block = e.block /\ d.key = e.key => d = e
    BY DEF DeclInv, IdsOK
<1>2. CASE prog[j].kind = "method" \/ prog[k].kind = "method"
  <2>1. /\ prog[j].kind = "method" /\ prog[k].kind = "method"
        /\ prog[j].path = <<>> /\ prog[k].path = <<>>
        /\ prog[j].type = prog[k].type /\ prog[j].name = prog[k].name
    <3>1. \/ /\ prog[j].kind = "method" /\ prog[j].path = <<>>
             /\ SymbolOf(j) = <<"type", prog[j].type, prog[j].name>>
          \/ prog[j].kind # "method" /\ SymbolOf(j) = <<prog[j].name>>
          \/ prog[j].kind # "method" /\ SymbolOf(j) = <<prog[j].name, j>>
      BY SymbolShape
    <3>2. \/ /\ prog[k].kind = "method" /\ prog[k].path = <<>>
             /\ SymbolOf(k) = <<"type", prog[k].type, prog[k].name>>
          \/ prog[k].kind # "method" /\ SymbolOf(k) = <<prog[k].name>>
          \/ prog[k].kind # "method" /\ SymbolOf(k) = <<prog[k].name, k>>
      BY SymbolShape
    <3>3. prog[j].kind = "method" /\ prog[k].kind = "method"
      <4>1. CASE prog[j].kind = "method"
        <5>1. SymbolOf(j) = <<"type", prog[j].type, prog[j].name>>
          BY <3>1, <4>1
        <5>2. QED  BY <3>2, <4>1, <5>1
      <4>2. CASE prog[k].kind = "method"
        <5>1. SymbolOf(k) = <<"type", prog[k].type, prog[k].name>>
          BY <3>2, <4>2
        <5>2. QED  BY <3>1, <4>2, <5>1
      <4>3. QED  BY <1>2, <4>1, <4>2
    <3>4. <<"type", prog[j].type, prog[j].name>> = <<"type", prog[k].type, prog[k].name>>
      BY <3>1, <3>2, <3>3
    <3>5. QED  BY <3>1, <3>2, <3>3, <3>4
  <2>2. PICK d \in ids : d.of = j /\ d.block = 0 /\ IsKeyOf(d.key, j)
    BY <2>1, OutsideEntry
  <2>3. PICK e \in ids : e.of = k /\ e.block = 0 /\ IsKeyOf(e.key, k)
    BY <2>1, OutsideEntry
  <2>4. d.key = <<Text[prog[j].type], prog[j].name>> /\ e.key = <<Text[prog[k].type], prog[k].name>>
    BY <2>1, <2>2, <2>3 DEF IsKeyOf
  <2>5. d = e
    BY <1>1, <2>1, <2>2, <2>3, <2>4
  <2>6. QED  BY <2>2, <2>3, <2>5
<1>3. CASE prog[j].kind # "method" /\ prog[k].kind # "method"
  <2>1. \/ SymbolOf(j) = <<prog[j].name>> /\ prog[j].path = <<>>
        \/ SymbolOf(j) = <<prog[j].name, j>> /\ prog[j].path # <<>>
    BY <1>3, SymbolShape
  <2>2. \/ SymbolOf(k) = <<prog[k].name>> /\ prog[k].path = <<>>
        \/ SymbolOf(k) = <<prog[k].name, k>> /\ prog[k].path # <<>>
    BY <1>3, SymbolShape
  <2>3. CASE SymbolOf(j) = <<prog[j].name, j>>
    BY <2>2, <2>3
  <2>4. CASE SymbolOf(j) = <<prog[j].name>> /\ prog[j].path = <<>>
    <3>1. SymbolOf(k) = <<prog[k].name>> /\ prog[k].path = <<>> /\ prog[j].name = prog[k].name
      BY <2>2, <2>4
    <3>2. prog[j].kind \in {"fn", "var"} /\ prog[k].kind \in {"fn", "var"}
      BY <1>3 DEF HasSymbol
    <3>3. PICK d \in ids : d.of = j /\ d.block = 0 /\ IsKeyOf(d.key, j)
      BY <2>4, <3>2, OutsideEntry
    <3>4. PICK e \in ids : e.of = k /\ e.block = 0 /\ IsKeyOf(e.key, k)
      BY <3>1, <3>2, OutsideEntry
    <3>5. d.key = <<prog[j].name>> /\ e.key = <<prog[k].name>>
      BY <3>2, <3>3, <3>4 DEF IsKeyOf
    <3>6. d = e
      BY <1>1, <3>1, <3>3, <3>4, <3>5
    <3>7. QED  BY <3>3, <3>4, <3>6
  <2>5. QED  BY <2>1, <2>3, <2>4
<1>4. QED  BY <1>2, <1>3

\* What the table of an implementation is found by.
LEMMA KeyShape ==
    ASSUME DeclInv, ~ errs, NEW k \in 1 .. N, prog[k].kind = "impl"
    PROVE  \E i \in traits : i.by = k /\ TraitOf(k) = i.trait /\ Key(k) = <<i.trait, Text[i.type]>>
<1>1. Entered(k) /\ TraitsOK
    BY DEF DeclInv, AllEntered
<1>2. PICK i \in traits : i.by = k
    BY <1>1 DEF Entered
<1>3. PICK c : c = CHOOSE x \in traits : x.by = k
    OBVIOUS
<1>4. c \in traits /\ c.by = k
    BY <1>2, <1>3
<1>5. c = i
    BY <1>1, <1>2, <1>4 DEF TraitsOK
<1>6. TraitOf(k) = i.trait
    BY <1>3, <1>5 DEF TraitOf
<1>7. prog[k].type = i.type
    BY <1>1, <1>2 DEF TraitsOK
<1>8. QED  BY <1>2, <1>6, <1>7 DEF Key

\* Two implementations at the outside have two keys.
LEMMA KeyUnique ==
    ASSUME DeclInv, ~ errs, NEW j \in 1 .. N, NEW k \in 1 .. N,
           IsTable(j), IsTable(k), Key(j) = Key(k)
    PROVE  j = k
<1>1. prog[j].kind = "impl" /\ prog[k].kind = "impl"
    BY DEF IsTable
<1>2. PICK x \in traits : x.by = j /\ Key(j) = <<x.trait, Text[x.type]>>
    BY <1>1, KeyShape
<1>3. PICK y \in traits : y.by = k /\ Key(k) = <<y.trait, Text[y.type]>>
    BY <1>1, KeyShape
<1>4. x.trait = y.trait /\ Text[x.type] = Text[y.type]
  <2>1. <<x.trait, Text[x.type]>> = <<y.trait, Text[y.type]>>
    BY <1>2, <1>3
  <2>2. QED  BY <2>1
<1>5. TraitsOK /\ ProgOK
    BY DEF DeclInv
<1>6. x.type = prog[j].type /\ y.type = prog[k].type
    BY <1>2, <1>3, <1>5 DEF TraitsOK
<1>7. prog[j].type \in Types \ Inner /\ prog[k].type \in Types \ Inner
    BY <1>5 DEF IsTable, ProgOK, DeclShape
<1>8. x.type = y.type
    BY <1>4, <1>6, <1>7, ExtAssumption DEF ExtAssumption
<1>9. x = y
    BY <1>4, <1>5, <1>8 DEF TraitsOK
<1>10. QED  BY <1>2, <1>3, <1>9

-----------------------------------------------------------------------------
(* The generator. *)

\* Before anything is generated only the builtin functions have symbols.
LEMMA BuiltinsOnly ==
    ASSUME DeclInv, at = 0, Untouched
    PROVE  ModuleOK /\ TablesOK /\ InitsOK /\ MainOK /\ TargetsOK
<1>1. /\ N \in Nat /\ NB \in Nat /\ NB <= N /\ DOMAIN prog = 1 .. N /\ Len(walk) \in Nat
      /\ \A k \in 1 .. NB :
           /\ k \in 1 .. N /\ prog[k].kind = "fn" /\ prog[k].name = Builtins[k] /\ prog[k].path = <<>>
    BY Sizes DEF DeclInv, ProgOK
<1>2. \A k : Done(k) <=> k \in 1 .. NB
    BY <1>1 DEF Done
<1>3. \A k \in 1 .. NB : HasSymbol(k) /\ SymbolOf(k) = <<Builtins[k]>> /\ ~ IsTable(k) /\ prog[k].kind # "var"
    BY <1>1 DEF HasSymbol, IsGenerated, SymbolOf, Symbol, IsTable
<1>4. \A i, j \in 1 .. NB : <<Builtins[i]>> = <<Builtins[j]>> => i = j
  <2>1. TAKE i, j \in 1 .. NB
  <2>2. SUFFICES ASSUME <<Builtins[i]>> = <<Builtins[j]>>
                 PROVE  i = j
    OBVIOUS
  <2>3. Builtins[i] = Builtins[j]
    BY <2>2
  <2>4. DOMAIN Builtins = 1 .. NB
    BY ExtAssumption, LenProperties DEF NB, ExtAssumption
  <2>5. QED  BY <2>3, <2>4, ExtAssumption DEF ExtAssumption
<1>5. PICK M : M = module
    OBVIOUS
<1>6. M = [s \in {<<Builtins[i]>> : i \in 1 .. NB} |-> CHOOSE i \in 1 .. NB : <<Builtins[i]>> = s]
    BY <1>5 DEF Untouched
<1>7. ASSUME NEW k \in 1 .. NB
      PROVE  <<Builtins[k]>> \in DOMAIN M /\ M[<<Builtins[k]>>] = k
  <2>1. <<Builtins[k]>> \in DOMAIN M
    BY <1>6
  <2>2. PICK c : c = CHOOSE i \in 1 .. NB : <<Builtins[i]>> = <<Builtins[k]>>
    OBVIOUS
  <2>3. c \in 1 .. NB /\ <<Builtins[c]>> = <<Builtins[k]>>
    BY <2>2
  <2>4. c = k
    BY <1>4, <2>3
  <2>5. QED  BY <1>6, <2>1, <2>2, <2>4
<1>8. \A s \in DOMAIN M : \E k \in 1 .. NB : s = <<Builtins[k]>>
    BY <1>6
<1>9. ModuleOK
    BY <1>1, <1>2, <1>3, <1>5, <1>7, <1>8 DEF ModuleOK
<1>10. TablesOK
    BY <1>2, <1>3, NoElements DEF TablesOK, Untouched
<1>11. InitsOK
    BY <1>1, <1>2, <1>3, NoElements DEF InitsOK, HasValue, Untouched
<1>12. MainOK
    BY <1>1 DEF MainOK, Untouched
<1>13. TargetsOK
    BY <1>1 DEF TargetsOK
<1>14. QED  BY <1>9, <1>10, <1>11, <1>12, <1>13

\* What is generated so far, also before the first step.
LEMMA SoFar ==
    ASSUME DeclInv, GenInv
    PROVE  ModuleOK /\ TablesOK /\ InitsOK /\ MainOK /\ TargetsOK
    BY BuiltinsOnly DEF GenInv, GenFacts

\* What depends on the declarations alone stays.
LEMMA ShapesStay ==
    ASSUME UNCHANGED declared, NEW k
    PROVE  /\ N' = N /\ NB' = NB
           /\ IsGenerated(k)' <=> IsGenerated(k)
           /\ HasSymbol(k)' <=> HasSymbol(k)
           /\ SymbolOf(k)' = SymbolOf(k)
           /\ IsTable(k)' <=> IsTable(k)
           /\ Key(k)' = Key(k) /\ Table(k)' = Table(k)
<1>1. prog' = prog /\ traits' = traits
    BY DEF declared
<1>2. N' = N /\ NB' = NB
    BY <1>1 DEF N, NB
<1>3. IsGenerated(k)' <=> IsGenerated(k)
    BY <1>1 DEF IsGenerated, IsKind
<1>4. HasSymbol(k)' <=> HasSymbol(k)
    BY <1>1, <1>3 DEF HasSymbol
<1>5. SymbolOf(k)' = SymbolOf(k)
    BY <1>1 DEF SymbolOf, Symbol, MethodSymbol
<1>6. IsTable(k)' <=> IsTable(k)
    BY <1>1 DEF IsTable
<1>7. Key(k)' = Key(k)
    BY <1>1 DEF Key, TraitOf
<1>8. Table(k)' = Table(k)
    BY <1>1 DEF Table, TraitOf, Position
<1>9. QED  BY <1>2, <1>3, <1>4, <1>5, <1>6, <1>7, <1>8

\* A step generates what the walk says next.
GoesOn(k) ==
    /\ UNCHANGED declared /\ at' = at + 1 /\ at \in 0 .. Len(walk) /\ at + 1 \in 1 .. Len(walk)
    /\ ~ errs /\ scope = <<>> /\ ~ failed
    /\ k \in NB + 1 .. N
    /\ \/ /\ walk[at + 1] = Opens(k)
          /\ GenFunction(k) \/ GenVariable(k) \/ GenMethod(k) \/ GenImpl(k) \/ GenNothing(k)
          /\ failed' \in BOOLEAN
       \/ /\ walk[at + 1] = Meets(k)
          /\ failed' = (UsesNow(k) /\ Target(k) = 0)
          /\ UNCHANGED <<module, tables, inits, main_fn>>

\* Each step of the generator is one of these.
LEMMA GenerateGoesOn ==
    ASSUME DeclInv, GenInv, Generate
    PROVE  \E k : GoesOn(k)
<1>1. Len(walk) \in Nat /\ at \in 0 .. Len(walk) + 1 /\ at < Len(walk)
    BY Sizes DEF DeclInv, GenInv, Generate
<1>2. at \in 0 .. Len(walk) /\ at + 1 \in 1 .. Len(walk)
    BY <1>1
<1>3. PICK k \in NB + 1 .. N : walk[at + 1] = Opens(k) \/ walk[at + 1] = Meets(k)
    BY <1>2 DEF DeclInv, WalkOK
<1>4. walk[at + 1][2] = k
    BY <1>3 DEF Opens, Meets
<1>5. /\ UNCHANGED declared /\ at' = at + 1 /\ ~ errs /\ scope = <<>> /\ ~ failed
      /\ \/ /\ walk[at + 1] = Opens(k)
            /\ GenFunction(k) \/ GenVariable(k) \/ GenMethod(k) \/ GenImpl(k) \/ GenNothing(k)
            /\ failed' = (IsKind(k, "impl") /\ IsGenerated(k) /\ ~ IsFilled(k))
         \/ /\ walk[at + 1] = Meets(k)
            /\ failed' = (UsesNow(k) /\ Target(k) = 0)
            /\ UNCHANGED <<module, tables, inits, main_fn>>
    BY <1>4, Zenon DEF Generate, IsProgram
<1>6. (IsKind(k, "impl") /\ IsGenerated(k) /\ ~ IsFilled(k)) \in BOOLEAN
    OBVIOUS
<1>7. QED  BY <1>2, <1>5, <1>6 DEF GoesOn

\* What is opened by the step is generated then, and nothing else.
LEMMA DoneThen ==
    ASSUME DeclInv, NEW k, GoesOn(k), NEW j
    PROVE  Done(j)' <=> Done(j) \/ walk[at + 1] = Opens(j)
<1>1. walk' = walk /\ at' = at + 1 /\ at + 1 \in 1 .. Len(walk) /\ at \in Nat /\ NB' = NB
    BY DEF GoesOn, declared, NB
<1>2. \A q \in 1 .. Len(walk) : q <= at + 1 <=> q <= at \/ q = at + 1
    BY <1>1
<1>3. QED  BY <1>1, <1>2 DEF Done

\* The walk opens declarations in their order.
LEMMA OpensLater ==
    ASSUME DeclInv, NEW k, GoesOn(k), walk[at + 1] = Opens(k), NEW j \in 1 .. N, Done(j)
    PROVE  j < k
<1>1. at + 1 \in 1 .. Len(walk) /\ k \in NB + 1 .. N /\ at \in Nat
    BY DEF GoesOn
<1>2. NB \in Nat /\ N \in Nat /\ Len(walk) \in Nat
    BY Sizes DEF DeclInv
<1>3. CASE j \in 1 .. NB
    BY <1>1, <1>2, <1>3
<1>4. CASE j \notin 1 .. NB
  <2>1. PICK q \in 1 .. Len(walk) : q <= at /\ walk[q] = Opens(j)
    BY <1>4 DEF Done
  <2>2. q < at + 1 /\ k \in 1 .. N
    BY <1>1, <1>2, <2>1
  <2>3. QED  BY <1>1, <2>1, <2>2 DEF DeclInv, WalkOK
<1>5. QED  BY <1>3, <1>4

\* What a step does to the module, by what the declaration is.
LEMMA OpensWhat ==
    ASSUME DeclInv, NEW k, GoesOn(k), walk[at + 1] = Opens(k)
    PROVE  /\ \/ HasSymbol(k) /\ module' = Created(SymbolOf(k), k)
              \/ ~ HasSymbol(k) /\ module' = module
           /\ \/ /\ IsTable(k)
                 /\ tables' = [key \in DOMAIN tables \cup {Key(k)} |->
                                  IF key = Key(k) THEN [by |-> k, funs |-> Table(k)] ELSE tables[key]]
              \/ ~ IsTable(k) /\ tables' = tables
           /\ \/ IsGenerated(k) /\ inits' = Append(inits, k)
              \/ ~ HasValue(k) /\ inits' = inits
           /\ \/ prog[k].kind = "fn" /\ prog[k].name = "main" /\ main_fn' = k
              \/ main_fn' = main_fn
<1>1. k \in DOMAIN prog /\ k \in 1 .. N
  <2>1. k \in NB + 1 .. N
    BY DEF GoesOn
  <2>2. QED  BY <2>1, Sizes DEF DeclInv
<1>2. prog[k].kind = "var" => prog[k].path = <<>>
    BY <1>1 DEF DeclInv, ProgOK, DeclShape
<1>3. GenFunction(k) \/ GenVariable(k) \/ GenMethod(k) \/ GenImpl(k) \/ GenNothing(k)
    BY DEF GoesOn, Opens, Meets
<1>4. CASE GenFunction(k)
    BY <1>1, <1>4 DEF GenFunction, HasSymbol, IsGenerated, IsKind, SymbolOf, IsTable, HasValue
<1>5. CASE GenVariable(k)
    BY <1>1, <1>2, <1>5 DEF GenVariable, HasSymbol, IsGenerated, IsKind, SymbolOf, IsTable, Initialises, HasValue
<1>6. CASE GenMethod(k)
    BY <1>1, <1>6 DEF GenMethod, HasSymbol, IsKind, SymbolOf, IsTable, HasValue
<1>7. CASE GenImpl(k)
    BY <1>1, <1>7 DEF GenImpl, HasSymbol, IsGenerated, IsKind, IsTable, Initialises, HasValue
<1>8. CASE GenNothing(k)
    BY <1>1, <1>2, <1>8 DEF GenNothing, HasSymbol, IsGenerated, IsKind, IsTable, HasValue
<1>9. QED  BY <1>3, <1>4, <1>5, <1>6, <1>7, <1>8

\* What is done stays done, and stays what it is.
LEMMA StepFacts ==
    ASSUME DeclInv, NEW k, GoesOn(k)
    PROVE  /\ N' = N /\ k \in 1 .. N /\ at + 1 \in 1 .. Len(walk) /\ walk' = walk
           /\ ~ errs /\ prog' = prog /\ ids' = ids /\ scope' = scope /\ scope = <<>>
           /\ \A j : Done(j) => Done(j)'
           /\ walk[at + 1] = Opens(k) => Done(k)' /\ ~ Done(k)
           /\ \A j : Done(j)' => Done(j) \/ (walk[at + 1] = Opens(k) /\ j = k)
<1>1. /\ k \in NB + 1 .. N /\ at + 1 \in 1 .. Len(walk) /\ UNCHANGED declared
      /\ ~ errs /\ scope = <<>>
    BY DEF GoesOn
<1>2. N \in Nat /\ NB \in Nat
    BY Sizes DEF DeclInv
<1>3. \A j : Done(j)' <=> Done(j) \/ walk[at + 1] = Opens(j)
    BY DoneThen
<1>4. k \in 1 .. N
    BY <1>1, <1>2
<1>5. walk[at + 1] = Opens(k) => ~ Done(k)
    BY <1>4, OpensLater
<1>6. walk[at + 1] = Opens(k) \/ walk[at + 1] = Meets(k)
    BY DEF GoesOn
<1>7. \A j : walk[at + 1] = Opens(j) => walk[at + 1] = Opens(k) /\ j = k
    BY <1>6 DEF Opens, Meets
<1>8. N' = N /\ walk' = walk /\ prog' = prog /\ ids' = ids /\ scope' = scope
    BY <1>1 DEF declared, N
<1>9. QED  BY <1>1, <1>3, <1>4, <1>5, <1>7, <1>8

\* A symbol stands for one declaration, and for no other later.
LEMMA KeepsModule ==
    ASSUME DeclInv, ModuleOK, NEW k, GoesOn(k)
    PROVE  /\ ModuleOK'
           /\ \A s \in DOMAIN module : s \in DOMAIN module' /\ module'[s] = module[s]
<1>1. /\ N' = N /\ k \in 1 .. N /\ ~ errs
      /\ \A j : Done(j) => Done(j)'
      /\ walk[at + 1] = Opens(k) => Done(k)' /\ ~ Done(k)
      /\ \A j : Done(j)' => Done(j) \/ (walk[at + 1] = Opens(k) /\ j = k)
    BY StepFacts
<1>2. \A j : /\ HasSymbol(j)' <=> HasSymbol(j)
             /\ SymbolOf(j)' = SymbolOf(j)
    BY ShapesStay DEF GoesOn
<1>3. /\ \A s \in DOMAIN module : \E j \in 1 .. N :
           module[s] = j /\ Done(j) /\ HasSymbol(j) /\ s = SymbolOf(j)
      /\ \A j \in 1 .. N : Done(j) /\ HasSymbol(j) =>
           SymbolOf(j) \in DOMAIN module /\ module[SymbolOf(j)] = j
    BY DEF ModuleOK
<1>4. CASE module' = module /\ (walk[at + 1] = Opens(k) => ~ HasSymbol(k))
  <2>1. \A s \in DOMAIN module : \E j \in 1 .. N :
           module[s] = j /\ Done(j)' /\ HasSymbol(j) /\ s = SymbolOf(j)
    BY <1>1, <1>3
  <2>2. \A j \in 1 .. N : Done(j)' /\ HasSymbol(j) =>
           SymbolOf(j) \in DOMAIN module /\ module[SymbolOf(j)] = j
    BY <1>1, <1>3, <1>4
  <2>3. QED  BY <1>1, <1>2, <1>4, <2>1, <2>2 DEF ModuleOK
<1>5. CASE HasSymbol(k) /\ walk[at + 1] = Opens(k) /\ module' = Created(SymbolOf(k), k)
  <2>1. PICK sk : sk = SymbolOf(k)
    OBVIOUS
  <2>2. sk \notin DOMAIN module
    <3>1. SUFFICES ASSUME sk \in DOMAIN module PROVE FALSE
      OBVIOUS
    <3>2. PICK j \in 1 .. N : Done(j) /\ HasSymbol(j) /\ sk = SymbolOf(j)
      BY <1>3, <3>1
    <3>3. j = k
      BY <1>1, <1>5, <2>1, <3>2, SymbolUnique
    <3>4. QED  BY <1>1, <1>5, <3>2, <3>3
  <2>3. PICK M : M = module'
    OBVIOUS
  <2>4. M = [s \in DOMAIN module \cup {sk} |-> IF s = sk THEN k ELSE module[s]]
    BY <1>5, <2>1, <2>2, <2>3 DEF Created
  <2>5. DOMAIN M = DOMAIN module \cup {sk} /\ M[sk] = k /\ \A s \in DOMAIN module : M[s] = module[s]
    BY <2>2, <2>4
  <2>6. \A s \in DOMAIN M : \E j \in 1 .. N :
           M[s] = j /\ Done(j)' /\ HasSymbol(j) /\ s = SymbolOf(j)
    <3>1. TAKE s \in DOMAIN M
    <3>2. CASE s = sk
      BY <1>1, <1>5, <2>1, <2>5, <3>2
    <3>3. CASE s # sk
      <4>1. s \in DOMAIN module
        BY <2>5, <3>1, <3>3
      <4>2. PICK j \in 1 .. N : module[s] = j /\ Done(j) /\ HasSymbol(j) /\ s = SymbolOf(j)
        BY <1>3, <4>1
      <4>3. QED  BY <1>1, <2>5, <4>1, <4>2
    <3>4. QED  BY <3>2, <3>3
  <2>7. \A j \in 1 .. N : Done(j)' /\ HasSymbol(j) =>
           SymbolOf(j) \in DOMAIN M /\ M[SymbolOf(j)] = j
    BY <1>1, <1>3, <2>1, <2>5
  <2>8. QED  BY <1>1, <1>2, <2>3, <2>5, <2>6, <2>7 DEF ModuleOK
<1>6. \/ walk[at + 1] = Opens(k)
      \/ walk[at + 1] = Meets(k) /\ module' = module
    BY DEF GoesOn
<1>7. walk[at + 1] = Meets(k) => walk[at + 1] # Opens(k)
    BY DEF Meets, Opens
<1>8. walk[at + 1] = Opens(k) => \/ HasSymbol(k) /\ module' = Created(SymbolOf(k), k)
                                 \/ ~ HasSymbol(k) /\ module' = module
    BY OpensWhat
<1>9. QED  BY <1>4, <1>5, <1>6, <1>7, <1>8

\* A key stands for one implementation.
LEMMA KeepsTables ==
    ASSUME DeclInv, TablesOK, NEW k, GoesOn(k)
    PROVE  TablesOK'
<1>1. /\ N' = N /\ k \in 1 .. N /\ ~ errs
      /\ \A j : Done(j) => Done(j)'
      /\ walk[at + 1] = Opens(k) => Done(k)' /\ ~ Done(k)
      /\ \A j : Done(j)' => Done(j) \/ (walk[at + 1] = Opens(k) /\ j = k)
    BY StepFacts
<1>2. \A j : /\ IsTable(j)' <=> IsTable(j)
             /\ Key(j)' = Key(j) /\ Table(j)' = Table(j)
    BY ShapesStay DEF GoesOn
<1>3. /\ \A key \in DOMAIN tables : \E j \in 1 .. N :
           /\ tables[key].by = j /\ tables[key].funs = Table(j)
           /\ Done(j) /\ IsTable(j) /\ key = Key(j)
      /\ \A j \in 1 .. N : Done(j) /\ IsTable(j) =>
           Key(j) \in DOMAIN tables /\ tables[Key(j)].by = j
    BY DEF TablesOK
<1>4. CASE tables' = tables /\ (walk[at + 1] = Opens(k) => ~ IsTable(k))
  <2>1. \A key \in DOMAIN tables : \E j \in 1 .. N :
           /\ tables[key].by = j /\ tables[key].funs = Table(j)
           /\ Done(j)' /\ IsTable(j) /\ key = Key(j)
    BY <1>1, <1>3
  <2>2. \A j \in 1 .. N : Done(j)' /\ IsTable(j) =>
           Key(j) \in DOMAIN tables /\ tables[Key(j)].by = j
    BY <1>1, <1>3, <1>4
  <2>3. QED  BY <1>1, <1>2, <1>4, <2>1, <2>2 DEF TablesOK
<1>5. CASE /\ IsTable(k) /\ walk[at + 1] = Opens(k)
           /\ tables' = [key \in DOMAIN tables \cup {Key(k)} |->
                            IF key = Key(k) THEN [by |-> k, funs |-> Table(k)] ELSE tables[key]]
  <2>1. PICK sk, M, new : sk = Key(k) /\ M = tables' /\ new = [by |-> k, funs |-> Table(k)]
    OBVIOUS
  <2>2. new.by = k /\ new.funs = Table(k)
    BY <2>1
  <2>3. M = [key \in DOMAIN tables \cup {sk} |-> IF key = sk THEN new ELSE tables[key]]
    BY <1>5, <2>1
  <2>4. DOMAIN M = DOMAIN tables \cup {sk} /\ M[sk] = new /\ \A key \in DOMAIN tables : key # sk => M[key] = tables[key]
    BY <2>3
  <2>5. \A key \in DOMAIN M : \E j \in 1 .. N :
           /\ M[key].by = j /\ M[key].funs = Table(j)
           /\ Done(j)' /\ IsTable(j) /\ key = Key(j)
    <3>1. TAKE key \in DOMAIN M
    <3>2. CASE key = sk
      BY <1>1, <1>5, <2>1, <2>2, <2>4, <3>2
    <3>3. CASE key # sk
      <4>1. key \in DOMAIN tables /\ M[key] = tables[key]
        BY <2>4, <3>1, <3>3
      <4>2. PICK j \in 1 .. N : /\ tables[key].by = j /\ tables[key].funs = Table(j)
                                /\ Done(j) /\ IsTable(j) /\ key = Key(j)
        BY <1>3, <4>1
      <4>3. QED  BY <1>1, <4>1, <4>2
    <3>4. QED  BY <3>2, <3>3
  <2>6. \A j \in 1 .. N : Done(j)' /\ IsTable(j) => Key(j) \in DOMAIN M /\ M[Key(j)].by = j
    <3>1. TAKE j \in 1 .. N
    <3>2. CASE j = k
      BY <2>1, <2>2, <2>4, <3>2
    <3>3. CASE j # k
      <4>1. SUFFICES ASSUME Done(j)', IsTable(j)
                     PROVE  Key(j) \in DOMAIN M /\ M[Key(j)].by = j
        OBVIOUS
      <4>2. Done(j)
        BY <1>1, <3>3, <4>1
      <4>3. Key(j) # sk
        BY <1>1, <1>5, <2>1, <3>3, <4>1, KeyUnique
      <4>4. QED  BY <1>3, <2>4, <4>1, <4>2, <4>3
    <3>4. QED  BY <3>2, <3>3
  <2>7. QED  BY <1>1, <1>2, <2>1, <2>5, <2>6 DEF TablesOK
<1>6. \/ walk[at + 1] = Opens(k)
      \/ walk[at + 1] = Meets(k) /\ tables' = tables
    BY DEF GoesOn
<1>7. walk[at + 1] = Meets(k) => walk[at + 1] # Opens(k)
    BY DEF Meets, Opens
<1>8. walk[at + 1] = Opens(k) =>
        \/ /\ IsTable(k)
           /\ tables' = [key \in DOMAIN tables \cup {Key(k)} |->
                            IF key = Key(k) THEN [by |-> k, funs |-> Table(k)] ELSE tables[key]]
        \/ ~ IsTable(k) /\ tables' = tables
    BY OpensWhat
<1>9. QED  BY <1>4, <1>5, <1>6, <1>7, <1>8

\* What is initialised is appended in the order of the declarations.
LEMMA KeepsInits ==
    ASSUME DeclInv, InitsOK, MainOK, NEW k, GoesOn(k)
    PROVE  InitsOK' /\ MainOK'
<1>1. /\ N' = N /\ k \in 1 .. N /\ prog' = prog
      /\ \A j : Done(j) => Done(j)'
      /\ walk[at + 1] = Opens(k) => Done(k)' /\ ~ Done(k)
      /\ \A j : Done(j)' => Done(j) \/ (walk[at + 1] = Opens(k) /\ j = k)
    BY StepFacts
<1>2. \A j : (IsGenerated(j)' <=> IsGenerated(j)) /\ (HasValue(j)' <=> HasValue(j))
    BY <1>1, ShapesStay DEF GoesOn, HasValue
<1>3. PICK n, I : n = Len(inits) /\ I = inits'
    OBVIOUS
<1>4. /\ IsSeq(inits) /\ n \in Nat
      /\ \A i \in 1 .. n : \E j \in 1 .. N : inits[i] = j /\ Done(j) /\ IsGenerated(j)
      /\ \A i, j \in 1 .. n : i < j => inits[i] < inits[j]
      /\ \A v \in 1 .. N : Done(v) /\ HasValue(v) => \E i \in 1 .. n : inits[i] = v
    BY <1>3, SeqShape DEF InitsOK
<1>5. ASSUME inits' = inits, walk[at + 1] = Opens(k) => ~ HasValue(k)
      PROVE  InitsOK'
  <2>1. \A i \in 1 .. n : \E j \in 1 .. N : inits[i] = j /\ Done(j)' /\ IsGenerated(j)'
    BY <1>1, <1>2, <1>4
  <2>2. \A v \in 1 .. N : Done(v)' /\ HasValue(v) => Done(v)
    BY <1>1, <1>5
  <2>3. \A v \in 1 .. N : Done(v)' /\ HasValue(v)' => \E i \in 1 .. n : inits[i] = v
    BY <1>1, <1>2, <1>4, <2>2
  <2>4. /\ N' = N /\ inits' = inits /\ Len(inits) = n /\ IsSeq(inits)
        /\ \A i, j \in 1 .. n : i < j => inits[i] < inits[j]
    BY <1>1, <1>3, <1>4, <1>5
  <2>5. QED  BY <2>1, <2>3, <2>4 DEF InitsOK
<1>6. ASSUME inits' = Append(inits, k), IsGenerated(k), walk[at + 1] = Opens(k)
      PROVE  InitsOK'
  <2>1. IsSeq(I) /\ Len(I) = n + 1 /\ I[n + 1] = k /\ \A i \in 1 .. n : I[i] = inits[i]
    BY <1>3, <1>4, <1>6, AppendShape
  <2>2. \A i \in 1 .. n + 1 : i \in 1 .. n \/ i = n + 1
    BY <1>4
  <2>3. \A i \in 1 .. n : i \in 1 .. n + 1
    BY <1>4
  <2>4. ASSUME NEW i \in 1 .. n + 1
        PROVE  \E j \in 1 .. N : I[i] = j /\ Done(j)' /\ IsGenerated(j)'
    <3>1. CASE i \in 1 .. n
      BY <1>1, <1>2, <1>4, <2>1, <3>1
    <3>2. CASE i = n + 1
      BY <1>1, <1>2, <1>6, <2>1, <3>2
    <3>3. QED  BY <2>2, <3>1, <3>2
  <2>5. ASSUME NEW i \in 1 .. n + 1, NEW j \in 1 .. n + 1, i < j
        PROVE  I[i] < I[j]
    <3>1. CASE j \in 1 .. n
      <4>1. i \in 1 .. n
        BY <1>4, <2>5, <3>1
      <4>2. QED  BY <1>4, <2>1, <2>5, <3>1, <4>1
    <3>2. CASE j = n + 1
      <4>1. i \in 1 .. n
        BY <1>4, <2>5, <3>2
      <4>2. inits[i] \in 1 .. N /\ Done(inits[i])
        BY <1>4, <4>1
      <4>3. inits[i] < k
        BY <1>6, <4>2, OpensLater
      <4>4. QED  BY <2>1, <3>2, <4>1, <4>3
    <3>3. QED  BY <2>2, <3>1, <3>2
  <2>6. ASSUME NEW v \in 1 .. N, Done(v)', HasValue(v)
        PROVE  \E i \in 1 .. n + 1 : I[i] = v
    <3>1. CASE v = k
      <4>1. n + 1 \in 1 .. n + 1
        BY <1>4
      <4>2. QED  BY <2>1, <3>1, <4>1
    <3>2. CASE v # k
      <4>1. PICK i \in 1 .. n : inits[i] = v
        BY <1>1, <1>4, <2>6, <3>2
      <4>2. QED  BY <2>1, <2>3, <4>1
    <3>3. QED  BY <3>1, <3>2
  <2>7. \A v \in 1 .. N : Done(v)' /\ HasValue(v)' => \E i \in 1 .. n + 1 : I[i] = v
    BY <1>1, <1>2, <2>6
  <2>8. N' = N /\ inits' = I /\ Len(I) = n + 1 /\ IsSeq(I)
    BY <1>1, <1>3, <2>1
  <2>9. QED  BY <2>4, <2>5, <2>7, <2>8 DEF InitsOK
<1>7. \/ walk[at + 1] = Opens(k)
      \/ walk[at + 1] = Meets(k) /\ inits' = inits /\ main_fn' = main_fn
    BY DEF GoesOn
<1>8. walk[at + 1] = Meets(k) => walk[at + 1] # Opens(k)
    BY DEF Meets, Opens
<1>9. walk[at + 1] = Opens(k) =>
        /\ \/ IsGenerated(k) /\ inits' = Append(inits, k)
           \/ ~ HasValue(k) /\ inits' = inits
        /\ \/ prog[k].kind = "fn" /\ prog[k].name = "main" /\ main_fn' = k
           \/ main_fn' = main_fn
    BY OpensWhat
<1>10. InitsOK'
    BY <1>5, <1>6, <1>7, <1>8, <1>9
<1>11. MainOK'
  <2>1. CASE main_fn' = main_fn
    BY <1>1, <2>1 DEF MainOK
  <2>2. CASE prog[k].kind = "fn" /\ prog[k].name = "main" /\ main_fn' = k /\ walk[at + 1] = Opens(k)
    <3>1. k \in 0 .. N'
      BY <1>1
    <3>2. QED  BY <1>1, <2>2, <3>1 DEF MainOK
  <2>3. QED  BY <1>7, <1>9, <2>1, <2>2
<1>12. QED  BY <1>10, <1>11

-----------------------------------------------------------------------------
(* What the generator finds. *)

\* The symbol a name or a member function is found by.
SymbolUsed(k) ==
    IF prog[k].use.what = "name" THEN Symbol(get_info(prog[k].use.key, Append(prog[k].path, k)))
    ELSE MethodSymbol(prog[k].use.type, prog[k].use.key[2])

\* What a name or a member function leads to is what its symbol stands for.
LEMMA TargetShape ==
    ASSUME NEW k, prog[k].use.what \in {"name", "method"}
    PROVE  Target(k) = IF SymbolUsed(k) \in DOMAIN module THEN module[SymbolUsed(k)] ELSE 0
<1>1. CASE prog[k].use.what = "name"
    BY <1>1 DEF Target, NameTarget, InModule, SymbolUsed
<1>2. CASE prog[k].use.what = "method"
    BY <1>2 DEF Target, MethodTarget, InModule, SymbolUsed
<1>3. QED  BY <1>1, <1>2

\* A name leads to a function or a variable that has a symbol of its own; from
\* an initial value, to what the checker found.
LEMMA NameFinds ==
    ASSUME DeclInv, ~ errs, NEW k \in 1 .. N, prog[k].use.what = "name",
           NEW j, j = get_info(prog[k].use.key, Append(prog[k].path, k))
    PROVE  /\ j \in 1 .. N /\ HasSymbol(j) /\ prog[j].kind # "method"
           /\ prog[k].use.key = <<prog[j].name>>
           /\ prog[k].kind = "var" => j = prog[k].use.of
<1>1. PICK use, path : use = prog[k].use /\ path = prog[k].path
    OBVIOUS
<1>2. /\ ProgOK /\ IdsOK /\ N \in Nat /\ DOMAIN prog = 1 .. N
      /\ DeclShape(prog[k]) /\ UseShape(use) /\ IsUse(use, k) /\ ~ IsError(use)
    BY <1>1, Sizes DEF DeclInv, ProgOK, UsesOK, AllEntered
<1>3. use.of # 0 /\ NameFound(use, k) /\ use.key = <<use.key[1]>>
    BY <1>1, <1>2 DEF IsError, IsUse, UseShape
<1>4. PICK e \in ids : /\ e.key = use.key /\ e.of = use.of
                       /\ e.block \in {0, k} \/ \E i \in 1 .. Len(path) : path[i] = e.block
    BY <1>1, <1>3 DEF NameFound
<1>5. PICK P, n : P = Append(path, k) /\ n = Len(path)
    OBVIOUS
<1>6. /\ IsSeq(path) /\ n \in Nat /\ IsSeq(P) /\ DOMAIN P = 1 .. n + 1
      /\ P[n + 1] = k /\ \A i \in 1 .. n : P[i] = path[i]
  <2>1. IsSeq(path)
    BY <1>1, <1>2 DEF DeclShape
  <2>2. n \in Nat /\ IsSeq(P) /\ Len(P) = n + 1 /\ P[n + 1] = k /\ \A i \in 1 .. n : P[i] = path[i]
    BY <1>5, <2>1, AppendShape, SeqShape
  <2>3. QED  BY <2>1, <2>2, SeqShape
<1>7. \A b : b \in Blocks(P) <=> b = 0 \/ b = k \/ \E i \in 1 .. n : path[i] = b
  <2>1. \A i \in 1 .. n + 1 : i \in 1 .. n \/ i = n + 1
    BY <1>6
  <2>2. n + 1 \in 1 .. n + 1 /\ \A i \in 1 .. n : i \in 1 .. n + 1
    BY <1>6
  <2>3. \A b : b \in Range(P) <=> \E i \in 1 .. n + 1 : P[i] = b
    BY <1>6 DEF Range
  <2>4. QED  BY <1>6, <2>1, <2>2, <2>3 DEF Blocks
<1>8. j = LookUp(use.key, Blocks(P)) /\ e.block \in Blocks(P)
    BY <1>1, <1>4, <1>5, <1>7 DEF get_info
<1>9. PICK d \in ids : d.key = use.key /\ d.of = j /\ d.block \in Blocks(P)
    BY <1>2, <1>4, <1>8, LooksUp
<1>10. j \in 1 .. N /\ IsKeyOf(d.key, j) /\ d.block = Innermost(prog[j].path)
    BY <1>2, <1>9 DEF IdsOK
<1>11. prog[j].kind \in {"fn", "var"} /\ use.key = <<prog[j].name>>
  <2>1. d.key = <<use.key[1]>>
    BY <1>3, <1>9
  <2>2. QED  BY <1>9, <1>10, <2>1 DEF IsKeyOf
<1>12. HasSymbol(j)
  <2>1. prog[j].kind = "var" => prog[j].path = <<>>
    BY <1>2, <1>10 DEF ProgOK, DeclShape
  <2>2. QED  BY <1>2, <1>10, <1>11, <2>1 DEF HasSymbol, IsGenerated, IsKind
<1>13. ASSUME prog[k].kind = "var"
       PROVE  j = use.of
  <2>1. path = <<>> /\ n = 0
    BY <1>1, <1>2, <1>5, <1>13 DEF DeclShape
  <2>2. \A c \in ids : c.block \in Blocks(P) => c.block = 0
    <3>1. TAKE c \in ids
    <3>2. c.of \in 1 .. N /\ c.block = Innermost(prog[c.of].path)
      BY <1>2 DEF IdsOK
    <3>3. c.block = 0 \/ prog[c.block].kind = "fn"
      BY <1>2, <3>2, BlockOf
    <3>4. QED  BY <1>7, <1>13, <2>1, <3>3
  <2>3. d.block = 0 /\ e.block = 0
    BY <1>8, <1>9, <2>2
  <2>4. d = e
    BY <1>2, <1>4, <1>9, <2>3 DEF IdsOK
  <2>5. QED  BY <1>4, <1>9, <2>4
<1>14. QED  BY <1>1, <1>10, <1>11, <1>12, <1>13

\* What is found was generated before.
LEMMA TargetFound ==
    ASSUME DeclInv, ModuleOK, ~ errs, NEW k \in 1 .. N,
           prog[k].use.what \in {"name", "method"}, Target(k) # 0
    PROVE  \E t \in 1 .. N :
             /\ t = Target(k) /\ Done(t) /\ IsGenerated(t)
             /\ prog[k].kind = "var" => t # k
             /\ prog[k].use.what = "name" => prog[k].use.key = <<prog[t].name>>
             /\ prog[k].use.what = "method" => prog[t].kind = "method"
<1>1. PICK s : s = SymbolUsed(k)
    OBVIOUS
<1>2. s \in DOMAIN module /\ Target(k) = module[s]
    BY <1>1, TargetShape
<1>3. PICK t \in 1 .. N : module[s] = t /\ Done(t) /\ HasSymbol(t) /\ s = SymbolOf(t)
    BY <1>2 DEF ModuleOK
<1>4. IsGenerated(t)
    BY <1>3 DEF HasSymbol
<1>5. CASE prog[k].use.what = "name"
  <2>1. PICK j : j = get_info(prog[k].use.key, Append(prog[k].path, k))
    OBVIOUS
  <2>2. /\ j \in 1 .. N /\ HasSymbol(j) /\ prog[j].kind # "method"
        /\ prog[k].use.key = <<prog[j].name>>
        /\ prog[k].kind = "var" => j = prog[k].use.of
    BY <1>5, <2>1, NameFinds
  <2>3. s = SymbolOf(j)
    BY <1>1, <1>5, <2>1, <2>2 DEF SymbolUsed, SymbolOf
  <2>4. t = j
    BY <1>3, <2>2, <2>3, SymbolUnique
  <2>5. prog[k].kind = "var" => t # k
    <3>1. prog[k].kind = "var" => prog[k].use.of < k
      BY DEF DeclInv, UsesOK, IsUse
    <3>2. N \in Nat
      BY Sizes DEF DeclInv
    <3>3. QED  BY <2>2, <2>4, <3>1, <3>2
  <2>6. QED  BY <1>2, <1>3, <1>4, <1>5, <2>2, <2>4, <2>5
<1>6. CASE prog[k].use.what = "method"
  <2>1. s = <<"type", prog[k].use.type, prog[k].use.key[2]>>
    BY <1>1, <1>6 DEF SymbolUsed, MethodSymbol
  <2>2. \/ prog[t].kind = "method"
        \/ SymbolOf(t) = <<prog[t].name>>
        \/ SymbolOf(t) = <<prog[t].name, t>>
    BY <1>3, SymbolShape
  <2>3. prog[t].kind = "method"
    BY <1>3, <2>1, <2>2
  <2>4. QED  BY <1>2, <1>3, <1>4, <1>6, <2>3
<1>7. QED  BY <1>5, <1>6

\* What was found stays found, when the module grows.
LEMMA TargetStays ==
    ASSUME prog' = prog, ids' = ids,
           \A s \in DOMAIN module : s \in DOMAIN module' /\ module'[s] = module[s],
           NEW j, prog[j].use.what \in {"name", "method"}, NEW t, t # 0, t = Target(j)
    PROVE  t = Target(j)'
<1>1. PICK s : s = SymbolUsed(j)
    OBVIOUS
<1>2. s \in DOMAIN module /\ t = module[s]
    BY <1>1, TargetShape
<1>3. s \in DOMAIN module' /\ t = module'[s]
    BY <1>2
<1>4. s = SymbolUsed(j)'
  <2>1. PICK use, path : use = prog[j].use /\ path = Append(prog[j].path, j)
    OBVIOUS
  <2>2. PICK key, g : key = use.key /\ g = get_info(key, path)
    OBVIOUS
  <2>3. g = get_info(key, path)'
    BY <2>2 DEF get_info, LookUp
  <2>4. Symbol(g)' = Symbol(g)
    BY DEF Symbol
  <2>5. s = IF use.what = "name" THEN Symbol(g) ELSE MethodSymbol(use.type, use.key[2])
    BY <1>1, <2>1, <2>2 DEF SymbolUsed
  <2>6. prog'[j].use = use /\ Append(prog'[j].path, j) = path
    BY <2>1
  <2>7. SymbolUsed(j)' = IF use.what = "name" THEN Symbol(g)' ELSE MethodSymbol(use.type, use.key[2])
    BY <2>2, <2>3, <2>6 DEF SymbolUsed, Symbol, MethodSymbol
  <2>8. QED  BY <2>4, <2>5, <2>7
<1>5. Target(j)' = IF SymbolUsed(j)' \in DOMAIN module' THEN module'[SymbolUsed(j)'] ELSE 0
  <2>1. CASE prog[j].use.what = "name"
    BY <2>1 DEF Target, NameTarget, InModule, SymbolUsed
  <2>2. CASE prog[j].use.what = "method"
    BY <2>2 DEF Target, MethodTarget, InModule, SymbolUsed
  <2>3. QED  BY <2>1, <2>2
<1>6. QED  BY <1>3, <1>4, <1>5

\* What was found when a use was generated is found later.
LEMMA KeepsTargets ==
    ASSUME DeclInv, ModuleOK, TargetsOK, NEW k, GoesOn(k)
    PROVE  TargetsOK'
<1>1. /\ N' = N /\ ~ errs /\ at + 1 \in 1 .. Len(walk) /\ walk' = walk
      /\ prog' = prog /\ ids' = ids
    BY StepFacts
<1>2. at' = at + 1 /\ at \in Nat /\ ~ failed /\ Len(walk) \in Nat /\ N \in Nat /\ NB' = NB
    BY Sizes DEF GoesOn, DeclInv, NB
<1>3. \A s \in DOMAIN module : s \in DOMAIN module' /\ module'[s] = module[s]
    BY KeepsModule
<1>4. \A j : IsGenerated(j)' <=> IsGenerated(j)
    BY ShapesStay DEF GoesOn
<1>5. \A j, x, p : IsTarget(x, j, p)' <=> IsTarget(x, j, p)
    BY <1>1, <1>2, <1>4 DEF IsTarget, IsOpen
<1>6. \A j : prog[j].use.what \in {"name", "method"} => \A t : t # 0 /\ t = Target(j) => t = Target(j)'
    BY <1>1, <1>3, TargetStays
<1>7. ASSUME ~ failed', NEW p \in 1 .. Len(walk), p <= at + 1, NEW j \in 1 .. N,
             walk[p] = Meets(j), IsGenerated(j), prog[j].use.what \in {"name", "method"}
      PROVE  \E t \in 1 .. N : t = Target(j)' /\ IsTarget(t, j, p)
  <2>1. CASE p <= at
    <3>1. PICK t \in 1 .. N : t = Target(j) /\ IsTarget(t, j, p)
      BY <1>2, <1>7, <2>1 DEF TargetsOK
    <3>2. QED  BY <1>6, <1>7, <3>1
  <2>2. CASE p = at + 1
    <3>1. j = k /\ failed' = (UsesNow(k) /\ Target(k) = 0)
      BY <1>7, <2>2 DEF GoesOn, Opens, Meets
    <3>2. UsesNow(j)
      BY <1>7 DEF UsesNow, NoUse, Use
    <3>3. Target(j) # 0
      BY <1>7, <3>1, <3>2
    <3>4. PICK t \in 1 .. N :
             /\ t = Target(j) /\ Done(t) /\ IsGenerated(t)
             /\ prog[j].kind = "var" => t # j
             /\ prog[j].use.what = "name" => prog[j].use.key = <<prog[t].name>>
             /\ prog[j].use.what = "method" => prog[t].kind = "method"
      BY <1>1, <1>7, <3>3, TargetFound
    <3>5. IsOpen(t, p)
      <4>1. \A q \in 1 .. Len(walk) : q <= at => q \in 1 .. p - 1
        BY <1>2, <2>2
      <4>2. QED  BY <3>4, <4>1 DEF Done, IsOpen
    <3>6. IsTarget(t, j, p)
      BY <3>4, <3>5 DEF IsTarget
    <3>7. QED  BY <1>6, <1>7, <3>4, <3>6
  <2>3. QED  BY <1>2, <1>7, <2>1, <2>2
<1>8. QED  BY <1>1, <1>2, <1>4, <1>5, <1>7 DEF TargetsOK

\* A step of the generator keeps what is generated.
LEMMA GenerateKeeps ==
    ASSUME DeclInv, GenInv, Generate
    PROVE  GenInv'
<1>1. PICK k : GoesOn(k)
    BY GenerateGoesOn
<1>2. ModuleOK /\ TablesOK /\ InitsOK /\ MainOK /\ TargetsOK
    BY SoFar
<1>3. ModuleOK' /\ TablesOK' /\ InitsOK' /\ MainOK' /\ TargetsOK'
    BY <1>1, <1>2, KeepsModule, KeepsTables, KeepsInits, KeepsTargets
<1>4. ~ errs' /\ scope' = <<>> /\ failed' \in BOOLEAN
    BY <1>1 DEF GoesOn, declared
<1>5. at' \in 0 .. Len(walk') + 1 /\ at' # 0
  <2>1. walk' = walk /\ at' = at + 1 /\ at \in 0 .. Len(walk) /\ Len(walk) \in Nat
    BY <1>1, Sizes DEF GoesOn, declared, DeclInv
  <2>2. QED  BY <2>1
<1>6. QED  BY <1>3, <1>4, <1>5 DEF GenInv, GenFacts

\* What is generated stays, when nothing more is.
LEMMA GenSame ==
    ASSUME DeclInv, UNCHANGED declared, UNCHANGED <<module, tables, inits, main_fn>>,
           at \in Nat, at' = at \/ (at = Len(walk) /\ at' = at + 1), ~ failed' => ~ failed,
           ModuleOK, TablesOK, InitsOK, MainOK, TargetsOK
    PROVE  ModuleOK' /\ TablesOK' /\ InitsOK' /\ MainOK' /\ TargetsOK'
<1>1. /\ prog' = prog /\ walk' = walk /\ ids' = ids /\ traits' = traits /\ N' = N /\ NB' = NB
      /\ module' = module /\ tables' = tables /\ inits' = inits /\ main_fn' = main_fn
    BY DEF declared, N, NB
<1>2. N \in Nat /\ Len(walk) \in Nat
    BY Sizes DEF DeclInv
<1>3. \A q \in 1 .. Len(walk) : q <= at' <=> q <= at
    BY <1>2
<1>4. \A k : Done(k)' <=> Done(k)
    BY <1>1, <1>3 DEF Done
<1>5. \A k : /\ IsGenerated(k)' <=> IsGenerated(k)
             /\ HasSymbol(k)' <=> HasSymbol(k)
             /\ SymbolOf(k)' = SymbolOf(k)
             /\ IsTable(k)' <=> IsTable(k)
             /\ Key(k)' = Key(k) /\ Table(k)' = Table(k)
    BY ShapesStay
<1>6. ModuleOK'
    BY <1>1, <1>4, <1>5 DEF ModuleOK
<1>7. TablesOK'
    BY <1>1, <1>4, <1>5 DEF TablesOK
<1>8. InitsOK'
    BY <1>1, <1>4, <1>5 DEF InitsOK, HasValue
<1>9. MainOK'
    BY <1>1, <1>4, <1>5 DEF MainOK
<1>10. \A j, x, p : IsTarget(x, j, p)' <=> IsTarget(x, j, p)
    BY <1>1, <1>5 DEF IsTarget, IsOpen
<1>11. ASSUME ~ failed', NEW p \in 1 .. Len(walk), p <= at', NEW k \in 1 .. N,
              walk[p] = Meets(k), IsGenerated(k), prog[k].use.what \in {"name", "method"}
       PROVE  \E t \in 1 .. N : t = Target(k)' /\ IsTarget(t, k, p)
  <2>1. PICK t \in 1 .. N : t = Target(k) /\ IsTarget(t, k, p)
    BY <1>3, <1>11 DEF TargetsOK
  <2>2. t # 0
    BY <1>2
  <2>3. t = Target(k)'
    BY <1>1, <1>11, <2>1, <2>2, TargetStays
  <2>4. QED  BY <2>1, <2>3
<1>12. TargetsOK'
    BY <1>1, <1>5, <1>10, <1>11 DEF TargetsOK
<1>13. QED  BY <1>6, <1>7, <1>8, <1>9, <1>12

\* The steps of the program that runs change nothing of it.
LEMMA GenStays ==
    ASSUME DeclInv, GenInv, UNCHANGED declared, UNCHANGED generated
    PROVE  GenInv'
<1>1. /\ walk' = walk /\ scope' = scope /\ errs' = errs /\ NB' = NB
      /\ at' = at /\ module' = module /\ tables' = tables /\ inits' = inits
      /\ main_fn' = main_fn /\ failed' = failed
    BY DEF declared, generated, NB
<1>2. at \in 0 .. Len(walk) + 1 /\ at \in Nat
    BY Sizes DEF DeclInv, GenInv
<1>3. CASE at = 0
    BY <1>1, <1>2, <1>3 DEF GenInv, Untouched
<1>4. CASE at # 0
  <2>1. GenFacts
    BY <1>4 DEF GenInv
  <2>2. ModuleOK' /\ TablesOK' /\ InitsOK' /\ MainOK' /\ TargetsOK'
    BY <1>1, <1>2, <2>1, GenSame DEF GenFacts
  <2>3. QED  BY <1>1, <1>2, <1>4, <2>1, <2>2 DEF GenInv, GenFacts
<1>5. QED  BY <1>3, <1>4

\* Nothing is generated before all is declared.
LEMMA DeclareUntouched ==
    ASSUME DeclInv, GenInv, Declare
    PROVE  GenInv' /\ at = 0 /\ UNCHANGED running
<1>1. at = 0 /\ UNCHANGED generated /\ UNCHANGED running
    BY Zenon DEF Declare, FuncDecl, EndBody, VarDecl, VarDeclNoValue, StructDecl, StructImpl, TraitDecl, TraitImpl, Declares
<1>2. /\ at' = 0 /\ module' = module /\ tables' = tables /\ inits' = inits
      /\ main_fn' = main_fn /\ failed' = failed /\ NB' = NB
    BY <1>1 DEF generated, NB
<1>3. Untouched'
    BY <1>1, <1>2 DEF GenInv, Untouched
<1>4. DeclInv'
    BY DeclareKeeps
<1>5. Len(walk') \in Nat
    BY <1>4, SeqShape DEF DeclInv, WalkOK
<1>6. QED  BY <1>1, <1>2, <1>3, <1>5 DEF GenInv

\* The program starts with all generated.
LEMMA StartGen ==
    ASSUME DeclInv, GenInv, Start
    PROVE  GenInv' /\ UNCHANGED declared /\ GenFacts
<1>1. /\ UNCHANGED declared /\ UNCHANGED <<module, tables, inits, main_fn>>
      /\ at = Len(walk) /\ at' = at + 1 /\ ~ failed /\ ~ errs /\ scope = <<>>
      /\ walk # <<>> /\ failed' \in BOOLEAN
    BY DEF Start, IsProgram
<1>2. at \in Nat /\ at # 0 /\ walk' = walk /\ errs' = errs /\ scope' = scope
    BY <1>1, SeqShape DEF DeclInv, WalkOK, declared
<1>3. GenFacts
    BY <1>2 DEF GenInv
<1>4. ModuleOK' /\ TablesOK' /\ InitsOK' /\ MainOK' /\ TargetsOK'
    BY <1>1, <1>2, <1>3, GenSame DEF GenFacts
<1>5. GenFacts'
    BY <1>1, <1>2, <1>4 DEF GenFacts
<1>6. at' \in 0 .. Len(walk') + 1 /\ at' # 0
    BY <1>1, <1>2
<1>7. QED  BY <1>1, <1>3, <1>5, <1>6 DEF GenInv

\* main_fn is called, too, when nothing is generated any more.
LEMMA MainUsedStays ==
    ASSUME prog' = prog, ids' = ids, module' = module, main_fn' = main_fn, MainUsed
    PROVE  MainUsed'
<1>1. PICK k \in DOMAIN prog : IsCall(k) /\ Target(k) = main_fn
    BY DEF MainUsed
<1>2. PICK t : t = Target(k)
    OBVIOUS
<1>3. t > Len(Builtins) /\ ~ IsKind(t, "var") /\ prog[k].use.what \in {"name", "method"} /\ t = main_fn
    BY <1>1, <1>2 DEF IsCall
<1>4. t # 0
  <2>1. Len(Builtins) \in Nat
    BY ExtAssumption, LenProperties DEF ExtAssumption
  <2>2. QED  BY <1>3, <2>1
<1>5. t = Target(k)'
  <2>1. \A s \in DOMAIN module : s \in DOMAIN module' /\ module'[s] = module[s]
    OBVIOUS
  <2>2. prog[k].use.what \in {"name", "method"}
    BY <1>3
  <2>3. QED  BY <1>2, <1>4, <2>1, <2>2, TargetStays
<1>6. IsKind(t, "var")' <=> IsKind(t, "var")
    BY DEF IsKind
<1>7. IsCall(k)'
  <2>1. Target(k)' > Len(Builtins) /\ prog'[k].use.what \in {"name", "method"}
    BY <1>3, <1>5
  <2>2. ~ IsKind(Target(k), "var")'
    BY <1>3, <1>5, <1>6 DEF IsKind
  <2>3. QED  BY <2>1, <2>2 DEF IsCall
<1>8. QED  BY <1>3, <1>5, <1>7 DEF MainUsed

-----------------------------------------------------------------------------
(* The program runs: what a step puts before the rest. *)

\* The elements of two sequences, one behind the other.
LEMMA ConcatShape ==
    ASSUME NEW a, NEW b, IsSeq(a), IsSeq(b)
    PROVE  /\ IsSeq(a \o b) /\ Len(a \o b) = Len(a) + Len(b)
           /\ \A i \in 1 .. Len(a) : (a \o b)[i] = a[i]
           /\ \A i \in 1 .. Len(a) + Len(b) :
                i > Len(a) => i - Len(a) \in 1 .. Len(b) /\ (a \o b)[i] = b[i - Len(a)]
<1>1. PICK S, m, n : S = Range(a) \cup Range(b) /\ m = Len(a) /\ n = Len(b)
    OBVIOUS
<1>2. a \in Seq(S) /\ b \in Seq(S)
    BY <1>1, SeqMonotonic DEF IsSeq
<1>3. m \in Nat /\ n \in Nat
    BY <1>1, SeqShape
<1>4. /\ a \o b \in Seq(S) /\ Len(a \o b) = m + n
      /\ \A i \in 1 .. m + n : (a \o b)[i] = IF i <= m THEN a[i] ELSE b[i - m]
    BY <1>1, <1>2, ConcatProperties
<1>5. IsSeq(a \o b)
    BY <1>4, SeqIsSeq
<1>6. \A i \in 1 .. m : i \in 1 .. m + n /\ i <= m
    BY <1>3
<1>7. \A i \in 1 .. m + n : i > m => i - m \in 1 .. n /\ ~ (i <= m)
    BY <1>3
<1>8. QED  BY <1>1, <1>4, <1>5, <1>6, <1>7

\* A step that puts does before the rest of the work.
Puts(does) ==
    /\ UNCHANGED declared /\ UNCHANGED generated
    /\ IsSeq(does) /\ work # <<>> /\ work' = does \o Tail(work)

\* The work after the step.
LEMMA PutsShape ==
    ASSUME WorkOK, NEW does, Puts(does)
    PROVE  \E c, n \in Nat :
           /\ c = Len(does) /\ n = Len(work) /\ n # 0 /\ IsSeq(work') /\ Len(work') = c + (n - 1)
           /\ \A i \in 1 .. c : work'[i] = does[i]
           /\ \A i \in 1 .. c + (n - 1) : \/ i \in 1 .. c
                                          \/ /\ i > c /\ (i - c) + 1 \in 1 .. n /\ (i - c) + 1 # 1
                                             /\ work'[i] = work[(i - c) + 1]
<1>1. PICK c, n : c = Len(does) /\ n = Len(work)
    OBVIOUS
<1>2. IsSeq(work) /\ n \in Nat /\ n # 0
    BY <1>1, SeqShape DEF WorkOK, Puts
<1>3. PICK t : t = Tail(work)
    OBVIOUS
<1>4. IsSeq(t) /\ Len(t) = n - 1 /\ \A i \in 1 .. n - 1 : t[i] = work[i + 1]
    BY <1>1, <1>2, <1>3, TailShape
<1>5. PICK w : w = does \o t
    OBVIOUS
<1>6. IsSeq(does) /\ work' = w
    BY <1>3, <1>5 DEF Puts
<1>7. /\ c \in Nat /\ IsSeq(w) /\ Len(w) = c + (n - 1)
      /\ \A i \in 1 .. c : w[i] = does[i]
      /\ \A i \in 1 .. c + (n - 1) : i > c => i - c \in 1 .. n - 1 /\ w[i] = t[i - c]
  <2>1. PICK m : m = Len(t)
    OBVIOUS
  <2>2. IsSeq(t) /\ c \in Nat /\ m = n - 1
    BY <1>1, <1>4, <1>6, <2>1, SeqShape
  <2>3. /\ IsSeq(w) /\ Len(w) = c + m
        /\ \A i \in 1 .. c : w[i] = does[i]
        /\ \A i \in 1 .. c + m : i > c => i - c \in 1 .. m /\ w[i] = t[i - c]
    <3>1. /\ IsSeq(does \o t) /\ Len(does \o t) = Len(does) + Len(t)
          /\ \A i \in 1 .. Len(does) : (does \o t)[i] = does[i]
          /\ \A i \in 1 .. Len(does) + Len(t) :
               i > Len(does) => i - Len(does) \in 1 .. Len(t) /\ (does \o t)[i] = t[i - Len(does)]
      BY <1>6, <2>2, ConcatShape, Zenon
    <3>2. w = does \o t /\ c = Len(does) /\ m = Len(t)
      BY <1>1, <1>5, <2>1
    <3>3. QED  BY <3>1, <3>2, Zenon
  <2>4. QED  BY <2>2, <2>3
<1>8. ASSUME NEW i \in 1 .. c + (n - 1)
      PROVE  \/ i \in 1 .. c
             \/ /\ i > c /\ (i - c) + 1 \in 1 .. n /\ (i - c) + 1 # 1
                /\ w[i] = work[(i - c) + 1]
  <2>1. CASE i > c
    <3>1. i - c \in 1 .. n - 1 /\ w[i] = t[i - c]
      BY <1>7, <2>1
    <3>2. t[i - c] = work[(i - c) + 1]
      BY <1>4, <3>1
    <3>3. (i - c) + 1 \in 1 .. n /\ (i - c) + 1 # 1
      BY <1>2, <1>7, <3>1
    <3>4. QED  BY <2>1, <3>1, <3>2, <3>3
  <2>2. CASE ~ (i > c)
    BY <1>2, <1>7, <2>2
  <2>3. QED  BY <2>1, <2>2
<1>9. c \in Nat
    BY <1>1, <1>6, SeqShape
<1>10. /\ c = Len(does) /\ n = Len(work) /\ n # 0 /\ IsSeq(work') /\ Len(work') = c + (n - 1)
       /\ \A i \in 1 .. c : work'[i] = does[i]
       /\ \A i \in 1 .. c + (n - 1) : \/ i \in 1 .. c
                                      \/ /\ i > c /\ (i - c) + 1 \in 1 .. n /\ (i - c) + 1 # 1
                                         /\ work'[i] = work[(i - c) + 1]
    BY <1>1, <1>2, <1>6, <1>7, <1>8
<1>11. QED  BY <1>2, <1>9, <1>10

\* What is put is work.
DoesWork(does) ==
    \A i \in 1 .. Len(does) : \E w \in WorkKinds : \E k \in 1 .. N :
        /\ does[i] = <<w, k>> /\ IsGenerated(k)
        /\ w \in {"init", "store"} => k \in Range(inits)

\* The value of k is stored by what is put, before the i-th thing.
Brought(k, i, does) == \E j \in 1 .. i - 1 : does[j] = Inits(k) \/ does[j] = Stores(k)

\* What is put reads what has its value, or gets it before; and a value the
\* replaced work would have stored is stored.
DoesRead(does) ==
    /\ \A i \in 1 .. Len(does) : \A x \in 1 .. N :
        does[i] \in {Inits(x), Meets(x), Enters(x)} /\ does[i] # Enters(main_fn) =>
            \A v \in 1 .. N : HasValue(v) /\ v < x => v \in ready' \/ Brought(v, i, does)
    /\ \A k \in 1 .. N : work[1] \in {Inits(k), Stores(k)} =>
            k \in ready' \/ Brought(k, Len(does) + 1, does)

\* What is put stores what is not stored yet, once.
DoesOnce(does) ==
    /\ \A i \in 1 .. Len(does) : does[i] # Enters(main_fn)
    /\ \A k \in 1 .. N : \A i \in 1 .. Len(does) : does[i] \in {Inits(k), Stores(k)} =>
        /\ k \notin ready'
        /\ work[1] \in {Inits(k), Stores(k)} \/ Len(work) = 1
        /\ \A j \in 1 .. Len(does) : does[j] \in {Inits(k), Stores(k)} => i = j
    /\ \A k \in ready' : k \in ready \/ work[1] = Stores(k)

\* What is put and what is left is work.
LEMMA PutsWork ==
    ASSUME WorkOK, NEW does, Puts(does), DoesWork(does)
    PROVE  WorkOK'
<1>1. PICK c, n \in Nat :
        /\ c = Len(does) /\ n = Len(work) /\ n # 0 /\ IsSeq(work') /\ Len(work') = c + (n - 1)
        /\ \A i \in 1 .. c : work'[i] = does[i]
        /\ \A i \in 1 .. c + (n - 1) : \/ i \in 1 .. c
                                       \/ /\ i > c /\ (i - c) + 1 \in 1 .. n /\ (i - c) + 1 # 1
                                          /\ work'[i] = work[(i - c) + 1]
    BY PutsShape, Zenon
<1>2. PICK W : /\ W = work' /\ c = Len(does) /\ n = Len(work) /\ n # 0 /\ IsSeq(W) /\ Len(W) = c + (n - 1)
               /\ c \in Nat /\ n \in Nat
               /\ \A i \in 1 .. c : W[i] = does[i]
               /\ \A i \in 1 .. c + (n - 1) : \/ i \in 1 .. c
                                              \/ /\ i > c /\ (i - c) + 1 \in 1 .. n /\ (i - c) + 1 # 1
                                                 /\ W[i] = work[(i - c) + 1]
    BY <1>1
<1>3. N' = N /\ inits' = inits /\ \A k : IsGenerated(k)' <=> IsGenerated(k)
    BY ShapesStay DEF Puts, generated
<1>4. ASSUME NEW i \in 1 .. c + (n - 1)
      PROVE  \E w \in WorkKinds : \E k \in 1 .. N :
                /\ W[i] = <<w, k>> /\ IsGenerated(k)
                /\ w \in {"init", "store"} => k \in Range(inits)
  <2>1. CASE i \in 1 .. c
    BY <1>2, <2>1 DEF DoesWork
  <2>2. CASE (i - c) + 1 \in 1 .. n /\ W[i] = work[(i - c) + 1]
    BY <1>2, <2>2 DEF WorkOK
  <2>3. QED  BY <1>2, <2>1, <2>2
<1>5. \A i \in 1 .. c + (n - 1) : \E w \in WorkKinds : \E k \in 1 .. N :
                /\ W[i] = <<w, k>> /\ IsGenerated(k)'
                /\ w \in {"init", "store"} => k \in Range(inits)
    BY <1>3, <1>4
<1>6. work' = W /\ Len(W) = c + (n - 1) /\ IsSeq(W) /\ N' = N /\ inits' = inits
    BY <1>2, <1>3
<1>7. QED  BY <1>5, <1>6 DEF WorkOK

\* What is put, and what is left, reads what has its value then.
LEMMA PutsReads ==
    ASSUME WorkOK, ReadsOK, NEW does, Puts(does), DoesRead(does),
           ready \subseteq ready', ~ NestedMain => NoneEarly'
    PROVE  ReadsOK'
<1>1. PICK c, n \in Nat :
        /\ c = Len(does) /\ n = Len(work) /\ n # 0 /\ IsSeq(work') /\ Len(work') = c + (n - 1)
        /\ \A i \in 1 .. c : work'[i] = does[i]
        /\ \A i \in 1 .. c + (n - 1) : \/ i \in 1 .. c
                                       \/ /\ i > c /\ (i - c) + 1 \in 1 .. n /\ (i - c) + 1 # 1
                                          /\ work'[i] = work[(i - c) + 1]
    BY PutsShape, Zenon
<1>2. PICK W : /\ W = work' /\ c = Len(does) /\ n = Len(work) /\ n # 0 /\ IsSeq(W) /\ Len(W) = c + (n - 1)
               /\ c \in Nat /\ n \in Nat
               /\ \A i \in 1 .. c : W[i] = does[i]
               /\ \A i \in 1 .. c + (n - 1) : \/ i \in 1 .. c
                                              \/ /\ i > c /\ (i - c) + 1 \in 1 .. n /\ (i - c) + 1 # 1
                                                 /\ W[i] = work[(i - c) + 1]
    BY <1>1
<1>3. N' = N /\ prog' = prog /\ main_fn' = main_fn /\ (NestedMain' <=> NestedMain)
    BY DEF Puts, generated, declared, N, NestedMain
<1>4. SUFFICES ASSUME ~ NestedMain
               PROVE  ReadsOK'
    BY <1>3 DEF ReadsOK
<1>5. ASSUME NEW i \in 1 .. c, NEW v \in 1 .. N, Brought(v, i, does)
      PROVE  \E j \in 1 .. i - 1 : W[j] = Inits(v) \/ W[j] = Stores(v)
  <2>1. PICK j \in 1 .. i - 1 : does[j] = Inits(v) \/ does[j] = Stores(v)
    BY <1>5 DEF Brought
  <2>2. j \in 1 .. c
    BY <1>2
  <2>3. QED  BY <1>2, <2>1, <2>2
<1>6. ASSUME NEW i \in 1 .. c + (n - 1), i > c, NEW v \in 1 .. N, v \in Stored((i - c) + 1)
      PROVE  v \in ready' \/ \E j \in 1 .. i - 1 : W[j] = Inits(v) \/ W[j] = Stores(v)
  <2>1. PICK j \in 1 .. ((i - c) + 1) - 1 : work[j] = Inits(v) \/ work[j] = Stores(v)
    BY <1>6 DEF Stored
  <2>2. CASE j = 1
    <3>1. v \in ready' \/ Brought(v, c + 1, does)
      BY <1>2, <2>1, <2>2 DEF DoesRead
    <3>2. ASSUME Brought(v, c + 1, does)
          PROVE  \E q \in 1 .. i - 1 : W[q] = Inits(v) \/ W[q] = Stores(v)
      <4>1. PICK q \in 1 .. (c + 1) - 1 : does[q] = Inits(v) \/ does[q] = Stores(v)
        BY <3>2 DEF Brought
      <4>2. q \in 1 .. c /\ q \in 1 .. i - 1
        BY <1>2, <1>6
      <4>3. QED  BY <1>2, <4>1, <4>2
    <3>3. QED  BY <3>1, <3>2
  <2>3. CASE j # 1
    <3>1. PICK q : q = (j - 1) + c
      OBVIOUS
    <3>2. q \in 1 .. i - 1 /\ q \in 1 .. c + (n - 1) /\ q \notin 1 .. c /\ (q - c) + 1 = j
      BY <1>2, <1>6, <2>3, <3>1
    <3>3. W[q] = work[j]
      BY <1>2, <3>2
    <3>4. QED  BY <2>1, <3>2, <3>3
  <2>4. QED  BY <2>2, <2>3
<1>7. ASSUME NEW i \in 1 .. c + (n - 1), NEW x \in 1 .. N,
             W[i] \in {Inits(x), Meets(x), Enters(x)}, W[i] # Enters(main_fn),
             NEW v \in 1 .. N, HasValue(v), v < x
      PROVE  v \in ready' \/ \E j \in 1 .. i - 1 : W[j] = Inits(v) \/ W[j] = Stores(v)
  <2>1. CASE i \in 1 .. c
    <3>1. v \in ready' \/ Brought(v, i, does)
      BY <1>2, <1>7, <2>1 DEF DoesRead
    <3>2. QED  BY <1>5, <2>1, <3>1
  <2>2. CASE i > c /\ (i - c) + 1 \in 1 .. n /\ W[i] = work[(i - c) + 1]
    <3>1. v \in ready \cup Stored((i - c) + 1)
      BY <1>2, <1>4, <1>7, <2>2 DEF ReadsOK
    <3>2. QED  BY <1>6, <2>2, <3>1
  <2>3. QED  BY <1>2, <2>1, <2>2
<1>8. \A i \in 1 .. Len(work') : \A v \in 1 .. N :
        (v \in ready' \/ \E j \in 1 .. i - 1 : work'[j] = Inits(v) \/ work'[j] = Stores(v))
            => v \in ready' \cup Stored(i)'
    BY <1>3 DEF Stored, Inits, Stores
<1>9. ASSUME NEW i \in 1 .. Len(work'), NEW x \in 1 .. N,
             work'[i] \in {Inits(x), Meets(x), Enters(x)}, work'[i] # Enters(main_fn),
             NEW v \in 1 .. N, HasValue(v), v < x
      PROVE  v \in ready' \cup Stored(i)'
    BY <1>2, <1>7, <1>8, <1>9
<1>10. QED  BY <1>3, <1>4, <1>9 DEF ReadsOK, HasValue, Inits, Meets, Enters

\* No value is stored twice by what is put and what is left.
LEMMA PutsOnce ==
    ASSUME WorkOK, OnceOK, NEW does, Puts(does), ~ MainUsed => DoesOnce(does)
    PROVE  OnceOK'
<1>1. PICK c, n \in Nat :
        /\ c = Len(does) /\ n = Len(work) /\ n # 0 /\ IsSeq(work') /\ Len(work') = c + (n - 1)
        /\ \A i \in 1 .. c : work'[i] = does[i]
        /\ \A i \in 1 .. c + (n - 1) : \/ i \in 1 .. c
                                       \/ /\ i > c /\ (i - c) + 1 \in 1 .. n /\ (i - c) + 1 # 1
                                          /\ work'[i] = work[(i - c) + 1]
    BY PutsShape, Zenon
<1>2. PICK W : /\ W = work' /\ c = Len(does) /\ n = Len(work) /\ n # 0 /\ IsSeq(W) /\ Len(W) = c + (n - 1)
               /\ c \in Nat /\ n \in Nat
               /\ \A i \in 1 .. c : W[i] = does[i]
               /\ \A i \in 1 .. c + (n - 1) : \/ i \in 1 .. c
                                              \/ /\ i > c /\ (i - c) + 1 \in 1 .. n /\ (i - c) + 1 # 1
                                                 /\ W[i] = work[(i - c) + 1]
    BY <1>1
<1>3. N' = N /\ main_fn' = main_fn /\ (MainUsed => MainUsed')
    BY MainUsedStays DEF Puts, generated, declared, N
<1>4. SUFFICES ASSUME ~ MainUsed
               PROVE  OnceOK'
    BY <1>3 DEF OnceOK
<1>5. DoesOnce(does)
    BY <1>4
<1>6. /\ \A i \in 1 .. n : work[i] = Enters(main_fn) => n = 1 /\ ready = {}
      /\ \A k \in 1 .. N : \A i, j \in 1 .. n : work[i] \in {Inits(k), Stores(k)} =>
            /\ k \notin ready
            /\ work[j] \in {Inits(k), Stores(k)} => i = j
    BY <1>2, <1>4 DEF OnceOK
<1>7. ASSUME NEW i \in 1 .. c + (n - 1)
      PROVE  W[i] # Enters(main_fn)
  <2>1. CASE i \in 1 .. c
    BY <1>2, <1>5, <2>1 DEF DoesOnce
  <2>2. CASE (i - c) + 1 \in 1 .. n /\ (i - c) + 1 # 1 /\ W[i] = work[(i - c) + 1]
    BY <1>2, <1>6, <2>2
  <2>3. QED  BY <1>2, <2>1, <2>2
<1>8. 1 \in 1 .. n
    BY <1>2
<1>9. ASSUME NEW k \in 1 .. N, NEW i \in 1 .. c + (n - 1), W[i] \in {Inits(k), Stores(k)}
      PROVE  k \notin ready'
  <2>1. CASE i \in 1 .. c
    BY <1>2, <1>5, <1>9, <2>1 DEF DoesOnce
  <2>2. CASE (i - c) + 1 \in 1 .. n /\ (i - c) + 1 # 1 /\ W[i] = work[(i - c) + 1]
    <3>1. k \notin ready /\ work[1] # Stores(k)
      BY <1>6, <1>8, <1>9, <2>2
    <3>2. QED  BY <1>5, <3>1 DEF DoesOnce
  <2>3. QED  BY <1>2, <2>1, <2>2
<1>10. ASSUME NEW k \in 1 .. N, NEW i \in 1 .. c, NEW j \in 1 .. c + (n - 1), j \notin 1 .. c,
              W[i] \in {Inits(k), Stores(k)}, W[j] \in {Inits(k), Stores(k)}
       PROVE  FALSE
  <2>1. (j - c) + 1 \in 1 .. n /\ (j - c) + 1 # 1 /\ W[j] = work[(j - c) + 1]
    BY <1>2, <1>10
  <2>2. n # 1
    BY <2>1
  <2>3. work[1] \in {Inits(k), Stores(k)}
    BY <1>2, <1>5, <1>10, <2>2 DEF DoesOnce
  <2>4. QED  BY <1>6, <1>8, <1>10, <2>1, <2>3
<1>11. ASSUME NEW k \in 1 .. N, NEW i \in 1 .. c + (n - 1), NEW j \in 1 .. c + (n - 1),
              W[i] \in {Inits(k), Stores(k)}, W[j] \in {Inits(k), Stores(k)}
       PROVE  i = j
  <2>1. CASE i \in 1 .. c /\ j \in 1 .. c
    BY <1>2, <1>5, <1>11, <2>1 DEF DoesOnce
  <2>2. CASE i \notin 1 .. c /\ j \notin 1 .. c
    <3>1. /\ (i - c) + 1 \in 1 .. n /\ W[i] = work[(i - c) + 1]
          /\ (j - c) + 1 \in 1 .. n /\ W[j] = work[(j - c) + 1]
      BY <1>2, <2>2
    <3>2. (i - c) + 1 = (j - c) + 1
      BY <1>6, <1>11, <3>1
    <3>3. QED  BY <1>2, <3>2
  <2>3. QED  BY <1>10, <1>11, <2>1, <2>2
<1>12. QED  BY <1>2, <1>3, <1>7, <1>9, <1>11 DEF OnceOK, Inits, Stores, Enters

\* A step of the program that runs.
LEMMA PutsRuns ==
    ASSUME RunInv, NEW does, Puts(does), DoesWork(does), ready \subseteq ready',
           ~ NestedMain => NoneEarly' /\ DoesRead(does),
           ~ MainUsed => DoesOnce(does)
    PROVE  RunInv'
<1>1. NotBegun /\ WorkOK /\ ReadsOK /\ OnceOK
    BY DEF RunInv
<1>2. walk' = walk /\ at' = at /\ failed' = failed /\ work # <<>>
    BY DEF Puts, declared, generated
<1>3. NotBegun'
    BY <1>1, <1>2 DEF NotBegun
<1>4. WorkOK'
    BY <1>1, PutsWork
<1>5. ReadsOK'
  <2>1. CASE NestedMain
    <3>1. NestedMain'
      BY <2>1 DEF Puts, declared, generated, NestedMain
    <3>2. QED  BY <3>1 DEF ReadsOK
  <2>2. CASE ~ NestedMain
    BY <1>1, <2>2, PutsReads
  <2>3. QED  BY <2>1, <2>2
<1>6. OnceOK'
    BY <1>1, PutsOnce
<1>7. QED  BY <1>3, <1>4, <1>5, <1>6 DEF RunInv

-----------------------------------------------------------------------------
(* The steps of the program. *)

\* What is to be done next.
LEMMA NowWork ==
    ASSUME WorkOK, NEW what, NEW does, Runs(what, does)
    PROVE  /\ work # <<>> /\ 1 \in 1 .. Len(work)
           /\ \E x \in 1 .. N :
                /\ x = Now /\ work[1] = <<what, x>> /\ IsGenerated(x)
                /\ what \in {"init", "store"} => x \in Range(inits)
<1>1. work # <<>> /\ work[1][1] = what
    BY DEF Runs
<1>2. 1 \in 1 .. Len(work)
    BY <1>1, SeqShape DEF WorkOK
<1>3. PICK w \in WorkKinds, x \in 1 .. N :
        /\ work[1] = <<w, x>> /\ IsGenerated(x)
        /\ w \in {"init", "store"} => x \in Range(inits)
    BY <1>2 DEF WorkOK
<1>4. w = what /\ Now = x
    BY <1>1, <1>3 DEF Now
<1>5. QED  BY <1>1, <1>2, <1>3, <1>4

\* When something is to be done, all is generated.
LEMMA AllDone ==
    ASSUME DeclInv, GenInv, RunInv, work # <<>>
    PROVE  /\ GenFacts /\ ~ failed /\ at = Len(walk) + 1 /\ N \in Nat /\ NB \in Nat /\ NB <= N
           /\ \A v \in 1 .. N : prog[v].kind = "var" => Done(v)
           /\ \A k \in 1 .. N : prog[k].use # NoUse =>
                \E p \in 1 .. Len(walk) : p <= at /\ walk[p] = Meets(k)
<1>1. ~ (at <= Len(walk)) /\ ~ failed
    BY DEF RunInv, NotBegun
<1>2. N \in Nat /\ NB \in Nat /\ NB <= N /\ Len(walk) \in Nat
    BY Sizes DEF DeclInv, ProgOK
<1>3. at \in 0 .. Len(walk) + 1
    BY DEF GenInv
<1>4. at = Len(walk) + 1
    BY <1>1, <1>2, <1>3
<1>5. GenFacts
    BY <1>2, <1>4 DEF GenInv
<1>6. \A p \in 1 .. Len(walk) : p <= at
    BY <1>2, <1>4
<1>7. ASSUME NEW v \in 1 .. N, prog[v].kind = "var"
      PROVE  Done(v)
  <2>1. \A k \in 1 .. NB : prog[k].kind = "fn"
    BY DEF DeclInv, ProgOK
  <2>2. v \in NB + 1 .. N
    BY <1>2, <1>7, <2>1
  <2>3. PICK p \in 1 .. Len(walk) : walk[p] = Opens(v)
    BY <1>7, <2>2 DEF DeclInv, WalkOK
  <2>4. QED  BY <1>6, <2>3 DEF Done
<1>8. ASSUME NEW k \in 1 .. N, prog[k].use # NoUse
      PROVE  \E p \in 1 .. Len(walk) : p <= at /\ walk[p] = Meets(k)
    BY <1>6, <1>8 DEF DeclInv, WalkOK
<1>9. QED  BY <1>1, <1>2, <1>4, <1>5, <1>7, <1>8

\* What was read too early stays so.
LEMMA NoneEarlyStays ==
    ASSUME ReadsOK, ~ NestedMain, UNCHANGED declared, early' = early
    PROVE  NoneEarly'
    BY DEF ReadsOK, NoneEarly, declared

\* What is done next may read the variables before it.
LEMMA NowReads ==
    ASSUME ReadsOK, ~ NestedMain, 1 \in 1 .. Len(work), NEW x \in 1 .. N,
           work[1] \in {Inits(x), Meets(x), Enters(x)}, work[1] # Enters(main_fn),
           NEW v \in 1 .. N, HasValue(v), v < x
    PROVE  v \in ready
<1>1. v \in ready \cup Stored(1)
    BY DEF ReadsOK
<1>2. 1 .. 1 - 1 = {}
    OBVIOUS
<1>3. Stored(1) = {}
    BY <1>2 DEF Stored
<1>4. QED  BY <1>1, <1>3

\* A function is entered; main calls the initialisers first.
LEMMA EnterRuns ==
    ASSUME DeclInv, GenInv, RunInv, EnterFunction
    PROVE  RunInv'
<1>1. PICK first, does :
        /\ first = IF CallsInit(Now) THEN [i \in DOMAIN inits |-> Inits(inits[i])] ELSE <<>>
        /\ does = Body(Now, first)
    OBVIOUS
<1>2. Runs("enter", does) /\ ready' = ready /\ early' = early
    BY <1>1, Zenon DEF EnterFunction
<1>3. WorkOK /\ ReadsOK /\ OnceOK
    BY DEF RunInv
<1>4. /\ work # <<>> /\ 1 \in 1 .. Len(work)
      /\ \E x \in 1 .. N : x = Now /\ work[1] = <<"enter", x>> /\ IsGenerated(x)
    BY <1>2, <1>3, NowWork
<1>5. PICK x \in 1 .. N : x = Now /\ work[1] = Enters(x) /\ IsGenerated(x)
    BY <1>4 DEF Enters
<1>6. /\ GenFacts /\ N \in Nat
      /\ \A v \in 1 .. N : prog[v].kind = "var" => Done(v)
    BY <1>4, AllDone
<1>7. InitsOK /\ MainOK
    BY <1>6 DEF GenFacts
<1>8. PICK m, n : m = Len(first) /\ n = Len(inits)
    OBVIOUS
<1>9. /\ IsSeq(inits) /\ n \in Nat /\ DOMAIN inits = 1 .. n
    BY <1>7, <1>8, SeqShape DEF InitsOK
<1>10. IsSeq(first) /\ m = (IF x = main_fn THEN n ELSE 0)
       /\ (x = main_fn => \A i \in 1 .. n : first[i] = Inits(inits[i]))
  <2>1. CASE x = main_fn
    <3>1. first = [i \in 1 .. n |-> Inits(inits[i])]
      BY <1>1, <1>5, <1>9, <2>1 DEF CallsInit
    <3>2. first = [i \in 1 .. n |-> first[i]] /\ \A i \in 1 .. n : first[i] = Inits(inits[i])
      BY <3>1
    <3>3. IsSeq(first) /\ Len(first) = n
      BY <1>9, <3>2, FunctionShape
    <3>4. QED  BY <1>8, <2>1, <3>2, <3>3
  <2>2. CASE x # main_fn
    <3>1. first = <<>>
      BY <1>1, <1>5, <2>2 DEF CallsInit
    <3>2. QED  BY <1>8, <2>2, <3>1, NoElements
  <2>3. QED  BY <2>1, <2>2
<1>11. /\ IsSeq(does) /\ Len(does) = m + 1 /\ does[m + 1] = Meets(x)
       /\ \A i \in 1 .. m : does[i] = first[i]
  <2>1. does = Append(first, Meets(x))
    <3>1. PICK S : S = Range(first)
      OBVIOUS
    <3>2. first \in Seq(S)
      BY <1>10, <3>1 DEF IsSeq
    <3>3. first \o <<Meets(x)>> = Append(first, Meets(x))
      BY <3>2
    <3>4. QED  BY <1>1, <1>5, <3>3 DEF Body
  <2>2. PICK e : e = Meets(x)
    OBVIOUS
  <2>3. /\ IsSeq(Append(first, e)) /\ Len(Append(first, e)) = Len(first) + 1
        /\ \A i \in 1 .. Len(first) : Append(first, e)[i] = first[i]
        /\ Append(first, e)[Len(first) + 1] = e
    <3>1. IsSeq(first)
      BY <1>10
    <3>2. QED  BY <3>1, AppendShape
  <2>4. does = Append(first, e) /\ m = Len(first)
    BY <1>8, <2>1, <2>2
  <2>5. QED  BY <2>2, <2>3, <2>4, Zenon
<1>12. Puts(does)
    BY <1>2, <1>11 DEF Runs, Puts
<1>13. \A i \in 1 .. n : \E k \in 1 .. N : inits[i] = k /\ IsGenerated(k) /\ k \in Range(inits)
  <2>1. \A i \in 1 .. n : inits[i] \in Range(inits)
    BY <1>9 DEF Range
  <2>2. QED  BY <1>7, <1>8, <2>1 DEF InitsOK
<1>14. \A i \in 1 .. m + 1 : i \in 1 .. m \/ i = m + 1
    BY <1>9, <1>10
<1>15. DoesWork(does)
  <2>1. ASSUME NEW i \in 1 .. m + 1
        PROVE  \E w \in WorkKinds : \E k \in 1 .. N :
                  /\ does[i] = <<w, k>> /\ IsGenerated(k)
                  /\ w \in {"init", "store"} => k \in Range(inits)
    <3>1. CASE i \in 1 .. m
      <4>1. x = main_fn /\ i \in 1 .. n
        BY <1>9, <1>10, <3>1
      <4>2. PICK k \in 1 .. N : inits[i] = k /\ IsGenerated(k) /\ k \in Range(inits)
        BY <1>13, <4>1
      <4>3. does[i] = <<"init", k>> /\ "init" \in WorkKinds
        BY <1>10, <1>11, <3>1, <4>1, <4>2 DEF Inits, WorkKinds
      <4>4. QED  BY <4>2, <4>3
    <3>2. CASE i = m + 1
      <4>1. does[i] = <<"use", x>> /\ "use" \in WorkKinds
        BY <1>11, <3>2 DEF Meets, WorkKinds
      <4>2. QED  BY <1>5, <4>1
    <3>3. QED  BY <1>14, <3>1, <3>2
  <2>2. QED  BY <1>11, <2>1 DEF DoesWork
<1>16. CASE x = main_fn
  <2>1. /\ m = n
        /\ \A i \in 1 .. n : does[i] = Inits(inits[i])
        /\ \A i, j \in 1 .. n : i < j => inits[i] < inits[j]
        /\ \A i \in 1 .. n : inits[i] \in 1 .. N
        /\ \A v \in 1 .. N : HasValue(v) => \E j \in 1 .. n : inits[j] = v
    BY <1>6, <1>7, <1>8, <1>10, <1>11, <1>16 DEF InitsOK, HasValue
  <2>2. ASSUME NEW i \in 1 .. n + 1, NEW y \in 1 .. N, does[i] \in {Inits(y), Meets(y), Enters(y)},
               NEW v \in 1 .. N, HasValue(v), v < y
        PROVE  Brought(v, i, does)
    <3>1. PICK j \in 1 .. n : inits[j] = v
      BY <2>1, <2>2
    <3>2. does[j] = Inits(v)
      BY <2>1, <3>1
    <3>3. j \in 1 .. i - 1
      <4>1. CASE i = n + 1
        BY <1>9, <4>1
      <4>2. CASE i \in 1 .. n
        <5>1. inits[i] = y
          BY <2>1, <2>2, <4>2 DEF Inits, Meets, Enters
        <5>2. i # j /\ ~ (i < j)
          BY <2>1, <2>2, <3>1, <4>2, <5>1
        <5>3. QED  BY <1>9, <4>2, <5>2
      <4>3. QED  BY <1>14, <2>1, <4>1, <4>2
    <3>4. QED  BY <3>2, <3>3 DEF Brought
  <2>3. \A k : work[1] \notin {Inits(k), Stores(k)}
    BY <1>5 DEF Enters, Inits, Stores
  <2>4. DoesRead(does)
    BY <1>11, <2>1, <2>2, <2>3 DEF DoesRead
  <2>5. ASSUME ~ MainUsed
        PROVE  DoesOnce(does)
    <3>1. Len(work) = 1 /\ ready = {}
      BY <1>3, <1>4, <1>5, <1>16, <2>5 DEF OnceOK
    <3>2. \A i \in 1 .. n + 1 : does[i] # Enters(main_fn)
      BY <1>11, <1>14, <2>1 DEF Inits, Meets, Enters
    <3>3. ASSUME NEW k \in 1 .. N, NEW i \in 1 .. n + 1, does[i] \in {Inits(k), Stores(k)}
          PROVE  i \in 1 .. n /\ inits[i] = k
      <4>1. i # n + 1
        BY <1>11, <2>1, <3>3 DEF Inits, Stores, Meets
      <4>2. i \in 1 .. n
        BY <1>14, <2>1, <4>1
      <4>3. QED  BY <2>1, <3>3, <4>2 DEF Inits, Stores
    <3>4. \A i, j \in 1 .. n : inits[i] = inits[j] => i = j
      <4>1. TAKE i, j \in 1 .. n
      <4>2. i < j \/ j < i \/ i = j
        BY <1>9
      <4>3. inits[i] \in 1 .. N /\ inits[j] \in 1 .. N
        BY <2>1
      <4>4. QED  BY <2>1, <4>2, <4>3
    <3>5. QED  BY <1>2, <1>11, <2>1, <3>1, <3>2, <3>3, <3>4 DEF DoesOnce
  <2>6. ~ NestedMain => NoneEarly'
    BY <1>2, <1>3, NoneEarlyStays DEF Runs
  <2>7. QED  BY <1>2, <1>12, <1>15, <2>4, <2>5, <2>6, PutsRuns
<1>17. CASE x # main_fn
  <2>1. Len(does) = 1 /\ does[1] = Meets(x) /\ \A i \in 1 .. 1 : i = 1
    BY <1>10, <1>11, <1>17
  <2>2. work[1] # Enters(main_fn)
    BY <1>5, <1>17 DEF Enters
  <2>3. \A k : work[1] \notin {Inits(k), Stores(k)} /\ does[1] \notin {Inits(k), Stores(k)}
    BY <1>5, <2>1 DEF Enters, Inits, Stores, Meets
  <2>4. \A y : does[1] \in {Inits(y), Meets(y), Enters(y)} => y = x
    BY <2>1 DEF Enters, Inits, Meets
  <2>5. ASSUME ~ NestedMain
        PROVE  NoneEarly' /\ DoesRead(does)
    <3>1. \A v \in 1 .. N : HasValue(v) /\ v < x => v \in ready'
      BY <1>2, <1>3, <1>4, <1>5, <2>2, <2>5, NowReads
    <3>2. DoesRead(does)
      BY <2>1, <2>3, <2>4, <3>1 DEF DoesRead
    <3>3. QED  BY <1>2, <1>3, <2>5, <3>2, NoneEarlyStays DEF Runs
  <2>6. DoesOnce(does)
    <3>1. does[1] # Enters(main_fn)
      BY <2>1 DEF Meets, Enters
    <3>2. QED  BY <1>2, <2>1, <2>3, <3>1 DEF DoesOnce
  <2>7. QED  BY <1>2, <1>12, <1>15, <2>5, <2>6, PutsRuns
<1>18. QED  BY <1>16, <1>17

\* The work is a sequence of pairs, with two or one or no new ones before it.
LEMMA ShortSeqs ==
    /\ \A e : IsSeq(<<e>>) /\ Len(<<e>>) = 1 /\ <<e>>[1] = e
    /\ \A d, e : IsSeq(<<d, e>>) /\ Len(<<d, e>>) = 2 /\ <<d, e>>[1] = d /\ <<d, e>>[2] = e
    /\ \A i \in 1 .. 1 : i = 1
    /\ \A i \in 1 .. 2 : i = 1 \/ i = 2
    /\ 1 .. 0 = {}
<1>1. ASSUME NEW e
      PROVE  IsSeq(<<e>>)
  <2>1. <<e>> \in Seq({e})
    OBVIOUS
  <2>2. QED  BY <2>1, SeqIsSeq
<1>2. ASSUME NEW d, NEW e
      PROVE  IsSeq(<<d, e>>)
  <2>1. <<d, e>> \in Seq({d, e})
    OBVIOUS
  <2>2. QED  BY <2>1, SeqIsSeq
<1>3. QED  BY <1>1, <1>2

\* An initial value is computed, to be stored.
LEMMA CallInitRuns ==
    ASSUME DeclInv, GenInv, RunInv, CallInit
    PROVE  RunInv'
<1>1. PICK does : does = <<Meets(Now), Stores(Now)>>
    OBVIOUS
<1>2. Runs("init", does) /\ ready' = ready /\ early' = early
    BY <1>1, Zenon DEF CallInit
<1>3. WorkOK /\ ReadsOK /\ OnceOK
    BY DEF RunInv
<1>4. /\ work # <<>> /\ 1 \in 1 .. Len(work)
      /\ \E x \in 1 .. N : /\ x = Now /\ work[1] = <<"init", x>> /\ IsGenerated(x)
                           /\ "init" \in {"init", "store"} => x \in Range(inits)
    BY <1>2, <1>3, NowWork
<1>5. PICK x \in 1 .. N : x = Now /\ work[1] = Inits(x) /\ IsGenerated(x) /\ x \in Range(inits)
    BY <1>4 DEF Inits
<1>6. IsSeq(does) /\ Len(does) = 2 /\ does[1] = Meets(x) /\ does[2] = Stores(x)
    BY <1>1, <1>5, ShortSeqs
<1>7. \A i \in 1 .. 2 : i = 1 \/ i = 2
    BY ShortSeqs
<1>8. Puts(does)
    BY <1>2, <1>6 DEF Runs, Puts
<1>9. DoesWork(does)
  <2>1. does[1] = <<"use", x>> /\ does[2] = <<"store", x>> /\ {"use", "store"} \subseteq WorkKinds
    BY <1>6 DEF Meets, Stores, WorkKinds
  <2>2. ASSUME NEW i \in 1 .. 2
        PROVE  \E w \in WorkKinds : \E k \in 1 .. N :
                  /\ does[i] = <<w, k>> /\ IsGenerated(k)
                  /\ w \in {"init", "store"} => k \in Range(inits)
    <3>1. PICK w \in WorkKinds : does[i] = <<w, x>>
      BY <1>7, <2>1
    <3>2. QED  BY <1>5, <3>1
  <2>3. QED  BY <1>6, <2>2 DEF DoesWork
<1>10. work[1] # Enters(main_fn)
    BY <1>5 DEF Inits, Enters
<1>11. \A k : /\ work[1] \in {Inits(k), Stores(k)} => k = x
              /\ does[1] \notin {Inits(k), Stores(k), Enters(k)}
              /\ does[2] \notin {Inits(k), Meets(k), Enters(k)}
              /\ does[1] = Meets(k) => k = x
              /\ does[2] = Stores(k) => k = x
    BY <1>5, <1>6 DEF Inits, Stores, Meets, Enters
<1>12. ASSUME ~ NestedMain
       PROVE  NoneEarly' /\ DoesRead(does)
  <2>1. \A v \in 1 .. N : HasValue(v) /\ v < x => v \in ready'
    BY <1>2, <1>3, <1>4, <1>5, <1>10, <1>12, NowReads
  <2>2. ASSUME NEW i \in 1 .. 2, NEW y \in 1 .. N, does[i] \in {Inits(y), Meets(y), Enters(y)}
        PROVE  y = x
    BY <1>7, <1>11, <2>2
  <2>3. Brought(x, 3, does)
    BY <1>6 DEF Brought
  <2>4. DoesRead(does)
    BY <1>6, <1>11, <2>1, <2>2, <2>3 DEF DoesRead
  <2>5. QED  BY <1>2, <1>3, <1>12, <2>4, NoneEarlyStays DEF Runs
<1>13. ASSUME ~ MainUsed
       PROVE  DoesOnce(does)
  <2>1. x \notin ready'
    BY <1>2, <1>3, <1>4, <1>5, <1>13 DEF OnceOK
  <2>2. ASSUME NEW i \in 1 .. 2, NEW k \in 1 .. N, does[i] \in {Inits(k), Stores(k)}
        PROVE  i = 2 /\ k = x
    BY <1>7, <1>11, <2>2
  <2>3. \A i \in 1 .. 2 : does[i] # Enters(main_fn)
    BY <1>7, <1>11
  <2>4. QED  BY <1>2, <1>5, <1>6, <2>1, <2>2, <2>3 DEF DoesOnce
<1>14. QED  BY <1>2, <1>8, <1>9, <1>12, <1>13, PutsRuns

\* A value is stored.
LEMMA StoreRuns ==
    ASSUME DeclInv, GenInv, RunInv, StoreInit
    PROVE  RunInv'
<1>1. PICK does : does = <<>>
    OBVIOUS
<1>2. Runs("store", does) /\ ready' = ready \cup {Now} /\ early' = early
    BY <1>1, Zenon DEF StoreInit
<1>3. WorkOK /\ ReadsOK /\ OnceOK
    BY DEF RunInv
<1>4. /\ work # <<>> /\ 1 \in 1 .. Len(work)
      /\ \E x \in 1 .. N : x = Now /\ work[1] = <<"store", x>>
    BY <1>2, <1>3, NowWork
<1>5. PICK x \in 1 .. N : x = Now /\ work[1] = Stores(x)
    BY <1>4 DEF Stores
<1>6. IsSeq(does) /\ Len(does) = 0 /\ 1 .. 0 = {}
    BY <1>1, NoElements, ShortSeqs
<1>7. Puts(does)
    BY <1>2, <1>6 DEF Runs, Puts
<1>8. DoesWork(does)
    BY <1>6 DEF DoesWork
<1>9. \A k : work[1] \in {Inits(k), Stores(k)} => k = x
    BY <1>5 DEF Inits, Stores
<1>10. ready' = ready \cup {x}
    BY <1>2, <1>5
<1>11. DoesRead(does)
    BY <1>6, <1>9, <1>10 DEF DoesRead
<1>12. ~ NestedMain => NoneEarly'
    BY <1>2, <1>3, NoneEarlyStays DEF Runs
<1>13. DoesOnce(does)
    BY <1>5, <1>6, <1>10 DEF DoesOnce
<1>14. QED  BY <1>7, <1>8, <1>10, <1>11, <1>12, <1>13, PutsRuns

\* Nothing is put before the rest, and nothing is stored.
LEMMA NothingRuns ==
    ASSUME RunInv, NEW does, does = <<>>, Runs("use", does), ready' = ready,
           ~ NestedMain => NoneEarly'
    PROVE  RunInv'
<1>1. WorkOK
    BY DEF RunInv
<1>2. \E x \in 1 .. N : x = Now /\ work[1] = <<"use", x>>
    BY <1>1, NowWork
<1>3. \A k : work[1] \notin {Inits(k), Stores(k)}
    BY <1>2 DEF Inits, Stores
<1>4. IsSeq(does) /\ Len(does) = 0 /\ 1 .. 0 = {}
    BY NoElements, ShortSeqs
<1>5. Puts(does)
    BY <1>4 DEF Runs, Puts
<1>6. DoesWork(does) /\ DoesRead(does) /\ DoesOnce(does)
    BY <1>3, <1>4 DEF DoesWork, DoesRead, DoesOnce
<1>7. QED  BY <1>5, <1>6, PutsRuns

\* A use is left out.
LEMMA LeaveOutRuns ==
    ASSUME RunInv, LeaveOut
    PROVE  RunInv'
<1>1. PICK does : does = <<>>
    OBVIOUS
<1>2. Runs("use", does) /\ ready' = ready /\ early' = early
    BY <1>1, Zenon DEF LeaveOut
<1>3. ~ NestedMain => NoneEarly'
    BY <1>2, NoneEarlyStays DEF RunInv, Runs
<1>4. QED  BY <1>1, <1>2, <1>3, NothingRuns

\* What the running program finds for a use was open when that was generated.
LEMMA UseTarget ==
    ASSUME DeclInv, GenInv, RunInv, work # <<>>, NEW x \in 1 .. N, IsGenerated(x),
           prog[x].use.what \in {"name", "method"}
    PROVE  \E t \in 1 .. N :
             /\ t = Target(x) /\ IsGenerated(t) /\ Precedes(t, x)
             /\ prog[t].kind = "var" => t < x
<1>1. /\ GenFacts /\ ~ failed /\ N \in Nat /\ OrderOK /\ DOMAIN prog = 1 .. N
      /\ \A k \in 1 .. N : prog[k].use # NoUse =>
            \E p \in 1 .. Len(walk) : p <= at /\ walk[p] = Meets(k)
    BY AllDone, Sizes DEF DeclInv
<1>2. prog[x].use # NoUse
    BY DEF NoUse, Use
<1>3. PICK p \in 1 .. Len(walk) : p <= at /\ walk[p] = Meets(x)
    BY <1>1, <1>2
<1>4. PICK t \in 1 .. N : t = Target(x) /\ IsTarget(t, x, p)
    BY <1>1, <1>3 DEF GenFacts, TargetsOK
<1>5. IsOpen(t, p) /\ IsGenerated(t)
    BY <1>4 DEF IsTarget
<1>6. Precedes(t, x)
    BY <1>1, <1>3, <1>5 DEF OrderOK
<1>7. ASSUME prog[t].kind = "var"
      PROVE  t < x
  <2>1. t <= x
    BY <1>6, <1>7 DEF Precedes
  <2>2. t # x
    BY <1>4, <1>7 DEF IsTarget
  <2>3. QED  BY <1>1, <2>1, <2>2
<1>8. QED  BY <1>4, <1>5, <1>6, <1>7

\* A use is met.
LEMMA UseRuns ==
    ASSUME DeclInv, GenInv, RunInv, UseOf
    PROVE  RunInv'
<1>1. PICK does : does = IF IsCall(Now) THEN <<Enters(Target(Now))>> ELSE <<>>
    OBVIOUS
<1>2. /\ Runs("use", does) /\ ready' = ready
      /\ early' = early \cup {v \in {Target(Now)} \ ready : IsKind(v, "var")}
    BY <1>1, Zenon DEF UseOf
<1>3. WorkOK /\ ReadsOK /\ OnceOK
    BY DEF RunInv
<1>4. /\ work # <<>> /\ 1 \in 1 .. Len(work)
      /\ \E x \in 1 .. N : x = Now /\ work[1] = <<"use", x>> /\ IsGenerated(x)
    BY <1>2, <1>3, NowWork
<1>5. PICK x \in 1 .. N : x = Now /\ work[1] = Meets(x) /\ IsGenerated(x)
    BY <1>4 DEF Meets
<1>6. /\ GenFacts /\ N \in Nat /\ DOMAIN prog = 1 .. N /\ prog[x].use.what \in Uses
    BY <1>4, AllDone, Sizes DEF DeclInv, ProgOK, DeclShape
<1>7. \A k : /\ work[1] \notin {Inits(k), Stores(k), Enters(k)}
    BY <1>5 DEF Inits, Stores, Meets, Enters
<1>8. CASE prog[x].use.what \notin {"name", "method"}
  <2>1. ~ IsKind(Target(x), "var")
    <3>1. CASE prog[x].use.what = "none"
      <4>1. Target(x) = 0
        BY <3>1 DEF Target
      <4>2. QED  BY <1>6, <4>1 DEF IsKind
    <3>2. CASE prog[x].use.what = "trait"
      <4>1. Target(x) = TableTarget(prog[x].use.key)
        BY <3>2 DEF Target
      <4>2. CASE prog[x].use.key \in DOMAIN tables
        <5>1. PICK k \in 1 .. N : tables[prog[x].use.key].by = k /\ IsTable(k)
          BY <1>6, <4>2 DEF GenFacts, TablesOK
        <5>2. QED  BY <4>1, <4>2, <5>1 DEF IsKind, IsTable, TableTarget
      <4>3. CASE prog[x].use.key \notin DOMAIN tables
        BY <1>6, <4>1, <4>3 DEF IsKind, TableTarget
      <4>4. QED  BY <4>2, <4>3
    <3>3. QED  BY <1>6, <1>8, <3>1, <3>2 DEF Uses
  <2>2. ~ IsCall(x)
    BY <1>8 DEF IsCall
  <2>3. does = <<>> /\ early' = early /\ prog' = prog
    BY <1>1, <1>2, <1>5, <2>1, <2>2 DEF Runs, declared
  <2>4. ~ NestedMain => NoneEarly'
    BY <1>3, <2>3 DEF ReadsOK, NoneEarly
  <2>5. QED  BY <1>2, <2>3, <2>4, NothingRuns
<1>9. CASE prog[x].use.what \in {"name", "method"}
  <2>1. PICK t \in 1 .. N :
             /\ t = Target(x) /\ IsGenerated(t) /\ Precedes(t, x)
             /\ prog[t].kind = "var" => t < x
    BY <1>4, <1>5, <1>9, UseTarget
  <2>2. ASSUME ~ NestedMain, NEW v \in 1 .. N, HasValue(v), v < x
        PROVE  v \in ready
    <3>1. work[1] \in {Inits(x), Meets(x), Enters(x)} /\ work[1] # Enters(main_fn)
      BY <1>5, <1>7
    <3>2. QED  BY <1>3, <1>4, <2>2, <3>1, NowReads
  <2>3. ASSUME ~ NestedMain
        PROVE  NoneEarly'
    <3>1. NoneEarly /\ prog' = prog
      BY <1>2, <1>3, <2>3 DEF ReadsOK, Runs, declared
    <3>2. prog[t].kind = "var" /\ prog[t].init_val => t \in ready
      BY <2>1, <2>2, <2>3 DEF HasValue
    <3>3. \A v \in early' : v \in early \/ (v = t /\ t \notin ready /\ prog[t].kind = "var")
      BY <1>2, <1>5, <2>1 DEF IsKind
    <3>4. QED  BY <3>1, <3>2, <3>3 DEF NoneEarly
  <2>4. CASE ~ IsCall(x)
    <3>1. does = <<>>
      BY <1>1, <1>5, <2>4
    <3>2. QED  BY <1>2, <2>3, <3>1, NothingRuns
  <2>5. CASE IsCall(x)
    <3>1. does = <<Enters(t)>>
      BY <1>1, <1>5, <2>1, <2>5
    <3>2. IsSeq(does) /\ Len(does) = 1 /\ does[1] = Enters(t) /\ \A i \in 1 .. 1 : i = 1
      BY <3>1, ShortSeqs
    <3>3. Puts(does)
      BY <1>2, <3>2 DEF Runs, Puts
    <3>4. DoesWork(does)
      <4>1. does[1] = <<"enter", t>> /\ "enter" \in WorkKinds
        BY <3>2 DEF Enters, WorkKinds
      <4>2. QED  BY <2>1, <3>2, <4>1 DEF DoesWork
    <3>5. \A k : /\ does[1] \notin {Inits(k), Stores(k), Meets(k)}
                 /\ does[1] = Enters(k) => k = t
      BY <3>2 DEF Inits, Stores, Meets, Enters
    <3>6. ASSUME ~ NestedMain
          PROVE  DoesRead(does)
      <4>1. \A v \in 1 .. N : HasValue(v) /\ v < t => v \in ready'
        BY <1>2, <2>1, <2>2, <3>6 DEF Precedes, HasValue
      <4>2. QED  BY <1>7, <3>2, <3>5, <4>1 DEF DoesRead
    <3>7. ASSUME ~ MainUsed
          PROVE  DoesOnce(does)
      <4>1. does[1] # Enters(main_fn)
        <5>1. t = main_fn => MainUsed
          BY <1>6, <2>1, <2>5 DEF MainUsed
        <5>2. QED  BY <3>5, <3>7, <5>1
      <4>2. QED  BY <1>2, <1>7, <3>2, <3>5, <4>1 DEF DoesOnce
    <3>8. QED  BY <1>2, <2>3, <3>3, <3>4, <3>6, <3>7, PutsRuns
  <2>6. QED  BY <2>4, <2>5
<1>10. QED  BY <1>8, <1>9

-----------------------------------------------------------------------------
(* Before the program runs. *)

\* A program that has not begun has nothing to do.
LEMMA IdleRuns ==
    ASSUME work' = <<>>, ready' = {}, early' = {}
    PROVE  RunInv'
<1>1. Len(work') = 0 /\ IsSeq(work') /\ 1 .. Len(work') = {}
    BY NoElements, ShortSeqs
<1>2. NotBegun'
    BY DEF NotBegun
<1>3. WorkOK'
    BY <1>1 DEF WorkOK
<1>4. ReadsOK'
    BY <1>1 DEF ReadsOK, NoneEarly
<1>5. OnceOK'
    BY <1>1 DEF OnceOK
<1>6. QED  BY <1>2, <1>3, <1>4, <1>5 DEF RunInv

\* Declarations, and the generator.
LEMMA DeclareRuns ==
    ASSUME DeclInv, GenInv, RunInv, Declare
    PROVE  RunInv'
<1>1. at = 0 /\ UNCHANGED running
    BY DeclareUntouched
<1>2. Len(walk) \in Nat
    BY Sizes DEF DeclInv
<1>3. work = <<>> /\ ready = {} /\ early = {}
    BY <1>1, <1>2 DEF RunInv, NotBegun
<1>4. QED  BY <1>1, <1>3, IdleRuns DEF running

\* A step of the generator.
LEMMA GenerateRuns ==
    ASSUME DeclInv, GenInv, RunInv, Generate
    PROVE  RunInv'
<1>1. at < Len(walk) /\ UNCHANGED running
    BY Zenon DEF Generate
<1>2. Len(walk) \in Nat /\ at \in 0 .. Len(walk) + 1
    BY Sizes DEF DeclInv, GenInv
<1>3. work = <<>> /\ ready = {} /\ early = {}
    BY <1>1, <1>2 DEF RunInv, NotBegun
<1>4. QED  BY <1>1, <1>3, IdleRuns DEF running

\* The program is started, or not.
LEMMA StartRuns ==
    ASSUME DeclInv, GenInv, RunInv, Start
    PROVE  RunInv'
<1>1. /\ UNCHANGED declared /\ GenFacts /\ main_fn' = main_fn /\ inits' = inits
      /\ at = Len(walk) /\ at' = at + 1 /\ ready' = ready /\ early' = early /\ ~ failed /\ ~ errs
      /\ failed' = ~ (main_fn # 0 /\ Entry \in DOMAIN module /\ IsKind(module[Entry], "fn"))
      /\ work' = IF failed' THEN <<>> ELSE <<Enters(module[Entry])>>
    BY StartGen, Zenon DEF Start, IsProgram
<1>2. Len(walk) \in Nat /\ N \in Nat /\ DOMAIN prog = 1 .. N /\ ProgOK
    BY Sizes DEF DeclInv
<1>3. ready = {} /\ early = {}
    BY <1>1, <1>2 DEF RunInv, NotBegun
<1>4. CASE failed'
    BY <1>1, <1>3, <1>4, IdleRuns
<1>5. CASE ~ failed'
  <2>1. main_fn # 0 /\ Entry \in DOMAIN module /\ IsKind(module[Entry], "fn")
    BY <1>1, <1>5
  <2>2. PICK e \in 1 .. N : module[Entry] = e /\ Done(e) /\ HasSymbol(e) /\ Entry = SymbolOf(e)
    BY <1>1, <2>1 DEF GenFacts, ModuleOK
  <2>3. PICK m \in 1 .. N : main_fn = m /\ prog[m].kind = "fn" /\ prog[m].name = "main" /\ Done(m)
    BY <1>1, <2>1 DEF GenFacts, MainOK
  <2>4. PICK w : w = <<Enters(e)>>
    OBVIOUS
  <2>5. work' = w /\ IsSeq(w) /\ Len(w) = 1 /\ w[1] = Enters(e) /\ \A i \in 1 .. 1 : i = 1
    BY <1>1, <1>5, <2>2, <2>4, ShortSeqs
  <2>6. /\ N' = N /\ prog' = prog /\ walk' = walk
        /\ (NestedMain' <=> NestedMain) /\ (IsGenerated(e)' <=> IsGenerated(e))
    BY <1>1 DEF declared, N, NestedMain, IsKind, IsGenerated
  <2>7. NotBegun'
    BY <1>1, <1>2, <1>5, <2>6 DEF NotBegun
  <2>8. WorkOK'
    <3>1. w[1] = <<"enter", e>> /\ "enter" \in WorkKinds /\ "enter" \notin {"init", "store"}
      BY <2>5 DEF Enters, WorkKinds
    <3>2. IsGenerated(e)'
      BY <2>2, <2>6 DEF HasSymbol
    <3>3. \A i \in 1 .. Len(w) : \E d \in WorkKinds : \E k \in 1 .. N' :
            /\ w[i] = <<d, k>> /\ IsGenerated(k)'
            /\ d \in {"init", "store"} => k \in Range(inits')
      <4>1. e \in 1 .. N'
        BY <2>6
      <4>2. QED  BY <2>5, <3>1, <3>2, <4>1
    <3>4. QED  BY <2>5, <3>3 DEF WorkOK, WorkKinds
  <2>9. e = m \/ NestedMain
    <3>1. CASE prog[m].path = <<>>
      <4>1. HasSymbol(m) /\ SymbolOf(m) = Entry
        BY <2>3, <3>1 DEF HasSymbol, IsGenerated, SymbolOf, Symbol, Entry
      <4>2. QED  BY <1>1, <2>2, <2>3, <4>1, SymbolUnique
    <3>2. CASE prog[m].path # <<>>
      BY <1>2, <2>3, <3>2 DEF NestedMain
    <3>3. QED  BY <3>1, <3>2
  <2>10. ReadsOK'
    <3>1. SUFFICES ASSUME ~ NestedMain
                   PROVE  ReadsOK'
      BY <2>6 DEF ReadsOK
    <3>2. \A i \in 1 .. Len(w) : w[i] = Enters(main_fn)
      BY <2>3, <2>5, <2>9, <3>1
    <3>3. QED  BY <1>1, <1>3, <2>5, <3>2 DEF ReadsOK, NoneEarly, Enters
  <2>11. OnceOK'
    <3>1. \A k : w[1] \notin {Inits(k), Stores(k)}
      BY <2>5 DEF Inits, Stores, Enters
    <3>2. QED  BY <1>1, <1>3, <2>5, <3>1 DEF OnceOK, Inits, Stores, Enters
  <2>12. QED  BY <2>7, <2>8, <2>10, <2>11 DEF RunInv
<1>6. QED  BY <1>4, <1>5

\* Nothing is done.
LEMMA RunStays ==
    ASSUME RunInv, UNCHANGED vars
    PROVE  RunInv'
<1>1. /\ prog' = prog /\ walk' = walk /\ at' = at /\ failed' = failed /\ work' = work
      /\ ready' = ready /\ early' = early /\ inits' = inits /\ main_fn' = main_fn /\ N' = N
    BY DEF vars, N
<1>2. /\ NestedMain' <=> NestedMain
      /\ MainUsed => MainUsed'
      /\ \A k : IsGenerated(k)' <=> IsGenerated(k)
      /\ \A i : Stored(i)' = Stored(i)
    BY <1>1, MainUsedStays DEF vars, NestedMain, IsKind, IsGenerated, Stored, Inits, Stores
<1>3. NotBegun' /\ WorkOK'
    BY <1>1, <1>2 DEF RunInv, NotBegun, WorkOK, WorkKinds
<1>4. ReadsOK'
    BY <1>1, <1>2 DEF RunInv, ReadsOK, NoneEarly, HasValue, Inits, Meets, Enters
<1>5. OnceOK'
    BY <1>1, <1>2 DEF RunInv, OnceOK, Inits, Stores, Enters
<1>6. QED  BY <1>3, <1>4, <1>5 DEF RunInv

-----------------------------------------------------------------------------
(* The invariant. *)

\* It holds in the beginning.
LEMMA InitInv ==
    ASSUME Init
    PROVE  IInv
<1>1. DeclInv
    BY DeclInit
<1>2. /\ prog = [i \in DOMAIN Builtins |-> Declaration("fn", Builtins[i], "none", <<>>, NoUse)]
      /\ scope = <<>> /\ at = 0 /\ tables = <<>> /\ inits = <<>> /\ main_fn = 0 /\ failed = FALSE
      /\ module = BuiltinModule /\ work = <<>> /\ ready = {} /\ early = {} /\ walk = <<>>
    BY Zenon DEF Init
<1>3. DOMAIN Builtins = 1 .. NB
    BY ExtAssumption, LenProperties DEF NB, ExtAssumption
<1>4. \A i \in 1 .. NB : Symbol(i) = <<Builtins[i]>>
    BY <1>1 DEF Symbol, DeclInv, ProgOK
<1>5. {Symbol(i) : i \in DOMAIN Builtins} = {<<Builtins[i]>> : i \in 1 .. NB}
    BY <1>3, <1>4
<1>6. \A s : (CHOOSE i \in DOMAIN Builtins : Symbol(i) = s) = (CHOOSE i \in 1 .. NB : <<Builtins[i]>> = s)
  <2>1. TAKE s
  <2>2. \A i : (i \in DOMAIN Builtins /\ Symbol(i) = s) <=> (i \in 1 .. NB /\ <<Builtins[i]>> = s)
    BY <1>3, <1>4
  <2>3. QED  BY <2>2
<1>7. module = [s \in {<<Builtins[i]>> : i \in 1 .. NB} |-> CHOOSE i \in 1 .. NB : <<Builtins[i]>> = s]
    BY <1>2, <1>5, <1>6 DEF BuiltinModule
<1>8. Untouched
    BY <1>2, <1>7 DEF Untouched
<1>9. GenInv
    BY <1>1, <1>2, <1>8, Sizes DEF GenInv, DeclInv
<1>10. Len(work) = 0 /\ IsSeq(work) /\ 1 .. Len(work) = {}
    BY <1>2, NoElements, ShortSeqs
<1>11. RunInv
    BY <1>2, <1>10 DEF RunInv, NotBegun, WorkOK, ReadsOK, NoneEarly, OnceOK
<1>12. QED  BY <1>1, <1>9, <1>11 DEF IInv

\* It is kept by every step.
LEMMA NextInv ==
    ASSUME IInv, [Next]_vars
    PROVE  IInv'
<1>1. DeclInv /\ GenInv /\ RunInv
    BY DEF IInv
<1>2. CASE Declare
    BY <1>1, <1>2, DeclareKeeps, DeclareUntouched, DeclareRuns DEF IInv
<1>3. CASE Generate
  <2>1. UNCHANGED declared
    BY <1>3, Zenon DEF Generate
  <2>2. QED  BY <1>1, <1>3, <2>1, DeclStays, GenerateKeeps, GenerateRuns DEF IInv
<1>4. CASE Start
    BY <1>1, <1>4, StartGen, DeclStays, StartRuns DEF IInv
<1>5. ASSUME UNCHANGED declared, UNCHANGED generated, RunInv'
      PROVE  IInv'
    BY <1>1, <1>5, DeclStays, GenStays DEF IInv
<1>6. CASE EnterFunction
  <2>1. UNCHANGED declared /\ UNCHANGED generated
    BY <1>6, Zenon DEF EnterFunction, Runs
  <2>2. QED  BY <1>1, <1>5, <1>6, <2>1, EnterRuns
<1>7. CASE CallInit
  <2>1. UNCHANGED declared /\ UNCHANGED generated
    BY <1>7, Zenon DEF CallInit, Runs
  <2>2. QED  BY <1>1, <1>5, <1>7, <2>1, CallInitRuns
<1>8. CASE StoreInit
  <2>1. UNCHANGED declared /\ UNCHANGED generated
    BY <1>8, Zenon DEF StoreInit, Runs
  <2>2. QED  BY <1>1, <1>5, <1>8, <2>1, StoreRuns
<1>9. CASE UseOf
  <2>1. UNCHANGED declared /\ UNCHANGED generated
    BY <1>9, Zenon DEF UseOf, Runs
  <2>2. QED  BY <1>1, <1>5, <1>9, <2>1, UseRuns
<1>10. CASE LeaveOut
  <2>1. UNCHANGED declared /\ UNCHANGED generated
    BY <1>10, Zenon DEF LeaveOut, Runs
  <2>2. QED  BY <1>1, <1>5, <1>10, <2>1, LeaveOutRuns
<1>11. CASE UNCHANGED vars
  <2>1. UNCHANGED declared /\ UNCHANGED generated
    BY <1>11 DEF vars, declared, generated
  <2>2. QED  BY <1>1, <1>5, <1>11, <2>1, RunStays
<1>12. QED
  BY <1>2, <1>3, <1>4, <1>6, <1>7, <1>8, <1>9, <1>10, <1>11 DEF Next

\* The invariant, of every program.
THEOREM Invariant == Spec => []IInv
<1>1. Init => IInv
    BY InitInv
<1>2. IInv /\ [Next]_vars => IInv'
    BY NextInv
<1>3. QED  BY <1>1, <1>2, PTL DEF Spec

-----------------------------------------------------------------------------
(* What the invariant says of a program. *)

\* Declarations are generated from what they are.
LEMMA InvExtOK ==
    ASSUME IInv
    PROVE  ExtOK
<1>1. /\ DeclInv /\ ProgOK /\ IdsOK /\ WorkOK /\ N \in Nat /\ DOMAIN prog = 1 .. N
    BY Sizes DEF IInv, DeclInv, RunInv, ProgOK
<1>2. ModuleOK /\ InitsOK /\ MainOK
    BY SoFar DEF IInv
<1>3. \A k \in DOMAIN prog : prog[k].kind \in Kinds /\ prog[k].use.what \in Uses
    BY <1>1 DEF ProgOK, DeclShape
<1>4. \A e \in ids : e.block \in 0 .. Len(prog) /\ e.of \in DOMAIN prog
  <2>1. TAKE e \in ids
  <2>2. e.of \in 1 .. N /\ e.block = Innermost(prog[e.of].path)
    BY <1>1 DEF IdsOK
  <2>3. e.block = 0 \/ e.block \in 1 .. N
    BY <1>1, <2>2, BlockOf
  <2>4. QED  BY <1>1, <2>2, <2>3 DEF N
<1>5. \A d, e \in ids : d.block = e.block /\ d.key = e.key => d = e
    BY <1>1 DEF IdsOK
<1>6. \A s \in DOMAIN module : module[s] \in DOMAIN prog /\ IsGenerated(module[s])
    BY <1>1, <1>2 DEF ModuleOK, HasSymbol
<1>7. \A r, s \in DOMAIN module : module[r] = module[s] => r = s
    BY <1>2 DEF ModuleOK
<1>8. \A i, j \in DOMAIN inits : i < j => inits[i] < inits[j]
    BY <1>2, SeqShape DEF InitsOK
<1>9. main_fn \in 0 .. Len(prog)
    BY <1>2 DEF MainOK, N
<1>10. \A i \in DOMAIN work : work[i][2] \in DOMAIN prog /\ IsGenerated(work[i][2])
  <2>1. TAKE i \in DOMAIN work
  <2>2. i \in 1 .. Len(work)
    BY <1>1, SeqShape DEF WorkOK
  <2>3. PICK w \in WorkKinds, k \in 1 .. N : work[i] = <<w, k>> /\ IsGenerated(k)
    BY <1>1, <2>2 DEF WorkOK
  <2>4. QED  BY <1>1, <2>3
<1>11. QED  BY <1>3, <1>4, <1>5, <1>6, <1>7, <1>8, <1>9, <1>10 DEF ExtOK

\* A use finds what the checker found.
LEMMA UseMeets ==
    ASSUME DeclInv, GenInv, ~ errs, NEW k \in 1 .. N, prog[k].use # NoUse,
           NEW p \in 1 .. Len(walk), p = at + 1, walk[p] = Meets(k),
           ~ IsLocal(prog[k].use.of), ~ OtherType(prog[k].use),
           ~ (prog[k].use.what = "name" /\ FoundAround(k))
    PROVE  Target(k) = prog[k].use.of
<1>1. PICK use, o : use = prog[k].use /\ o = use.of
    OBVIOUS
<1>2. /\ N \in Nat /\ DOMAIN prog = 1 .. N /\ Len(walk) \in Nat
      /\ ProgOK /\ IdsOK /\ TraitsOK /\ UsesOK /\ OrderOK /\ AllEntered
    BY Sizes DEF DeclInv
<1>3. ModuleOK /\ TablesOK
    BY SoFar
<1>4. UseShape(use) /\ IsUse(use, k) /\ use.what \in Uses /\ ~ IsError(use)
    BY <1>1, <1>2 DEF UsesOK, ProgOK, DeclShape, AllEntered
<1>5. use.what # "none" /\ o \in 1 .. N /\ o # 0
    BY <1>1, <1>2, <1>4 DEF UseShape, IsUse, IsError
<1>6. Done(o)
  <2>1. IsOpen(o, p)
    BY <1>1, <1>2, <1>5 DEF OrderOK
  <2>2. \A q \in 1 .. p - 1 : q \in 1 .. Len(walk) /\ q <= at
    <3>1. at \in 0 .. Len(walk) + 1
      BY DEF GenInv
    <3>2. QED  BY <1>2, <3>1
  <2>3. QED  BY <2>1, <2>2 DEF IsOpen, Done
<1>7. IsGenerated(o)
    BY <1>1 DEF IsLocal
<1>8. CASE use.what = "name"
  <2>1. PICK e \in ids : e.key = use.key /\ e.of = o
    BY <1>1, <1>4, <1>5, <1>8 DEF IsUse, NameFound
  <2>2. IsKeyOf(e.key, o) /\ e.key = <<use.key[1]>>
    BY <1>2, <1>4, <1>8, <2>1 DEF IdsOK, UseShape
  <2>3. prog[o].kind \in {"fn", "var"}
    BY <2>2 DEF IsKeyOf
  <2>4. HasSymbol(o) /\ SymbolOf(o) = Symbol(o)
    BY <1>7, <2>3 DEF HasSymbol, SymbolOf
  <2>5. Symbol(o) \in DOMAIN module /\ module[Symbol(o)] = o
    BY <1>3, <1>5, <1>6, <2>4 DEF ModuleOK
  <2>6. get_info(prog[k].use.key, Append(prog[k].path, k)) = o
    BY <1>1, <1>8 DEF FoundAround
  <2>7. SymbolUsed(k) = Symbol(o)
    BY <1>1, <1>8, <2>6 DEF SymbolUsed
  <2>8. QED  BY <1>1, <1>8, <2>5, <2>7, TargetShape
<1>9. CASE use.what = "method"
  <2>1. prog[o].kind = "method" /\ prog[o].name = use.key[2] /\ prog[o].type = use.type
    BY <1>1, <1>4, <1>5, <1>9 DEF IsUse, MethodFound, OtherType
  <2>2. HasSymbol(o) /\ SymbolOf(o) = SymbolUsed(k)
    BY <1>1, <1>7, <1>9, <2>1 DEF HasSymbol, SymbolOf, SymbolUsed
  <2>3. SymbolUsed(k) \in DOMAIN module /\ module[SymbolUsed(k)] = o
    BY <1>3, <1>5, <1>6, <2>2 DEF ModuleOK
  <2>4. QED  BY <1>1, <1>9, <2>3, TargetShape
<1>10. CASE use.what = "trait"
  <2>1. PICK i \in traits : i.by = o /\ use.key = <<i.trait, Text[i.type]>>
    BY <1>1, <1>4, <1>5, <1>10 DEF IsUse, TraitFound
  <2>2. prog[o].kind = "impl"
    BY <1>2, <2>1 DEF TraitsOK
  <2>3. PICK j \in traits : j.by = o /\ Key(o) = <<j.trait, Text[j.type]>>
    BY <1>5, <2>2, KeyShape
  <2>4. j = i
    BY <1>2, <2>1, <2>3 DEF TraitsOK
  <2>5. IsTable(o) /\ Key(o) = use.key
    BY <1>7, <2>1, <2>2, <2>3, <2>4 DEF IsTable, IsGenerated, IsKind
  <2>6. use.key \in DOMAIN tables /\ tables[use.key].by = o
    BY <1>3, <1>5, <1>6, <2>5 DEF TablesOK
  <2>7. Target(k) = TableTarget(use.key)
    BY <1>1, <1>10 DEF Target
  <2>8. QED  BY <1>1, <2>6, <2>7 DEF TableTarget
<1>11. QED  BY <1>4, <1>5, <1>8, <1>9, <1>10 DEF Uses

\* What is used is what was declared.
LEMMA InvUses ==
    ASSUME IInv
    PROVE  UsesGenerate
<1>1. DeclInv /\ GenInv /\ Len(walk) \in Nat /\ at \in 0 .. Len(walk) + 1
    BY Sizes DEF IInv, DeclInv, GenInv
<1>2. ASSUME IsProgram, at < Len(walk), NEW k, k = walk[at + 1][2], walk[at + 1] = Meets(k), UsesNow(k)
      PROVE  \/ Target(k) = prog[k].use.of
             \/ IsLocal(prog[k].use.of)
             \/ OtherType(prog[k].use)
             \/ prog[k].use.what = "name" /\ FoundAround(k)
  <2>1. PICK p : p = at + 1
    OBVIOUS
  <2>2. p \in 1 .. Len(walk) /\ walk[p] = Meets(k)
    <3>1. p \in 1 .. Len(walk)
      BY <1>1, <1>2, <2>1
    <3>2. QED  BY <1>2, <2>1, <3>1, Zenon
  <2>3. k \in 1 .. N
    <3>1. PICK j \in NB + 1 .. N : walk[p] = Opens(j) \/ walk[p] = Meets(j)
      BY <1>1, <2>2 DEF DeclInv, WalkOK
    <3>2. k = j
      BY <2>2, <3>1 DEF Opens, Meets
    <3>3. NB \in Nat /\ N \in Nat
      BY <1>1, Sizes DEF DeclInv
    <3>4. QED  BY <3>2, <3>3
  <2>4. ~ errs /\ prog[k].use # NoUse
    BY <1>2 DEF IsProgram, UsesNow
  <2>5. QED  BY <1>1, <2>1, <2>2, <2>3, <2>4, UseMeets
<1>3. QED  BY <1>2, Zenon DEF UsesGenerate

\* The tables of implementations are filled.
LEMMA InvTables ==
    ASSUME IInv
    PROVE  TableFilled
<1>1. /\ DeclInv /\ TablesOK /\ ProgOK /\ TraitsOK /\ AllEntered
      /\ N \in Nat /\ DOMAIN prog = 1 .. N
    BY SoFar, Sizes DEF IInv, DeclInv
<1>2. ASSUME NEW key \in DOMAIN tables, NEW slots, slots = prog[key[1]].slots,
             NEW funs, funs = tables[key].funs
      PROVE  /\ Len(funs) = Len(slots)
             /\ \A f \in Range(slots) : funs[CalledAt(f, slots)] = f
  <2>1. ~ errs
    <3>1. at # 0
      <4>1. tables = <<>> => DOMAIN tables = {}
        BY NoElements
      <4>2. QED  BY <1>2, <4>1 DEF IInv, GenInv, Untouched
    <3>2. QED  BY <3>1 DEF IInv, GenInv, GenFacts
  <2>2. PICK k \in 1 .. N : funs = Table(k) /\ IsTable(k) /\ key = Key(k)
    BY <1>1, <1>2 DEF TablesOK
  <2>3. prog[k].kind = "impl"
    BY <2>2 DEF IsTable
  <2>4. PICK i \in traits : i.by = k /\ TraitOf(k) = i.trait /\ Key(k) = <<i.trait, Text[i.type]>>
    BY <1>1, <2>1, <2>3, KeyShape
  <2>5. key[1] = i.trait
    BY <2>2, <2>4
  <2>6. PICK own, n : own = prog[k].slots /\ n = Len(own)
    OBVIOUS
  <2>7. /\ slots = prog[i.trait].slots /\ i.trait \in 1 .. N /\ prog[i.trait].kind = "trait"
        /\ Len(own) = Len(slots) /\ Range(slots) \subseteq Range(own)
    BY <1>1, <1>2, <2>4, <2>5, <2>6 DEF TraitsOK
  <2>8. IsSeq(own) /\ IsSeq(slots) /\ ~ IsRepeated(slots)
    BY <1>1, <2>1, <2>3, <2>6, <2>7 DEF ProgOK, DeclShape, AllEntered, Entered
  <2>9. n \in Nat /\ DOMAIN own = 1 .. n /\ DOMAIN slots = 1 .. n
    BY <2>6, <2>7, <2>8, SeqShape
  <2>10. funs = [j \in 1 .. n |->
                    IF \E f \in Range(own) \cap Range(slots) : Position(f, slots) = j
                    THEN slots[j] ELSE "none"]
    BY <2>2, <2>4, <2>6, <2>7, <2>9 DEF Table
  <2>11. Len(funs) = n
    <3>1. funs = [j \in 1 .. n |-> funs[j]]
      BY <2>10
    <3>2. QED  BY <2>9, <3>1, FunctionShape
  <2>12. ASSUME NEW f \in Range(slots)
         PROVE  funs[CalledAt(f, slots)] = f
    <3>1. PICK c \in 1 .. n : slots[c] = f
      BY <2>9 DEF Range
    <3>2. \A j \in DOMAIN slots : slots[j] = f <=> j = c
      BY <2>8, <2>9, <3>1 DEF IsRepeated
    <3>3. \A j : (j \in DOMAIN slots /\ slots[j] = f /\ \A h \in DOMAIN slots : slots[h] = f => j <= h) <=> j = c
      BY <2>9, <3>1, <3>2
    <3>4. \A j : (j \in DOMAIN slots /\ slots[j] = f /\ \A h \in DOMAIN slots : slots[h] = f => h <= j) <=> j = c
      BY <2>9, <3>1, <3>2
    <3>5. CalledAt(f, slots) = c
      BY <3>3 DEF CalledAt
    <3>6. Position(f, slots) = c
      BY <3>4 DEF Position
    <3>7. f \in Range(own) \cap Range(slots)
      BY <2>7
    <3>8. funs[c] = slots[c]
      BY <2>10, <3>1, <3>6, <3>7
    <3>9. QED  BY <3>1, <3>5, <3>8
  <2>13. QED  BY <2>6, <2>7, <2>11, <2>12
<1>3. QED  BY <1>2, Zenon DEF TableFilled

\* Variables have their values when they are read, and get them once.
LEMMA InvValues ==
    ASSUME IInv
    PROVE  VariablesInitialised
<1>1. RunInv /\ WorkOK
    BY DEF IInv, RunInv
<1>2. InitBeforeUse
    BY <1>1 DEF InitBeforeUse, IsUndefined, RunInv, ReadsOK, NoneEarly
<1>3. ASSUME work # <<>>, work[1] = Stores(Now), ~ MainUsed
      PROVE  Now \notin ready
  <2>1. 1 \in 1 .. Len(work)
    BY <1>1, <1>3, SeqShape DEF WorkOK
  <2>2. PICK w \in WorkKinds, k \in 1 .. N : work[1] = <<w, k>>
    BY <1>1, <2>1 DEF WorkOK
  <2>3. Now = k /\ work[1] = Stores(k)
    BY <1>3, <2>2 DEF Now
  <2>4. k \notin ready
    BY <1>1, <1>3, <2>1, <2>3 DEF RunInv, OnceOK
  <2>5. QED  BY <2>3, <2>4
<1>4. QED  BY <1>2, <1>3 DEF VariablesInitialised, InitOnce

\* The generator finds what the checker found: symbols stand for what was
\* declared under them, and a name, a member function and a conversion to a
\* trait lead to the declaration the checker resolved them to, in programs of
\* any length and depth (build_sym_table, gen_ext_decl_list).
THEOREM DeclarationsMeetHolds == Spec => []DeclarationsMeet
<1>1. IInv => DeclarationsMeet
    BY InvExtOK, InvUses DEF DeclarationsMeet
<1>2. QED  BY <1>1, Invariant, PTL

\* Each slot of the table of an implementation holds the function of the trait
\* with that name (ImplTraitNode::gen_llvm_ir), for lists of any length.
THEOREM TablesAreFilled == Spec => []TableFilled
<1>1. IInv => TableFilled
    BY InvTables
<1>2. QED  BY <1>1, Invariant, PTL

\* No global variable is read before it has its value, nor gets it twice
\* (global.var.init), however deep functions call each other.
THEOREM InitialisedHolds == Spec => []VariablesInitialised
<1>1. IInv => VariablesInitialised
    BY InvValues
<1>2. QED  BY <1>1, Invariant, PTL
=============================================================================
