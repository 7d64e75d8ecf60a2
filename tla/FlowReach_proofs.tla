-------------------------- MODULE FlowReach_proofs --------------------------
(***************************************************************************)
(* Proof that the blocks of FlowGen say what the source says: the entry of *)
(* a function that is done leads to a block exactly if control may come to *)
(* the statements in it.                                                   *)
(*                                                                         *)
(* Which blocks the entry leads to is first said without counting paths    *)
(* (Leads).  LiveInv then says that the blocks of an open function control *)
(* may come to lie in sections: that of the function, and one for each     *)
(* loop whose code is being generated, since what leads into a loop may be *)
(* generated last.  Every action keeps that: it writes a branch at the     *)
(* insertion point and goes on in a block nothing is in yet.               *)
(***************************************************************************)
EXTENDS FlowGen_proofs

-----------------------------------------------------------------------------
(* What the entry of a function leads to. *)

\* A set of blocks no branch leads out of.
Shut(C) == \A b \in C : Successors(b) \subseteq C

\* Every way leads from f to b that does not stop: b is in every such set f is in.
Leads(f, b) == \A C \in SUBSET Block : f \in C /\ Shut(C) => b \in C

\* What n branches lead to, for n up to N.
Onward(B) == B \cup UNION {Successors(b) : b \in B}
IsWithin(g, f, N) == g = [n \in 0 .. N |-> IF n = 0 THEN {f} ELSE Onward(g[n - 1])]

\* The function is defined.
LEMMA WithinExists ==
    ASSUME NEW f, NEW N \in Nat
    PROVE  \E g : IsWithin(g, f, N)
<1> DEFINE T == {n \in Nat : \E g : IsWithin(g, f, n)}
<1>1. 0 \in T
    <2>1. PICK g : g = [n \in 0 .. 0 |-> {f}]
        OBVIOUS
    <2>2. g = [n \in 0 .. 0 |-> IF n = 0 THEN {f} ELSE Onward(g[n - 1])]
        BY <2>1
    <2>3. QED  BY <2>2 DEF IsWithin
<1>2. ASSUME NEW n \in Nat, n \in T PROVE n + 1 \in T
    <2>1. PICK g : IsWithin(g, f, n)
        BY <1>2
    <2>2. PICK h : h = [k \in 0 .. n + 1 |-> IF k = n + 1 THEN Onward(g[n]) ELSE g[k]]
        OBVIOUS
    <2>3. ASSUME NEW k \in 0 .. n + 1
          PROVE  h[k] = IF k = 0 THEN {f} ELSE Onward(h[k - 1])
        <3>1. CASE k = n + 1
            <4>1. h[k] = Onward(g[n]) /\ k # 0 /\ k - 1 = n /\ n \in 0 .. n + 1 /\ n # n + 1
                BY <2>2, <3>1
            <4>2. h[n] = g[n]
                BY <2>2, <4>1
            <4>3. QED  BY <4>1, <4>2
        <3>2. CASE k # n + 1
            <4>1. k \in 0 .. n /\ h[k] = g[k]
                BY <2>2, <3>2
            <4>2. g[k] = IF k = 0 THEN {f} ELSE Onward(g[k - 1])
                BY <2>1, <4>1 DEF IsWithin
            <4>3. k # 0 => k - 1 \in 0 .. n + 1 /\ k - 1 # n + 1
                BY <4>1
            <4>4. k # 0 => h[k - 1] = g[k - 1]
                BY <2>2, <4>3
            <4>5. QED  BY <4>1, <4>2, <4>4
        <3>3. QED  BY <3>1, <3>2
    <2>4. h = [k \in 0 .. n + 1 |-> IF k = 0 THEN {f} ELSE Onward(h[k - 1])]
        <3>1. h = [k \in 0 .. n + 1 |-> h[k]]
            BY <2>2
        <3>2. QED  BY <2>3, <3>1
    <2>5. IsWithin(h, f, n + 1)
        BY <2>4 DEF IsWithin
    <2>6. QED  BY <2>5
<1> HIDE DEF T
<1>3. \A n \in Nat : n \in T
    BY <1>1, <1>2, Inductive
<1>4. QED  BY <1>3 DEF T

\* Reached is what as many branches lead to as there are blocks.
LEMMA ReachedIs ==
    ASSUME NEW f, Len(blocks) \in Nat
    PROVE  \E g : IsWithin(g, f, Len(blocks)) /\ Reached(f) = g[Len(blocks)]
<1> DEFINE w == CHOOSE g : IsWithin(g, f, Len(blocks))
<1>1. IsWithin(w, f, Len(blocks))
    BY WithinExists
<1>2. Reached(f) = w[Len(blocks)]
    BY DEF Reached, IsWithin, Onward
<1>3. QED  BY <1>1, <1>2

\* So the entry leads to a block exactly if no set of blocks without a way out
\* has the one and not the other: as many branches as there are blocks are enough.
LEMMA ReachedMeans ==
    ASSUME Len(blocks) \in Nat, Block = 1 .. Len(blocks),
           \A b \in Block : Successors(b) \subseteq Block,
           NEW f \in Block, NEW b
    PROVE  b \in Reached(f) <=> Leads(f, b)
<1>1. PICK N \in Nat : N = Len(blocks) /\ Block = 1 .. N
    OBVIOUS
<1>2. PICK g : IsWithin(g, f, N) /\ Reached(f) = g[N]
    BY <1>1, ReachedIs
<1>3. /\ g[0] = {f}
      /\ \A n \in Nat : n + 1 <= N => g[n + 1] = Onward(g[n])
    <2>1. \A n \in 0 .. N : g[n] = IF n = 0 THEN {f} ELSE Onward(g[n - 1])
        BY <1>2 DEF IsWithin
    <2>2. 0 \in 0 .. N
        OBVIOUS
    <2>3. \A n \in Nat : n + 1 <= N => n + 1 \in 0 .. N /\ n + 1 # 0 /\ (n + 1) - 1 = n
        OBVIOUS
    <2>4. QED  BY <2>1, <2>2, <2>3
<1>4. ASSUME NEW C, f \in C, Shut(C) PROVE g[N] \subseteq C
    <2> DEFINE T == {n \in Nat : n <= N => g[n] \subseteq C}
    <2>1. 0 \in T
        BY <1>3, <1>4
    <2>2. ASSUME NEW n \in Nat, n \in T PROVE n + 1 \in T
        <3>1. CASE n + 1 <= N
            <4>1. n <= N /\ g[n + 1] = Onward(g[n])
                BY <1>3, <3>1
            <4>2. g[n] \subseteq C
                BY <2>2, <4>1
            <4>3. \A x \in g[n] : Successors(x) \subseteq C
                BY <1>4, <4>2 DEF Shut
            <4>4. g[n + 1] \subseteq C
                BY <4>1, <4>2, <4>3 DEF Onward
            <4>5. QED  BY <4>4
        <3>2. CASE ~ (n + 1 <= N)
            BY <3>2
        <3>3. QED  BY <3>1, <3>2
    <2> HIDE DEF T
    <2>3. \A n \in Nat : n \in T
        BY <2>1, <2>2, Inductive
    <2>4. N \in T /\ N <= N
        BY <2>3
    <2>5. QED  BY <2>4 DEF T
<1>5. g[N] \subseteq Block
    <2>1. Shut(Block)
        BY DEF Shut
    <2>2. QED  BY <1>4, <2>1
<1>6. \A n \in Nat : n + 1 <= N => g[n] \subseteq g[n + 1]
    BY <1>3 DEF Onward
<1>7. \A n \in Nat : n <= N => g[n] \subseteq g[N] /\ f \in g[n]
    <2> DEFINE T == {n \in Nat : n <= N => f \in g[n]}
               U == {n \in Nat : n <= N => g[N - n] \subseteq g[N]}
    <2>1. 0 \in T /\ \A n \in Nat : n \in T => n + 1 \in T
        <3>1. 0 \in T
            BY <1>3
        <3>2. ASSUME NEW n \in Nat, n \in T PROVE n + 1 \in T
            <4>1. n + 1 <= N => n <= N
                OBVIOUS
            <4>2. QED  BY <1>6, <3>2, <4>1
        <3>3. QED  BY <3>1, <3>2
    <2>2. 0 \in U /\ \A n \in Nat : n \in U => n + 1 \in U
        <3>1. 0 \in U
            <4>1. N - 0 = N
                OBVIOUS
            <4>2. QED  BY <4>1
        <3>2. ASSUME NEW n \in Nat, n \in U PROVE n + 1 \in U
            <4>1. CASE n + 1 <= N
                <5>1. PICK k \in Nat : k = N - (n + 1)
                    BY <4>1
                <5>2. k + 1 = N - n /\ k + 1 <= N /\ n <= N
                    BY <5>1
                <5>3. g[k] \subseteq g[k + 1]
                    BY <1>6, <5>2
                <5>4. g[k + 1] \subseteq g[N]
                    BY <3>2, <5>2
                <5>5. QED  BY <5>1, <5>3, <5>4
            <4>2. CASE ~ (n + 1 <= N)
                BY <4>2
            <4>3. QED  BY <4>1, <4>2
        <3>3. QED  BY <3>1, <3>2
    <2> HIDE DEF T, U
    <2>3. \A n \in Nat : n \in T
        BY <2>1, Inductive
    <2>4. \A n \in Nat : n \in U
        BY <2>2, Inductive
    <2>5. ASSUME NEW n \in Nat, n <= N PROVE g[n] \subseteq g[N]
        <3>1. PICK k \in Nat : k = N - n
            BY <2>5
        <3>2. k <= N /\ N - k = n
            BY <2>5, <3>1
        <3>3. k \in U
            BY <2>4
        <3>4. QED  BY <3>2, <3>3 DEF U
    <2>6. QED  BY <2>3, <2>5 DEF T
<1>8. Shut(g[N])
    <2> SUFFICES ASSUME ~ Shut(g[N]) PROVE FALSE
        OBVIOUS
    <2>1. ASSUME NEW n \in Nat, n + 1 <= N PROVE g[n] # g[n + 1]
        <3> SUFFICES ASSUME g[n] = g[n + 1] PROVE FALSE
            OBVIOUS
        <3>1. Shut(g[n])
            BY <1>3, <2>1 DEF Shut, Onward
        <3>2. n <= N
            BY <2>1
        <3>3. f \in g[n] /\ g[n] \subseteq g[N]
            BY <1>7, <3>2
        <3>4. g[N] \subseteq g[n]
            BY <1>4, <3>1, <3>3
        <3>5. g[N] = g[n]
            BY <3>3, <3>4
        <3>6. QED  BY <3>1, <3>5
    <2>2. IsFiniteSet(Block) /\ Cardinality(Block) = N
        <3>1. IsFiniteSet(1 .. N) /\ Cardinality(1 .. N) = IF 1 > N THEN 0 ELSE N - 1 + 1
            BY FS_Interval
        <3>2. (IF 1 > N THEN 0 ELSE N - 1 + 1) = N
            OBVIOUS
        <3>3. QED  BY <1>1, <3>1, <3>2
    <2>3. ASSUME NEW n \in Nat, n <= N
          PROVE  IsFiniteSet(g[n]) /\ Cardinality(g[n]) \in Nat /\ Cardinality(g[n]) <= N
        <3>1. g[n] \in SUBSET Block
            BY <1>5, <1>7, <2>3
        <3>2. QED  BY <2>2, <3>1, FS_Subset, FS_CardinalityType
    <2> DEFINE T == {n \in Nat : n <= N => Cardinality(g[n]) >= n + 1}
    <2>4. 0 \in T
        <3>1. Cardinality(g[0]) = 1
            BY <1>3, FS_Singleton
        <3>2. 0 \in Nat /\ (Cardinality(g[0]) = 1 => Cardinality(g[0]) >= 0 + 1)
            OBVIOUS
        <3>3. QED  BY <3>1, <3>2
    <2>5. ASSUME NEW n \in Nat, n \in T PROVE n + 1 \in T
        <3>1. CASE n + 1 <= N
            <4>1. n <= N /\ n + 1 \in Nat
                BY <3>1
            <4>2. /\ Cardinality(g[n]) >= n + 1
                  /\ Cardinality(g[n]) \in Nat /\ Cardinality(g[n + 1]) \in Nat
                  /\ IsFiniteSet(g[n + 1])
                BY <2>3, <2>5, <3>1, <4>1
            <4>3. g[n] \in SUBSET g[n + 1] /\ g[n] # g[n + 1]
                BY <1>6, <2>1, <3>1
            <4>4. /\ Cardinality(g[n]) <= Cardinality(g[n + 1])
                  /\ Cardinality(g[n]) # Cardinality(g[n + 1])
                BY <4>2, <4>3, FS_Subset
            <4>5. \A x, y \in Nat : x >= n + 1 /\ x <= y /\ x # y => y >= (n + 1) + 1
                OBVIOUS
            <4>6. Cardinality(g[n + 1]) >= (n + 1) + 1
                BY <4>2, <4>4, <4>5
            <4>7. QED  BY <4>6
        <3>2. CASE ~ (n + 1 <= N)
            BY <3>2
        <3>3. QED  BY <3>1, <3>2
    <2> HIDE DEF T
    <2>6. \A n \in Nat : n \in T
        BY <2>4, <2>5, Inductive
    <2>7. N \in T /\ N <= N
        BY <2>6
    <2>8. Cardinality(g[N]) >= N + 1
        BY <2>7 DEF T
    <2>9. Cardinality(g[N]) \in Nat /\ Cardinality(g[N]) <= N
        BY <2>3, <2>7
    <2>10. QED  BY <2>8, <2>9
<1>9. f \in g[N]
    <2>1. N <= N
        OBVIOUS
    <2>2. QED  BY <1>7, <2>1
<1>10. b \in g[N] => Leads(f, b)
    BY <1>4 DEF Leads
<1>11. Leads(f, b) => b \in g[N]
    BY <1>5, <1>8, <1>9 DEF Leads
<1>12. QED  BY <1>2, <1>10, <1>11

-----------------------------------------------------------------------------
(* Levels and sections. *)

\* The function a construct is in.
FnAt(i) == blocks[Home(i)].fn

\* The constructs whose code starts in a block of its own: functions, and loops
\* in the parts that the condition leads to.
Opens(x) == x.kind = "func" \/ (x.kind \in Loops /\ x.phase \in {"body", "step"})

\* The section code at the level of the i-th construct belongs to.
Openers(i) == {j \in DOMAIN open : j <= i /\ Opens(open[j])}
Section(i) == CHOOSE j \in Openers(i) : \A k \in Openers(i) : k <= j

\* The place of a construct on the stack.
LEMMA LevelIs ==
    ASSUME FlowInv, NEW i \in DOMAIN open
    PROVE  /\ UpTo(Funcs, i) \in DOMAIN builders
           /\ Home(i) = builders[UpTo(Funcs, i)]
           /\ Home(i) \in Block /\ FnAt(i) \in Block /\ FnAt(i) \in Nat /\ i \in Nat /\ i >= 1
           /\ open[1].kind = "func" /\ 1 \in DOMAIN open
<1>1. Shaped
    BY Shapes DEF FlowInv
<1>2. PICK m \in Nat : m = Len(open) /\ DOMAIN open = 1 .. m
    BY <1>1 DEF Shaped
<1>3. 1 \in DOMAIN open /\ open[1].kind = "func"
    <2>1. open # <<>>
        BY <1>1, <1>2 DEF Shaped
    <2>2. 1 \in 1 .. m
        BY <1>2
    <2>3. QED  BY <1>2, <2>1, <2>2 DEF FlowInv, LevelsFit
<1>4. PICK F \in SUBSET (1 .. m) : F = Funcs /\ 1 \in F
    BY <1>2, <1>3 DEF Funcs
<1>5. PICK u : u = UpTo(F, i)
    OBVIOUS
<1>6. /\ Cardinality(F) \in Nat
      /\ \A j \in 1 .. m : UpTo(F, j) \in Nat /\ UpTo(F, j) <= Cardinality(F)
      /\ 1 \in F => \A j \in 1 .. m : UpTo(F, j) >= 1
    <2>1. CountsAs(F, F, m)
        BY <1>2, <1>4, Counts
    <2>2. QED  BY <2>1 DEF CountsAs
<1>7. u \in Nat /\ u <= Cardinality(F) /\ u >= 1
    BY <1>2, <1>4, <1>5, <1>6
<1>8. Len(builders) = Cardinality(F)
    BY <1>4 DEF FlowInv, LevelsFit
<1>9. u \in DOMAIN builders
    BY <1>1, <1>7, <1>8 DEF Shaped
<1>10. Home(i) = builders[u]
    BY <1>4, <1>5 DEF Home
<1>11. Home(i) \in Block
    BY <1>9, <1>10 DEF FlowInv, BuildersFit
<1>12. FnAt(i) \in Block
    BY <1>11 DEF FlowInv, BlocksFit, FnAt
<1>13. FnAt(i) \in Nat
    BY <1>1, <1>12 DEF Shaped
<1>14. QED  BY <1>2, <1>3, <1>4, <1>5, <1>9, <1>10, <1>11, <1>12, <1>13

\* Constructs no function stands between are in the same one; behind a function
\* there is another builder.
LEMMA SameLevel ==
    ASSUME FlowInv, NEW i \in DOMAIN open, NEW j \in DOMAIN open, i <= j
    PROVE  /\ (\A k \in i + 1 .. j : open[k].kind # "func") =>
                 /\ UpTo(Funcs, i) = UpTo(Funcs, j)
                 /\ Home(i) = Home(j) /\ FnAt(i) = FnAt(j)
           /\ i < j /\ open[j].kind = "func" => UpTo(Funcs, i) < UpTo(Funcs, j)
<1>1. Shaped
    BY Shapes DEF FlowInv
<1>2. PICK m \in Nat : m = Len(open) /\ DOMAIN open = 1 .. m
    BY <1>1 DEF Shaped
<1>3. Funcs \in SUBSET (1 .. m) /\ \A k \in Funcs : open[k].kind = "func"
    BY <1>2 DEF Funcs
<1>4. ASSUME \A k \in i + 1 .. j : open[k].kind # "func"
      PROVE  UpTo(Funcs, i) = UpTo(Funcs, j)
    <2>1. \A k \in Funcs : k <= j <=> k <= i
        <3>1. \A k \in Funcs : k \notin i + 1 .. j
            BY <1>3, <1>4
        <3>2. QED  BY <1>2, <1>3, <3>1
    <2>2. {k \in Funcs : k <= i} = {k \in Funcs : k <= j}
        BY <2>1
    <2>3. QED  BY <2>2 DEF UpTo
<1>5. ASSUME i < j, open[j].kind = "func" PROVE UpTo(Funcs, i) < UpTo(Funcs, j)
    <2> DEFINE A == {k \in Funcs : k <= i}   B == {k \in Funcs : k <= j}
    <2>1. j \in B /\ j \notin A /\ A \in SUBSET B
        BY <1>2, <1>5 DEF Funcs
    <2>2. /\ IsFiniteSet(Funcs) /\ UpTo(Funcs, i) \in Nat /\ UpTo(Funcs, j) \in Nat
        <3>1. i \in Nat /\ j \in Nat
            BY <1>2
        <3>2. QED  BY <1>2, <1>3, <3>1, CountTo
    <2>3. B \in SUBSET Funcs
        OBVIOUS
    <2> HIDE DEF A, B
    <2>4. IsFiniteSet(B)
        BY <2>2, <2>3, FS_Subset
    <2>5. Cardinality(A) <= Cardinality(B) /\ Cardinality(A) # Cardinality(B)
        BY <2>1, <2>4, FS_Subset
    <2>6. UpTo(Funcs, i) = Cardinality(A) /\ UpTo(Funcs, j) = Cardinality(B)
        BY DEF UpTo, A, B
    <2>7. \A x, y \in Nat : x <= y /\ x # y => x < y
        OBVIOUS
    <2>8. QED  BY <2>2, <2>5, <2>6, <2>7
<1>6. QED  BY <1>4, <1>5 DEF Home, FnAt

\* The section of a level: its own if its code starts in a block of its own, and
\* that of the level around it otherwise.
LEMMA SectionIs ==
    ASSUME FlowInv, NEW i \in DOMAIN open
    PROVE  /\ Section(i) \in DOMAIN open /\ Section(i) <= i /\ Opens(open[Section(i)])
           /\ FnAt(Section(i)) = FnAt(i)
           /\ Opens(open[i]) => Section(i) = i
           /\ ~ Opens(open[i]) => /\ i - 1 \in DOMAIN open /\ i - 1 < i
                                  /\ Section(i) = Section(i - 1)
                                  /\ FnAt(i - 1) = FnAt(i) /\ UpTo(Funcs, i - 1) = UpTo(Funcs, i)
<1>1. Shaped
    BY Shapes DEF FlowInv
<1>2. PICK m \in Nat : m = Len(open) /\ DOMAIN open = 1 .. m
    BY <1>1 DEF Shaped
<1>3. 1 \in DOMAIN open /\ open[1].kind = "func" /\ i \in Nat /\ i >= 1
    BY LevelIs
<1>4. ASSUME NEW k \in DOMAIN open
      PROVE  Section(k) \in Openers(k) /\ \A l \in Openers(k) : l <= Section(k)
    <2>1. 1 \in Openers(k)
        BY <1>2, <1>3 DEF Openers, Opens
    <2>2. Openers(k) \in SUBSET (1 .. m)
        BY <1>2 DEF Openers
    <2>3. \E j \in Openers(k) : \A l \in Openers(k) : l <= j
        BY <1>2, <2>1, <2>2, Greatest
    <2>4. QED  BY <2>3 DEF Section
<1>5. Section(i) \in DOMAIN open /\ Section(i) <= i /\ Opens(open[Section(i)])
    BY <1>4 DEF Openers
<1>6. FnAt(Section(i)) = FnAt(i)
    <2>1. \A k \in Section(i) + 1 .. i : open[k].kind # "func"
        <3> SUFFICES ASSUME NEW k \in Section(i) + 1 .. i, open[k].kind = "func" PROVE FALSE
            OBVIOUS
        <3>1. k \in DOMAIN open /\ k <= i /\ k > Section(i)
            BY <1>2, <1>5
        <3>2. k \in Openers(i)
            BY <3>1 DEF Openers, Opens
        <3>3. k <= Section(i)
            BY <1>4, <3>2
        <3>4. QED  BY <1>2, <1>5, <3>1, <3>3
    <2>2. QED  BY <1>5, <2>1, SameLevel
<1>7. ASSUME Opens(open[i]) PROVE Section(i) = i
    <2>1. i \in Openers(i)
        BY <1>2, <1>7 DEF Openers
    <2>2. i <= Section(i)
        BY <1>4, <2>1
    <2>3. QED  BY <1>2, <1>5, <2>2
<1>8. ASSUME ~ Opens(open[i])
      PROVE  /\ i - 1 \in DOMAIN open /\ i - 1 < i
             /\ Section(i) = Section(i - 1)
             /\ FnAt(i - 1) = FnAt(i) /\ UpTo(Funcs, i - 1) = UpTo(Funcs, i)
    <2>1. i # 1 /\ open[i].kind # "func"
        BY <1>3, <1>8 DEF Opens
    <2>2. i - 1 \in 1 .. m /\ i - 1 <= i /\ i - 1 < i
        BY <1>2, <1>3, <2>1
    <2>3. \A j \in DOMAIN open : j <= i /\ Opens(open[j]) <=> j <= i - 1 /\ Opens(open[j])
        <3>1. \A j \in 1 .. m : j <= i <=> j <= i - 1 \/ j = i
            BY <1>2
        <3>2. QED  BY <1>2, <1>8, <3>1
    <2>4. Openers(i) = Openers(i - 1)
        BY <2>3 DEF Openers
    <2>5. \A k \in (i - 1) + 1 .. i : k = i
        BY <1>3
    <2>6. FnAt(i - 1) = FnAt(i) /\ UpTo(Funcs, i - 1) = UpTo(Funcs, i)
        BY <1>2, <2>1, <2>2, <2>5, SameLevel
    <2>7. QED  BY <1>2, <2>2, <2>4, <2>6 DEF Section
<1>9. QED  BY <1>5, <1>6, <1>7, <1>8

-----------------------------------------------------------------------------
(* Which blocks live.                                                      *)
(*                                                                         *)
(* Control may come to a block of a function if sec gives it a section:    *)
(* then the block the section starts in leads to it, by the branches there *)
(* are.  The section of a loop's body is joined to the one around it when  *)
(* the condition, which is generated last, is seen to lead to the body.    *)

\* The block a section starts in.
Base(i) == IF open[i].kind = "func" THEN FnAt(i) ELSE open[i].begin

Mk(l, s)   == IF l THEN s ELSE 0
LivesAt(i) == lives[UpTo(Funcs, i)]
Tip(i)     == i = Len(open) \/ open[i + 1].kind = "func"
Flagged(x) == x.entry \/ x.brk \/ x.cont

\* A live block is in a section of its function; a loop has one if it is come to.
SectionsFit(f, sec) ==
    /\ sec[f] # 0
    /\ \A b \in Nat : sec[b] # 0 =>
          /\ b \in Block /\ blocks[b].fn = f
          /\ sec[b] \in DOMAIN open /\ FnAt(sec[b]) = f
          /\ open[sec[b]].kind \in Loops \cup {"func"}
          /\ open[sec[b]].kind \in Loops => open[sec[b]].entry

\* What a live block leads to in its function is live.
OnwardFit(f, sec) ==
    \A b \in Nat : sec[b] # 0 =>
        \A to \in Successors(b) : blocks[to].fn = f => sec[to] # 0

\* The block a section starts in leads to each of its blocks.
JustFit(f, sec) ==
    \A i \in DOMAIN open : FnAt(i) = f =>
        \A C \in SUBSET Block : Shut(C) /\ Base(i) \in C =>
            \A b \in Nat : sec[b] = i => b \in C

\* The builder stands where lives says.
StandsFit(f, sec) ==
    \A i \in DOMAIN open : Tip(i) /\ FnAt(i) = f =>
        sec[Home(i)] = Mk(LivesAt(i), Section(i))

\* What is noted of a construct is what its blocks are.
NoteFits(sec, x, i, o) ==
    /\ x.kind = "if" /\ x.phase = "then" =>
          /\ sec[IF x.has THEN x.begin ELSE x.end] = Mk(x.entry, o)
          /\ x.has => sec[x.end] = 0
    /\ x.kind = "if" /\ x.phase = "else" => sec[x.end] = Mk(x.brk, o)
    /\ x.kind \in Loops => /\ sec[x.begin] = Mk(x.entry, i)
                           /\ sec[x.end] = Mk(x.brk, i)
                           /\ x.brk \/ x.cont => x.entry
    /\ x.kind = "while" => sec[x.nxt] = Mk(x.entry, o)
    /\ x.kind = "for" => sec[x.nxt + 1] = Mk(x.entry, o)
    /\ x.kind = "for" /\ x.phase \in {"init", "body"} => sec[x.nxt] = Mk(x.cont, i)
    /\ x.kind = "for" /\ x.phase = "init" => ~ x.entry

NotesFit(f, sec) ==
    \A i \in DOMAIN open : FnAt(i) = f => NoteFits(sec, open[i], i, Section(i - 1))

\* A loop that is not come to holds nothing that is.
Lit(sec, x) ==
    x.kind \in Loops /\ x.phase # "init" =>
        x.entry /\ (x.phase = "step" => sec[x.nxt] # 0)

DeadFit(f, sec) ==
    \A i, j \in DOMAIN open : i <= j /\ FnAt(i) = f /\ FnAt(j) = f =>
        /\ i < j /\ Flagged(open[j]) => Lit(sec, open[i])
        /\ Tip(j) /\ LivesAt(j) => Lit(sec, open[i])

\* The statements are marked as their blocks are.
MarksFit(f, sec) ==
    \A k \in marks : blocks[k[1]].fn = f => (k[2] <=> sec[k[1]] # 0)

LiveFn(f, sec) ==
    /\ SectionsFit(f, sec) /\ OnwardFit(f, sec) /\ JustFit(f, sec) /\ StandsFit(f, sec)
    /\ NotesFit(f, sec) /\ DeadFit(f, sec) /\ MarksFit(f, sec)

\* Branches stay in the function or lead to one around it, and functions that
\* are nested have their entries later.
Upward == \A b \in Block : \A to \in Successors(b) : blocks[to].fn <= blocks[b].fn
Rising == \A i, j \in DOMAIN open : i < j =>
              /\ FnAt(i) <= FnAt(j)
              /\ open[j].kind = "func" => FnAt(i) < FnAt(j)

\* No statement is in a block that is waited for.
MarksIn == /\ marks \subseteq Block \X BOOLEAN
           /\ \A k \in marks : ~ Awaited(k[1])

\* The functions that are done have their statements marked as the entry leads
\* to them.
Settled ==
    \A f \in Closed \ early : \A k \in marks :
        blocks[k[1]].fn = f => (k[2] <=> Leads(f, k[1]))

\* In the others the blocks live as they are marked, but for those where a jump
\* or a condition has turned against code that was generated before it.
LiveInv ==
    /\ Upward /\ Rising /\ MarksIn /\ Settled
    /\ \A f \in Nat \ early : (\E i \in DOMAIN open : FnAt(i) = f) =>
          \E sec \in [Nat -> Nat] : LiveFn(f, sec)

\* What the blocks lead to after a step.
LEMMA SuccStep ==
    ASSUME FlowInv, FlowInv', NEW at \in Nat, NEW t, NEW q, Writes(at, t, q),
           at # 0 => Current(at)
    PROVE  /\ \A b \in Nat : b \in Block' <=> b \in Block \/ Fresh(b)
           /\ \A b \in Nat : b \in Block => ~ Fresh(b) /\ b # 0
           /\ Block \subseteq Block' /\ Block \subseteq Nat /\ Block' \subseteq Nat
           /\ at # 0 => at \in Block /\ Successors(at) = {} /\ Successors(at)' = t.to
           /\ \A b \in Block : b # at => Successors(b)' = Successors(b)
           /\ \A b \in Block : Successors(b) \subseteq Successors(b)'
           /\ \A b \in Nat : Fresh(b) => Successors(b)' = {}
           /\ \A b \in Block : Successors(b) \subseteq Block
           /\ \A b \in Block' : Successors(b)' \subseteq Block'
<1>1. /\ Len(blocks) \in Nat /\ Block = 1 .. Len(blocks)
      /\ Len(blocks') \in Nat /\ Block' = 1 .. Len(blocks')
    BY Shapes DEF FlowInv, Shaped
<1>2. /\ \A b \in Nat : b \in Block' <=> b \in Block \/ Fresh(b)
      /\ \A b \in Nat : b \in Block => ~ Fresh(b) /\ b # 0
      /\ Block \subseteq Nat /\ Block' \subseteq Nat
    BY <1>1 DEF Fresh, Writes
<1>3. Block \subseteq Block'
    BY <1>2
<1>4. \A b : Successors(b) = SuccOf(blocks[b].term) /\ Successors(b)' = SuccOf(blocks'[b].term)
    BY DEF Successors, SuccOf
<1>5. at # 0 => at \in Block /\ Successors(at) = {} /\ Successors(at)' = t.to
    <2> SUFFICES ASSUME at # 0 PROVE at \in Block /\ Successors(at) = {} /\ Successors(at)' = t.to
        OBVIOUS
    <2>1. at \in Block /\ blocks[at].term = <<>>
        BY DEF Current, FlowInv, BuildersFit
    <2>2. blocks'[at].term = <<t>>
        BY <2>1 DEF Writes
    <2>3. QED  BY <1>4, <2>1, <2>2, SuccIs
<1>6. \A b \in Block : b # at => Successors(b)' = Successors(b)
    BY <1>4 DEF Writes
<1>7. \A b \in Block : Successors(b) \subseteq Successors(b)'
    <2>1. 0 \notin Block
        BY <1>2
    <2>2. QED  BY <1>5, <1>6, <2>1
<1>8. \A b \in Nat : Fresh(b) => Successors(b)' = {}
    BY <1>4, SuccIs DEF Writes
<1>9. /\ \A b \in Block : Successors(b) \subseteq Block
      /\ \A b \in Block' : Successors(b)' \subseteq Block'
    BY DEF FlowInv, BlocksFit
<1>10. QED  BY <1>2, <1>3, <1>5, <1>6, <1>7, <1>8, <1>9

\* Branches that do not leave the functions around.
LEMMA UpwardKeeps ==
    ASSUME FlowInv, FlowInv', Upward, NEW at \in Nat, NEW t, NEW q, Writes(at, t, q),
           at # 0 => Current(at) /\ \A to \in t.to : blocks'[to].fn <= blocks[at].fn
    PROVE  Upward'
<1>1. /\ \A b \in Nat : b \in Block' <=> b \in Block \/ Fresh(b)
      /\ Block \subseteq Block' /\ Block' \subseteq Nat
      /\ at # 0 => at \in Block /\ Successors(at)' = t.to
      /\ \A b \in Block : b # at => Successors(b)' = Successors(b)
      /\ \A b \in Nat : Fresh(b) => Successors(b)' = {}
      /\ \A b \in Block : Successors(b) \subseteq Block
      /\ \A b \in Nat : b \in Block => b # 0
    BY SuccStep
<1>2. \A b \in Block : blocks'[b].fn = blocks[b].fn
    BY DEF Writes
<1>3. ASSUME NEW b \in Block', NEW to \in Successors(b)'
      PROVE  blocks'[to].fn <= blocks'[b].fn
    <2>1. b \in Block /\ b \in Nat
        BY <1>1, <1>3
    <2>2. CASE b = at
        BY <1>1, <1>2, <1>3, <2>1, <2>2
    <2>3. CASE b # at
        <3>1. to \in Successors(b) /\ to \in Block
            BY <1>1, <1>3, <2>1, <2>3
        <3>2. blocks[to].fn <= blocks[b].fn
            BY <2>1, <3>1 DEF Upward
        <3>3. QED  BY <1>2, <2>1, <3>1, <3>2
    <2>4. QED  BY <2>2, <2>3
<1>4. QED  BY <1>3 DEF Upward

\* Code that comes to other functions changes nothing for the blocks of one.
LEMMA LeadsKeeps ==
    ASSUME FlowInv, FlowInv', Upward', NEW at \in Nat, NEW t, NEW q, Writes(at, t, q),
           NEW f \in Block, at # 0 => Current(at) /\ blocks[at].fn # f,
           blocks[f].fn = f, NEW b \in Block, blocks[b].fn = f
    PROVE  Leads(f, b)' <=> Leads(f, b)
<1>1. /\ \A x \in Nat : x \in Block' <=> x \in Block \/ Fresh(x)
      /\ Block \subseteq Block' /\ Block \subseteq Nat /\ Block' \subseteq Nat
      /\ \A x \in Block : x # at => Successors(x)' = Successors(x)
      /\ \A x \in Block : Successors(x) \subseteq Successors(x)'
      /\ \A x \in Block : Successors(x) \subseteq Block
      /\ \A x \in Block' : Successors(x)' \subseteq Block'
      /\ \A x \in Nat : x \in Block => x # 0
    BY SuccStep
<1>2. \A x \in Block : blocks'[x].fn = blocks[x].fn
    BY DEF Writes
<1>3. \A x \in Block' : blocks'[x].fn \in Nat
    BY Shapes DEF FlowInv, Shaped, BlockT
<1>4. ASSUME Leads(f, b) PROVE Leads(f, b)'
    <2> SUFFICES ASSUME NEW C \in SUBSET Block', f \in C, Shut(C)' PROVE b \in C
        BY DEF Leads
    <2>1. Shut(C \cap Block)
        BY <1>1 DEF Shut
    <2>2. QED  BY <1>4, <2>1 DEF Leads
<1>5. ASSUME ~ Leads(f, b) PROVE ~ Leads(f, b)'
    <2>1. PICK C \in SUBSET Block : f \in C /\ Shut(C) /\ b \notin C
        BY <1>5 DEF Leads
    <2>2. PICK D : D = {x \in C : blocks'[x].fn = f} \cup {x \in Block' : blocks'[x].fn < f}
        OBVIOUS
    <2>3. D \in SUBSET Block' /\ f \in D
        BY <1>1, <1>2, <2>1, <2>2
    <2>4. b \notin D
        <3>1. ~ (f < f)
            BY <1>1
        <3>2. QED  BY <1>2, <2>1, <2>2, <3>1
    <2>5. Shut(D)'
        <3> SUFFICES ASSUME NEW x \in D, NEW to \in Successors(x)' PROVE to \in D
            BY DEF Shut
        <3>1. x \in Block' /\ to \in Block'
            BY <1>1, <2>3
        <3>2. blocks'[to].fn <= blocks'[x].fn /\ blocks'[to].fn \in Nat /\ blocks'[x].fn \in Nat
            BY <1>3, <3>1 DEF Upward
        <3>3. f \in Nat
            BY <1>1
        <3>4. CASE blocks'[x].fn < f
            <4>1. blocks'[to].fn < f
                BY <3>2, <3>3, <3>4
            <4>2. QED  BY <2>2, <3>1, <4>1
        <3>5. CASE x \in C /\ blocks'[x].fn = f
            <4>1. x # at
                BY <1>1, <1>2, <2>1, <3>5
            <4>2. to \in C
                BY <1>1, <2>1, <3>5, <4>1 DEF Shut
            <4>3. blocks'[to].fn = f \/ blocks'[to].fn < f
                BY <3>2, <3>3, <3>5
            <4>4. QED  BY <2>2, <3>1, <4>2, <4>3
        <3>6. QED  BY <2>2, <3>4, <3>5
    <2>6. QED  BY <2>3, <2>4, <2>5 DEF Leads
<1>6. QED  BY <1>4, <1>5

-----------------------------------------------------------------------------
(* What a step leaves alone. *)

\* Constructs of which the same is noted, but for the end of a body.
Same(x, y) == Alike(x, y) /\ x.entry = y.entry /\ x.brk = y.brk /\ x.cont = y.cont

\* The constructs that stay are at the level they were at, and in their section.
LEMMA LevelsStay ==
    ASSUME FlowInv, FlowInv', NEW m \in Nat, Keeps(m)
    PROVE  \A i \in 1 .. m :
              /\ i \in DOMAIN open /\ i \in DOMAIN open'
              /\ Section(i)' = Section(i)
              /\ Opens(open[i]) <=> Opens(open'[i])
              /\ \E u \in Nat : /\ u \in DOMAIN builders /\ u \in DOMAIN builders'
                                /\ UpTo(Funcs, i) = u
                                /\ Home(i) = builders[u] /\ Home(i)' = builders'[u]
                                /\ LivesAt(i) = lives[u] /\ LivesAt(i)' = lives'[u]
<1>1. Typed /\ Typed' /\ Shaped /\ Shaped'
    BY Shapes DEF FlowInv
<1>2. PICK F \in SUBSET (1 .. m) :
          /\ \A i \in 1 .. m : i \in F <=> open[i].kind = "func"
          /\ Funcs = IF FuncLast(m) THEN F \cup {m + 1} ELSE F
          /\ Funcs' = IF FuncLast(m)' THEN F \cup {m + 1} ELSE F
    BY <1>1, Levels
<1>3. PICK P, Q : P = Funcs /\ Q = Funcs'
    OBVIOUS
<1>4. (P = F \/ P = F \cup {m + 1}) /\ (Q = F \/ Q = F \cup {m + 1})
    BY <1>2, <1>3
<1>5. /\ \A i \in 1 .. m : i \in DOMAIN open /\ i \in DOMAIN open' /\ i # m + 1
      /\ \A i \in 1 .. m : Alike(open[i], open'[i])
    BY <1>1, KeepsIs DEF Keeps
<1>6. /\ CountsAs(P, F, m) /\ CountsAs(Q, F, m)
    <2>1. P = F \/ P = F \cup {m + 1}
        BY <1>4
    <2>2. Q = F \/ Q = F \cup {m + 1}
        BY <1>4
    <2>3. QED  BY <2>1, <2>2, Counts
<1>7. ASSUME NEW i \in 1 .. m
      PROVE  \E u \in Nat : /\ u \in DOMAIN builders /\ u \in DOMAIN builders'
                            /\ UpTo(Funcs, i) = u
                            /\ Home(i) = builders[u] /\ Home(i)' = builders'[u]
                            /\ LivesAt(i) = lives[u] /\ LivesAt(i)' = lives'[u]
    <2>1. PICK u : u = UpTo(P, i)
        OBVIOUS
    <2>2. UpTo(Funcs, i) = u /\ UpTo(Funcs', i) = u
        BY <1>3, <1>6, <2>1 DEF CountsAs
    <2>3. /\ Home(i) = builders[u] /\ Home(i)' = builders'[u]
          /\ LivesAt(i) = lives[u] /\ LivesAt(i)' = lives'[u]
        BY <2>2 DEF Home, LivesAt
    <2>4. i \in DOMAIN open /\ i \in DOMAIN open'
        BY <1>5
    <2>5. u \in DOMAIN builders
        BY <2>2, <2>4, LevelIs
    <2>6. u \in Nat
        BY <1>1, <2>5 DEF Shaped
    <2>7. u \in DOMAIN builders'
        <3>1. u <= Cardinality(F) /\ Cardinality(F) \in Nat /\ Cardinality(Q) \in Nat
              /\ Cardinality(F) <= Cardinality(Q)
            <4>1. /\ Cardinality(F) \in Nat
                  /\ Cardinality(Q) = Cardinality(F) + (IF m + 1 \in Q THEN 1 ELSE 0)
                  /\ u <= Cardinality(F)
                BY <1>6, <2>1 DEF CountsAs
            <4>2. QED  BY <4>1
        <3>2. Len(builders') = Cardinality(Q)
            BY <1>3 DEF FlowInv, LevelsFit
        <3>3. u >= 1
            BY <1>1, <2>5 DEF Shaped
        <3>4. u <= Len(builders')
            BY <2>6, <3>1, <3>2
        <3>5. QED  BY <1>1, <2>6, <3>3, <3>4 DEF Shaped
    <2>8. QED  BY <2>2, <2>3, <2>5, <2>6, <2>7
<1>8. \A i \in 1 .. m : Opens(open[i]) <=> Opens(open'[i])
    BY <1>5 DEF Alike, Opens
<1>9. ASSUME NEW i \in 1 .. m PROVE Section(i)' = Section(i)
    <2>1. \A j : j \in Openers(i)' <=> j \in Openers(i)
        <3>1. \A j : j \in DOMAIN open /\ j <= i => j \in 1 .. m
            BY <1>1 DEF Shaped
        <3>2. \A j : j \in DOMAIN open' /\ j <= i => j \in 1 .. m
            BY <1>1 DEF Shaped
        <3>3. QED  BY <1>5, <1>8, <3>1, <3>2 DEF Openers
    <2>2. Openers(i)' = Openers(i)
        BY <2>1
    <2>3. QED  BY <2>2 DEF Section
<1>10. QED  BY <1>5, <1>7, <1>8, <1>9

\* What is noted of a construct fits as well when it goes on alike.
LEMMA NoteSame ==
    ASSUME NEW sec, NEW x, NEW y, NEW i, NEW o
    PROVE  /\ Same(x, y) /\ NoteFits(sec, x, i, o) => NoteFits(sec, y, i, o)
           /\ x.kind = "func" => NoteFits(sec, x, i, o)
           /\ Same(x, y) /\ Lit(sec, x) => Lit(sec, y)
<1>1. Same(x, y) /\ NoteFits(sec, x, i, o) => NoteFits(sec, y, i, o)
    BY DEF Same, Alike, NoteFits
<1>2. x.kind = "func" => NoteFits(sec, x, i, o)
    BY DEF NoteFits, Loops
<1>3. Same(x, y) /\ Lit(sec, x) => Lit(sec, y)
    BY DEF Same, Alike, Lit
<1>4. QED  BY <1>1, <1>2, <1>3

\* A function the step does not come to lives as it did.
LEMMA LiveStays ==
    ASSUME FlowInv, FlowInv', NEW f, NEW sec \in [Nat -> Nat], LiveFn(f, sec),
           NEW at \in Nat, NEW t, NEW q, Writes(at, t, q),
           at # 0 => Current(at) /\ blocks[at].fn # f,
           NEW m \in Nat, Keeps(m),
           \A b \in Nat : Fresh(b) => blocks'[b].fn # f,
           \A i \in DOMAIN open : i \in 1 .. m \/ FnAt(i) # f,
           \A i \in DOMAIN open' : i \in 1 .. m \/ FnAt(i)' # f,
           \A i \in 1 .. m : FnAt(i)' = FnAt(i),
           \A i \in 1 .. m : FnAt(i) = f =>
               /\ Same(open[i], open'[i]) /\ Home(i)' = Home(i)
               /\ LivesAt(i)' = LivesAt(i) /\ (Tip(i)' <=> Tip(i)),
           \A k \in marks' : blocks'[k[1]].fn = f =>
               (k \in marks /\ blocks[k[1]].fn = f) \/ (k[2] <=> sec[k[1]] # 0)
    PROVE  LiveFn(f, sec)'
<1>1. /\ \A b \in Nat : b \in Block' <=> b \in Block \/ Fresh(b)
      /\ \A b \in Nat : b \in Block => b # 0
      /\ Block \subseteq Block' /\ Block \subseteq Nat /\ Block' \subseteq Nat
      /\ \A b \in Block : b # at => Successors(b)' = Successors(b)
      /\ \A b \in Block : Successors(b) \subseteq Successors(b)'
      /\ \A b \in Block : Successors(b) \subseteq Block
    BY SuccStep
<1>2. \A b \in Block : blocks'[b].fn = blocks[b].fn
    BY DEF Writes
<1>3. \A i \in 1 .. m : /\ i \in DOMAIN open /\ i \in DOMAIN open'
                        /\ Section(i)' = Section(i)
    BY LevelsStay
<1>4. /\ DOMAIN open = 1 .. Len(open) /\ DOMAIN open' = 1 .. Len(open')
      /\ Len(open) \in Nat /\ Len(open') \in Nat
    BY Shapes DEF FlowInv, Shaped
<1>5. \A b \in Nat : sec[b] # 0 =>
          /\ b \in Block /\ blocks[b].fn = f /\ b # at
          /\ sec[b] \in 1 .. m /\ FnAt(sec[b]) = f
          /\ open[sec[b]].kind \in Loops \cup {"func"}
          /\ open[sec[b]].kind \in Loops => open[sec[b]].entry
    <2>1. \A b \in Nat : sec[b] # 0 =>
              /\ b \in Block /\ blocks[b].fn = f
              /\ sec[b] \in DOMAIN open /\ FnAt(sec[b]) = f
              /\ open[sec[b]].kind \in Loops \cup {"func"}
              /\ open[sec[b]].kind \in Loops => open[sec[b]].entry
        BY DEF LiveFn, SectionsFit
    <2>2. QED  BY <1>1, <2>1
<1>6. SectionsFit(f, sec)'
    <2>1. sec[f] # 0
        BY DEF LiveFn, SectionsFit
    <2>2. ASSUME NEW b \in Nat, sec[b] # 0
          PROVE  /\ b \in Block' /\ blocks'[b].fn = f
                 /\ sec[b] \in DOMAIN open' /\ FnAt(sec[b])' = f
                 /\ open'[sec[b]].kind \in Loops \cup {"func"}
                 /\ open'[sec[b]].kind \in Loops => open'[sec[b]].entry
        <3>1. PICK i \in 1 .. m : i = sec[b]
            BY <1>5, <2>2
        <3>2. /\ FnAt(i) = f /\ open[i].kind \in Loops \cup {"func"}
              /\ open[i].kind \in Loops => open[i].entry
            BY <1>5, <2>2, <3>1
        <3>3. Same(open[i], open'[i]) /\ FnAt(i)' = f /\ i \in DOMAIN open'
            BY <1>3, <3>2
        <3>4. open'[i].kind = open[i].kind /\ open'[i].entry = open[i].entry
            BY <3>3 DEF Same, Alike
        <3>5. b \in Block' /\ blocks'[b].fn = f
            BY <1>1, <1>2, <1>5, <2>2
        <3>6. QED  BY <3>1, <3>2, <3>3, <3>4, <3>5
    <2>3. QED  BY <2>1, <2>2 DEF SectionsFit
<1>7. OnwardFit(f, sec)'
    <2> SUFFICES ASSUME NEW b \in Nat, sec[b] # 0, NEW to \in Successors(b)', blocks'[to].fn = f
                 PROVE  sec[to] # 0
        BY DEF OnwardFit
    <2>1. b \in Block /\ Successors(b)' = Successors(b)
        BY <1>1, <1>5
    <2>2. to \in Successors(b) /\ to \in Block
        BY <1>1, <2>1
    <2>3. blocks[to].fn = f
        BY <1>2, <2>2
    <2>4. QED  BY <2>2, <2>3 DEF LiveFn, OnwardFit
<1>8. JustFit(f, sec)'
    <2> SUFFICES ASSUME NEW i \in DOMAIN open', FnAt(i)' = f,
                        NEW C \in SUBSET Block', Shut(C)', Base(i)' \in C,
                        NEW b \in Nat, sec[b] = i
                 PROVE  b \in C
        BY DEF JustFit
    <2>1. i \in 1 .. m /\ i # 0
        BY <1>4
    <2>2. FnAt(i) = f /\ i \in DOMAIN open /\ Same(open[i], open'[i])
        BY <1>3, <2>1
    <2>3. Base(i)' = Base(i)
        BY <2>1, <2>2 DEF Base, Same, Alike
    <2>4. Base(i) \in Block
        <3>1. open[i].kind \in Loops \cup {"func"}
            BY <1>5, <2>1
        <3>2. FnAt(i) \in Block
            BY <2>2, LevelIs
        <3>3. CASE open[i].kind = "func"
            BY <3>2, <3>3 DEF Base
        <3>4. CASE open[i].kind \in Loops
            <4>1. Owns(open[i], open[i].begin)
                BY <3>4 DEF Owns
            <4>2. open[i].begin \in Nat
                BY <2>2, Shapes DEF FlowInv, Shaped, OpenT
            <4>3. open[i].begin \in Block
                BY <2>2, <4>1, <4>2 DEF FlowInv, OwnedFit
            <4>4. open[i].kind # "func"
                BY <3>4 DEF Loops
            <4>5. QED  BY <4>3, <4>4 DEF Base
        <3>5. QED  BY <3>1, <3>3, <3>4
    <2>5. Shut(C \cap Block)
        BY <1>1 DEF Shut
    <2>6. C \cap Block \in SUBSET Block /\ Base(i) \in C \cap Block
        BY <2>3, <2>4
    <2>7. b \in C \cap Block
        BY <2>2, <2>5, <2>6 DEF LiveFn, JustFit
    <2>8. QED  BY <2>7
<1>9. StandsFit(f, sec)'
    <2> SUFFICES ASSUME NEW i \in DOMAIN open', Tip(i)', FnAt(i)' = f
                 PROVE  sec[Home(i)'] = Mk(LivesAt(i)', Section(i)')
        BY DEF StandsFit, Mk
    <2>1. i \in 1 .. m
        OBVIOUS
    <2>2. /\ FnAt(i) = f /\ i \in DOMAIN open /\ Home(i)' = Home(i)
          /\ LivesAt(i)' = LivesAt(i) /\ Tip(i) /\ Section(i)' = Section(i)
        BY <1>3, <2>1
    <2>3. sec[Home(i)] = Mk(LivesAt(i), Section(i))
        BY <2>2 DEF LiveFn, StandsFit
    <2>4. QED  BY <2>2, <2>3
<1>10. NotesFit(f, sec)'
    <2> SUFFICES ASSUME NEW i \in DOMAIN open', FnAt(i)' = f
                 PROVE  NoteFits(sec, open'[i], i, Section(i - 1)')
        BY DEF NotesFit, NoteFits, Mk
    <2>1. i \in 1 .. m
        OBVIOUS
    <2>2. FnAt(i) = f /\ i \in DOMAIN open /\ Same(open[i], open'[i])
        BY <1>3, <2>1
    <2>3. NoteFits(sec, open[i], i, Section(i - 1))
        BY <2>2 DEF LiveFn, NotesFit
    <2>4. CASE i = 1
        <3>1. open[i].kind = "func"
            BY <2>2, <2>4, LevelIs
        <3>2. open'[i].kind = "func"
            BY <2>2, <3>1 DEF Same, Alike
        <3>3. QED  BY <3>2, NoteSame
    <2>5. CASE i # 1
        <3>1. i - 1 \in 1 .. m
            BY <2>1, <2>5
        <3>2. Section(i - 1)' = Section(i - 1)
            BY <1>3, <3>1
        <3>3. QED  BY <2>2, <2>3, <3>2, NoteSame
    <2>6. QED  BY <2>4, <2>5
<1>11. DeadFit(f, sec)'
    <2> SUFFICES ASSUME NEW i \in DOMAIN open', NEW j \in DOMAIN open', i <= j,
                        FnAt(i)' = f, FnAt(j)' = f
                 PROVE  /\ i < j /\ Flagged(open'[j]) => Lit(sec, open'[i])
                        /\ Tip(j)' /\ LivesAt(j)' => Lit(sec, open'[i])
        BY DEF DeadFit, Lit
    <2>1. i \in 1 .. m /\ j \in 1 .. m
        OBVIOUS
    <2>2. /\ FnAt(i) = f /\ i \in DOMAIN open /\ Same(open[i], open'[i])
          /\ FnAt(j) = f /\ j \in DOMAIN open /\ Same(open[j], open'[j])
          /\ LivesAt(j)' = LivesAt(j) /\ (Tip(j)' <=> Tip(j))
        BY <1>3, <2>1
    <2>3. Flagged(open'[j]) <=> Flagged(open[j])
        BY <2>2 DEF Same, Flagged
    <2>4. /\ i < j /\ Flagged(open[j]) => Lit(sec, open[i])
          /\ Tip(j) /\ LivesAt(j) => Lit(sec, open[i])
        BY <2>2 DEF LiveFn, DeadFit
    <2>5. QED  BY <2>2, <2>3, <2>4, NoteSame
<1>12. MarksFit(f, sec)'
    BY DEF LiveFn, MarksFit
<1>13. QED  BY <1>6, <1>7, <1>8, <1>9, <1>10, <1>11, <1>12 DEF LiveFn

-----------------------------------------------------------------------------
(* A step of the innermost function. *)

\* The innermost function goes on: at ends in t, and m constructs stay.
Goes(at, t, q, m) ==
    /\ open # <<>> /\ Keeps(m) /\ ~ FuncLast(m) /\ ~ FuncLast(m)'
    /\ at \in {0, Here} /\ Writes(at, t, q)
    /\ Len(builders') = Len(builders)
    /\ \A k \in 1 .. Len(builders) : k # Len(builders) =>
          builders'[k] = builders[k] /\ lives'[k] = lives[k]
    /\ blocks'[Here'].fn = Fn
    /\ \A b \in Nat : Fresh(b) => blocks'[b].fn = Fn
    /\ at # 0 => \A b \in t.to : blocks'[b].fn <= Fn
    /\ \A i \in 1 .. m : FnAt(i) # Fn => Same(open[i], open'[i])
    /\ early \subseteq early' /\ marks' \subseteq marks \cup {<<Here, Live>>}
    /\ \A b \in Nat : Len(open') = m + 1 /\ WaitsFor(open'[m + 1], b) =>
          Fresh(b) \/ (Len(open) = m + 1 /\ WaitsFor(open[m + 1], b))

\* Where its constructs are, before and after.
LEMMA GoesLevels ==
    ASSUME FlowInv, FlowInv', NEW at, NEW t, NEW q, NEW m \in Nat, Goes(at, t, q, m)
    PROVE  /\ m >= 1 /\ m \in 1 .. m
           /\ \A i \in DOMAIN open : i \in 1 .. m \/ (i = m + 1 /\ Len(open) = m + 1)
           /\ \A i \in DOMAIN open' : i \in 1 .. m \/ (i = m + 1 /\ Len(open') = m + 1)
           /\ Len(open') = m + 1 => m + 1 \in DOMAIN open'
           /\ \A i \in 1 .. m : i \in DOMAIN open /\ i \in DOMAIN open' /\ FnAt(i)' = FnAt(i)
           /\ Fn' = Fn /\ FnAt(m) = Fn /\ (Len(open) = m + 1 => FnAt(m + 1) = Fn)
           /\ Len(open') = m + 1 => FnAt(m + 1)' = Fn
           /\ Home(Len(open)) = Here /\ LivesAt(Len(open)) = Live /\ FnAt(Len(open)) = Fn
           /\ \A i \in DOMAIN open' : i = Len(open') => /\ Home(i)' = Here' /\ LivesAt(i)' = Live'
                                                    /\ FnAt(i)' = Fn
           /\ Len(open') \in DOMAIN open' /\ Len(open) \in DOMAIN open
           /\ \A i \in 1 .. m : FnAt(i) # Fn =>
                 /\ Home(i)' = Home(i) /\ LivesAt(i)' = LivesAt(i)
                 /\ Tip(i)' <=> Tip(i)
<1>1. Typed /\ Typed' /\ Shaped /\ Shaped' /\ Keeps(m) /\ open # <<>>
    BY Shapes DEF FlowInv, Goes
<1>2. /\ Len(open) \in {m, m + 1} /\ Len(open') \in {m, m + 1}
      /\ \A i \in 1 .. m : Alike(open[i], open'[i])
    BY <1>1 DEF Keeps
<1>3. /\ \A i \in 1 .. m : i \in DOMAIN open /\ i \in DOMAIN open' /\ i # m + 1
      /\ \A i \in DOMAIN open' : i \in 1 .. m \/ (i = m + 1 /\ Len(open') = m + 1)
      /\ \A i \in DOMAIN open : i \in 1 .. m \/ (i = m + 1 /\ Len(open) = m + 1)
      /\ Len(open) = m + 1 => m + 1 \in DOMAIN open
      /\ Len(open') = m + 1 => m + 1 \in DOMAIN open'
    BY <1>1, KeepsIs
<1>4. /\ Len(builders) >= 1 /\ Len(builders) \in DOMAIN builders
      /\ Here = builders[Len(builders)] /\ Home(Len(open)) = Here
      /\ Len(open) \in DOMAIN open
      /\ UpTo(Funcs, Len(open)) = Len(builders)
    BY <1>1, HomeTop
<1>5. open[1].kind = "func" /\ 1 \in DOMAIN open
    BY <1>4, LevelIs
<1>6. m >= 1 /\ m \in 1 .. m
    <2>1. m # 0
        <3> SUFFICES ASSUME m = 0 PROVE FALSE
            OBVIOUS
        <3>1. Len(open) = m + 1 /\ 1 = m + 1
            BY <1>3, <1>5
        <3>2. FuncLast(m)
            BY <1>5, <3>1 DEF FuncLast
        <3>3. QED  BY <3>2 DEF Goes
    <2>2. QED  BY <2>1
<1>7. Len(lives) = Len(builders) /\ Len(lives') = Len(builders') /\ Len(builders') = Len(builders)
      /\ Len(builders') = Cardinality(Funcs')
    BY DEF FlowInv, LevelsFit, Goes
<1>8. LivesAt(Len(open)) = Live /\ FnAt(Len(open)) = Fn
    BY <1>4, <1>7 DEF LivesAt, Live, Last, FnAt, Fn
<1>9. Len(open) = m + 1 => open[m + 1].kind # "func"
    BY DEF Goes, FuncLast
<1>10. UpTo(Funcs, m) = Len(builders)
    <2>1. CASE Len(open) = m
        BY <1>4, <2>1
    <2>2. CASE Len(open) = m + 1
        <3>1. \A k \in m + 1 .. m + 1 : open[k].kind # "func"
            BY <1>9, <2>2
        <3>2. m \in DOMAIN open /\ m + 1 \in DOMAIN open /\ m <= m + 1
            BY <1>3, <1>6, <2>2
        <3>3. UpTo(Funcs, m) = UpTo(Funcs, m + 1)
            BY <3>1, <3>2, SameLevel
        <3>4. QED  BY <1>4, <2>2, <3>3
    <2>3. QED  BY <1>2, <2>1, <2>2
<1>11. FnAt(m) = Fn /\ (Len(open) = m + 1 => FnAt(m + 1) = Fn)
    <2>1. Home(m) = Here
        BY <1>4, <1>10 DEF Home
    <2>2. QED  BY <1>8, <2>1 DEF FnAt, Fn
<1>12. ASSUME NEW i \in 1 .. m
       PROVE  /\ UpTo(Funcs, i) = Len(builders) => Home(i)' = Here' /\ LivesAt(i)' = Live'
                                                   /\ FnAt(i) = Fn /\ FnAt(i)' = Fn
              /\ UpTo(Funcs, i) # Len(builders) =>
                    Home(i)' = Home(i) /\ LivesAt(i)' = LivesAt(i) /\ FnAt(i)' = FnAt(i)
    <2>1. PICK u \in Nat : /\ u \in DOMAIN builders /\ u \in DOMAIN builders'
                           /\ UpTo(Funcs, i) = u
                           /\ Home(i) = builders[u] /\ Home(i)' = builders'[u]
                           /\ LivesAt(i) = lives[u] /\ LivesAt(i)' = lives'[u]
        BY <1>1, LevelsStay
    <2>2. CASE u = Len(builders)
        <3>1. Here' = builders'[u] /\ Live' = lives'[u]
            BY <1>7, <2>2 DEF Here, Live, Last
        <3>2. blocks'[builders'[u]].fn = Fn
            BY <3>1 DEF Goes
        <3>3. FnAt(i) = Fn
            BY <1>4, <2>1, <2>2 DEF FnAt, Fn
        <3>4. FnAt(i)' = Fn
            BY <2>1, <3>2 DEF FnAt
        <3>5. QED  BY <2>1, <2>2, <3>1, <3>3, <3>4
    <2>3. CASE u # Len(builders)
        <3>1. u \in 1 .. Len(builders)
            BY <1>1, <2>1 DEF Shaped
        <3>2. builders'[u] = builders[u] /\ lives'[u] = lives[u]
            BY <2>3, <3>1 DEF Goes
        <3>3. builders[u] \in Block
            BY <2>1 DEF FlowInv, BuildersFit
        <3>4. blocks'[builders[u]].fn = blocks[builders[u]].fn
            BY <3>3 DEF Goes, Writes
        <3>5. FnAt(i)' = FnAt(i)
            BY <2>1, <3>2, <3>4 DEF FnAt
        <3>6. QED  BY <2>1, <2>3, <3>2, <3>5
    <2>4. QED  BY <2>2, <2>3
<1>13. /\ Len(open') = m + 1 => Home(m + 1)' = Here' /\ LivesAt(m + 1)' = Live' /\ FnAt(m + 1)' = Fn
    <2> SUFFICES ASSUME Len(open') = m + 1
                 PROVE  Home(m + 1)' = Here' /\ LivesAt(m + 1)' = Live' /\ FnAt(m + 1)' = Fn
        OBVIOUS
    <2>1. Funcs' \in SUBSET (1 .. m + 1) /\ \A j \in Funcs' : j <= m + 1
        BY <1>3 DEF Funcs
    <2>2. PICK Q : Q = Funcs'
        OBVIOUS
    <2>3. UpTo(Q, m + 1) = Cardinality(Q)
        <3>1. m + 1 \in Nat /\ Q \in SUBSET (1 .. m + 1) /\ \A j \in Q : j <= m + 1
            BY <2>1, <2>2
        <3>2. QED  BY <3>1, CountAll
    <2>4. UpTo(Funcs', m + 1) = Len(builders')
        BY <1>7, <2>2, <2>3
    <2>5. Home(m + 1)' = builders'[Len(builders')] /\ LivesAt(m + 1)' = lives'[Len(builders')]
        BY <2>4 DEF Home, LivesAt
    <2>6. Home(m + 1)' = Here' /\ LivesAt(m + 1)' = Live'
        BY <1>7, <2>5 DEF Here, Live, Last
    <2>7. FnAt(m + 1)' = Fn
        BY <2>6 DEF FnAt, Goes
    <2>8. QED  BY <2>6, <2>7
<1>14. Fn' = Fn
    BY DEF Goes, Fn
<1>15. /\ \A i \in DOMAIN open' : i = Len(open') => /\ Home(i)' = Here' /\ LivesAt(i)' = Live'
                                                     /\ FnAt(i)' = Fn
       /\ Len(open') \in DOMAIN open'
    <2>1. Home(m)' = Here' /\ LivesAt(m)' = Live' /\ FnAt(m)' = Fn
        BY <1>6, <1>10, <1>12
    <2>2. QED  BY <1>2, <1>3, <1>6, <1>13, <2>1
<1>16. ASSUME NEW i \in 1 .. m, FnAt(i) # Fn
       PROVE  /\ Home(i)' = Home(i) /\ LivesAt(i)' = LivesAt(i)
              /\ Tip(i)' <=> Tip(i)
    <2>1. Home(i)' = Home(i) /\ LivesAt(i)' = LivesAt(i)
        BY <1>12, <1>16
    <2>2. i # m
        BY <1>11, <1>16
    <2>3. i # Len(open) /\ i # Len(open') /\ i + 1 \in 1 .. m
        BY <1>2, <2>2
    <2>4. open'[i + 1].kind = open[i + 1].kind
        BY <1>2, <2>3 DEF Alike
    <2>5. QED  BY <2>1, <2>3, <2>4 DEF Tip
<1>17. \A i \in 1 .. m : FnAt(i)' = FnAt(i)
    BY <1>12
<1>18. QED  BY <1>3, <1>4, <1>6, <1>8, <1>11, <1>13, <1>14, <1>15, <1>16, <1>17

-----------------------------------------------------------------------------

\* The functions that are done are those that were.
LEMMA ClosedStay ==
    ASSUME FlowInv, FlowInv', NEW at, NEW t, NEW q, NEW m \in Nat, Goes(at, t, q, m)
    PROVE  Closed' = Closed /\ Fn \notin Closed
<1>1. Shaped /\ Shaped' /\ open # <<>>
    BY Shapes DEF FlowInv, Goes
<1>2. /\ Len(builders) \in DOMAIN builders /\ Here = builders[Len(builders)]
      /\ Fn \in Block /\ blocks[Fn].fn = Fn
    BY <1>1, HomeTop
<1>3. DOMAIN builders = 1 .. Len(builders) /\ DOMAIN builders' = 1 .. Len(builders)
    BY <1>1 DEF Goes, Shaped
<1>4. /\ \A b \in Nat : b \in Block' <=> b \in Block \/ Fresh(b)
      /\ Block \subseteq Nat /\ Block' \subseteq Nat
      /\ \A b \in Nat : b \in Block => ~ Fresh(b)
    <2>1. /\ Len(blocks) \in Nat /\ Block = 1 .. Len(blocks)
          /\ Len(blocks') \in Nat /\ Block' = 1 .. Len(blocks')
        BY <1>1 DEF Shaped
    <2>2. Len(blocks) <= Len(blocks')
        BY DEF Goes, Writes
    <2>3. QED  BY <2>1, <2>2 DEF Fresh
<1>5. \A b \in Block : blocks'[b].fn = blocks[b].fn
    BY DEF Goes, Writes
<1>6. Entries' = Entries
    <2>1. ASSUME NEW b \in Block', blocks'[b].fn = b PROVE b \in Block /\ blocks[b].fn = b
        <3>1. CASE Fresh(b)
            <4>1. b = Fn
                BY <1>4, <2>1, <3>1 DEF Goes
            <4>2. QED  BY <1>2, <1>4, <2>1, <3>1, <4>1
        <3>2. QED  BY <1>4, <1>5, <2>1, <3>1
    <2>2. ASSUME NEW b \in Block, blocks[b].fn = b PROVE b \in Block' /\ blocks'[b].fn = b
        BY <1>4, <1>5, <2>2
    <2>3. QED  BY <2>1, <2>2 DEF Entries
<1>7. \A k \in DOMAIN builders : blocks'[builders'[k]].fn = blocks[builders[k]].fn
    <2> SUFFICES ASSUME NEW k \in DOMAIN builders
                 PROVE  blocks'[builders'[k]].fn = blocks[builders[k]].fn
        OBVIOUS
    <2>1. CASE k = Len(builders)
        <3>1. Here' = builders'[k]
            BY <2>1 DEF Goes, Here, Last
        <3>2. QED  BY <1>2, <2>1, <3>1 DEF Goes, Fn
    <2>2. CASE k # Len(builders)
        <3>1. builders'[k] = builders[k]
            BY <1>3, <2>2 DEF Goes
        <3>2. builders[k] \in Block
            BY DEF FlowInv, BuildersFit
        <3>3. QED  BY <1>5, <3>1, <3>2
    <2>3. QED  BY <2>1, <2>2
<1>8. Closed' = Closed
    BY <1>3, <1>6, <1>7 DEF Closed
<1>9. Fn \notin Closed
    BY <1>2 DEF Closed, Fn
<1>10. QED  BY <1>8, <1>9

\* What such a step does to the functions around.
LEMMA GoesOthers ==
    ASSUME FlowInv, FlowInv', LiveInv, NEW at \in Nat, NEW t, NEW q, NEW m \in Nat,
           Goes(at, t, q, m)
    PROVE  /\ Upward' /\ Rising' /\ MarksIn' /\ Settled'
           /\ \A f \in Nat \ early' : f # Fn /\ (\E i \in DOMAIN open' : FnAt(i)' = f) =>
                 \E sec \in [Nat -> Nat] : LiveFn(f, sec)'
<1>1. Shaped /\ Shaped' /\ open # <<>> /\ Keeps(m) /\ Writes(at, t, q)
    BY Shapes DEF FlowInv, Goes
<1>2. /\ Current(Here) /\ Here \in Block /\ Here # 0
      /\ Fn \in Block /\ blocks[Fn].fn = Fn
    BY <1>1, HomeTop
<1>3. blocks[Here].fn = Fn
    BY DEF Fn
<1>4. at # 0 => at = Here /\ Current(at) /\ blocks[at].fn = Fn
    BY <1>2, <1>3 DEF Goes
<1>5. /\ \A b \in Nat : b \in Block' <=> b \in Block \/ Fresh(b)
      /\ \A b \in Nat : b \in Block => ~ Fresh(b) /\ b # 0
      /\ Block \subseteq Block' /\ Block \subseteq Nat /\ Block' \subseteq Nat
    BY <1>1, <1>4, SuccStep
<1>6. \A b \in Block : blocks'[b].fn = blocks[b].fn
    BY DEF Goes, Writes
<1>7. /\ m >= 1 /\ m \in 1 .. m
      /\ \A i \in DOMAIN open : i \in 1 .. m \/ (i = m + 1 /\ Len(open) = m + 1)
      /\ \A i \in DOMAIN open' : i \in 1 .. m \/ (i = m + 1 /\ Len(open') = m + 1)
      /\ \A i \in 1 .. m : i \in DOMAIN open /\ i \in DOMAIN open' /\ FnAt(i)' = FnAt(i)
      /\ Fn' = Fn /\ FnAt(m) = Fn /\ (Len(open) = m + 1 => FnAt(m + 1) = Fn)
      /\ Len(open') = m + 1 => FnAt(m + 1)' = Fn
      /\ \A i \in 1 .. m : FnAt(i) # Fn =>
            /\ Home(i)' = Home(i) /\ LivesAt(i)' = LivesAt(i)
            /\ Tip(i)' <=> Tip(i)
    BY GoesLevels
<1>8. Upward /\ Rising /\ MarksIn /\ Settled
    BY DEF LiveInv
<1>9. Upward'
    <2>1. at # 0 => \A to \in t.to : blocks'[to].fn <= blocks[at].fn
        BY <1>4 DEF Goes
    <2>2. QED  BY <1>1, <1>4, <1>8, <2>1, UpwardKeeps
<1>10. \A i \in 1 .. m : FnAt(i) \in Nat
    BY <1>7, LevelIs
<1>11. Rising'
    <2> SUFFICES ASSUME NEW i \in DOMAIN open', NEW j \in DOMAIN open', i < j
                 PROVE  /\ FnAt(i)' <= FnAt(j)'
                        /\ open'[j].kind = "func" => FnAt(i)' < FnAt(j)'
        BY DEF Rising
    <2>1. CASE j \in 1 .. m
        <3>1. i \in 1 .. m
            BY <1>7, <2>1
        <3>2. Alike(open[j], open'[j])
            BY <1>1, <2>1 DEF Keeps
        <3>3. /\ FnAt(i) <= FnAt(j)
              /\ open[j].kind = "func" => FnAt(i) < FnAt(j)
            BY <1>7, <1>8, <2>1, <3>1 DEF Rising
        <3>4. QED  BY <1>7, <2>1, <3>1, <3>2, <3>3 DEF Alike
    <2>2. CASE j = m + 1 /\ Len(open') = m + 1
        <3>1. i \in 1 .. m
            BY <1>7, <2>2
        <3>2. open'[j].kind # "func"
            BY <2>2 DEF Goes, FuncLast
        <3>3. FnAt(i) <= FnAt(m)
            <4>1. CASE i = m
                BY <1>7, <1>10, <4>1
            <4>2. CASE i # m
                <5>1. i < m
                    BY <3>1, <4>2
                <5>2. QED  BY <1>7, <1>8, <3>1, <5>1 DEF Rising
            <4>3. QED  BY <4>1, <4>2
        <3>4. QED  BY <1>7, <2>2, <3>1, <3>2, <3>3
    <2>3. QED  BY <1>7, <2>1, <2>2
<1>12. \A k \in marks' : k \in marks \/ k = <<Here, Live>>
    BY DEF Goes
<1>13. MarksIn'
    <2>1. Live \in BOOLEAN
        BY <1>1, TopIs
    <2>2. marks' \subseteq Block' \X BOOLEAN
        <3>1. \A k \in marks : k \in Block' \X BOOLEAN
            BY <1>5, <1>8 DEF MarksIn
        <3>2. <<Here, Live>> \in Block' \X BOOLEAN
            BY <1>2, <1>5, <2>1
        <3>3. QED  BY <1>12, <3>1, <3>2
    <2>3. ASSUME NEW k \in marks', Awaited(k[1])' PROVE FALSE
        <3>1. PICK b \in Nat : b = k[1] /\ b \in Block
            <4>1. k \in marks => k[1] \in Block
                BY <1>8 DEF MarksIn
            <4>2. k[1] \in Block
                BY <1>2, <1>12, <2>3, <4>1
            <4>3. QED  BY <1>5, <4>2
        <3>2. PICK i \in DOMAIN open' : WaitsFor(open'[i], b)
            BY <2>3, <3>1 DEF Awaited
        <3>3. Awaited(b)
            <4>1. CASE i \in 1 .. m
                <5>1. Alike(open[i], open'[i])
                    BY <1>1, <4>1 DEF Keeps
                <5>2. WaitsFor(open[i], b)
                    BY <3>2, <5>1, AlikeOwns
                <5>3. QED  BY <1>7, <4>1, <5>2 DEF Awaited
            <4>2. CASE i = m + 1 /\ Len(open') = m + 1
                <5>1. Len(open) = m + 1 /\ WaitsFor(open[m + 1], b)
                    BY <1>5, <3>1, <3>2, <4>2 DEF Goes
                <5>2. m + 1 \in DOMAIN open
                    BY <1>1, <5>1 DEF Shaped
                <5>3. QED  BY <5>1, <5>2 DEF Awaited
            <4>3. QED  BY <1>7, <4>1, <4>2
        <3>4. CASE k \in marks
            BY <1>8, <3>1, <3>3, <3>4 DEF MarksIn
        <3>5. CASE k = <<Here, Live>>
            <4>1. b = Here
                BY <3>1, <3>5
            <4>2. PICK j \in DOMAIN open : WaitsFor(open[j], b)
                BY <3>3 DEF Awaited
            <4>3. ~ Current(b)
                BY <4>2 DEF FlowInv, OwnedFit
            <4>4. QED  BY <1>2, <4>1, <4>3
        <3>6. QED  BY <1>12, <3>4, <3>5
    <2>4. QED  BY <2>2, <2>3 DEF MarksIn
<1>14. Closed' = Closed /\ Fn \notin Closed
    BY ClosedStay
<1>15. Settled'
    <2> SUFFICES ASSUME NEW f \in Closed' \ early', NEW k \in marks', blocks'[k[1]].fn = f
                 PROVE  k[2] <=> Leads(f, k[1])'
        BY DEF Settled, Leads
    <2>1. f \in Closed \ early /\ f # Fn
        BY <1>14 DEF Goes
    <2>2. k \in marks
        <3>1. blocks'[Here].fn = Fn
            BY <1>2, <1>3, <1>6
        <3>2. k # <<Here, Live>>
            BY <2>1, <3>1
        <3>3. QED  BY <1>12, <3>2
    <2>3. PICK b \in Block : b = k[1]
        BY <1>8, <2>2 DEF MarksIn
    <2>4. blocks[b].fn = f
        BY <1>6, <2>3
    <2>5. k[2] <=> Leads(f, b)
        BY <1>8, <2>1, <2>2, <2>3, <2>4 DEF Settled
    <2>6. f \in Block /\ blocks[f].fn = f
        BY <2>1 DEF Closed, Entries
    <2>7. Leads(f, b)' <=> Leads(f, b)
        BY <1>1, <1>4, <1>9, <2>1, <2>4, <2>6, LeadsKeeps
    <2>8. QED  BY <2>3, <2>5, <2>7
<1>16. ASSUME NEW f \in Nat \ early', f # Fn, NEW i \in DOMAIN open', FnAt(i)' = f
       PROVE  \E sec \in [Nat -> Nat] : LiveFn(f, sec)'
    <2>1. i \in 1 .. m /\ i \in DOMAIN open /\ FnAt(i) = f
        BY <1>7, <1>16
    <2>2. f \notin early
        BY DEF Goes
    <2>3. PICK sec \in [Nat -> Nat] : LiveFn(f, sec)
        BY <2>1, <2>2 DEF LiveInv
    <2>4. /\ \A b \in Nat : Fresh(b) => blocks'[b].fn # f
          /\ \A j \in DOMAIN open : j \in 1 .. m \/ FnAt(j) # f
          /\ \A j \in DOMAIN open' : j \in 1 .. m \/ FnAt(j)' # f
          /\ \A j \in 1 .. m : FnAt(j)' = FnAt(j)
          /\ \A j \in 1 .. m : FnAt(j) = f =>
                 /\ Same(open[j], open'[j]) /\ Home(j)' = Home(j)
                 /\ LivesAt(j)' = LivesAt(j) /\ (Tip(j)' <=> Tip(j))
        BY <1>7, <1>16 DEF Goes
    <2>5. ASSUME NEW k \in marks', blocks'[k[1]].fn = f
          PROVE  k \in marks /\ blocks[k[1]].fn = f
        <3>1. blocks'[Here].fn = Fn
            BY <1>2, <1>3, <1>6
        <3>2. k \in marks
            BY <1>12, <1>16, <2>5, <3>1
        <3>3. k[1] \in Block
            BY <1>8, <3>2 DEF MarksIn
        <3>4. QED  BY <1>6, <2>5, <3>2, <3>3
    <2>6. LiveFn(f, sec)'
        <3>1. at # 0 => Current(at) /\ blocks[at].fn # f
            BY <1>4, <1>16
        <3>2. Writes(at, t, q) /\ Keeps(m)
            BY <1>1
        <3>3. \A k \in marks' : blocks'[k[1]].fn = f =>
                  (k \in marks /\ blocks[k[1]].fn = f) \/ (k[2] <=> sec[k[1]] # 0)
            BY <2>5
        <3>4. QED  BY <2>3, <2>4, <3>1, <3>2, <3>3, LiveStays
    <2>7. QED  BY <2>6
<1>17. QED  BY <1>9, <1>11, <1>13, <1>15, <1>16

\* It is left to find sections for the innermost function.
LEMMA GoesInv ==
    ASSUME FlowInv, FlowInv', LiveInv, NEW at \in Nat, NEW t, NEW q, NEW m \in Nat,
           Goes(at, t, q, m), NEW f, f = Fn,
           f \notin early' => \E sec \in [Nat -> Nat] : LiveFn(f, sec)'
    PROVE  LiveInv'
BY GoesOthers DEF LiveInv

-----------------------------------------------------------------------------
(* What lives after a step of the innermost function. *)

\* The blocks of A come to section s, those of B to the one that starts in them,
\* and the section of the loop that goes is joined to s.
Turned(sec, nsec, s, m, A, B, joins) ==
    \A b \in Nat : nsec[b] = IF b \in A THEN s
                             ELSE IF b \in B THEN m + 1
                             ELSE IF joins /\ sec[b] = m + 1 THEN s ELSE sec[b]

\* The blocks that come to live: live code leads to them, and there is no code in
\* them yet.
Enlivens(f, t, at, m, A, B, joins) ==
    /\ A # {} \/ B # {} \/ joins => Live /\ at = Here
    /\ \A b \in A : b \in t.to
    /\ \A b \in A \cup B : blocks'[b].fn = f /\ (Fresh(b) \/ Awaited(b))
    /\ \A b \in B : /\ Len(open') = m + 1 /\ b = open'[m + 1].begin
                    /\ open'[m + 1].kind \in Loops /\ open'[m + 1].entry
    /\ joins => /\ Len(open) = m + 1 /\ Len(open') = m
                /\ open[m + 1].kind \in Loops /\ open[m + 1].begin \in t.to

\* What becomes of the section of the innermost construct.
Sections(sec, s, m, A, joins) ==
    /\ Len(open) = m + 1 /\ Len(open') = m /\ ~ joins => \A b \in Nat : sec[b] # m + 1
    /\ Len(open) = m + 1 /\ Len(open') = m + 1 /\ open[m + 1].kind \in Loops =>
          /\ open'[m + 1].kind = open[m + 1].kind /\ open'[m + 1].begin = open[m + 1].begin
          /\ open[m + 1].entry => open'[m + 1].entry
    /\ A # {} \/ joins => s \in 1 .. m \/ (s = m + 1 /\ Len(open') = m + 1)

\* What is noted of it is what comes of it.
Notes(nsec, m) ==
    /\ \A j \in DOMAIN open' : Flagged(open'[j]) => Live \/ (j \in DOMAIN open /\ Flagged(open[j]))
    /\ Live' => Live \/ (Len(open) = m + 1 /\ Flagged(open[m + 1]))
    /\ Live' /\ Len(open') = m + 1 => Lit(nsec, open'[m + 1])
    /\ \A i \in 1 .. m : open'[i].entry = open[i].entry

\* Where live code leads is live, and it goes on where it is.
Leading(f, t, at, nsec) ==
    Live /\ at # 0 => \A b \in t.to : blocks'[b].fn = f => nsec[b] # 0

Running(sec) == \A i \in DOMAIN open : i = Len(open) => sec[Here] = Mk(Live, Section(i))

\* What comes before one of m + 1 is one of m.
LEMMA Below ==
    ASSUME NEW m \in Nat, NEW i, NEW j, i \in 1 .. m \/ i = m + 1, j \in 1 .. m \/ j = m + 1, i < j
    PROVE  i \in 1 .. m
    OBVIOUS

\* The innermost function lives as the sections say that the step gives its blocks.
LEMMA LiveGoes ==
    ASSUME FlowInv, FlowInv', LiveInv, NEW at \in Nat, NEW t, NEW q, NEW m \in Nat,
           Goes(at, t, q, m), NEW f \in Nat, f = Fn,
           NEW sec \in [Nat -> Nat], LiveFn(f, sec), NEW s, s = Section(Len(open)),
           NEW A \in SUBSET Nat, NEW B \in SUBSET Nat, NEW joins \in BOOLEAN,
           NEW nsec \in [Nat -> Nat], Turned(sec, nsec, s, m, A, B, joins),
           Enlivens(f, t, at, m, A, B, joins), Sections(sec, s, m, A, joins), Notes(nsec, m),
           Leading(f, t, at, nsec), Running(nsec)', NotesFit(f, nsec)'
    PROVE  LiveFn(f, nsec)'
<1>1. Shaped /\ Shaped' /\ open # <<>> /\ Keeps(m) /\ Writes(at, t, q)
    BY Shapes DEF FlowInv, Goes
<1>2. Current(Here) /\ Here \in Block /\ Here # 0 /\ Here \in Nat /\ blocks[Here].fn = f
    BY <1>1, HomeTop DEF Fn
<1>3. at # 0 => at = Here /\ Current(at)
    BY <1>2 DEF Goes
<1>4. /\ \A b \in Nat : b \in Block' <=> b \in Block \/ Fresh(b)
      /\ \A b \in Nat : b \in Block => ~ Fresh(b) /\ b # 0
      /\ Block \subseteq Block' /\ Block \subseteq Nat /\ Block' \subseteq Nat
      /\ at # 0 => at \in Block /\ Successors(at) = {} /\ Successors(at)' = t.to
      /\ \A b \in Block : b # at => Successors(b)' = Successors(b)
      /\ \A b \in Block : Successors(b) \subseteq Successors(b)'
      /\ \A b \in Nat : Fresh(b) => Successors(b)' = {}
      /\ \A b \in Block : Successors(b) \subseteq Block
    BY <1>1, <1>3, SuccStep
<1>5. \A b \in Block : blocks'[b].fn = blocks[b].fn
    BY <1>1 DEF Writes
<1>6. /\ m >= 1 /\ m \in 1 .. m
      /\ \A i \in DOMAIN open : i \in 1 .. m \/ (i = m + 1 /\ Len(open) = m + 1)
      /\ \A i \in DOMAIN open' : i \in 1 .. m \/ (i = m + 1 /\ Len(open') = m + 1)
      /\ Len(open') = m + 1 => m + 1 \in DOMAIN open'
      /\ \A i \in 1 .. m : i \in DOMAIN open /\ i \in DOMAIN open' /\ FnAt(i)' = FnAt(i)
      /\ FnAt(m) = f /\ (Len(open) = m + 1 => FnAt(m + 1) = f)
      /\ Len(open') = m + 1 => FnAt(m + 1)' = f
      /\ Home(Len(open)) = Here /\ LivesAt(Len(open)) = Live /\ FnAt(Len(open)) = f
      /\ \A i \in DOMAIN open' : i = Len(open') => /\ Home(i)' = Here' /\ LivesAt(i)' = Live'
                                                   /\ FnAt(i)' = f
      /\ Len(open') \in DOMAIN open' /\ Len(open) \in DOMAIN open
    BY GoesLevels
<1>7. \A i \in 1 .. m : Alike(open[i], open'[i]) /\ i \in Nat /\ i # 0
    <2>1. \A i \in 1 .. m : i \in Nat /\ i # 0
        OBVIOUS
    <2>2. QED  BY <1>1, <2>1 DEF Keeps
<1>8. s \in DOMAIN open /\ s <= Len(open) /\ FnAt(s) = f /\ Opens(open[s]) /\ s # 0 /\ s \in Nat
    <2>1. s \in DOMAIN open /\ s <= Len(open) /\ FnAt(s) = f /\ Opens(open[s])
        BY <1>6, SectionIs
    <2>2. QED  BY <2>1, LevelIs
<1>9. sec[Here] = Mk(Live, s)
    <2>1. Tip(Len(open))
        BY DEF Tip
    <2>2. QED  BY <1>6, <2>1 DEF LiveFn, StandsFit
<1>10. Live => sec[Here] = s
    BY <1>9 DEF Mk
<1>11. \A b \in Nat : sec[b] # 0 =>
          /\ b \in Block /\ blocks[b].fn = f
          /\ sec[b] \in DOMAIN open /\ FnAt(sec[b]) = f
          /\ open[sec[b]].kind \in Loops \cup {"func"}
          /\ open[sec[b]].kind \in Loops => open[sec[b]].entry
    BY DEF LiveFn, SectionsFit
<1>12. ASSUME NEW b \in A \cup B
       PROVE  /\ b \in Block' /\ b \in Nat /\ Successors(b)' = {} /\ b # Here /\ blocks'[b].fn = f
              /\ Live /\ at = Here /\ (b \in A => b \in t.to)
    <2>1. /\ Live /\ at = Here /\ (b \in A => b \in t.to) /\ blocks'[b].fn = f
          /\ Fresh(b) \/ Awaited(b)
        BY DEF Enlivens
    <2>2. b \in Block' /\ b \in Nat
        <3>1. b \in Nat
            OBVIOUS
        <3>2. CASE Fresh(b)
            BY <1>4, <3>1, <3>2
        <3>3. CASE Awaited(b)
            <4>1. b \in Block
                BY <3>1, <3>3 DEF Awaited, FlowInv, OwnedFit, Owns
            <4>2. QED  BY <1>4, <3>1, <4>1
        <3>4. QED  BY <2>1, <3>2, <3>3
    <2>3. CASE Fresh(b)
        BY <1>2, <1>4, <2>1, <2>2, <2>3
    <2>4. CASE Awaited(b)
        <3>1. PICK i \in DOMAIN open : WaitsFor(open[i], b)
            BY <2>4 DEF Awaited
        <3>2. b \in Block /\ blocks[b].term = <<>> /\ ~ Current(b)
            BY <2>2, <3>1 DEF FlowInv, OwnedFit, Owns
        <3>3. b # Here
            BY <1>2, <3>2
        <3>4. Successors(b)' = Successors(b)
            BY <1>4, <2>1, <3>2, <3>3
        <3>5. Successors(b) = {}
            BY <3>2, SuccIs DEF Successors, SuccOf
        <3>6. QED  BY <2>1, <2>2, <3>3, <3>4, <3>5
    <2>5. QED  BY <2>1, <2>3, <2>4
<1>13. \A b \in Nat : sec[b] # 0 => nsec[b] # 0
    <2>1. m + 1 # 0
        OBVIOUS
    <2>2. QED  BY <1>8, <2>1 DEF Turned
<1>14. \A b \in Nat : nsec[b] # 0 /\ sec[b] = 0 => b \in A \cup B
    BY DEF Turned
<1>15. \A C \in SUBSET Block' : Shut(C)' => Shut(C \cap Block) /\ C \cap Block \in SUBSET Block
    BY <1>4 DEF Shut
<1>16. Rising' /\ MarksIn
    <2>1. Rising'
        BY GoesOthers
    <2>2. QED  BY <2>1 DEF LiveInv
<1>17. SectionsFit(f, nsec)'
    <2> DEFINE Good(i) == /\ i \in DOMAIN open' /\ FnAt(i)' = f
                          /\ open'[i].kind \in Loops \cup {"func"}
                          /\ open'[i].kind \in Loops => open'[i].entry
    <2>1. ASSUME NEW i \in DOMAIN open, FnAt(i) = f,
                 open[i].kind \in Loops \cup {"func"}, open[i].kind \in Loops => open[i].entry,
                 i \in 1 .. m \/ Len(open') = m + 1
          PROVE  Good(i)
        <3>1. CASE i \in 1 .. m
            <4>1. open'[i].kind = open[i].kind /\ open'[i].entry = open[i].entry
                BY <1>7, <3>1 DEF Alike, Notes
            <4>2. QED  BY <1>6, <2>1, <3>1, <4>1
        <3>2. CASE i = m + 1 /\ Len(open) = m + 1 /\ Len(open') = m + 1
            <4>1. open[i].kind \in Loops
                BY <2>1, <3>2 DEF Goes, FuncLast
            <4>2. open'[i].kind = open[i].kind /\ open'[i].entry
                BY <2>1, <3>2, <4>1 DEF Sections
            <4>3. QED  BY <1>6, <2>1, <3>2, <4>1, <4>2
        <3>3. QED  BY <1>6, <2>1, <3>1, <3>2
    <2>2. ASSUME A # {} \/ joins PROVE Good(s)
        <3>1. Live
            BY <2>2 DEF Enlivens
        <3>2. open[s].kind \in Loops \cup {"func"} /\ (open[s].kind \in Loops => open[s].entry)
            BY <1>2, <1>8, <1>10, <1>11, <3>1
        <3>3. s \in 1 .. m \/ Len(open') = m + 1
            BY <2>2 DEF Sections
        <3>4. QED  BY <1>8, <2>1, <3>2, <3>3
    <2>3. B # {} => Good(m + 1)
        BY <1>6 DEF Enlivens
    <2>4. ASSUME NEW b \in Nat, sec[b] # 0, ~ (joins /\ sec[b] = m + 1) PROVE Good(sec[b])
        <3>1. /\ sec[b] \in DOMAIN open /\ FnAt(sec[b]) = f
              /\ open[sec[b]].kind \in Loops \cup {"func"}
              /\ open[sec[b]].kind \in Loops => open[sec[b]].entry
            BY <1>11, <2>4
        <3>2. sec[b] \in 1 .. m \/ Len(open') = m + 1
            <4>1. CASE sec[b] = m + 1 /\ Len(open) = m + 1
                BY <1>1, <2>4, <4>1 DEF Sections, Keeps
            <4>2. QED  BY <1>6, <3>1, <4>1
        <3>3. QED  BY <2>1, <3>1, <3>2
    <2>5. ASSUME NEW b \in Nat, nsec[b] # 0 PROVE b \in Block' /\ blocks'[b].fn = f /\ Good(nsec[b])
        <3>1. b \in Block' /\ blocks'[b].fn = f
            BY <1>4, <1>5, <1>11, <1>12, <1>14, <2>5
        <3> HIDE DEF Good
        <3>2. Good(nsec[b])
            <4>1. CASE b \in A
                <5>1. nsec[b] = s
                    BY <4>1 DEF Turned
                <5>2. QED  BY <2>2, <4>1, <5>1
            <4>2. CASE b \notin A /\ b \in B
                <5>1. nsec[b] = m + 1
                    BY <4>2 DEF Turned
                <5>2. QED  BY <2>3, <4>2, <5>1
            <4>3. CASE b \notin A /\ b \notin B /\ joins /\ sec[b] = m + 1
                <5>1. nsec[b] = s
                    BY <4>3 DEF Turned
                <5>2. QED  BY <2>2, <4>3, <5>1
            <4>4. CASE b \notin A /\ b \notin B /\ ~ (joins /\ sec[b] = m + 1)
                <5>1. nsec[b] = sec[b]
                    BY <4>4 DEF Turned
                <5>2. QED  BY <2>4, <2>5, <4>4, <5>1
            <4>5. QED  BY <4>1, <4>2, <4>3, <4>4
        <3>3. QED  BY <3>1, <3>2
    <2>6. nsec[f] # 0
        <3>1. sec[f] # 0
            BY DEF LiveFn, SectionsFit
        <3>2. QED  BY <1>13, <3>1
    <2>7. QED  BY <2>5, <2>6 DEF SectionsFit
<1>18. OnwardFit(f, nsec)'
    <2> SUFFICES ASSUME NEW b \in Nat, nsec[b] # 0, NEW to \in Successors(b)', blocks'[to].fn = f
                 PROVE  nsec[to] # 0
        BY DEF OnwardFit
    <2>1. CASE sec[b] = 0
        BY <1>12, <1>14, <2>1
    <2>2. CASE sec[b] # 0 /\ b = at
        <3>1. at # 0 /\ at = Here
            BY <1>3, <1>4, <1>11, <2>2
        <3>2. Live
            BY <1>9, <2>2, <3>1 DEF Mk
        <3>3. to \in t.to
            BY <1>4, <2>2, <3>1
        <3>4. QED  BY <3>1, <3>2, <3>3 DEF Leading
    <2>3. CASE sec[b] # 0 /\ b # at
        <3>1. b \in Block
            BY <1>11, <2>3
        <3>2. to \in Successors(b) /\ to \in Block
            BY <1>4, <2>3, <3>1
        <3>3. blocks[to].fn = f
            BY <1>5, <3>2
        <3>4. sec[to] # 0
            BY <2>3, <3>2, <3>3 DEF LiveFn, OnwardFit
        <3>5. QED  BY <1>4, <1>13, <3>2, <3>4
    <2>4. QED  BY <2>1, <2>2, <2>3
<1>19. JustFit(f, nsec)'
    <2> SUFFICES ASSUME NEW i \in DOMAIN open', FnAt(i)' = f,
                        NEW C \in SUBSET Block', Shut(C)', Base(i)' \in C,
                        NEW b \in Nat, nsec[b] = i
                 PROVE  b \in C
        BY DEF JustFit
    <2>1. Shut(C \cap Block) /\ C \cap Block \in SUBSET Block
        BY <1>15
    <2>2. i # 0 /\ i \in Nat
        BY <1>1 DEF Shaped
    <2>3. ASSUME i \in DOMAIN open, FnAt(i) = f, open[i].kind \in Loops \cup {"func"}
          PROVE  Base(i) \in C \cap Block
        <3>1. Base(i)' = Base(i)
            <4>1. CASE i \in 1 .. m
                BY <1>6, <1>7, <4>1 DEF Base, Alike
            <4>2. CASE i = m + 1 /\ Len(open) = m + 1 /\ Len(open') = m + 1
                <5>1. open[i].kind # "func" /\ open'[i].kind # "func"
                    BY <4>2 DEF Goes, FuncLast
                <5>2. open[i].kind \in Loops
                    BY <2>3, <5>1
                <5>3. open'[i].begin = open[i].begin
                    BY <4>2, <5>2 DEF Sections
                <5>4. QED  BY <5>1, <5>3 DEF Base
            <4>3. QED  BY <1>6, <2>3, <4>1, <4>2
        <3>2. FnAt(i) \in Block
            BY <2>3, LevelIs
        <3>3. CASE open[i].kind = "func"
            BY <3>1, <3>2, <3>3 DEF Base
        <3>4. CASE open[i].kind \in Loops
            <4>1. Owns(open[i], open[i].begin)
                BY <3>4 DEF Owns
            <4>2. open[i].begin \in Nat
                BY <1>1, <2>3 DEF Shaped, OpenT
            <4>3. open[i].begin \in Block
                BY <2>3, <4>1, <4>2 DEF FlowInv, OwnedFit
            <4>4. open[i].kind # "func"
                BY <3>4 DEF Loops
            <4>5. QED  BY <3>1, <4>3, <4>4 DEF Base
        <3>5. QED  BY <2>3, <3>3, <3>4
    <2>4. ASSUME NEW x \in Nat, sec[x] = i PROVE x \in C
        <3>1. i \in DOMAIN open /\ FnAt(i) = f /\ open[i].kind \in Loops \cup {"func"}
            BY <1>11, <2>2, <2>4
        <3>2. Base(i) \in C \cap Block
            BY <2>3, <3>1
        <3>3. x \in C \cap Block
            BY <2>1, <2>4, <3>1, <3>2 DEF LiveFn, JustFit
        <3>4. QED  BY <3>3
    <2>5. ASSUME Live, at = Here, i = s PROVE t.to \subseteq C
        <3>1. at \in C
            BY <1>2, <1>10, <2>4, <2>5
        <3>2. Successors(at)' \subseteq C
            BY <3>1 DEF Shut
        <3>3. QED  BY <1>2, <1>4, <2>5, <3>2
    <2>6. CASE b \in A
        <3>1. i = s /\ Live /\ at = Here /\ b \in t.to
            BY <1>12, <2>6 DEF Turned
        <3>2. QED  BY <2>5, <3>1
    <2>7. CASE b \notin A /\ b \in B
        <3>1. i = m + 1 /\ b = open'[i].begin /\ open'[i].kind \in Loops
            BY <2>7 DEF Turned, Enlivens
        <3>2. open'[i].kind # "func"
            BY <3>1 DEF Loops
        <3>3. Base(i)' = b
            BY <3>1, <3>2 DEF Base
        <3>4. QED  BY <3>3
    <2>8. CASE b \notin A /\ b \notin B /\ joins /\ sec[b] = m + 1
        <3>1. i = s /\ Live /\ at = Here
            BY <2>8 DEF Turned, Enlivens
        <3>2. /\ Len(open) = m + 1 /\ open[m + 1].kind \in Loops /\ open[m + 1].begin \in t.to
            BY <2>8 DEF Enlivens
        <3>3. open[m + 1].begin \in C
            BY <2>5, <3>1, <3>2
        <3>4. m + 1 \in DOMAIN open /\ FnAt(m + 1) = f
            BY <1>6, <3>2
        <3>5. open[m + 1].begin \in Block
            <4>1. Owns(open[m + 1], open[m + 1].begin)
                BY <3>2 DEF Owns
            <4>2. open[m + 1].begin \in Nat
                BY <1>1, <3>4 DEF Shaped, OpenT
            <4>3. QED  BY <3>4, <4>1, <4>2 DEF FlowInv, OwnedFit
        <3>6. open[m + 1].kind # "func"
            BY <3>2 DEF Loops
        <3>7. Base(m + 1) \in C \cap Block
            BY <3>3, <3>5, <3>6 DEF Base
        <3>8. b \in C \cap Block
            BY <2>1, <2>8, <3>4, <3>7 DEF LiveFn, JustFit
        <3>9. QED  BY <3>8
    <2>9. CASE b \notin A /\ b \notin B /\ ~ (joins /\ sec[b] = m + 1)
        <3>1. nsec[b] = sec[b]
            BY <2>9 DEF Turned
        <3>2. QED  BY <2>4, <3>1
    <2>10. QED  BY <2>6, <2>7, <2>8, <2>9
<1>20. ASSUME NEW i \in DOMAIN open', Tip(i)', FnAt(i)' = f PROVE i = Len(open')
    <2> SUFFICES ASSUME i # Len(open') PROVE FALSE
        OBVIOUS
    <2>1. PICK n \in Nat : n = Len(open') /\ DOMAIN open' = 1 .. n
        BY <1>1 DEF Shaped
    <2>2. i + 1 \in DOMAIN open' /\ i < i + 1 /\ i + 1 <= n /\ open'[i + 1].kind = "func"
        <3>1. open'[i + 1].kind = "func"
            BY <1>20 DEF Tip
        <3>2. i \in 1 .. n /\ i # n
            BY <2>1
        <3>3. \A x \in 1 .. n : x # n => x + 1 \in 1 .. n /\ x < x + 1 /\ x + 1 <= n
            OBVIOUS
        <3>4. i + 1 \in 1 .. n /\ i < i + 1 /\ i + 1 <= n
            BY <3>2, <3>3
        <3>5. QED  BY <2>1, <3>1, <3>4
    <2>3. FnAt(i)' < FnAt(i + 1)'
        BY <1>16, <2>2 DEF Rising
    <2>4. n \in DOMAIN open' /\ FnAt(n)' = f
        BY <1>6, <2>1
    <2>5. FnAt(i + 1)' <= FnAt(n)' \/ i + 1 = n
        <3>1. CASE i + 1 < n
            BY <1>16, <2>2, <2>4, <3>1 DEF Rising
        <3>2. i \in 1 .. n
            BY <2>1
        <3>3. \A x \in 1 .. n : x + 1 <= n => x + 1 < n \/ x + 1 = n
            OBVIOUS
        <3>4. QED  BY <2>2, <3>1, <3>2, <3>3
    <2>6. FnAt(i + 1)' \in Nat
        <3>1. i + 1 \in 1 .. m \/ i + 1 = n
            BY <1>6, <2>1, <2>2
        <3>2. CASE i + 1 \in 1 .. m
            <4>1. FnAt(i + 1)' = FnAt(i + 1) /\ i + 1 \in DOMAIN open
                BY <1>6, <3>2
            <4>2. QED  BY <4>1, LevelIs
        <3>3. CASE i + 1 = n
            BY <2>4, <3>3
        <3>4. QED  BY <3>1, <3>2, <3>3
    <2>7. FnAt(i + 1)' <= f
        <3>1. CASE i + 1 = n
            BY <2>4, <3>1
        <3>2. CASE i + 1 # n
            BY <2>4, <2>5, <3>2
        <3>3. QED  BY <3>1, <3>2
    <2>8. QED  BY <1>20, <2>3, <2>6, <2>7
<1>21. StandsFit(f, nsec)'
    <2> SUFFICES ASSUME NEW i \in DOMAIN open', Tip(i)', FnAt(i)' = f
                 PROVE  nsec[Home(i)'] = Mk(LivesAt(i)', Section(i)')
        BY DEF StandsFit, Mk
    <2>1. i = Len(open')
        BY <1>20
    <2>2. Home(i)' = Here' /\ LivesAt(i)' = Live'
        BY <1>6, <2>1
    <2>3. QED  BY <2>1, <2>2 DEF Running
<1>22. NotesFit(f, nsec)'
    OBVIOUS
<1>23. ASSUME NEW i \in 1 .. m, FnAt(i) = f, Lit(sec, open[i]) PROVE Lit(nsec, open'[i])
    <2>1. open'[i].entry = open[i].entry
        BY DEF Notes
    <2>2. /\ open'[i].kind = open[i].kind /\ open'[i].phase = open[i].phase
          /\ open'[i].nxt = open[i].nxt /\ open[i].nxt \in Nat
        BY <1>1, <1>6, <1>7 DEF Alike, Shaped, OpenT
    <2>3. QED  BY <1>13, <1>23, <2>1, <2>2 DEF Lit
<1>24. ASSUME NEW i \in 1 .. m, FnAt(i) = f,
              Live \/ \E j \in DOMAIN open : i < j /\ FnAt(j) = f /\ Flagged(open[j])
       PROVE  Lit(nsec, open'[i])
    <2>1. i \in DOMAIN open
        BY <1>6
    <2>2. CASE Live
        <3>1. Tip(Len(open)) /\ i <= Len(open)
            BY <1>1, <2>1 DEF Tip, Shaped
        <3>2. Lit(sec, open[i])
            BY <1>6, <1>24, <2>1, <2>2, <3>1 DEF LiveFn, DeadFit
        <3>3. QED  BY <1>23, <1>24, <3>2
    <2>3. CASE \E j \in DOMAIN open : i < j /\ FnAt(j) = f /\ Flagged(open[j])
        <3>1. PICK j \in DOMAIN open : i < j /\ FnAt(j) = f /\ Flagged(open[j])
            BY <2>3
        <3>2. i <= j
            BY <1>1, <2>1, <3>1 DEF Shaped
        <3>3. Lit(sec, open[i])
            BY <1>24, <2>1, <3>1, <3>2 DEF LiveFn, DeadFit
        <3>4. QED  BY <1>23, <1>24, <3>3
    <2>4. QED  BY <1>24, <2>2, <2>3
<1>25. DeadFit(f, nsec)'
    <2> SUFFICES ASSUME NEW i \in DOMAIN open', NEW j \in DOMAIN open', i <= j,
                        FnAt(i)' = f, FnAt(j)' = f
                 PROVE  /\ i < j /\ Flagged(open'[j]) => Lit(nsec, open'[i])
                        /\ Tip(j)' /\ LivesAt(j)' => Lit(nsec, open'[i])
        BY DEF DeadFit, Lit
    <2>1. ASSUME i < j, Flagged(open'[j]) PROVE Lit(nsec, open'[i])
        <3>1. i \in 1 .. m
            <4>1. i \in 1 .. m \/ i = m + 1
                BY <1>6
            <4>2. j \in 1 .. m \/ j = m + 1
                BY <1>6
            <4>3. QED  BY <2>1, <4>1, <4>2, Below
        <3>2. FnAt(i) = f
            BY <1>6, <3>1
        <3>3. Live \/ (j \in DOMAIN open /\ Flagged(open[j]))
            BY <2>1 DEF Notes
        <3>4. j \in DOMAIN open => FnAt(j) = f
            BY <1>6
        <3>5. QED  BY <1>24, <2>1, <3>1, <3>2, <3>3, <3>4
    <2>2. ASSUME Tip(j)', LivesAt(j)' PROVE Lit(nsec, open'[i])
        <3>1. j = Len(open') /\ Live'
            BY <1>6, <1>20, <2>2
        <3>2. CASE i \in 1 .. m
            <4>1. FnAt(i) = f
                BY <1>6, <3>2
            <4>2. Live \/ (m + 1 \in DOMAIN open /\ Flagged(open[m + 1]) /\ FnAt(m + 1) = f)
                BY <1>6, <3>1 DEF Notes
            <4>3. i < m + 1
                BY <3>2
            <4>4. QED  BY <1>24, <3>2, <4>1, <4>2, <4>3
        <3>3. CASE i = m + 1 /\ Len(open') = m + 1
            BY <3>1, <3>3 DEF Notes
        <3>4. QED  BY <1>6, <3>2, <3>3
    <2>3. QED  BY <2>1, <2>2
<1>26. MarksFit(f, nsec)'
    <2> SUFFICES ASSUME NEW k \in marks', blocks'[k[1]].fn = f
                 PROVE  k[2] <=> nsec[k[1]] # 0
        BY DEF MarksFit
    <2>1. ASSUME NEW b \in Block, ~ Awaited(b) PROVE nsec[b] # 0 <=> sec[b] # 0
        <3>1. b \in Nat /\ ~ Fresh(b)
            BY <1>4
        <3>2. b \notin A \cup B
            BY <2>1, <3>1 DEF Enlivens
        <3>3. QED  BY <1>13, <1>14, <3>1, <3>2
    <2>2. CASE k \in marks
        <3>1. k[1] \in Block /\ ~ Awaited(k[1])
            BY <1>16, <2>2 DEF MarksIn
        <3>2. blocks[k[1]].fn = f
            BY <1>5, <3>1
        <3>3. k[2] <=> sec[k[1]] # 0
            BY <2>2, <3>2 DEF LiveFn, MarksFit
        <3>4. QED  BY <2>1, <3>1, <3>3
    <2>3. CASE k = <<Here, Live>>
        <3>1. ~ Awaited(Here)
            <4> SUFFICES ASSUME Awaited(Here) PROVE FALSE
                OBVIOUS
            <4>1. PICK i \in DOMAIN open : WaitsFor(open[i], Here)
                BY DEF Awaited
            <4>2. ~ Current(Here)
                BY <1>2, <4>1 DEF FlowInv, OwnedFit
            <4>3. QED  BY <1>2, <4>2
        <3>2. Live \in BOOLEAN
            BY <1>1, TopIs
        <3>3. Live <=> sec[Here] # 0
            BY <1>8, <1>9, <3>2 DEF Mk
        <3>4. k[1] = Here /\ k[2] = Live
            BY <2>3
        <3>5. QED  BY <1>2, <2>1, <3>1, <3>3, <3>4
    <2>4. QED  BY <2>2, <2>3 DEF Goes
<1>27. QED  BY <1>17, <1>18, <1>19, <1>21, <1>22, <1>25, <1>26 DEF LiveFn

-----------------------------------------------------------------------------
(* Steps that do not jump. *)

\* What is counted.
LEMMA BlocksNat ==
    ASSUME FlowInv
    PROVE  /\ \A b \in Block : b \in Nat /\ b # 0
           /\ \A i \in DOMAIN open : i \in Nat /\ i # 0
BY Shapes DEF FlowInv, Shaped

\* The section of the innermost construct, before and after.
LEMMA SectionNext ==
    ASSUME FlowInv, FlowInv', NEW m \in Nat, m >= 1, Keeps(m)
    PROVE  /\ Len(open) = m + 1 => Section(m + 1) = IF Opens(open[m + 1]) THEN m + 1 ELSE Section(m)
           /\ \A i : i = m + 1 /\ Len(open') = m + 1 =>
                 Section(i)' = IF Opens(open'[m + 1]) THEN m + 1 ELSE Section(m)
           /\ \A i : i = m => Section(i)' = Section(m)
           /\ Section(m) \in 1 .. m
<1>1. Typed /\ Typed' /\ Shaped /\ Shaped'
    BY Shapes DEF FlowInv
<1>2. m \in 1 .. m /\ m + 1 # m /\ (m + 1) - 1 = m
    OBVIOUS
<1>3. m \in DOMAIN open /\ m \in DOMAIN open' /\ Section(m)' = Section(m)
    BY <1>2, LevelsStay
<1>4. Section(m) \in 1 .. m
    <2>1. Section(m) \in DOMAIN open /\ Section(m) <= m
        BY <1>3, SectionIs
    <2>2. QED  BY <1>1, <2>1 DEF Shaped
<1>5. ASSUME Len(open) = m + 1
      PROVE  Section(m + 1) = IF Opens(open[m + 1]) THEN m + 1 ELSE Section(m)
    <2>1. m + 1 \in DOMAIN open
        BY <1>1, <1>5, KeepsIs
    <2>2. QED  BY <1>2, <2>1, SectionIs
<1>6. ASSUME NEW i, i = m + 1, Len(open') = m + 1
      PROVE  Section(i)' = IF Opens(open'[m + 1]) THEN m + 1 ELSE Section(m)
    <2>1. DOMAIN open' = 1 .. m + 1
        BY <1>1, <1>6 DEF Shaped
    <2>2. CASE Opens(open'[m + 1])
        <3>1. i \in Openers(i)'
            BY <1>6, <2>1, <2>2 DEF Openers
        <3>2. Openers(i)' \in SUBSET (1 .. m + 1)
            BY <2>1 DEF Openers
        <3>3. \A j \in Openers(i)' : (\A k \in Openers(i)' : k <= j) => j = i
            BY <1>6, <3>1, <3>2
        <3>4. \A k \in Openers(i)' : k <= i
            BY <1>6, <3>2
        <3>5. Section(i)' = i
            BY <3>1, <3>3, <3>4 DEF Section
        <3>6. QED  BY <1>6, <2>2, <3>5
    <2>3. CASE ~ Opens(open'[m + 1])
        <3>1. \A j \in DOMAIN open' : j <= i /\ Opens(open'[j]) <=> j <= m /\ Opens(open'[j])
            <4>1. \A j \in 1 .. m + 1 : j <= i <=> j <= m \/ j = m + 1
                BY <1>6
            <4>2. QED  BY <2>1, <2>3, <4>1
        <3>2. PICK k : k = m
            OBVIOUS
        <3>3. Openers(i)' = Openers(k)'
            BY <3>1, <3>2 DEF Openers
        <3>4. Section(i)' = Section(k)'
            BY <3>3 DEF Section
        <3>5. QED  BY <1>3, <2>3, <3>2, <3>4
    <2>4. QED  BY <2>2, <2>3
<1>7. QED  BY <1>3, <1>4, <1>5, <1>6

\* The blocks of construct x keep their sections, but for those of section k.
Remains(sec, nsec, x, i, o, s, k, joins) ==
    /\ k # 0 /\ k # i /\ k # o /\ NoteFits(sec, x, i, o)
    /\ \A b \in Nat : Owns(x, b) => nsec[b] = IF joins /\ sec[b] = k THEN s ELSE sec[b]

\* What is noted of a construct fits as long as its blocks are where they were.
LEMMA NoteOther ==
    ASSUME NEW sec, NEW nsec, NEW x \in OpenT, NEW i \in Nat, NEW o \in Nat, NEW s, NEW k \in Nat,
           NEW joins \in BOOLEAN, Remains(sec, nsec, x, i, o, s, k, joins)
    PROVE  NoteFits(nsec, x, i, o)
<1>0. /\ k # 0 /\ k # i /\ k # o /\ NoteFits(sec, x, i, o)
      /\ \A b \in Nat : Owns(x, b) => nsec[b] = IF joins /\ sec[b] = k THEN s ELSE sec[b]
    BY DEF Remains
<1>1. x.begin \in Nat /\ x.nxt \in Nat /\ x.end \in Nat /\ x.nxt + 1 \in Nat
    BY DEF OpenT
<1>2. \A b \in Nat : \A l, v : Owns(x, b) /\ sec[b] = Mk(l, v) /\ v \in {i, o} => nsec[b] = Mk(l, v)
    BY <1>0 DEF Mk
<1>3. \A b \in Nat : Owns(x, b) /\ sec[b] = 0 => nsec[b] = 0
    BY <1>0
<1>4. CASE x.kind = "func"
    BY <1>4, NoteSame
<1>5. CASE x.kind = "if"
    <2>1. x.phase = "then" => Owns(x, x.end) /\ (x.has => Owns(x, x.begin))
        BY <1>5 DEF Owns, WaitsFor
    <2>2. x.phase = "else" => Owns(x, x.end)
        BY <1>5 DEF Owns, WaitsFor
    <2>3. x.kind \notin Loops /\ x.kind # "while" /\ x.kind # "for"
        BY <1>5 DEF Loops
    <2>4. x.phase = "then" => /\ nsec[IF x.has THEN x.begin ELSE x.end] = Mk(x.entry, o)
                              /\ x.has => nsec[x.end] = 0
        BY <1>0, <1>1, <1>2, <1>3, <1>5, <2>1 DEF NoteFits
    <2>5. x.phase = "else" => nsec[x.end] = Mk(x.brk, o)
        BY <1>0, <1>1, <1>2, <1>5, <2>2 DEF NoteFits
    <2>6. QED  BY <2>3, <2>4, <2>5 DEF NoteFits
<1>6. CASE x.kind \in Loops
    <2>1. /\ Owns(x, x.begin) /\ Owns(x, x.end) /\ Owns(x, x.nxt)
          /\ x.kind = "for" => Owns(x, x.nxt + 1)
          /\ x.kind # "if"
        BY <1>6 DEF Owns, Loops
    <2>2. /\ nsec[x.begin] = Mk(x.entry, i) /\ nsec[x.end] = Mk(x.brk, i)
          /\ x.brk \/ x.cont => x.entry
        BY <1>0, <1>1, <1>2, <1>6, <2>1 DEF NoteFits
    <2>3. x.kind = "while" => nsec[x.nxt] = Mk(x.entry, o)
        BY <1>0, <1>1, <1>2, <2>1 DEF NoteFits
    <2>4. x.kind = "for" => nsec[x.nxt + 1] = Mk(x.entry, o)
        BY <1>0, <1>1, <1>2, <2>1 DEF NoteFits
    <2>5. x.kind = "for" /\ x.phase \in {"init", "body"} => nsec[x.nxt] = Mk(x.cont, i)
        BY <1>0, <1>1, <1>2, <2>1 DEF NoteFits
    <2>6. x.kind = "for" /\ x.phase = "init" => ~ x.entry
        BY <1>0 DEF NoteFits
    <2>7. QED  BY <2>1, <2>2, <2>3, <2>4, <2>5, <2>6 DEF NoteFits
<1>7. QED  BY <1>4, <1>5, <1>6 DEF OpenT, Loops

\* What is known of the innermost construct of a function that lives.
Stands(sec, s, o, m) ==
    /\ o \in 1 .. m /\ o # 0 /\ s # 0 /\ o # m + 1
    /\ s = IF Len(open) = m + 1 /\ Opens(Top) THEN m + 1 ELSE o
    /\ Len(open) = m + 1 => NoteFits(sec, Top, m + 1, o)
    /\ sec[Here] = Mk(Live, s)
    /\ Live => \A i \in DOMAIN open : FnAt(i) = Fn => Lit(sec, open[i])
    /\ Live /\ Len(open) = m + 1 => Lit(sec, Top)
    /\ \A b \in Nat : sec[b] # 0 => b \in Block
    /\ \A b \in Nat : Fresh(b) => sec[b] = 0
    /\ \A b \in Nat : sec[b] = m + 1 => Len(open) = m + 1 /\ Top.kind \in Loops /\ Top.entry

\* Numbers up to m.
LEMMA UpToM ==
    ASSUME NEW m \in Nat
    PROVE  /\ m # m + 1 /\ m + 1 # 0 /\ m + 1 \in Nat /\ (m + 1) - 1 = m
           /\ \A i \in 1 .. m : i \in Nat /\ i # m + 1 /\ i # 0
           /\ \A i \in 1 .. m : i # 1 => i - 1 \in 1 .. m /\ i - 1 < i
           /\ \A i \in 1 .. m, v \in Nat : v <= i => v # m + 1
    OBVIOUS

\* All of it holds when a step of the function begins.
LEMMA StandsSo ==
    ASSUME FlowInv, FlowInv', NEW m \in Nat, NEW at, NEW t, NEW q, Goes(at, t, q, m),
           NEW f, f = Fn, NEW sec \in [Nat -> Nat], LiveFn(f, sec),
           NEW s, s = Section(Len(open)), NEW o, o = Section(m)
    PROVE  Stands(sec, s, o, m)
<1>1. Typed /\ Shaped /\ open # <<>> /\ Keeps(m) /\ Writes(at, t, q)
    BY Shapes DEF FlowInv, Goes
<1>2. /\ m >= 1 /\ m \in 1 .. m
      /\ \A i \in DOMAIN open : i \in 1 .. m \/ (i = m + 1 /\ Len(open) = m + 1)
      /\ FnAt(m) = f /\ (Len(open) = m + 1 => FnAt(m + 1) = f)
      /\ Home(Len(open)) = Here /\ LivesAt(Len(open)) = Live /\ FnAt(Len(open)) = f
      /\ Len(open) \in DOMAIN open
    BY GoesLevels
<1>3. /\ Len(open) = m + 1 => Section(m + 1) = IF Opens(open[m + 1]) THEN m + 1 ELSE Section(m)
      /\ Section(m) \in 1 .. m
    BY <1>1, <1>2, SectionNext
<1>4. Top = open[Len(open)]
    BY <1>1, HomeTop
<1>5. Len(open) = m \/ Len(open) = m + 1
    BY <1>1 DEF Keeps
<1>6. m # m + 1
    OBVIOUS
<1>7. s = IF Len(open) = m + 1 /\ Opens(Top) THEN m + 1 ELSE o
    <2>1. CASE Len(open) = m
        BY <1>6, <2>1
    <2>2. CASE Len(open) = m + 1
        <3>1. s = Section(m + 1) /\ Top = open[m + 1]
            BY <1>4, <2>2
        <3>2. s = IF Opens(open[m + 1]) THEN m + 1 ELSE o
            BY <1>3, <2>2, <3>1
        <3>3. QED  BY <2>2, <3>1, <3>2
    <2>3. QED  BY <1>5, <2>1, <2>2
<1>8. o \in 1 .. m /\ o # 0 /\ s # 0 /\ o # m + 1
    <2>1. o \in 1 .. m
        BY <1>3
    <2>2. m + 1 # 0 /\ o # 0 /\ o # m + 1
        BY <2>1, UpToM
    <2>3. QED  BY <1>7, <2>1, <2>2
<1>9. Tip(Len(open))
    BY DEF Tip
<1>10. sec[Here] = Mk(Live, s)
    BY <1>2, <1>9 DEF LiveFn, StandsFit
<1>11. ASSUME Len(open) = m + 1 PROVE NoteFits(sec, Top, m + 1, o)
    <2>1. (m + 1) - 1 = m
        OBVIOUS
    <2>2. NoteFits(sec, open[m + 1], m + 1, Section((m + 1) - 1))
        BY <1>2, <1>11 DEF LiveFn, NotesFit
    <2>3. QED  BY <1>4, <1>11, <2>1, <2>2
<1>12. ASSUME Live, NEW i \in DOMAIN open, FnAt(i) = f PROVE Lit(sec, open[i])
    <2>1. i <= Len(open)
        BY <1>1 DEF Shaped
    <2>2. QED  BY <1>2, <1>9, <1>12, <2>1 DEF LiveFn, DeadFit
<1>13. Live /\ Len(open) = m + 1 => Lit(sec, Top)
    BY <1>2, <1>4, <1>12
<1>14. \A b \in Nat : sec[b] # 0 => b \in Block
    BY DEF LiveFn, SectionsFit
<1>15. \A b \in Nat : Fresh(b) => b \notin Block
    BY <1>1 DEF Fresh, Shaped
<1>16. \A b \in Nat : sec[b] = m + 1 => Len(open) = m + 1 /\ Top.kind \in Loops /\ Top.entry
    <2> SUFFICES ASSUME NEW b \in Nat, sec[b] = m + 1
                 PROVE  Len(open) = m + 1 /\ Top.kind \in Loops /\ Top.entry
        OBVIOUS
    <2>1. m + 1 # 0 /\ m + 1 \notin 1 .. m
        OBVIOUS
    <2>2. /\ m + 1 \in DOMAIN open
          /\ open[m + 1].kind \in Loops \cup {"func"}
          /\ open[m + 1].kind \in Loops => open[m + 1].entry
        BY <2>1 DEF LiveFn, SectionsFit
    <2>3. Len(open) = m + 1
        BY <1>2, <2>1, <2>2
    <2>4. open[m + 1].kind # "func"
        BY <2>3 DEF Goes, FuncLast
    <2>5. QED  BY <1>4, <2>2, <2>3, <2>4
<1>17. QED  BY <1>7, <1>8, <1>10, <1>11, <1>12, <1>13, <1>14, <1>15, <1>16 DEF Stands

\* What a step of the innermost function makes of the last builder and mark.
LEMMA GoesBy ==
    ASSUME FlowInv, FlowInv', open # <<>>, NEW m \in Nat, Keeps(m), ~ FuncLast(m), ~ FuncLast(m)',
           NEW at \in Nat, NEW t \in TermT, NEW q \in Nat, at \in {0, Here}, Writes(at, t, q),
           \/ at = 0 /\ builders' = builders
           \/ /\ at # 0 /\ builders' = WithLast(builders, q)
              /\ Fresh(q) \/ (q \in Block /\ blocks[q].fn = Fn),
           lives' = lives \/ \E l \in BOOLEAN : lives' = WithLast(lives, l),
           \A b \in Nat : Fresh(b) => blocks'[b].fn = Fn,
           \A b \in t.to : Fresh(b) \/ (b \in Block /\ blocks[b].fn <= Fn),
           \A i \in 1 .. m : FnAt(i) # Fn => Same(open[i], open'[i]),
           early \subseteq early', marks' \subseteq marks \cup {<<Here, Live>>},
           \A b \in Nat : Len(open') = m + 1 /\ WaitsFor(open'[m + 1], b) =>
               Fresh(b) \/ (Len(open) = m + 1 /\ WaitsFor(open[m + 1], b))
    PROVE  /\ Goes(at, t, q, m)
           /\ \A h : h = Here' => h = IF at = 0 THEN Here ELSE q
           /\ lives' = lives => Live' = Live
           /\ \A l \in BOOLEAN : lives' = WithLast(lives, l) => Live' = l
<1>1. Typed /\ Shaped
    BY Shapes DEF FlowInv
<1>2. /\ Here \in Block /\ Here # 0 /\ Here \in Nat /\ Len(builders) \in DOMAIN builders
      /\ Here = builders[Len(builders)] /\ Fn \in Nat
    <2>1. Fn \in Block
        BY HomeTop
    <2>2. \A b \in Block : b \in Nat
        BY BlocksNat
    <2>3. QED  BY <2>1, <2>2, HomeTop
<1>3. builders \in Seq(Nat) /\ builders # <<>> /\ lives \in Seq(BOOLEAN) /\ lives # <<>>
    BY TopIs
<1>4. Len(lives) = Len(builders)
    BY DEF FlowInv, LevelsFit
<1>5. /\ Len(builders') = Len(builders)
      /\ \A k \in 1 .. Len(builders) : k # Len(builders) => builders'[k] = builders[k]
      /\ builders'[Len(builders)] = IF at = 0 THEN Here ELSE q
    <2>1. CASE at = 0
        BY <1>2, <2>1
    <2>2. CASE at # 0
        <3>1. LastSet(Nat, builders, WithLast(builders, q), q)
            BY <1>3, WithLastIs
        <3>2. LastSet(Nat, builders, builders', q)
            BY <2>2, <3>1
        <3>3. QED  BY <2>2, <3>2 DEF LastSet
    <2>3. QED  BY <2>1, <2>2
<1>6. \A h : h = Here' => h = IF at = 0 THEN Here ELSE q
    BY <1>5 DEF Here, Last
<1>7. ASSUME NEW l \in BOOLEAN, lives' = WithLast(lives, l)
      PROVE  /\ \A k \in 1 .. Len(builders) : k # Len(builders) => lives'[k] = lives[k]
             /\ Live' = l
    <2> DEFINE B == BOOLEAN
    <2>1. lives \in Seq(B) /\ lives # <<>> /\ l \in B
        BY <1>3
    <2> HIDE DEF B
    <2>2. LastSet(B, lives, WithLast(lives, l), l)
        BY <2>1, WithLastIs
    <2>3. LastSet(B, lives, lives', l)
        BY <1>7, <2>2
    <2>4. Len(lives') = Len(lives) /\ lives'[Len(lives)] = l
          /\ \A k \in 1 .. Len(lives) : k # Len(lives) => lives'[k] = lives[k]
        BY <2>3 DEF LastSet
    <2>5. QED  BY <1>4, <2>4 DEF Live, Last
<1>8. lives' = lives => Live' = Live
    BY DEF Live, Last
<1>9. \A k \in 1 .. Len(builders) : k # Len(builders) => lives'[k] = lives[k]
    BY <1>7
<1>10. \A b \in Block : blocks'[b].fn = blocks[b].fn
    BY DEF Writes
<1>11. blocks'[Here'].fn = Fn
    <2>1. CASE at = 0
        <3>1. Here' = Here
            BY <1>6, <2>1
        <3>2. QED  BY <1>2, <1>10, <3>1 DEF Fn
    <2>2. CASE at # 0
        <3>1. Here' = q
            BY <1>6, <2>2
        <3>2. blocks'[q].fn = Fn
            BY <1>10, <2>2
        <3>3. QED  BY <3>1, <3>2
    <2>3. QED  BY <2>1, <2>2
<1>12. \A b \in t.to : blocks'[b].fn <= Fn
    <2>1. t.to \subseteq Nat /\ Fn <= Fn
        BY <1>2 DEF TermT
    <2>2. QED  BY <1>10, <2>1
<1>13. Goes(at, t, q, m)
    BY <1>5, <1>9, <1>11, <1>12 DEF Goes
<1>14. QED  BY <1>6, <1>7, <1>8, <1>13

\* The blocks that come to live are new or waited for; a section starts in one, or
\* is joined to the one around it.
Comes(t, at, m, A, B, joins) ==
    /\ A # {} \/ B # {} \/ joins => Live /\ at = Here
    /\ \A b \in A : b \in t.to
    /\ \A b \in A \cup B : Fresh(b) \/ (Len(open) = m + 1 /\ WaitsFor(open[m + 1], b))
    /\ \A b \in B : /\ Len(open') = m + 1 /\ b = open'[m + 1].begin
                    /\ open'[m + 1].kind \in Loops /\ open'[m + 1].entry
    /\ joins => /\ Len(open) = m + 1 /\ Len(open') = m
                /\ open[m + 1].kind \in Loops /\ open[m + 1].begin \in t.to

SameBelow(m) == \A i \in 1 .. m : Same(open[i], open'[i])

\* What is noted of the innermost construct after a step, and where it goes on.
Noting(nsec, t, at, m, o) ==
    /\ Len(open') = m + 1 /\ Flagged(open'[m + 1]) =>
           Live \/ (Len(open) = m + 1 /\ Flagged(open[m + 1]))
    /\ Live' => Live \/ (Len(open) = m + 1 /\ Flagged(open[m + 1]))
    /\ Live' /\ Len(open') = m + 1 => Lit(nsec, open'[m + 1])
    /\ Live /\ at # 0 => \A b \in t.to : nsec[b] # 0
    /\ Len(open') = m + 1 => NoteFits(nsec, open'[m + 1], m + 1, o)
    /\ nsec[Here'] = Mk(Live', IF Len(open') = m + 1 /\ Opens(open'[m + 1]) THEN m + 1 ELSE o)

\* The innermost function lives after a step without a jump.
LEMMA WalkLive ==
    ASSUME FlowInv, FlowInv', LiveInv, NEW at \in Nat, NEW t, NEW q, NEW m \in Nat,
           Goes(at, t, q, m), NEW f \in Nat, f = Fn,
           NEW sec \in [Nat -> Nat], LiveFn(f, sec), NEW s, s = Section(Len(open)),
           NEW o, o = Section(m),
           NEW A \in SUBSET Nat, NEW B \in SUBSET Nat, NEW joins \in BOOLEAN,
           NEW nsec \in [Nat -> Nat], Turned(sec, nsec, s, m, A, B, joins),
           Comes(t, at, m, A, B, joins), Sections(sec, s, m, A, joins), SameBelow(m),
           Noting(nsec, t, at, m, o)
    PROVE  LiveFn(f, nsec)'
<1> USE DEF Comes, SameBelow, Noting
<1>1. Typed /\ Shaped /\ Shaped' /\ open # <<>> /\ Keeps(m) /\ Writes(at, t, q)
    BY Shapes DEF FlowInv, Goes
<1>2. /\ m >= 1 /\ m \in 1 .. m
      /\ \A i \in DOMAIN open' : i \in 1 .. m \/ (i = m + 1 /\ Len(open') = m + 1)
      /\ \A i \in 1 .. m : i \in DOMAIN open /\ i \in DOMAIN open' /\ FnAt(i)' = FnAt(i)
      /\ Len(open) = m + 1 => FnAt(m + 1) = f
      /\ Len(open') \in DOMAIN open' /\ Len(open) \in DOMAIN open
    BY GoesLevels
<1>3. /\ \A i : i = m + 1 /\ Len(open') = m + 1 =>
             Section(i)' = IF Opens(open'[m + 1]) THEN m + 1 ELSE o
      /\ \A i : i = m => Section(i)' = o
      /\ o \in 1 .. m
    BY <1>1, <1>2, SectionNext
<1>4. Len(open') = m \/ Len(open') = m + 1
    BY <1>1 DEF Keeps
<1>5. m # m + 1 /\ m + 1 # 0 /\ m + 1 \in Nat
    BY UpToM
<1>6. ASSUME NEW i \in DOMAIN open', i = Len(open') PROVE nsec[Here'] = Mk(Live', Section(i)')
    <2>1. CASE Len(open') = m
        BY <1>3, <1>5, <1>6, <2>1
    <2>2. CASE Len(open') = m + 1
        BY <1>3, <1>6, <2>2
    <2>3. QED  BY <1>4, <2>1, <2>2
<1>7. \A b \in A \cup B : b \notin Block \/ (Len(open) = m + 1 /\ Owns(open[m + 1], b))
    <2>1. \A b \in Nat : Fresh(b) => b \notin Block
        BY <1>1 DEF Fresh, Shaped
    <2>2. QED  BY <2>1 DEF Owns
<1>8. ASSUME NEW i \in 1 .. m, FnAt(i) = f PROVE NoteFits(nsec, open'[i], i, Section(i - 1)')
    <2>1. Same(open[i], open'[i]) /\ open[i].kind = open'[i].kind
        BY DEF Same, Alike
    <2>2. CASE open[i].kind = "func"
        BY <2>1, <2>2, NoteSame
    <2>3. CASE open[i].kind # "func"
        <3>1. i # 1
            BY <1>2, <2>3, LevelIs
        <3>2. PICK j \in 1 .. m : j = i - 1 /\ j < i
            BY <3>1, UpToM
        <3>3. Section(j)' = Section(j) /\ j \in DOMAIN open
            BY <1>1, LevelsStay
        <3>4. PICK u \in Nat : u = Section(j) /\ u # m + 1
            <4>1. Section(j) \in DOMAIN open /\ Section(j) <= j
                BY <3>3, SectionIs
            <4>2. \A v \in Nat : v <= j => v # m + 1
                BY UpToM
            <4>3. Section(j) \in Nat
                <5>1. \A k \in DOMAIN open : k \in Nat
                    BY BlocksNat
                <5>2. QED  BY <4>1, <5>1
            <4>4. QED  BY <4>1, <4>2, <4>3
        <3>5. NoteFits(sec, open[i], i, u)
            BY <1>2, <1>8, <3>2, <3>4 DEF LiveFn, NotesFit
        <3>6. open[i] \in OpenT /\ i \in Nat /\ i # m + 1 /\ i \in DOMAIN open
            BY <1>1, <1>2, UpToM DEF Shaped
        <3>7. \A b \in Nat : Owns(open[i], b) => b \notin A \cup B
            <4> SUFFICES ASSUME NEW b \in A \cup B, Owns(open[i], b) PROVE FALSE
                OBVIOUS
            <4>1. b \in Block
                BY <3>6 DEF FlowInv, OwnedFit
            <4>2. Len(open) = m + 1 /\ Owns(open[m + 1], b) /\ m + 1 \in DOMAIN open
                BY <1>2, <1>7, <4>1
            <4>3. QED  BY <3>6, <4>2 DEF FlowInv, OwnedFit
        <3>8. PICK k \in Nat, x \in OpenT : k = m + 1 /\ x = open[i]
            BY <1>5, <3>6
        <3>9. NoteFits(nsec, open[i], i, u)
            <4>1. \A b \in Nat : Owns(x, b) => nsec[b] = IF joins /\ sec[b] = k THEN s ELSE sec[b]
                BY <3>7, <3>8 DEF Turned
            <4>2. k # 0 /\ k # i /\ k # u /\ NoteFits(sec, x, i, u) /\ i \in Nat
                BY <1>5, <3>4, <3>5, <3>6, <3>8
            <4>3. Remains(sec, nsec, x, i, u, s, k, joins)
                BY <4>1, <4>2 DEF Remains
            <4>4. NoteFits(nsec, x, i, u)
                BY <4>2, <4>3, NoteOther
            <4>5. QED  BY <3>8, <4>4
        <3>10. NoteFits(nsec, open'[i], i, u)
            BY <2>1, <3>9, NoteSame
        <3>11. \A n : n = j => Section(n)' = u
            BY <3>3, <3>4
        <3>12. QED  BY <3>2, <3>10, <3>11
    <2>4. QED  BY <2>2, <2>3
<1>9. ASSUME NEW i \in DOMAIN open', FnAt(i)' = f
      PROVE  NoteFits(nsec, open'[i], i, Section(i - 1)')
    <2>1. CASE i \in 1 .. m
        BY <1>2, <1>8, <1>9, <2>1
    <2>2. CASE i = m + 1 /\ Len(open') = m + 1
        <3>1. PICK k : k = i - 1 /\ k = m
            BY <2>2, UpToM
        <3>2. Section(k)' = o
            BY <1>3, <3>1
        <3>3. QED  BY <2>2, <3>1, <3>2
    <2>3. QED  BY <1>2, <2>1, <2>2
<1>10. Notes(nsec, m)
    <2>1. ASSUME NEW j \in DOMAIN open', Flagged(open'[j])
          PROVE  Live \/ (j \in DOMAIN open /\ Flagged(open[j]))
        <3>1. CASE j \in 1 .. m
            BY <1>2, <2>1, <3>1 DEF Same, Flagged
        <3>2. CASE j = m + 1 /\ Len(open') = m + 1
            <4>1. Live \/ (Len(open) = m + 1 /\ Flagged(open[m + 1]))
                BY <2>1, <3>2
            <4>2. QED  BY <1>2, <3>2, <4>1
        <3>3. QED  BY <1>2, <3>1, <3>2
    <2>2. \A i \in 1 .. m : open'[i].entry = open[i].entry
        BY DEF Same
    <2>3. QED  BY <2>1, <2>2 DEF Notes
<1>11. ASSUME NEW b \in A \cup B PROVE blocks'[b].fn = f /\ (Fresh(b) \/ Awaited(b))
    <2>1. CASE Fresh(b)
        BY <2>1 DEF Goes
    <2>2. CASE Len(open) = m + 1 /\ WaitsFor(open[m + 1], b)
        <3>1. m + 1 \in DOMAIN open /\ Owns(open[m + 1], b)
            BY <1>2, <2>2 DEF Owns
        <3>2. b \in Block /\ blocks[b].fn = FnAt(m + 1)
            BY <3>1 DEF FlowInv, OwnedFit, FnAt
        <3>3. blocks'[b].fn = blocks[b].fn
            BY <1>1, <3>2 DEF Writes
        <3>4. QED  BY <1>2, <2>2, <3>1, <3>2, <3>3 DEF Awaited
    <2>3. QED  BY <2>1, <2>2
<1>12. Enlivens(f, t, at, m, A, B, joins)
    BY <1>11 DEF Enlivens
<1>13. Leading(f, t, at, nsec)
    BY DEF Leading
<1>14. Running(nsec)'
    BY <1>6 DEF Running
<1>15. NotesFit(f, nsec)'
    BY <1>9 DEF NotesFit
<1> HIDE DEF Comes, SameBelow, Noting
<1>16. QED  BY <1>10, <1>12, <1>13, <1>14, <1>15, LiveGoes, ZenonT(60)

\* The construct that goes on in q after a step is as the sections say.
Fits(nsec, x, l, t, q, m, o) ==
    /\ NoteFits(nsec, x, m + 1, o)
    /\ x.kind \in Loops /\ Top.entry => x.entry
    /\ l => Lit(nsec, x)
    /\ nsec[q] = Mk(l, IF Opens(x) THEN m + 1 ELSE o)
    /\ Live => \A b \in t.to : nsec[b] # 0

\* The sections that a step gives exist.
LEMMA TurnedExists ==
    ASSUME NEW sec \in [Nat -> Nat], NEW s \in Nat, NEW m \in Nat, NEW A, NEW B, NEW joins
    PROVE  \E nsec \in [Nat -> Nat] : Turned(sec, nsec, s, m, A, B, joins)
<1> DEFINE nsec == [b \in Nat |-> IF b \in A THEN s
                                  ELSE IF b \in B THEN m + 1
                                  ELSE IF joins /\ sec[b] = m + 1 THEN s ELSE sec[b]]
<1>1. nsec \in [Nat -> Nat]
    OBVIOUS
<1>2. \A b \in Nat : nsec[b] = IF b \in A THEN s
                               ELSE IF b \in B THEN m + 1
                               ELSE IF joins /\ sec[b] = m + 1 THEN s ELSE sec[b]
    OBVIOUS
<1> HIDE DEF nsec
<1>3. QED  BY <1>1, <1>2 DEF Turned

\* The innermost function has sections before the step.
LEMMA LivedSo ==
    ASSUME FlowInv, LiveInv, open # <<>>, NEW f, f = Fn, f \notin early
    PROVE  f \in Nat /\ \E sec \in [Nat -> Nat] : LiveFn(f, sec)
<1>1. Len(open) \in DOMAIN open /\ Home(Len(open)) = Here /\ Fn \in Block
    BY HomeTop
<1>2. FnAt(Len(open)) = Fn
    BY <1>1 DEF FnAt, Fn
<1>3. Fn \in Nat
    BY <1>1, BlocksNat
<1>4. QED  BY <1>1, <1>2, <1>3 DEF LiveInv

\* The sections that a step gives are as the blocks are.
Arranged(t, at, m, A, B, joins) ==
    \A sec, nsec \in [Nat -> Nat], s, o \in Nat :
        Stands(sec, s, o, m) /\ Turned(sec, nsec, s, m, A, B, joins) =>
            Sections(sec, s, m, A, joins) /\ Noting(nsec, t, at, m, o)

\* A step without a jump.
LEMMA LiveBy ==
    ASSUME FlowInv, FlowInv', LiveInv, NEW at \in Nat, NEW t, NEW q, NEW m \in Nat,
           Goes(at, t, q, m), NEW A \in SUBSET Nat, NEW B \in SUBSET Nat, NEW joins \in BOOLEAN,
           Comes(t, at, m, A, B, joins), SameBelow(m),
           Fn \notin early' => Arranged(t, at, m, A, B, joins)
    PROVE  LiveInv'
<1>1. PICK f : f = Fn
    OBVIOUS
<1>2. ASSUME f \notin early' PROVE \E nsec \in [Nat -> Nat] : LiveFn(f, nsec)'
    <2>1. open # <<>> /\ early \subseteq early'
        BY DEF Goes
    <2>2. f \in Nat /\ \E sec \in [Nat -> Nat] : LiveFn(f, sec)
        BY <1>1, <1>2, <2>1, LivedSo
    <2>3. PICK sec \in [Nat -> Nat] : LiveFn(f, sec)
        BY <2>2
    <2>4. PICK s, o : s = Section(Len(open)) /\ o = Section(m)
        OBVIOUS
    <2>5. Stands(sec, s, o, m)
        BY <1>1, <2>3, <2>4, StandsSo
    <2>6. o \in Nat /\ s \in Nat
        <3>1. o \in 1 .. m /\ (s = m + 1 \/ s = o)
            BY <2>5 DEF Stands
        <3>2. m + 1 \in Nat /\ \A i \in 1 .. m : i \in Nat
            BY UpToM
        <3>3. QED  BY <3>1, <3>2
    <2>7. PICK nsec \in [Nat -> Nat] : Turned(sec, nsec, s, m, A, B, joins)
        BY <2>6, TurnedExists
    <2>8. Sections(sec, s, m, A, joins) /\ Noting(nsec, t, at, m, o)
        BY <1>1, <1>2, <2>5, <2>6, <2>7 DEF Arranged
    <2>9. LiveFn(f, nsec)'
        BY <1>1, <2>2, <2>3, <2>4, <2>7, <2>8, WalkLive, ZenonT(60)
    <2>10. QED  BY <2>9
<1>3. QED  BY <1>1, <1>2, GoesInv

\* The innermost construct goes on.
TurnsOn(x, l, t, q, A, B) ==
    /\ open # <<>> /\ Top.kind # "func" /\ x.kind = Top.kind /\ Writes(Here, t, q)
    /\ \A b \in Nat : Fresh(b) => blocks'[b].fn = Fn
    /\ Fresh(q) \/ WaitsFor(Top, q)
    /\ \A b \in Nat : WaitsFor(x, b) => Fresh(b) \/ WaitsFor(Top, b)
    /\ \A b \in t.to : Fresh(b) \/ Owns(Top, b)
    /\ builders' = WithLast(builders, q) /\ open' = WithLast(open, x)
    /\ (lives' = lives /\ l = Live) \/ lives' = WithLast(lives, l)
    /\ early \subseteq early' /\ marks' = marks
    /\ x.kind \in Loops => x.begin = Top.begin
    /\ Flagged(x) => Live \/ Flagged(Top)
    /\ l => Live \/ Flagged(Top)
    /\ A # {} \/ B # {} => Live
    /\ A \subseteq t.to
    /\ \A b \in A \cup B : Fresh(b) \/ WaitsFor(Top, b)
    /\ \A b \in B : b = x.begin /\ x.kind \in Loops /\ x.entry

\* What holds of it then.
TurnFits(x, l, t, q, A, B) ==
    \A sec, nsec \in [Nat -> Nat], o, s, m \in Nat :
        /\ Len(open) = m + 1 /\ Stands(sec, s, o, m)
        /\ Turned(sec, nsec, s, m, A, B, FALSE)
        => Fits(nsec, x, l, t, q, m, o)

\* A construct that goes on to its next phase.
LEMMA TurnLive ==
    ASSUME FlowInv, FlowInv', LiveInv, NEW x \in OpenT, NEW t \in TermT, NEW q \in Nat,
           NEW l \in BOOLEAN, NEW A \in SUBSET Nat, NEW B \in SUBSET Nat,
           TurnsOn(x, l, t, q, A, B), Fn \notin early' => TurnFits(x, l, t, q, A, B)
    PROVE  LiveInv'
<1>1. PICK m \in Nat : Len(open) = m + 1 /\ Top = open[m + 1]
    BY TopIs DEF TurnsOn
<1>2. /\ Len(open') = m + 1 /\ open'[m + 1] = x
      /\ \A i \in 1 .. m : open'[i] = open[i]
    <2>1. /\ WithLast(open, x) \in Seq(OpenT) /\ Len(WithLast(open, x)) = Len(open)
          /\ WithLast(open, x)[Len(open)] = x
          /\ \A i \in 1 .. Len(open) : i # Len(open) => WithLast(open, x)[i] = open[i]
        BY Changed DEF TurnsOn
    <2>2. \A i \in 1 .. m : i \in 1 .. m + 1 /\ i # m + 1
        OBVIOUS
    <2>3. QED  BY <1>1, <2>1, <2>2 DEF TurnsOn
<1>3. Keeps(m)
    BY <1>1, <1>2, KeepsBelow
<1>4. ~ FuncLast(m) /\ ~ FuncLast(m)'
    BY <1>1, <1>2 DEF FuncLast, TurnsOn
<1>5. Here \in Nat /\ Here # 0 /\ Fn \in Nat
    BY HomeTop, BlocksNat DEF TurnsOn
<1>6. \A b \in Nat : Owns(Top, b) => b \in Block /\ blocks[b].fn = Fn
    BY OwnedTop DEF TurnsOn
<1>7. SameBelow(m)
    BY <1>2 DEF Same, Alike, SameBelow
<1>8. PICK at \in Nat : at = Here
    BY <1>5
<1>9. /\ Goes(at, t, q, m) /\ (\A h : h = Here' => h = q) /\ Live' = l
    <2>1. \A b \in t.to : Fresh(b) \/ (b \in Block /\ blocks[b].fn <= Fn)
        <3>1. t.to \subseteq Nat /\ Fn <= Fn
            BY <1>5 DEF TermT
        <3>2. QED  BY <1>6, <3>1 DEF TurnsOn
    <2>2. Fresh(q) \/ (q \in Block /\ blocks[q].fn = Fn)
        BY <1>6 DEF Owns, TurnsOn
    <2>3. \A b \in Nat : Len(open') = m + 1 /\ WaitsFor(open'[m + 1], b) =>
              Fresh(b) \/ (Len(open) = m + 1 /\ WaitsFor(open[m + 1], b))
        BY <1>1, <1>2 DEF TurnsOn
    <2>4. Writes(at, t, q) /\ at # 0
        BY <1>5, <1>8 DEF TurnsOn
    <2>5. lives' = lives \/ \E k \in BOOLEAN : lives' = WithLast(lives, k)
        BY DEF TurnsOn
    <2>6. \A i \in 1 .. m : FnAt(i) # Fn => Same(open[i], open'[i])
        BY <1>7 DEF SameBelow
    <2>7. /\ open # <<>> /\ builders' = WithLast(builders, q)
          /\ (lives' = lives /\ l = Live) \/ lives' = WithLast(lives, l)
          /\ early \subseteq early' /\ marks' = marks
          /\ \A b \in Nat : Fresh(b) => blocks'[b].fn = Fn
        BY DEF TurnsOn
    <2>8. /\ Goes(at, t, q, m)
          /\ \A h : h = Here' => h = IF at = 0 THEN Here ELSE q
          /\ lives' = lives => Live' = Live
          /\ \A k \in BOOLEAN : lives' = WithLast(lives, k) => Live' = k
        BY <1>3, <1>4, <1>8, <2>1, <2>2, <2>3, <2>4, <2>5, <2>6, <2>7, GoesBy
    <2>9. QED  BY <2>4, <2>7, <2>8
<1>10. PICK joins \in BOOLEAN : joins = FALSE
    OBVIOUS
<1>11. Comes(t, at, m, A, B, joins)
    BY <1>1, <1>2, <1>8, <1>10 DEF Comes, TurnsOn
<1>12. ASSUME Fn \notin early' PROVE Arranged(t, at, m, A, B, joins)
    <2> SUFFICES ASSUME NEW sec \in [Nat -> Nat], NEW nsec \in [Nat -> Nat], NEW s \in Nat, NEW o \in Nat,
                        Stands(sec, s, o, m), Turned(sec, nsec, s, m, A, B, joins)
                 PROVE  Sections(sec, s, m, A, joins) /\ Noting(nsec, t, at, m, o)
        BY DEF Arranged
    <2>1. Fits(nsec, x, l, t, q, m, o)
        BY <1>1, <1>10, <1>12 DEF TurnFits
    <2>2. Sections(sec, s, m, A, joins)
        <3>1. s = m + 1 \/ s \in 1 .. m
            BY DEF Stands
        <3>2. m # m + 1
            BY UpToM
        <3>3. QED  BY <1>1, <1>2, <1>10, <2>1, <3>1, <3>2 DEF Sections, TurnsOn, Fits
    <2>3. Here' = q /\ Live' = l
        BY <1>9
    <2>4. Noting(nsec, t, at, m, o)
        BY <1>1, <1>2, <2>1, <2>3 DEF Fits, Noting, TurnsOn
    <2>5. QED  BY <2>2, <2>4
<1>13. QED  BY <1>7, <1>9, <1>11, <1>12, LiveBy

\* The innermost construct is done.
Pops(t, q, l, A, joins) ==
    /\ open # <<>> /\ Top.kind # "func" /\ ~ Opens(Top)
    /\ Writes(Here, t, q) /\ \A b \in Nat : ~ Fresh(b)
    /\ WaitsFor(Top, q) /\ \A b \in t.to : Owns(Top, b)
    /\ builders' = WithLast(builders, q) /\ open' = Front(open) /\ lives' = WithLast(lives, l)
    /\ early \subseteq early' /\ marks' = marks
    /\ l => Live \/ Flagged(Top)
    /\ A # {} \/ joins => Live
    /\ A \subseteq t.to /\ \A b \in A : WaitsFor(Top, b)
    /\ joins => Top.kind \in Loops /\ Top.begin \in t.to
    /\ Fn \notin early' /\ ~ joins => ~ (Top.kind \in Loops /\ Top.entry)

\* Where the code goes on then.
PopFits(t, q, l, A, joins) ==
    \A sec, nsec \in [Nat -> Nat], o, m \in Nat :
        /\ Len(open) = m + 1 /\ Stands(sec, o, o, m)
        /\ Turned(sec, nsec, o, m, A, {}, joins)
        => /\ nsec[q] = Mk(l, o)
           /\ Live => \A b \in t.to : nsec[b] # 0

\* A construct that is done.
LEMMA PopLive ==
    ASSUME FlowInv, FlowInv', LiveInv, NEW t \in TermT, NEW q \in Nat,
           NEW l \in BOOLEAN, NEW A \in SUBSET Nat, NEW joins \in BOOLEAN,
           Pops(t, q, l, A, joins), Fn \notin early' => PopFits(t, q, l, A, joins)
    PROVE  LiveInv'
<1>1. PICK m \in Nat : Len(open) = m + 1 /\ Top = open[m + 1]
    BY TopIs DEF Pops
<1>2. /\ Len(open') = m
      /\ \A i \in 1 .. m : open'[i] = open[i]
    <2>1. /\ Len(Front(open)) = Len(open) - 1
          /\ \A i \in 1 .. Len(open) - 1 : Front(open)[i] = open[i]
        BY Changed DEF Pops
    <2>2. Len(open) - 1 = m
        BY <1>1
    <2>3. QED  BY <2>1, <2>2 DEF Pops
<1>3. Keeps(m)
    BY <1>1, <1>2, KeepsBelow
<1>4. m # m + 1
    BY UpToM
<1>5. ~ FuncLast(m) /\ ~ FuncLast(m)'
    BY <1>1, <1>2, <1>4 DEF FuncLast, Pops
<1>6. Here \in Nat /\ Here # 0 /\ Fn \in Nat
    BY HomeTop, BlocksNat DEF Pops
<1>7. \A b \in Nat : Owns(Top, b) => b \in Block /\ blocks[b].fn = Fn
    BY OwnedTop DEF Pops
<1>8. SameBelow(m)
    BY <1>2 DEF Same, Alike, SameBelow
<1>9. PICK at \in Nat : at = Here
    BY <1>6
<1>10. /\ Goes(at, t, q, m) /\ (\A h : h = Here' => h = q) /\ Live' = l
    <2>1. \A b \in t.to : Fresh(b) \/ (b \in Block /\ blocks[b].fn <= Fn)
        <3>1. t.to \subseteq Nat /\ Fn <= Fn
            BY <1>6 DEF TermT
        <3>2. QED  BY <1>7, <3>1 DEF Pops
    <2>2. Fresh(q) \/ (q \in Block /\ blocks[q].fn = Fn)
        BY <1>7 DEF Owns, Pops
    <2>3. \A b \in Nat : Len(open') = m + 1 /\ WaitsFor(open'[m + 1], b) =>
              Fresh(b) \/ (Len(open) = m + 1 /\ WaitsFor(open[m + 1], b))
        BY <1>2, <1>4
    <2>4. Writes(at, t, q) /\ at # 0
        BY <1>6, <1>9 DEF Pops
    <2>5. lives' = lives \/ \E k \in BOOLEAN : lives' = WithLast(lives, k)
        BY DEF Pops
    <2>6. \A i \in 1 .. m : Same(open[i], open'[i])
        BY <1>8 DEF SameBelow
    <2>7. \A b \in Nat : Fresh(b) => blocks'[b].fn = Fn
        BY DEF Pops
    <2>8. /\ open # <<>> /\ builders' = WithLast(builders, q) /\ lives' = WithLast(lives, l)
          /\ early \subseteq early' /\ marks' = marks
        BY DEF Pops
    <2>9. /\ Goes(at, t, q, m)
          /\ \A h : h = Here' => h = IF at = 0 THEN Here ELSE q
          /\ lives' = lives => Live' = Live
          /\ \A k \in BOOLEAN : lives' = WithLast(lives, k) => Live' = k
        BY <1>3, <1>5, <1>9, <2>1, <2>2, <2>3, <2>4, <2>5, <2>6, <2>7, <2>8, GoesBy
    <2>10. QED  BY <2>4, <2>8, <2>9
<1>11. PICK B \in SUBSET Nat : B = {}
    OBVIOUS
<1>12. Comes(t, at, m, A, B, joins)
    BY <1>1, <1>2, <1>9, <1>11 DEF Comes, Pops
<1>13. ASSUME Fn \notin early' PROVE Arranged(t, at, m, A, B, joins)
    <2> SUFFICES ASSUME NEW sec \in [Nat -> Nat], NEW nsec \in [Nat -> Nat], NEW s \in Nat, NEW o \in Nat,
                        Stands(sec, s, o, m), Turned(sec, nsec, s, m, A, B, joins)
                 PROVE  Sections(sec, s, m, A, joins) /\ Noting(nsec, t, at, m, o)
        BY DEF Arranged
    <2>1. o \in 1 .. m /\ s = o
        BY <1>1 DEF Stands, Pops
    <2>2. /\ nsec[q] = Mk(l, o)
          /\ Live => \A b \in t.to : nsec[b] # 0
        BY <1>1, <1>11, <1>13, <2>1 DEF PopFits
    <2>3. Sections(sec, s, m, A, joins)
        <3>1. ~ joins => \A b \in Nat : sec[b] # m + 1
            BY <1>13 DEF Stands, Pops
        <3>2. QED  BY <1>2, <1>4, <2>1, <3>1 DEF Sections
    <2>4. Noting(nsec, t, at, m, o)
        BY <1>1, <1>2, <1>4, <1>10, <2>2 DEF Noting, Pops
    <2>5. QED  BY <2>3, <2>4
<1>14. QED  BY <1>8, <1>10, <1>12, <1>13, LiveBy

\* Of a body it is noted whether its last statement is a return, and no more.
LEMMA NotedSame ==
    ASSUME Typed, open # <<>>, NEW isReturn \in BOOLEAN
    PROVE  \A i \in 1 .. Len(open) : Same(open[i], Noted(isReturn)[i])
<1>1. open \in Seq(OpenT) /\ Len(open) \in 1 .. Len(open) /\ DOMAIN open = 1 .. Len(open)
    <2>1. Len(open) \in Nat /\ Len(open) # 0 /\ DOMAIN open = 1 .. Len(open)
        BY Shapes DEF Shaped
    <2>2. QED  BY <2>1 DEF Typed
<1>2. Top \in OpenT /\ Top = open[Len(open)]
    BY <1>1, SeqIs DEF Top, Last
<1>3. \A x : Same(x, x)
    BY DEF Same, Alike
<1>4. CASE Top.kind = "func"
    <2>1. PICK y : y = [Top EXCEPT !.tail = isReturn]
        OBVIOUS
    <2>2. y \in OpenT /\ Same(Top, y)
        BY <1>2, <2>1 DEF OpenT, Alike, Same
    <2>3. PICK w : w = WithLast(open, y)
        OBVIOUS
    <2>4. Noted(isReturn) = w
        BY <1>4, <2>1, <2>3 DEF Noted
    <2>5. LastSet(OpenT, open, w, y)
        BY <1>1, <2>2, <2>3, WithLastIs
    <2>6. \A i \in 1 .. Len(open) : Same(open[i], w[i])
        BY <1>2, <1>3, <2>2, <2>5 DEF LastSet
    <2>7. QED  BY <2>4, <2>6
<1>5. CASE Top.kind # "func"
    BY <1>1, <1>3, <1>5 DEF Noted
<1>6. QED  BY <1>4, <1>5

\* A construct arrives, the others are as they were.
LEMMA PushSame ==
    ASSUME FlowInv, open # <<>>, NEW x \in OpenT, open' = Append(Noted(FALSE), x),
           NEW m, m = Len(open)
    PROVE  /\ m \in Nat /\ m # m + 1 /\ Keeps(m) /\ Len(open') = m + 1 /\ open'[m + 1] = x
           /\ SameBelow(m)
<1>1. /\ open' \in Seq(OpenT) /\ Len(open') = Len(open) + 1
      /\ open'[Len(open) + 1] = x /\ Keeps(Len(open)) /\ Len(open) \in Nat
    BY PushIs
<1>2. /\ Noted(FALSE) \in Seq(OpenT) /\ Len(Noted(FALSE)) = Len(open)
      /\ \A i \in 1 .. Len(open) : Same(open[i], Noted(FALSE)[i])
    BY NotedIs, NotedSame DEF FlowInv
<1>3. PICK s \in Seq(OpenT) : s = Noted(FALSE)
    BY <1>2
<1>4. \A i \in 1 .. Len(s) : Append(s, x)[i] = s[i]
    BY <1>3, AppendIs
<1>5. SameBelow(m)
    BY <1>2, <1>3, <1>4 DEF SameBelow
<1>6. QED  BY <1>1, <1>5, UpToM

\* A construct arrives: the code may end where it is, and go on in a new block.
Pushes(x, t, q, at, A, B) ==
    /\ open # <<>> /\ x.kind # "func" /\ open' = Append(Noted(FALSE), x)
    /\ at \in {0, Here} /\ Writes(at, t, q)
    /\ \A b \in Nat : Fresh(b) => blocks'[b].fn = Fn
    /\ \/ at = 0 /\ builders' = builders
       \/ at # 0 /\ builders' = WithLast(builders, q) /\ Fresh(q)
    /\ \A b \in Nat : WaitsFor(x, b) => Fresh(b)
    /\ \A b \in t.to : Fresh(b) \/ (b \in Block /\ blocks[b].fn <= Fn)
    /\ lives' = lives /\ early \subseteq early' /\ marks' \subseteq marks \cup {<<Here, Live>>}
    /\ Flagged(x) => Live
    /\ A # {} \/ B # {} => Live /\ at = Here
    /\ A \subseteq t.to /\ \A b \in A \cup B : Fresh(b)
    /\ \A b \in B : b = x.begin /\ x.kind \in Loops /\ x.entry

\* What holds of it then.
PushFits(x, t, q, at, A, B) ==
    \A sec, nsec \in [Nat -> Nat], o, m \in Nat :
        /\ Len(open) = m /\ Stands(sec, o, o, m) /\ Turned(sec, nsec, o, m, A, B, FALSE)
        => /\ NoteFits(nsec, x, m + 1, o)
           /\ Live => Lit(nsec, x)
           /\ nsec[IF at = 0 THEN Here ELSE q] = Mk(Live, IF Opens(x) THEN m + 1 ELSE o)
           /\ Live /\ at # 0 => \A b \in t.to : nsec[b] # 0

\* A construct that begins.
LEMMA PushLive ==
    ASSUME FlowInv, FlowInv', LiveInv, NEW x \in OpenT, NEW t \in TermT, NEW q \in Nat,
           NEW at \in Nat, NEW A \in SUBSET Nat, NEW B \in SUBSET Nat,
           Pushes(x, t, q, at, A, B), PushFits(x, t, q, at, A, B)
    PROVE  LiveInv'
<1>1. PICK m : m = Len(open)
    OBVIOUS
<1>2. /\ m \in Nat /\ m # m + 1 /\ Keeps(m) /\ Len(open') = m + 1 /\ open'[m + 1] = x
      /\ SameBelow(m)
    BY <1>1, PushSame DEF Pushes
<1>3. ~ FuncLast(m) /\ ~ FuncLast(m)'
    BY <1>1, <1>2 DEF FuncLast, Pushes
<1>4. Here \in Nat /\ Here # 0 /\ Fn \in Nat
    BY HomeTop, BlocksNat DEF Pushes
<1>5. PICK h : h = IF at = 0 THEN Here ELSE q
    OBVIOUS
<1>6. /\ Goes(at, t, q, m) /\ Here' = h /\ Live' = Live
    <2>1. /\ open # <<>> /\ at \in {0, Here} /\ Writes(at, t, q)
          /\ \A b \in Nat : Fresh(b) => blocks'[b].fn = Fn
          /\ lives' = lives /\ early \subseteq early' /\ marks' \subseteq marks \cup {<<Here, Live>>}
          /\ \A b \in t.to : Fresh(b) \/ (b \in Block /\ blocks[b].fn <= Fn)
        BY DEF Pushes
    <2>2. \/ at = 0 /\ builders' = builders
          \/ /\ at # 0 /\ builders' = WithLast(builders, q)
             /\ Fresh(q) \/ (q \in Block /\ blocks[q].fn = Fn)
        BY DEF Pushes
    <2>3. \A b \in Nat : Len(open') = m + 1 /\ WaitsFor(open'[m + 1], b) =>
              Fresh(b) \/ (Len(open) = m + 1 /\ WaitsFor(open[m + 1], b))
        BY <1>2 DEF Pushes
    <2>5. lives' = lives \/ \E k \in BOOLEAN : lives' = WithLast(lives, k)
        BY <2>1
    <2>6. \A i \in 1 .. m : FnAt(i) # Fn => Same(open[i], open'[i])
        BY <1>2 DEF SameBelow
    <2>8. /\ Goes(at, t, q, m)
          /\ \A y : y = Here' => y = IF at = 0 THEN Here ELSE q
          /\ lives' = lives => Live' = Live
          /\ \A k \in BOOLEAN : lives' = WithLast(lives, k) => Live' = k
        BY <1>2, <1>3, <2>1, <2>2, <2>3, <2>5, <2>6, GoesBy
    <2>9. QED  BY <1>5, <2>1, <2>8
<1>7. PICK joins \in BOOLEAN : joins = FALSE
    OBVIOUS
<1>8. Comes(t, at, m, A, B, joins)
    BY <1>1, <1>2, <1>7 DEF Comes, Pushes
<1>9. Arranged(t, at, m, A, B, joins)
    <2> SUFFICES ASSUME NEW sec \in [Nat -> Nat], NEW nsec \in [Nat -> Nat], NEW s \in Nat, NEW o \in Nat,
                        Stands(sec, s, o, m), Turned(sec, nsec, s, m, A, B, joins)
                 PROVE  Sections(sec, s, m, A, joins) /\ Noting(nsec, t, at, m, o)
        BY DEF Arranged
    <2>1. o \in 1 .. m /\ s = o
        BY <1>1, <1>2 DEF Stands
    <2>2. /\ NoteFits(nsec, x, m + 1, o)
          /\ Live => Lit(nsec, x)
          /\ nsec[h] = Mk(Live, IF Opens(x) THEN m + 1 ELSE o)
          /\ Live /\ at # 0 => \A b \in t.to : nsec[b] # 0
        BY <1>1, <1>2, <1>5, <1>7, <2>1 DEF PushFits
    <2>3. Sections(sec, s, m, A, joins)
        BY <1>1, <1>2, <1>7, <2>1 DEF Sections
    <2>4. Noting(nsec, t, at, m, o)
        BY <1>1, <1>2, <1>6, <2>2 DEF Noting, Pushes
    <2>5. QED  BY <2>3, <2>4
<1>10. QED  BY <1>2, <1>6, <1>8, <1>9, LiveBy

-----------------------------------------------------------------------------
(* The actions that are no jumps keep LiveInv. *)

\* What is known of the sections when the innermost construct is not one whose
\* code starts in a block of its own, and when it is.
LEMMA StandsAs ==
    ASSUME NEW sec, NEW s, NEW o, NEW m \in Nat, Stands(sec, s, o, m), Len(open) = m + 1
    PROVE  /\ o # 0 /\ m + 1 # 0 /\ o # m + 1 /\ NoteFits(sec, Top, m + 1, o)
           /\ s = IF Opens(Top) THEN m + 1 ELSE o
           /\ Live => Lit(sec, Top)
           /\ \A b \in Nat : Fresh(b) => sec[b] = 0
BY UpToM DEF Stands

\* The parts of the innermost construct.
LEMMA TopParts ==
    ASSUME FlowInv, open # <<>>
    PROVE  /\ Top \in OpenT /\ Live \in BOOLEAN
           /\ Top.nxt \in Nat /\ Top.begin \in Nat /\ Top.end \in Nat /\ Top.nxt + 1 \in Nat
           /\ Top.has \in BOOLEAN /\ Top.entry \in BOOLEAN
           /\ Top.brk \in BOOLEAN /\ Top.cont \in BOOLEAN /\ Top.thenEnd \in Nat
<1>1. Top \in OpenT /\ Live \in BOOLEAN
    BY TopIs
<1>2. /\ Top.nxt \in Nat /\ Top.begin \in Nat /\ Top.end \in Nat
      /\ Top.has \in BOOLEAN /\ Top.entry \in BOOLEAN
      /\ Top.brk \in BOOLEAN /\ Top.cont \in BOOLEAN /\ Top.thenEnd \in Nat
    BY <1>1 DEF OpenT
<1>3. Top.nxt + 1 \in Nat
    BY <1>2
<1>4. QED  BY <1>1, <1>2, <1>3

\* IfElse keeps it.
LEMMA IfElseLive == ASSUME FlowInv, FlowInv', LiveInv, IfElse PROVE LiveInv'
<1> USE DEF IfElse, Phase, Enters
<1>1. /\ open # <<>> /\ Top \in OpenT /\ Live \in BOOLEAN /\ Top.kind = "if" /\ Top.phase = "then"
      /\ Top.has /\ Top.end \in Nat /\ Top.begin \in Nat /\ Top.entry \in BOOLEAN
    <2>1. open # <<>>
        OBVIOUS
    <2>2. QED  BY <2>1, TopParts
<1>2. PICK t, q : t = Br(Top.end) /\ q = Top.begin
    OBVIOUS
<1>3. /\ t \in TermT /\ t.to = {Top.end} /\ q \in Nat
      /\ WaitsFor(Top, q) /\ WaitsFor(Top, Top.end) /\ Owns(Top, Top.end) /\ q # Top.end
    BY <1>1, <1>2, OwnedTop, TermIs DEF Owns, WaitsFor, Distinct
<1>4. Writes(Here, t, q) /\ \A b \in Nat : ~ Fresh(b)
    BY <1>1, <1>2, <1>3, Places
<1>5. PICK x : x = [Top EXCEPT !.phase = "else", !.thenEnd = ThenEnd, !.brk = Live]
    OBVIOUS
<1>6. /\ x \in OpenT /\ x.kind = "if" /\ x.phase = "else" /\ x.end = Top.end /\ x.has
      /\ x.entry = Top.entry /\ x.brk = Live /\ x.cont = Top.cont
    BY <1>1, <1>5, HomeTop DEF OpenT, ThenEnd
<1>7. PICK l \in BOOLEAN, A \in SUBSET Nat, B \in SUBSET Nat :
          l = Top.entry /\ A = (IF Live THEN {Top.end} ELSE {}) /\ B = {}
    BY <1>1
<1>8. TurnsOn(x, l, t, q, A, B)
    <2>1. \A b \in Nat : WaitsFor(x, b) => WaitsFor(Top, b)
        BY <1>1, <1>6 DEF WaitsFor, Loops
    <2>2. /\ builders' = WithLast(builders, q) /\ open' = WithLast(open, x)
          /\ lives' = WithLast(lives, l) /\ early' = early /\ marks' = marks
        BY <1>1, <1>2, <1>5, <1>7
    <2>3. Flagged(x) => Live \/ Flagged(Top)
        BY <1>6 DEF Flagged
    <2>4. l => Live \/ Flagged(Top)
        BY <1>7 DEF Flagged
    <2> HIDE DEF IfElse, Phase, Enters
    <2>5. QED  BY <1>1, <1>3, <1>4, <1>6, <1>7, <2>1, <2>2, <2>3, <2>4 DEF TurnsOn, Loops
<1> HIDE DEF IfElse, Phase, Enters
<1>9. TurnFits(x, l, t, q, A, B)
    <2> SUFFICES ASSUME NEW sec \in [Nat -> Nat], NEW nsec \in [Nat -> Nat], NEW o \in Nat,
                        NEW s \in Nat, NEW m \in Nat, Len(open) = m + 1, Stands(sec, s, o, m),
                        Turned(sec, nsec, s, m, A, B, FALSE)
                 PROVE  Fits(nsec, x, l, t, q, m, o)
        BY DEF TurnFits
    <2>1. NoteFits(sec, Top, m + 1, o) /\ s = o /\ o # 0
        BY <1>1, StandsAs DEF Opens, Loops
    <2>2. \A b \in Nat : nsec[b] = IF Live /\ b = Top.end THEN o ELSE sec[b]
        BY <1>7, <2>1 DEF Turned
    <2>3. sec[q] = Mk(Top.entry, o) /\ sec[Top.end] = 0
        BY <1>1, <1>2, <2>1 DEF NoteFits
    <2>4. nsec[q] = Mk(l, o) /\ nsec[Top.end] = Mk(Live, o)
        BY <1>1, <1>3, <1>7, <2>2, <2>3 DEF Mk
    <2>5. Live => nsec[Top.end] # 0
        BY <2>1, <2>4 DEF Mk
    <2>6. QED  BY <1>3, <1>6, <2>4, <2>5 DEF Fits, NoteFits, Opens, Loops, Lit
<1>10. QED  BY <1>3, <1>6, <1>7, <1>8, <1>9, TurnLive

\* WhileCond keeps it.
LEMMA WhileCondLive == ASSUME FlowInv, FlowInv', LiveInv, WhileCond PROVE LiveInv'
<1> USE DEF WhileCond, Phase, Enters
<1>1. /\ open # <<>> /\ Top \in OpenT /\ Live \in BOOLEAN /\ Top.kind = "while" /\ Top.phase = "body"
      /\ Top.nxt \in Nat /\ Top.begin \in Nat /\ Top.end \in Nat /\ Top.entry \in BOOLEAN
    <2>1. open # <<>>
        OBVIOUS
    <2>2. QED  BY <2>1, TopParts
<1>2. PICK t, q : t = Br(Top.nxt) /\ q = Top.nxt
    OBVIOUS
<1>3. /\ t \in TermT /\ t.to = {q} /\ q \in Nat /\ WaitsFor(Top, q) /\ Owns(Top, q)
    BY <1>1, <1>2, OwnedTop, TermIs DEF Owns, WaitsFor
<1>4. Writes(Here, t, q) /\ \A b \in Nat : ~ Fresh(b)
    BY <1>1, <1>2, <1>3, Places
<1>5. PICK x : x = [Top EXCEPT !.phase = "cond"]
    OBVIOUS
<1>6. /\ x \in OpenT /\ x.kind = "while" /\ x.phase = "cond" /\ x.begin = Top.begin
      /\ x.end = Top.end /\ x.nxt = Top.nxt /\ x.has = Top.has
      /\ x.entry = Top.entry /\ x.brk = Top.brk /\ x.cont = Top.cont
    BY <1>1, <1>5 DEF OpenT
<1>7. PICK l \in BOOLEAN, A \in SUBSET Nat, B \in SUBSET Nat : l = Top.entry /\ A = {} /\ B = {}
    BY <1>1
<1>8. TurnsOn(x, l, t, q, A, B)
    <2>1. \A b \in Nat : WaitsFor(x, b) => WaitsFor(Top, b)
        BY <1>1, <1>6 DEF WaitsFor, Loops
    <2>2. /\ builders' = WithLast(builders, q) /\ open' = WithLast(open, x)
          /\ lives' = WithLast(lives, l) /\ early \subseteq early' /\ marks' = marks
        BY <1>1, <1>2, <1>5, <1>7
    <2>3. Flagged(x) => Live \/ Flagged(Top)
        BY <1>6 DEF Flagged
    <2>4. l => Live \/ Flagged(Top)
        BY <1>7 DEF Flagged
    <2> HIDE DEF WhileCond, Phase, Enters
    <2>5. QED  BY <1>1, <1>3, <1>4, <1>6, <1>7, <2>1, <2>2, <2>3, <2>4 DEF TurnsOn, Loops
<1> HIDE DEF WhileCond, Phase, Enters
<1>9. TurnFits(x, l, t, q, A, B)
    <2> SUFFICES ASSUME NEW sec \in [Nat -> Nat], NEW nsec \in [Nat -> Nat], NEW o \in Nat,
                        NEW s \in Nat, NEW m \in Nat, Len(open) = m + 1, Stands(sec, s, o, m),
                        Turned(sec, nsec, s, m, A, B, FALSE)
                 PROVE  Fits(nsec, x, l, t, q, m, o)
        BY DEF TurnFits
    <2>1. NoteFits(sec, Top, m + 1, o) /\ o # 0 /\ (Live => Top.entry)
        BY <1>1, StandsAs DEF Loops, Lit
    <2>2. \A b \in Nat : nsec[b] = sec[b]
        BY <1>7 DEF Turned
    <2>3. /\ sec[q] = Mk(Top.entry, o) /\ sec[Top.begin] = Mk(Top.entry, m + 1)
          /\ sec[Top.end] = Mk(Top.brk, m + 1) /\ (Top.brk \/ Top.cont => Top.entry)
        BY <1>1, <1>2, <2>1 DEF NoteFits, Loops
    <2>4. nsec[q] = Mk(l, o) /\ (Live => nsec[q] # 0)
        BY <1>3, <1>7, <2>1, <2>2, <2>3 DEF Mk
    <2>5. NoteFits(nsec, x, m + 1, o)
        BY <1>1, <1>2, <1>6, <2>2, <2>3 DEF NoteFits, Loops
    <2>6. QED  BY <1>3, <1>6, <1>7, <2>4, <2>5 DEF Fits, Opens, Loops, Lit
<1>10. QED  BY <1>3, <1>6, <1>7, <1>8, <1>9, TurnLive

\* ForStep keeps it.
LEMMA ForStepLive == ASSUME FlowInv, FlowInv', LiveInv, ForStep PROVE LiveInv'
<1> USE DEF ForStep, Phase, Enters
<1>1. /\ open # <<>> /\ Top \in OpenT /\ Live \in BOOLEAN /\ Top.kind = "for" /\ Top.phase = "body"
      /\ Top.nxt \in Nat /\ Top.begin \in Nat /\ Top.end \in Nat /\ Top.nxt + 1 \in Nat
      /\ Top.cont \in BOOLEAN
    <2>1. open # <<>>
        OBVIOUS
    <2>2. QED  BY <2>1, TopParts
<1>2. PICK t, q : t = Br(Top.nxt) /\ q = Top.nxt
    OBVIOUS
<1>3. /\ t \in TermT /\ t.to = {q} /\ q \in Nat /\ WaitsFor(Top, q) /\ Owns(Top, q)
      /\ Top.begin # q /\ Top.end # q /\ Top.nxt + 1 # q
    BY <1>1, <1>2, OwnedTop, TermIs DEF Owns, WaitsFor, Distinct, Loops
<1>4. Writes(Here, t, q) /\ \A b \in Nat : ~ Fresh(b)
    BY <1>1, <1>2, <1>3, Places
<1>5. PICK x : x = [Top EXCEPT !.phase = "step"]
    OBVIOUS
<1>6. /\ x \in OpenT /\ x.kind = "for" /\ x.phase = "step" /\ x.begin = Top.begin
      /\ x.end = Top.end /\ x.nxt = Top.nxt /\ x.has = Top.has
      /\ x.entry = Top.entry /\ x.brk = Top.brk /\ x.cont = Top.cont
    BY <1>1, <1>5 DEF OpenT
<1>7. PICK l \in BOOLEAN, A \in SUBSET Nat, B \in SUBSET Nat :
          l = (Live \/ Top.cont) /\ A = (IF Live THEN {q} ELSE {}) /\ B = {}
    BY <1>1, <1>3
<1>8. TurnsOn(x, l, t, q, A, B)
    <2>1. \A b \in Nat : WaitsFor(x, b) => WaitsFor(Top, b)
        BY <1>1, <1>6 DEF WaitsFor, Loops
    <2>2. /\ builders' = WithLast(builders, q) /\ open' = WithLast(open, x)
          /\ lives' = WithLast(lives, l) /\ early \subseteq early' /\ marks' = marks
        BY <1>1, <1>2, <1>5, <1>7
    <2>3. Flagged(x) => Live \/ Flagged(Top)
        BY <1>6 DEF Flagged
    <2>4. l => Live \/ Flagged(Top)
        BY <1>7 DEF Flagged
    <2> HIDE DEF ForStep, Phase, Enters
    <2>5. QED  BY <1>1, <1>3, <1>4, <1>6, <1>7, <2>1, <2>2, <2>3, <2>4 DEF TurnsOn, Loops
<1> HIDE DEF ForStep, Phase, Enters
<1>9. TurnFits(x, l, t, q, A, B)
    <2> SUFFICES ASSUME NEW sec \in [Nat -> Nat], NEW nsec \in [Nat -> Nat], NEW o \in Nat,
                        NEW s \in Nat, NEW m \in Nat, Len(open) = m + 1, Stands(sec, s, o, m),
                        Turned(sec, nsec, s, m, A, B, FALSE)
                 PROVE  Fits(nsec, x, l, t, q, m, o)
        BY DEF TurnFits
    <2>1. /\ NoteFits(sec, Top, m + 1, o) /\ m + 1 # 0 /\ (Live => Top.entry) /\ s = m + 1
        BY <1>1, StandsAs DEF Loops, Lit, Opens
    <2>2. \A b \in Nat : nsec[b] = IF Live /\ b = q THEN m + 1 ELSE sec[b]
        BY <1>7, <2>1 DEF Turned
    <2>3. /\ sec[q] = Mk(Top.cont, m + 1) /\ sec[Top.begin] = Mk(Top.entry, m + 1)
          /\ sec[Top.end] = Mk(Top.brk, m + 1) /\ sec[Top.nxt + 1] = Mk(Top.entry, o)
          /\ (Top.brk \/ Top.cont => Top.entry)
        BY <1>1, <1>2, <2>1 DEF NoteFits, Loops
    <2>4. nsec[q] = Mk(l, m + 1) /\ (l => nsec[q] # 0)
        BY <1>3, <1>7, <2>1, <2>2, <2>3 DEF Mk
    <2>5. NoteFits(nsec, x, m + 1, o)
        BY <1>1, <1>3, <1>6, <2>2, <2>3 DEF NoteFits, Loops
    <2>6. QED  BY <1>2, <1>3, <1>6, <1>7, <2>1, <2>3, <2>4, <2>5 DEF Fits, Opens, Loops, Lit
<1>10. QED  BY <1>3, <1>6, <1>7, <1>8, <1>9, TurnLive

\* ForCond keeps it.
LEMMA ForCondLive == ASSUME FlowInv, FlowInv', LiveInv, ForCond PROVE LiveInv'
<1> USE DEF ForCond, Phase, Enters
<1>1. /\ open # <<>> /\ Top \in OpenT /\ Live \in BOOLEAN /\ Top.kind = "for" /\ Top.phase = "step"
      /\ Top.nxt \in Nat /\ Top.begin \in Nat /\ Top.end \in Nat /\ Top.nxt + 1 \in Nat
      /\ Top.entry \in BOOLEAN
    <2>1. open # <<>>
        OBVIOUS
    <2>2. QED  BY <2>1, TopParts
<1>2. PICK t, q : t = Br(ForCondBlock(Top)) /\ q = ForCondBlock(Top)
    OBVIOUS
<1>3. /\ q \in Nat /\ q = Top.nxt + 1 /\ WaitsFor(Top, q) /\ Owns(Top, q)
    BY <1>1, <1>2 DEF Owns, WaitsFor, ForCondBlock
<1>4. t \in TermT /\ t.to = {q}
    BY <1>2, <1>3, TermIs
<1>5. Writes(Here, t, q) /\ \A b \in Nat : ~ Fresh(b)
    BY <1>1, <1>2, <1>3, <1>4, Places
<1>6. PICK x : x = [Top EXCEPT !.phase = "cond"]
    OBVIOUS
<1>7. /\ x \in OpenT /\ x.kind = "for" /\ x.phase = "cond" /\ x.begin = Top.begin
      /\ x.end = Top.end /\ x.nxt = Top.nxt /\ x.has = Top.has
      /\ x.entry = Top.entry /\ x.brk = Top.brk /\ x.cont = Top.cont
    BY <1>1, <1>6 DEF OpenT
<1>8. PICK l \in BOOLEAN, A \in SUBSET Nat, B \in SUBSET Nat : l = Top.entry /\ A = {} /\ B = {}
    BY <1>1
<1>9. TurnsOn(x, l, t, q, A, B)
    <2>1. \A b \in Nat : WaitsFor(x, b) => WaitsFor(Top, b)
        BY <1>1, <1>7 DEF WaitsFor, Loops
    <2>2. /\ builders' = WithLast(builders, q) /\ open' = WithLast(open, x)
          /\ lives' = WithLast(lives, l) /\ early \subseteq early' /\ marks' = marks
        BY <1>1, <1>2, <1>6, <1>8
    <2>3. Flagged(x) => Live \/ Flagged(Top)
        BY <1>7 DEF Flagged
    <2>4. l => Live \/ Flagged(Top)
        BY <1>8 DEF Flagged
    <2> HIDE DEF ForCond, Phase, Enters
    <2>5. QED  BY <1>1, <1>3, <1>4, <1>5, <1>7, <1>8, <2>1, <2>2, <2>3, <2>4 DEF TurnsOn, Loops
<1> HIDE DEF ForCond, Phase, Enters
<1>10. TurnFits(x, l, t, q, A, B)
    <2> SUFFICES ASSUME NEW sec \in [Nat -> Nat], NEW nsec \in [Nat -> Nat], NEW o \in Nat,
                        NEW s \in Nat, NEW m \in Nat, Len(open) = m + 1, Stands(sec, s, o, m),
                        Turned(sec, nsec, s, m, A, B, FALSE)
                 PROVE  Fits(nsec, x, l, t, q, m, o)
        BY DEF TurnFits
    <2>1. NoteFits(sec, Top, m + 1, o) /\ o # 0 /\ (Live => Top.entry)
        BY <1>1, StandsAs DEF Loops, Lit
    <2>2. \A b \in Nat : nsec[b] = sec[b]
        BY <1>8 DEF Turned
    <2>3. /\ sec[Top.begin] = Mk(Top.entry, m + 1)
          /\ sec[Top.end] = Mk(Top.brk, m + 1) /\ sec[Top.nxt + 1] = Mk(Top.entry, o)
          /\ (Top.brk \/ Top.cont => Top.entry)
        BY <1>1, <1>2, <2>1 DEF NoteFits, Loops
    <2>4. nsec[q] = Mk(l, o) /\ (Live => nsec[q] # 0)
        BY <1>3, <1>8, <2>1, <2>2, <2>3 DEF Mk
    <2>5. NoteFits(nsec, x, m + 1, o)
        BY <1>1, <1>3, <1>7, <2>2, <2>3 DEF NoteFits, Loops
    <2>6. QED  BY <1>3, <1>4, <1>7, <1>8, <2>4, <2>5 DEF Fits, Opens, Loops, Lit
<1>11. QED  BY <1>3, <1>4, <1>7, <1>8, <1>9, <1>10, TurnLive

\* ForBody keeps it.
LEMMA ForBodyLive == ASSUME FlowInv, FlowInv', LiveInv, ForBody PROVE LiveInv'
<1> USE DEF ForBody, Phase, Enters
<1>1. /\ open # <<>> /\ Top \in OpenT /\ Live \in BOOLEAN /\ Top.kind = "for" /\ Top.phase = "init"
      /\ Top.nxt \in Nat /\ Top.begin \in Nat /\ Top.end \in Nat /\ Top.nxt + 1 \in Nat
    <2>1. open # <<>>
        OBVIOUS
    <2>2. QED  BY <2>1, TopParts
<1>2. PICK t, q, c : c = ForCondBlock(Top) /\ t = Br(c) /\ q = Top.begin
    OBVIOUS
<1>3. /\ q \in Nat /\ WaitsFor(Top, q) /\ Distinct(Top) /\ blocks[q].placed
      /\ c \in Nat /\ c = Top.nxt + 1 /\ WaitsFor(Top, c) /\ Owns(Top, c)
      /\ q # c /\ q # Top.end /\ q # Top.nxt /\ c # Top.end /\ c # Top.nxt
    BY <1>1, <1>2, OwnedTop DEF Owns, WaitsFor, ForCondBlock, Loops, Distinct
<1>4. t \in TermT /\ t.to = {c}
    BY <1>2, <1>3, TermIs
<1>5. Writes(Here, t, q) /\ \A b \in Nat : ~ Fresh(b)
    BY <1>1, <1>2, <1>3, <1>4, EndsOnly
<1>6. PICK x : x = [Top EXCEPT !.phase = "body", !.entry = Live]
    OBVIOUS
<1>7. /\ x \in OpenT /\ x.kind = "for" /\ x.phase = "body" /\ x.begin = Top.begin
      /\ x.end = Top.end /\ x.nxt = Top.nxt /\ x.has = Top.has
      /\ x.entry = Live /\ x.brk = Top.brk /\ x.cont = Top.cont
    BY <1>1, <1>6 DEF OpenT
<1>8. PICK l \in BOOLEAN, A \in SUBSET Nat, B \in SUBSET Nat :
          l = Live /\ A = (IF Live THEN {c} ELSE {}) /\ B = (IF Live THEN {q} ELSE {})
    BY <1>1, <1>3
<1>9. TurnsOn(x, l, t, q, A, B)
    <2>1. \A b \in Nat : WaitsFor(x, b) => WaitsFor(Top, b)
        BY <1>1, <1>7 DEF WaitsFor, Loops
    <2>2. /\ builders' = WithLast(builders, q) /\ open' = WithLast(open, x)
          /\ lives' = lives /\ early \subseteq early' /\ marks' = marks
        BY <1>1, <1>2, <1>6
    <2>3. Flagged(x) => Live \/ Flagged(Top)
        BY <1>7 DEF Flagged
    <2> HIDE DEF ForBody, Phase, Enters
    <2>4. QED  BY <1>1, <1>2, <1>3, <1>4, <1>5, <1>7, <1>8, <2>1, <2>2, <2>3 DEF TurnsOn, Loops
<1> HIDE DEF ForBody, Phase, Enters
<1>10. TurnFits(x, l, t, q, A, B)
    <2> SUFFICES ASSUME NEW sec \in [Nat -> Nat], NEW nsec \in [Nat -> Nat], NEW o \in Nat,
                        NEW s \in Nat, NEW m \in Nat, Len(open) = m + 1, Stands(sec, s, o, m),
                        Turned(sec, nsec, s, m, A, B, FALSE)
                 PROVE  Fits(nsec, x, l, t, q, m, o)
        BY DEF TurnFits
    <2>1. NoteFits(sec, Top, m + 1, o) /\ o # 0 /\ m + 1 # 0 /\ s = o
        BY <1>1, StandsAs DEF Loops, Opens
    <2>2. \A b \in Nat : nsec[b] = IF Live /\ b = c THEN o ELSE IF Live /\ b = q THEN m + 1 ELSE sec[b]
        BY <1>8, <2>1 DEF Turned
    <2>3. ~ Top.entry /\ ~ Top.brk /\ ~ Top.cont
        BY <1>1, <2>1 DEF NoteFits, Loops
    <2>4. sec[q] = 0 /\ sec[Top.end] = 0 /\ sec[c] = 0 /\ sec[Top.nxt] = 0
        BY <1>1, <1>2, <1>3, <2>1, <2>3 DEF NoteFits, Loops, Mk
    <2>5. /\ nsec[q] = Mk(Live, m + 1) /\ nsec[c] = Mk(Live, o) /\ nsec[Top.end] = 0
          /\ nsec[Top.nxt] = 0 /\ (Live => nsec[c] # 0)
        BY <1>1, <1>3, <2>1, <2>2, <2>4 DEF Mk
    <2>6. NoteFits(nsec, x, m + 1, o)
        BY <1>2, <1>3, <1>7, <2>3, <2>5 DEF NoteFits, Loops, Mk
    <2>7. QED  BY <1>2, <1>4, <1>7, <1>8, <2>3, <2>5, <2>6 DEF Fits, Opens, Loops, Lit
<1>11. QED  BY <1>3, <1>4, <1>7, <1>8, <1>9, <1>10, TurnLive

\* IfThen keeps it.
LEMMA IfThenLive == ASSUME FlowInv, FlowInv', LiveInv, IfThen PROVE LiveInv'
<1> USE DEF IfThen, Phase, Enters
<1>1. /\ open # <<>> /\ Top \in OpenT /\ Live \in BOOLEAN /\ Top.has \in BOOLEAN
      /\ Top.kind = "if" /\ Top.phase = "cond"
    <2>1. open # <<>>
        OBVIOUS
    <2>2. QED  BY <2>1, TopParts
<1>2. PICK n \in Nat : n = Len(blocks)
    BY Shapes DEF FlowInv, Shaped
<1>3. PICK t, q, made :
          /\ t = CondBr(Next1, Next2, "bool") /\ q = Next1
          /\ made = <<InFn(TRUE), InFn(FALSE)>> \o (IF Top.has THEN <<InFn(FALSE)>> ELSE <<>>)
    OBVIOUS
<1>4. /\ q \in Nat /\ q = n + 1 /\ q # 0 /\ n + 2 \in Nat /\ q # n + 2
      /\ t \in TermT /\ t.to = {q, n + 2}
    <2>1. n + 1 \in Nat /\ n + 2 \in Nat /\ n + 1 # 0 /\ n + 1 # n + 2
        BY <1>2
    <2>2. t = CondBr(n + 1, n + 2, "bool") /\ q = n + 1
        BY <1>2, <1>3 DEF Next1, Next2
    <2>3. "bool" \in Tests
        BY DEF Tests
    <2>4. QED  BY <2>1, <2>2, <2>3, TermIs
<1>5. /\ made \in Seq(BlockT) /\ Len(made) = (IF Top.has THEN 3 ELSE 2) /\ OfFn(made)
    BY <1>1, <1>3, IfMade
<1>6. Here # 0
    BY <1>1, HomeTop
<1>7. blocks' = (IF Here = 0 THEN blocks ELSE Terminate(blocks, Here, t)) \o made
    BY <1>3, <1>6
<1>8. t.to \subseteq 1 .. Len(blocks) + Len(made)
    BY <1>1, <1>2, <1>4, <1>5
<1> HIDE DEF IfThen, Phase, Enters
<1>9. /\ Len(blocks') = n + Len(made) /\ Writes(Here, t, q)
      /\ \A b \in Nat : Fresh(b) => blocks'[b].fn = Fn
    <2>1. Makes(Here, t, q, made)
        BY <1>1, <1>4, <1>5, <1>7, <1>8, MakesBlocks
    <2>2. QED  BY <1>2, <2>1 DEF Makes
<1>10. \A b \in Nat : Fresh(b) <=> b = n + 1 \/ b = n + 2 \/ (Top.has /\ b = n + 3)
    <2>1. Len(blocks') = IF Top.has THEN n + 3 ELSE n + 2
        BY <1>1, <1>2, <1>5, <1>9
    <2>2. QED  BY <1>1, <1>2, <2>1 DEF Fresh
<1>11. PICK x, c, e : /\ c = (IF Top.has THEN Next2 ELSE Next3)
                      /\ e = (IF Top.has THEN Next3 ELSE Next2)
                      /\ x = [Top EXCEPT !.phase = "then", !.begin = c, !.end = e, !.entry = Live]
    OBVIOUS
<1>12. PICK d \in Nat : d = n + 3 /\ d # n + 2 /\ d # q
    BY <1>2, <1>4
<1>13. /\ x \in OpenT /\ x.kind = "if" /\ x.phase = "then"
       /\ x.has = Top.has /\ x.entry = Live /\ x.brk = Top.brk /\ x.cont = Top.cont
       /\ x.begin = (IF Top.has THEN n + 2 ELSE d)
       /\ x.end = (IF Top.has THEN d ELSE n + 2)
    <2>1. /\ c = (IF Top.has THEN n + 2 ELSE d) /\ c \in Nat
          /\ e = (IF Top.has THEN d ELSE n + 2) /\ e \in Nat
        BY <1>1, <1>2, <1>11, <1>12 DEF Next2, Next3
    <2>2. /\ x \in OpenT /\ x.kind = "if" /\ x.phase = "then"
          /\ x.has = Top.has /\ x.entry = Live /\ x.brk = Top.brk /\ x.cont = Top.cont
          /\ x.begin = c /\ x.end = e
        BY <1>1, <1>11, <2>1 DEF OpenT
    <2>3. QED  BY <2>1, <2>2
<1>14. PICK l \in BOOLEAN, A \in SUBSET Nat, B \in SUBSET Nat :
          l = Live /\ A = (IF Live THEN {q, n + 2} ELSE {}) /\ B = {}
    BY <1>1, <1>4
<1>15. TurnsOn(x, l, t, q, A, B)
    <2>1. \A b \in Nat : WaitsFor(x, b) => Fresh(b)
        BY <1>10, <1>12, <1>13 DEF WaitsFor, Loops
    <2>2. /\ builders' = WithLast(builders, q) /\ open' = WithLast(open, x)
          /\ lives' = lives /\ early' = early /\ marks' = marks
        BY <1>1, <1>3, <1>11 DEF IfThen, Phase, Enters, Loops
    <2>3. Flagged(x) => Live \/ Flagged(Top)
        BY <1>13 DEF Flagged
    <2>4. \A b \in t.to : Fresh(b)
        BY <1>4, <1>10
    <2>5. Fresh(q) /\ \A b \in A \cup B : Fresh(b)
        BY <1>4, <1>10, <1>14
    <2>6. x.kind = "if" /\ x.kind \notin Loops
        BY <1>13 DEF Loops
    <2>7. QED  BY <1>1, <1>4, <1>9, <1>14, <2>1, <2>2, <2>3, <2>4, <2>5, <2>6 DEF TurnsOn
<1>16. TurnFits(x, l, t, q, A, B)
    <2> SUFFICES ASSUME NEW sec \in [Nat -> Nat], NEW nsec \in [Nat -> Nat], NEW o \in Nat,
                        NEW s \in Nat, NEW m \in Nat, Len(open) = m + 1, Stands(sec, s, o, m),
                        Turned(sec, nsec, s, m, A, B, FALSE)
                 PROVE  Fits(nsec, x, l, t, q, m, o)
        BY DEF TurnFits
    <2>1. s = o /\ o # 0 /\ \A b \in Nat : Fresh(b) => sec[b] = 0
        BY <1>1, StandsAs DEF Opens, Loops
    <2>2. \A b \in Nat : nsec[b] = IF Live /\ b \in {q, n + 2} THEN o ELSE sec[b]
        BY <1>14, <2>1 DEF Turned
    <2>3. sec[q] = 0 /\ sec[n + 2] = 0 /\ (Top.has => sec[d] = 0)
        BY <1>4, <1>10, <1>12, <2>1
    <2>4. nsec[q] = Mk(Live, o) /\ nsec[n + 2] = Mk(Live, o) /\ (Top.has => nsec[d] = 0)
        <3>1. nsec[q] = Mk(Live, o)
            BY <1>4, <2>2, <2>3 DEF Mk
        <3>2. nsec[n + 2] = Mk(Live, o)
            BY <1>4, <2>2, <2>3 DEF Mk
        <3>3. Top.has => nsec[d] = 0
            BY <1>12, <2>2, <2>3
        <3>4. QED  BY <3>1, <3>2, <3>3
    <2>5. Live => nsec[q] # 0 /\ nsec[n + 2] # 0
        BY <2>1, <2>4 DEF Mk
    <2>6. NoteFits(nsec, x, m + 1, o)
        BY <1>13, <2>4 DEF NoteFits, Loops
    <2>7. QED  BY <1>4, <1>13, <1>14, <2>4, <2>5, <2>6 DEF Fits, Opens, Loops, Lit
<1>17. QED  BY <1>4, <1>13, <1>14, <1>15, <1>16, TurnLive

\* IfEnd keeps it.
LEMMA IfEndLive == ASSUME FlowInv, FlowInv', LiveInv, IfEnd PROVE LiveInv'
<1> USE DEF IfEnd, Phase, Enters
<1>1. /\ open # <<>> /\ Top \in OpenT /\ Live \in BOOLEAN
      /\ Top.kind = "if" /\ Top.phase = (IF Top.has THEN "else" ELSE "then")
      /\ Top.end \in Nat /\ Top.brk \in BOOLEAN /\ Top.entry \in BOOLEAN /\ Top.thenEnd \in Nat
    <2>1. open # <<>>
        OBVIOUS
    <2>2. QED  BY <2>1, TopParts
<1>2. PICK t, q : t = Br(Top.end) /\ q = Top.end
    OBVIOUS
<1>3. q \in Nat /\ WaitsFor(Top, q) /\ Owns(Top, q)
    BY <1>1, <1>2 DEF Owns, WaitsFor, Loops
<1>4. t \in TermT /\ t.to = {q} /\ Here \in Nat
    BY <1>1, <1>2, <1>3, TermIs, HomeTop
<1>5. Writes(Here, t, q) /\ \A b \in Nat : ~ Fresh(b)
    <2>1. CASE Top.val
        <3>1. PICK from \in SUBSET Nat : from = {Top.thenEnd, Here}
            BY <1>1, <1>4
        <3>2. blocks' = [Place(Terminate(blocks, Here, t), q) EXCEPT ![q] = WithPhi(@, from)]
            BY <1>2, <2>1, <3>1
        <3> HIDE DEF IfEnd, Phase, Enters
        <3>3. QED  BY <1>1, <1>3, <1>4, <3>2, Phis
    <2>2. CASE ~ Top.val
        <3>1. blocks' = Place(Terminate(blocks, Here, t), q)
            BY <1>2, <2>2
        <3> HIDE DEF IfEnd, Phase, Enters
        <3>2. QED  BY <1>1, <1>3, <1>4, <3>1, Places
    <2>3. QED  BY <2>1, <2>2
<1>6. PICK l \in BOOLEAN, A \in SUBSET Nat, joins \in BOOLEAN :
          /\ l = (Live \/ (IF Top.has THEN Top.brk ELSE Top.entry))
          /\ A = (IF Live THEN {q} ELSE {}) /\ joins = FALSE
    BY <1>1, <1>3
<1>7. Pops(t, q, l, A, joins)
    <2>1. /\ builders' = WithLast(builders, q) /\ open' = Front(open)
          /\ lives' = WithLast(lives, l) /\ early \subseteq early' /\ marks' = marks
        BY <1>1, <1>2, <1>6
    <2>2. l => Live \/ Flagged(Top)
        BY <1>6 DEF Flagged
    <2>3. ~ Opens(Top) /\ Top.kind # "func" /\ Top.kind \notin Loops
        BY <1>1 DEF Opens, Loops
    <2> HIDE DEF IfEnd, Phase, Enters
    <2>4. QED  BY <1>1, <1>3, <1>4, <1>5, <1>6, <2>1, <2>2, <2>3 DEF Pops
<1> HIDE DEF IfEnd, Phase, Enters
<1>8. PopFits(t, q, l, A, joins)
    <2> SUFFICES ASSUME NEW sec \in [Nat -> Nat], NEW nsec \in [Nat -> Nat], NEW o \in Nat,
                        NEW m \in Nat, Len(open) = m + 1, Stands(sec, o, o, m),
                        Turned(sec, nsec, o, m, A, {}, joins)
                 PROVE  nsec[q] = Mk(l, o) /\ (Live => \A b \in t.to : nsec[b] # 0)
        BY DEF PopFits
    <2>1. NoteFits(sec, Top, m + 1, o) /\ o # 0
        BY StandsAs
    <2>2. nsec[q] = IF Live THEN o ELSE sec[q]
        BY <1>3, <1>6 DEF Turned
    <2>3. sec[q] = Mk(IF Top.has THEN Top.brk ELSE Top.entry, o)
        BY <1>1, <1>2, <2>1 DEF NoteFits
    <2>4. QED  BY <1>4, <1>6, <2>1, <2>2, <2>3 DEF Mk
<1>9. QED  BY <1>3, <1>4, <1>6, <1>7, <1>8, PopLive

\* WhileEnd keeps it.
LEMMA WhileEndLive == ASSUME FlowInv, FlowInv', LiveInv, WhileEnd PROVE LiveInv'
<1> USE DEF WhileEnd, Phase, Enters
<1>1. /\ open # <<>> /\ Top \in OpenT /\ Live \in BOOLEAN
      /\ Top.kind = "while" /\ Top.phase = "cond" /\ Top.kind \in Loops
      /\ Top.end \in Nat /\ Top.begin \in Nat /\ Top.brk \in BOOLEAN /\ Top.entry \in BOOLEAN
    BY TopIs DEF OpenT, Loops
<1>2. PICK t, q : t = CondBr(Top.begin, Top.end, "bool") /\ q = Top.end
    OBVIOUS
<1>3. q \in Nat /\ WaitsFor(Top, q) /\ Owns(Top, q) /\ Owns(Top, Top.begin)
    BY <1>1, <1>2 DEF Owns, WaitsFor
<1>4. t \in TermT /\ t.to = {Top.begin, q}
    BY <1>1, <1>2, <1>3, TermIs DEF Tests
<1>5. Writes(Here, t, q) /\ \A b \in Nat : ~ Fresh(b)
    <2>1. blocks' = Place(Terminate(blocks, Here, t), q)
        BY <1>2
    <2>2. \A b \in t.to : Owns(Top, b)
        BY <1>3, <1>4
    <2> HIDE DEF WhileEnd, Phase, Enters
    <2>3. QED  BY <1>1, <1>3, <1>4, <2>1, <2>2, Places
<1>6. PICK l \in BOOLEAN, A \in SUBSET Nat, joins \in BOOLEAN :
          l = (Live \/ Top.brk) /\ A = (IF Live THEN {q} ELSE {}) /\ joins = Live
    BY <1>1, <1>3
<1>7. /\ builders' = WithLast(builders, q) /\ open' = Front(open)
      /\ lives' = WithLast(lives, l) /\ early \subseteq early' /\ marks' = marks
      /\ Fn \notin early' /\ ~ joins => ~ Top.entry
    BY <1>1, <1>2, <1>6
<1> HIDE DEF WhileEnd, Phase, Enters
<1>8. Pops(t, q, l, A, joins)
    <2>1. l => Live \/ Flagged(Top)
        BY <1>6 DEF Flagged
    <2>2. ~ Opens(Top) /\ Top.kind # "func"
        BY <1>1 DEF Opens, Loops
    <2>3. QED  BY <1>1, <1>3, <1>4, <1>5, <1>6, <1>7, <2>1, <2>2 DEF Pops
<1>9. ASSUME Fn \notin early' PROVE PopFits(t, q, l, A, joins)
    <2> SUFFICES ASSUME NEW sec \in [Nat -> Nat], NEW nsec \in [Nat -> Nat], NEW o \in Nat,
                        NEW m \in Nat, Len(open) = m + 1, Stands(sec, o, o, m),
                        Turned(sec, nsec, o, m, A, {}, joins)
                 PROVE  nsec[q] = Mk(l, o) /\ (Live => \A b \in t.to : nsec[b] # 0)
        BY DEF PopFits
    <2>1. NoteFits(sec, Top, m + 1, o) /\ o # 0 /\ (Live => Top.entry)
        BY <1>1, StandsAs DEF Lit
    <2>2. \A b \in Nat : nsec[b] = IF Live /\ (b = q \/ sec[b] = m + 1) THEN o ELSE sec[b]
        BY <1>3, <1>6 DEF Turned
    <2>3. /\ sec[Top.begin] = Mk(Top.entry, m + 1) /\ sec[q] = Mk(Top.brk, m + 1)
          /\ (Top.brk => Top.entry)
        BY <1>1, <1>2, <2>1 DEF NoteFits
    <2>4. CASE Live
        BY <1>1, <1>3, <1>4, <1>6, <2>1, <2>2, <2>3, <2>4 DEF Mk
    <2>5. CASE ~ Live
        <3>1. ~ Top.entry /\ ~ Top.brk
            BY <1>6, <1>7, <1>9, <2>3, <2>5
        <3>2. QED  BY <1>3, <1>6, <2>2, <2>3, <2>5, <3>1 DEF Mk
    <2>6. QED  BY <2>4, <2>5
<1>10. QED  BY <1>3, <1>4, <1>6, <1>8, <1>9, PopLive

\* ForEnd keeps it.
LEMMA ForEndLive ==
    ASSUME FlowInv, FlowInv', LiveInv, NEW test \in Tests, ForEnd(test) PROVE LiveInv'
<1> USE DEF ForEnd, Enters
<1>1. /\ open # <<>> /\ Top \in OpenT /\ Live \in BOOLEAN /\ Top.has \in BOOLEAN
      /\ Top.kind = "for" /\ Top.phase = "cond" /\ Top.kind \in Loops
      /\ Top.end \in Nat /\ Top.begin \in Nat /\ Top.brk \in BOOLEAN /\ Top.entry \in BOOLEAN
    BY TopIs DEF OpenT, Loops
<1>2. PICK t, q : /\ t = (IF Top.has THEN CondBr(Top.begin, Top.end, test) ELSE Br(Top.begin))
                  /\ q = Top.end
    OBVIOUS
<1>3. q \in Nat /\ WaitsFor(Top, q) /\ Owns(Top, q) /\ Owns(Top, Top.begin)
    BY <1>1, <1>2 DEF Owns, WaitsFor
<1>4. t \in TermT /\ t.to = (IF Top.has THEN {Top.begin, q} ELSE {Top.begin})
    <2>1. CASE Top.has
        BY <1>1, <1>2, <1>3, <2>1, TermIs
    <2>2. CASE ~ Top.has
        BY <1>1, <1>2, <1>3, <2>2, TermIs
    <2>3. QED  BY <2>1, <2>2
<1>5. Writes(Here, t, q) /\ \A b \in Nat : ~ Fresh(b)
    <2>1. blocks' = Place(Terminate(blocks, Here, t), q)
        BY <1>2
    <2>2. \A b \in t.to : Owns(Top, b)
        BY <1>3, <1>4
    <2> HIDE DEF ForEnd, Enters
    <2>3. QED  BY <1>1, <1>3, <1>4, <2>1, <2>2, Places
<1>6. PICK l \in BOOLEAN, A \in SUBSET Nat, joins \in BOOLEAN :
          /\ l = ((Top.has /\ Live) \/ Top.brk)
          /\ A = (IF Top.has /\ Live THEN {q} ELSE {}) /\ joins = Live
    BY <1>1, <1>3
<1>7. /\ builders' = WithLast(builders, q) /\ open' = Front(open)
      /\ lives' = WithLast(lives, l) /\ early \subseteq early' /\ marks' = marks
      /\ Fn \notin early' /\ ~ joins => ~ Top.entry
    BY <1>1, <1>2, <1>6
<1> HIDE DEF ForEnd, Enters
<1>8. Pops(t, q, l, A, joins)
    <2>1. l => Live \/ Flagged(Top)
        BY <1>6 DEF Flagged
    <2>2. ~ Opens(Top) /\ Top.kind # "func"
        BY <1>1 DEF Opens, Loops
    <2>3. QED  BY <1>1, <1>3, <1>4, <1>5, <1>6, <1>7, <2>1, <2>2 DEF Pops
<1>9. ASSUME Fn \notin early' PROVE PopFits(t, q, l, A, joins)
    <2> SUFFICES ASSUME NEW sec \in [Nat -> Nat], NEW nsec \in [Nat -> Nat], NEW o \in Nat,
                        NEW m \in Nat, Len(open) = m + 1, Stands(sec, o, o, m),
                        Turned(sec, nsec, o, m, A, {}, joins)
                 PROVE  nsec[q] = Mk(l, o) /\ (Live => \A b \in t.to : nsec[b] # 0)
        BY DEF PopFits
    <2>1. NoteFits(sec, Top, m + 1, o) /\ o # 0 /\ m + 1 # 0 /\ (Live => Top.entry)
        BY <1>1, StandsAs DEF Lit
    <2>2. \A b \in Nat : nsec[b] = IF Live /\ ((Top.has /\ b = q) \/ sec[b] = m + 1) THEN o ELSE sec[b]
        BY <1>3, <1>6 DEF Turned
    <2>3. /\ sec[Top.begin] = Mk(Top.entry, m + 1) /\ sec[q] = Mk(Top.brk, m + 1)
          /\ (Top.brk => Top.entry)
        BY <1>1, <1>2, <2>1 DEF NoteFits
    <2>4. CASE Live
        <3>1. Top.entry /\ nsec[Top.begin] = o
            BY <1>1, <2>1, <2>2, <2>3, <2>4 DEF Mk
        <3>2. CASE Top.has \/ Top.brk
            <4>1. l /\ nsec[q] = o
                BY <1>3, <1>6, <2>2, <2>3, <2>4, <3>2 DEF Mk
            <4>2. QED  BY <1>4, <2>1, <3>1, <4>1 DEF Mk
        <3>3. CASE ~ Top.has /\ ~ Top.brk
            <4>1. ~ l /\ nsec[q] = 0
                BY <1>3, <1>6, <2>1, <2>2, <2>3, <2>4, <3>3 DEF Mk
            <4>2. t.to = {Top.begin}
                BY <1>4, <3>3
            <4>3. QED  BY <2>1, <3>1, <4>1, <4>2 DEF Mk
        <3>4. QED  BY <3>2, <3>3
    <2>5. CASE ~ Live
        <3>1. ~ Top.entry /\ ~ Top.brk
            BY <1>6, <1>7, <1>9, <2>3, <2>5
        <3>2. QED  BY <1>3, <1>6, <2>2, <2>3, <2>5, <3>1 DEF Mk
    <2>6. QED  BY <2>4, <2>5
<1>10. QED  BY <1>3, <1>4, <1>6, <1>8, <1>9, PopLive

\* What is known of the sections when a construct arrives.
LEMMA StandsBelow ==
    ASSUME NEW sec, NEW o, NEW m \in Nat, Stands(sec, o, o, m)
    PROVE  /\ o # 0 /\ m + 1 # 0 /\ sec[Here] = Mk(Live, o)
           /\ \A b \in Nat : Fresh(b) => sec[b] = 0
BY UpToM DEF Stands

\* An end that leads nowhere, for the steps that end no block.
LEMMA NoEnd == \E t \in TermT : t.to = {}
<1>1. [to |-> {}, test |-> "no", ret |-> "no"] \in TermT
    BY DEF TermT
<1>2. QED  BY <1>1

\* IfStmt keeps it.
LEMMA IfStmtLive ==
    ASSUME FlowInv, FlowInv', LiveInv, NEW hasElse \in BOOLEAN, NEW val \in BOOLEAN,
           IfStmt(hasElse, val)
    PROVE  LiveInv'
<1> USE DEF IfStmt, Statement, Marked
<1>1. open # <<>> /\ Live \in BOOLEAN
    BY TopIs
<1>2. PICK x : x = [Construct("if", "cond") EXCEPT !.has = hasElse, !.val = val]
    OBVIOUS
<1>3. /\ x \in OpenT /\ x.kind = "if" /\ x.phase = "cond" /\ ~ x.entry /\ ~ x.brk /\ ~ x.cont
    BY <1>2 DEF OpenT, Construct, Rets
<1>4. /\ builders' = builders /\ open' = Append(Noted(FALSE), x) /\ blocks' = blocks
      /\ lives' = lives /\ early' = early /\ marks' = marks \cup {<<Here, Live>>}
    BY <1>1, <1>2
<1> HIDE DEF IfStmt, Statement, Marked
<1>5. Shaped /\ blocks \in Seq(BlockT)
    BY Shapes DEF FlowInv, Typed
<1>6. \A b \in Nat : ~ Fresh(b)
    BY <1>4, <1>5 DEF Fresh, Shaped
<1>7. PICK t \in TermT : t.to = {}
    BY NoEnd
<1>8. PICK at \in Nat, q \in Nat, A \in SUBSET Nat, B \in SUBSET Nat :
          at = 0 /\ q = 0 /\ A = {} /\ B = {}
    OBVIOUS
<1>9. Writes(at, t, q)
    <2>1. \A b \in Block : b # 0
        BY <1>5 DEF Shaped
    <2>2. Len(blocks) <= Len(blocks')
        BY <1>4, <1>5 DEF Shaped
    <2>3. QED  BY <1>4, <1>6, <1>8, <2>1, <2>2 DEF Writes
<1>10. Pushes(x, t, q, at, A, B)
    <2>1. \A b \in Nat : ~ WaitsFor(x, b)
        BY <1>3 DEF WaitsFor, Loops
    <2>2. ~ Flagged(x)
        BY <1>3 DEF Flagged
    <2>3. QED  BY <1>1, <1>3, <1>4, <1>6, <1>7, <1>8, <1>9, <2>1, <2>2 DEF Pushes
<1>11. PushFits(x, t, q, at, A, B)
    <2> SUFFICES ASSUME NEW sec \in [Nat -> Nat], NEW nsec \in [Nat -> Nat], NEW o \in Nat,
                        NEW m \in Nat, Len(open) = m, Stands(sec, o, o, m),
                        Turned(sec, nsec, o, m, A, B, FALSE)
                 PROVE  /\ NoteFits(nsec, x, m + 1, o)
                        /\ Live => Lit(nsec, x)
                        /\ nsec[IF at = 0 THEN Here ELSE q] = Mk(Live, IF Opens(x) THEN m + 1 ELSE o)
                        /\ Live /\ at # 0 => \A b \in t.to : nsec[b] # 0
        BY DEF PushFits
    <2>1. sec[Here] = Mk(Live, o) /\ Here \in Nat
        BY <1>1, StandsBelow, HomeTop
    <2>2. nsec[Here] = sec[Here]
        BY <1>8, <2>1 DEF Turned
    <2>3. ~ Opens(x) /\ x.kind \notin Loops
        BY <1>3 DEF Opens, Loops
    <2>4. QED  BY <1>3, <1>7, <1>8, <2>1, <2>2, <2>3 DEF NoteFits, Lit
<1>12. QED  BY <1>3, <1>7, <1>8, <1>10, <1>11, PushLive

\* ForStmt keeps it.
LEMMA ForStmtLive ==
    ASSUME FlowInv, FlowInv', LiveInv, NEW hasCond \in BOOLEAN, ForStmt(hasCond)
    PROVE  LiveInv'
<1> USE DEF ForStmt, Statement, Marked
<1>1. open # <<>> /\ Live \in BOOLEAN
    BY TopIs
<1>2. PICK n \in Nat : n = Len(blocks)
    BY Shapes DEF FlowInv, Shaped
<1>3. PICK made : made = <<InFn(TRUE), InFn(FALSE), InFn(FALSE), InFn(FALSE)>>
    OBVIOUS
<1>4. made \in Seq(BlockT) /\ Len(made) = 4 /\ OfFn(made)
    <2> DEFINE a == InFn(TRUE)   b == InFn(FALSE)
    <2>1. a \in BlockT /\ b \in BlockT /\ made = <<a, b, b, b>>
        BY <1>1, <1>3, LoopMade
    <2> HIDE DEF a, b
    <2>2. made \in Seq(BlockT) /\ Len(made) = 4 /\ \A i \in 1 .. 4 : made[i] \in {a, b}
        BY <2>1
    <2>3. QED  BY <2>2 DEF OfFn, a, b
<1>5. PICK x : x = [Construct("for", "init") EXCEPT
                        !.begin = Next1, !.nxt = Next2, !.end = Next4, !.has = hasCond]
    OBVIOUS
<1>6. PICK b1, b2, b3, b4 \in Nat : b1 = n + 1 /\ b2 = n + 2 /\ b3 = n + 3 /\ b4 = n + 4 /\ b3 = b2 + 1
    BY <1>2
<1>7. /\ x \in OpenT /\ x.kind = "for" /\ x.phase = "init" /\ ~ x.entry /\ ~ x.brk /\ ~ x.cont
      /\ x.begin = b1 /\ x.nxt = b2 /\ x.end = b4 /\ x.nxt + 1 = b3
    <2>1. x = [Construct("for", "init") EXCEPT !.begin = b1, !.nxt = b2, !.end = b4, !.has = hasCond]
        BY <1>2, <1>5, <1>6 DEF Next1, Next2, Next4
    <2>2. QED  BY <1>1, <1>6, <2>1 DEF OpenT, Construct, Rets
<1>8. /\ builders' = builders /\ open' = Append(Noted(FALSE), x)
      /\ lives' = lives /\ blocks' = blocks \o made
      /\ early' = early /\ marks' = marks \cup {<<Here, Live>>}
    BY <1>1, <1>3, <1>5
<1> HIDE DEF ForStmt, Statement, Marked
<1>9. PICK t \in TermT : t.to = {}
    BY NoEnd
<1>10. PICK at \in Nat, q \in Nat, A \in SUBSET Nat, B \in SUBSET Nat :
          at = 0 /\ q = 0 /\ A = {} /\ B = {}
    OBVIOUS
<1>11. /\ Len(blocks') = n + 4 /\ Writes(at, t, q)
       /\ \A b \in Nat : Fresh(b) => blocks'[b].fn = Fn
    <2>1. blocks' = (IF 0 = 0 THEN blocks ELSE Terminate(blocks, 0, t)) \o made
        BY <1>8
    <2>2. Makes(0, t, 0, made)
        BY <1>1, <1>4, <1>9, <2>1, MakesBlocks
    <2>3. QED  BY <1>2, <1>4, <1>10, <2>2 DEF Makes
<1>12. \A b \in Nat : Fresh(b) <=> b = b1 \/ b = b2 \/ b = b3 \/ b = b4
    <2>1. \A b \in Nat : Fresh(b) <=> b \in n + 1 .. n + 4
        BY <1>2, <1>11 DEF Fresh
    <2>2. QED  BY <1>2, <1>6, <2>1
<1>13. Pushes(x, t, q, at, A, B)
    <2>1. \A b \in Nat : WaitsFor(x, b) => Fresh(b)
        BY <1>7, <1>12 DEF WaitsFor, Loops
    <2>2. ~ Flagged(x)
        BY <1>7 DEF Flagged
    <2>3. x.kind # "func"
        BY <1>7
    <2>4. QED  BY <1>1, <1>8, <1>9, <1>10, <1>11, <2>1, <2>2, <2>3 DEF Pushes
<1>14. PushFits(x, t, q, at, A, B)
    <2> SUFFICES ASSUME NEW sec \in [Nat -> Nat], NEW nsec \in [Nat -> Nat], NEW o \in Nat,
                        NEW m \in Nat, Len(open) = m, Stands(sec, o, o, m),
                        Turned(sec, nsec, o, m, A, B, FALSE)
                 PROVE  /\ NoteFits(nsec, x, m + 1, o)
                        /\ Live => Lit(nsec, x)
                        /\ nsec[IF at = 0 THEN Here ELSE q] = Mk(Live, IF Opens(x) THEN m + 1 ELSE o)
                        /\ Live /\ at # 0 => \A b \in t.to : nsec[b] # 0
        BY DEF PushFits
    <2>1. sec[Here] = Mk(Live, o) /\ Here \in Nat /\ \A b \in Nat : Fresh(b) => sec[b] = 0
        BY <1>1, StandsBelow, HomeTop
    <2>2. \A b \in Nat : nsec[b] = sec[b]
        BY <1>10 DEF Turned
    <2>3. ~ Opens(x)
        BY <1>7 DEF Opens
    <2>4. nsec[b1] = 0 /\ nsec[b2] = 0 /\ nsec[b3] = 0 /\ nsec[b4] = 0
        BY <1>12, <2>1, <2>2
    <2>5. NoteFits(nsec, x, m + 1, o)
        BY <1>7, <2>4 DEF NoteFits, Mk
    <2>6. QED  BY <1>7, <1>9, <1>10, <2>1, <2>2, <2>3, <2>5 DEF Lit
<1>15. QED  BY <1>7, <1>9, <1>10, <1>13, <1>14, PushLive

\* WhileStmt keeps it.
LEMMA WhileStmtLive == ASSUME FlowInv, FlowInv', LiveInv, WhileStmt PROVE LiveInv'
<1> USE DEF WhileStmt, Statement, Marked
<1>1. open # <<>> /\ Live \in BOOLEAN
    BY TopIs
<1>2. PICK n \in Nat : n = Len(blocks)
    BY Shapes DEF FlowInv, Shaped
<1>3. PICK b1, b2, b3 \in Nat : /\ b1 = n + 1 /\ b2 = n + 2 /\ b3 = n + 3
                                /\ b1 # b2 /\ b1 # b3 /\ b2 # b3 /\ b1 # 0
    BY <1>2
<1>4. PICK t, q, made :
          /\ t = Br(Next2) /\ q = Next1
          /\ made = <<InFn(TRUE), InFn(FALSE), InFn(FALSE)>>
    OBVIOUS
<1>5. q = b1 /\ q \in Nat /\ t \in TermT /\ t.to = {b2}
    <2>1. t = Br(b2) /\ q = b1
        BY <1>2, <1>3, <1>4 DEF Next1, Next2
    <2>2. QED  BY <2>1, TermIs
<1>6. made \in Seq(BlockT) /\ Len(made) = 3 /\ OfFn(made)
    <2> DEFINE a == InFn(TRUE)   b == InFn(FALSE)
    <2>1. a \in BlockT /\ b \in BlockT /\ made = <<a, b, b>>
        BY <1>1, <1>4, LoopMade
    <2> HIDE DEF a, b
    <2>2. made \in Seq(BlockT) /\ Len(made) = 3 /\ \A i \in 1 .. 3 : made[i] \in {a, b}
        BY <2>1
    <2>3. QED  BY <2>2 DEF OfFn, a, b
<1>7. Here # 0 /\ Here \in Nat
    BY <1>1, HomeTop
<1>8. blocks' = (IF Here = 0 THEN blocks ELSE Terminate(blocks, Here, t)) \o made
    BY <1>4, <1>7
<1>9. t.to \subseteq 1 .. Len(blocks) + Len(made)
    BY <1>2, <1>3, <1>5, <1>6
<1>10. PICK x : x = [Construct("while", "body") EXCEPT
                        !.begin = Next1, !.nxt = Next2, !.end = Next3, !.entry = Live]
    OBVIOUS
<1>11. /\ x \in OpenT /\ x.kind = "while" /\ x.phase = "body" /\ x.entry = Live /\ ~ x.brk /\ ~ x.cont
       /\ x.begin = b1 /\ x.nxt = b2 /\ x.end = b3
    <2>1. x = [Construct("while", "body") EXCEPT !.begin = b1, !.nxt = b2, !.end = b3, !.entry = Live]
        BY <1>2, <1>3, <1>10 DEF Next1, Next2, Next3
    <2>2. QED  BY <1>1, <2>1 DEF OpenT, Construct, Rets
<1>12. /\ builders' = WithLast(builders, q) /\ open' = Append(Noted(FALSE), x)
       /\ lives' = lives /\ early' = early /\ marks' = marks \cup {<<Here, Live>>}
    BY <1>1, <1>4, <1>10
<1> HIDE DEF WhileStmt, Statement, Marked
<1>13. PICK at \in Nat, A \in SUBSET Nat, B \in SUBSET Nat :
           at = Here /\ A = (IF Live THEN {b2} ELSE {}) /\ B = (IF Live THEN {q} ELSE {})
    BY <1>5, <1>7
<1>14. /\ Len(blocks') = n + 3 /\ Writes(at, t, q)
       /\ \A b \in Nat : Fresh(b) => blocks'[b].fn = Fn
    <2>1. Makes(Here, t, q, made)
        BY <1>1, <1>5, <1>6, <1>8, <1>9, MakesBlocks
    <2>2. QED  BY <1>2, <1>6, <1>13, <2>1 DEF Makes
<1>15. \A b \in Nat : Fresh(b) <=> b = b1 \/ b = b2 \/ b = b3
    <2>1. \A b \in Nat : Fresh(b) <=> b \in n + 1 .. n + 3
        BY <1>2, <1>14 DEF Fresh
    <2>2. QED  BY <1>2, <1>3, <2>1
<1>16. Pushes(x, t, q, at, A, B)
    <2>1. \A b \in Nat : WaitsFor(x, b) => Fresh(b)
        BY <1>11, <1>15 DEF WaitsFor, Loops
    <2>2. Flagged(x) => Live
        BY <1>11 DEF Flagged
    <2>3. x.kind # "func" /\ x.kind \in Loops
        BY <1>11 DEF Loops
    <2>4. at # 0 /\ Fresh(q) /\ at = Here
        BY <1>5, <1>7, <1>13, <1>15
    <2>5. \A b \in t.to : Fresh(b)
        BY <1>5, <1>15
    <2>6. /\ A # {} \/ B # {} => Live
          /\ A \subseteq t.to /\ \A b \in A \cup B : Fresh(b)
          /\ \A b \in B : b = x.begin /\ x.entry
        BY <1>5, <1>11, <1>13, <1>15
    <2>7. QED  BY <1>1, <1>12, <1>14, <2>1, <2>2, <2>3, <2>4, <2>5, <2>6 DEF Pushes
<1>17. PushFits(x, t, q, at, A, B)
    <2> SUFFICES ASSUME NEW sec \in [Nat -> Nat], NEW nsec \in [Nat -> Nat], NEW o \in Nat,
                        NEW m \in Nat, Len(open) = m, Stands(sec, o, o, m),
                        Turned(sec, nsec, o, m, A, B, FALSE)
                 PROVE  /\ NoteFits(nsec, x, m + 1, o)
                        /\ Live => Lit(nsec, x)
                        /\ nsec[IF at = 0 THEN Here ELSE q] = Mk(Live, IF Opens(x) THEN m + 1 ELSE o)
                        /\ Live /\ at # 0 => \A b \in t.to : nsec[b] # 0
        BY DEF PushFits
    <2>1. o # 0 /\ m + 1 # 0 /\ \A b \in Nat : Fresh(b) => sec[b] = 0
        BY StandsBelow
    <2>2. \A b \in Nat : nsec[b] = IF Live /\ b = b2 THEN o ELSE IF Live /\ b = q THEN m + 1 ELSE sec[b]
        BY <1>13 DEF Turned
    <2>3. sec[b1] = 0 /\ sec[b2] = 0 /\ sec[b3] = 0
        BY <1>15, <2>1
    <2>4. /\ nsec[b1] = Mk(Live, m + 1) /\ nsec[b2] = Mk(Live, o) /\ nsec[b3] = 0
          /\ (Live => nsec[b2] # 0)
        BY <1>3, <1>5, <2>1, <2>2, <2>3 DEF Mk
    <2>5. NoteFits(nsec, x, m + 1, o)
        BY <1>11, <2>4 DEF NoteFits, Mk, Loops
    <2>6. Opens(x)
        BY <1>11 DEF Opens, Loops
    <2>7. at # 0
        BY <1>7, <1>13
    <2>8. QED  BY <1>5, <1>11, <2>4, <2>5, <2>6, <2>7 DEF Lit
<1>18. QED  BY <1>5, <1>11, <1>13, <1>16, <1>17, PushLive

-----------------------------------------------------------------------------
(* The phases of loops. *)

\* Loops do not have the phases of an if.
PhaseOf(x) == x.kind \in Loops => x.phase \notin {"then", "else"}
Phases     == \A i \in DOMAIN open : PhaseOf(open[i])

\* It is left to look at the construct that comes.
LEMMA PhasesBy ==
    ASSUME FlowInv, FlowInv', Phases, NEW m \in Nat, Keeps(m),
           Len(open') = m + 1 => PhaseOf(open'[m + 1])
    PROVE  Phases'
<1>1. Typed /\ Typed'
    BY DEF FlowInv
<1>2. /\ \A i \in 1 .. m : i \in DOMAIN open /\ i \in DOMAIN open'
      /\ \A i \in DOMAIN open' : i \in 1 .. m \/ (i = m + 1 /\ Len(open') = m + 1)
    BY <1>1, KeepsIs
<1>3. ASSUME NEW i \in 1 .. m PROVE PhaseOf(open'[i])
    <2>1. Alike(open[i], open'[i]) /\ PhaseOf(open[i])
        BY <1>2 DEF Keeps, Phases
    <2>2. QED  BY <2>1 DEF Alike, PhaseOf
<1>4. QED  BY <1>2, <1>3 DEF Phases

\* A construct arrives.
LEMMA PhasesPush ==
    ASSUME FlowInv, FlowInv', Phases, open # <<>>, NEW x \in OpenT,
           open' = Append(Noted(FALSE), x), PhaseOf(x)
    PROVE  Phases'
<1>1. PICK m : m = Len(open)
    OBVIOUS
<1>2. m \in Nat /\ Keeps(m) /\ Len(open') = m + 1 /\ open'[m + 1] = x
    BY <1>1, PushSame
<1>3. QED  BY <1>2, PhasesBy

\* The innermost construct goes on.
LEMMA PhasesTurn ==
    ASSUME FlowInv, FlowInv', Phases, open # <<>>, NEW x, open' = WithLast(open, x), PhaseOf(x)
    PROVE  Phases'
<1>1. DOMAIN open' = DOMAIN open /\ \A i \in DOMAIN open : open'[i] = IF i = Len(open) THEN x ELSE open[i]
    BY DEF WithLast
<1>2. QED  BY <1>1 DEF Phases

\* It goes.
LEMMA PhasesPop ==
    ASSUME FlowInv, FlowInv', Phases, open # <<>>, open' = Front(open)
    PROVE  Phases'
<1>1. PICK m \in Nat : Len(open) = m + 1
    BY TopIs
<1>2. Len(open') = m /\ \A i \in 1 .. m : open'[i] = open[i]
    <2>1. open \in Seq(OpenT)
        BY TopIs
    <2>2. /\ Len(Front(open)) = Len(open) - 1
          /\ \A i \in 1 .. Len(open) - 1 : Front(open)[i] = open[i]
        BY <2>1, FrontIs
    <2>3. Len(open) - 1 = m
        BY <1>1
    <2>4. QED  BY <2>2, <2>3
<1>3. DOMAIN open = 1 .. m + 1 /\ DOMAIN open' = 1 .. m
    BY <1>1, <1>2, Shapes DEF FlowInv, Shaped
<1>4. \A i \in 1 .. m : i \in 1 .. m + 1
    OBVIOUS
<1>5. QED  BY <1>2, <1>3, <1>4 DEF Phases

\* The others are as they were.
LEMMA PhasesStay ==
    ASSUME FlowInv, FlowInv', Phases, Len(open') = Len(open),
           \A i \in 1 .. Len(open) : Alike(open[i], open'[i])
    PROVE  Phases'
<1>1. PICK m \in Nat : m = Len(open)
    BY Shapes DEF FlowInv, Shaped
<1>2. Keeps(m)
    BY <1>1 DEF Keeps
<1>3. Len(open') # m + 1
    BY <1>1
<1>4. QED  BY <1>2, <1>3, PhasesBy

\* Blocks that come next are numbers.
LEMMA NextsAre ==
    ASSUME FlowInv
    PROVE  Next1 \in Nat /\ Next2 \in Nat /\ Next3 \in Nat /\ Next4 \in Nat
BY Shapes DEF FlowInv, Shaped, Next1, Next2, Next3, Next4

\* Every step leaves the loops in their phases.
LEMMA PhasesKeep ==
    ASSUME FlowInv, FlowInv', Phases, [Next]_vars
    PROVE  Phases'
<1>1. ASSUME NEW r \in Rets, NEW method \in BOOLEAN, FuncDecl(r, method) PROVE Phases'
    <2>1. PICK x : x = [Construct("func", "body") EXCEPT !.ret = r, !.method = method]
        OBVIOUS
    <2>2. x \in OpenT /\ PhaseOf(x)
        BY <2>1 DEF OpenT, Construct, PhaseOf, Loops
    <2>3. CASE open = <<>>
        <3>1. open' = <<x>>
            BY <1>1, <2>1, <2>3 DEF FuncDecl
        <3>2. \A i \in DOMAIN open' : open'[i] = x
            BY <3>1
        <3>3. QED  BY <2>2, <3>2 DEF Phases
    <2>4. CASE open # <<>>
        <3>1. open' = Append(Noted(FALSE), x)
            BY <1>1, <2>1, <2>4 DEF FuncDecl
        <3>2. QED  BY <2>2, <2>4, <3>1, PhasesPush
    <2>5. QED  BY <2>3, <2>4
<1>2. ASSUME NEW v \in Vals \cup {"other"}, FuncEnd(v) PROVE Phases'
    <2>1. open # <<>> /\ (open' = open \/ open' = Front(open))
        BY <1>2 DEF FuncEnd
    <2>2. open' = open => Phases'
        BY DEF Phases
    <2>3. QED  BY <2>1, <2>2, PhasesPop
<1>3. ASSUME NEW e \in BOOLEAN, NEW v \in BOOLEAN, IfStmt(e, v) PROVE Phases'
    <2>1. PICK x : x = [Construct("if", "cond") EXCEPT !.has = e, !.val = v]
        OBVIOUS
    <2>2. x \in OpenT /\ PhaseOf(x)
        BY <2>1 DEF OpenT, Construct, PhaseOf, Loops, Rets
    <2>3. open # <<>> /\ open' = Append(Noted(FALSE), x)
        BY <1>3, <2>1 DEF IfStmt
    <2>4. QED  BY <2>2, <2>3, PhasesPush
<1>4. ASSUME IfEnd \/ WhileEnd \/ \E test \in Tests : ForEnd(test) PROVE Phases'
    <2>1. open # <<>> /\ open' = Front(open)
        BY <1>4 DEF IfEnd, WhileEnd, ForEnd, Phase, Enters
    <2>2. QED  BY <2>1, PhasesPop
<1>5. ASSUME WhileStmt PROVE Phases'
    <2>1. PICK x : x = [Construct("while", "body") EXCEPT
                        !.begin = Next1, !.nxt = Next2, !.end = Next3, !.entry = Live]
        OBVIOUS
    <2>2. open # <<>> /\ open' = Append(Noted(FALSE), x)
        BY <1>5, <2>1 DEF WhileStmt
    <2>3. Live \in BOOLEAN
        BY <2>2, TopIs
    <2>4. x \in OpenT /\ PhaseOf(x)
        BY <2>1, <2>3, NextsAre DEF OpenT, Construct, PhaseOf, Rets
    <2>5. QED  BY <2>2, <2>4, PhasesPush
<1>6. ASSUME NEW c \in BOOLEAN, ForStmt(c) PROVE Phases'
    <2>1. PICK x : x = [Construct("for", "init") EXCEPT
                        !.begin = Next1, !.nxt = Next2, !.end = Next4, !.has = c]
        OBVIOUS
    <2>2. open # <<>> /\ open' = Append(Noted(FALSE), x)
        BY <1>6, <2>1 DEF ForStmt
    <2>3. x \in OpenT /\ PhaseOf(x)
        BY <2>1, NextsAre DEF OpenT, Construct, PhaseOf, Rets
    <2>4. QED  BY <2>2, <2>3, PhasesPush
<1>7. ASSUME IfThen \/ IfElse \/ WhileCond \/ ForBody \/ ForStep \/ ForCond PROVE Phases'
    <2>1. open # <<>>
        BY <1>7 DEF IfThen, IfElse, WhileCond, ForBody, ForStep, ForCond, Phase, Enters
    <2>2. Top \in OpenT
        BY <2>1, TopIs
    <2>3. \E x : open' = WithLast(open, x) /\ PhaseOf(x)
        <3>1. CASE IfThen
            <4>1. Top.kind = "if"
                BY <3>1 DEF IfThen, Phase, Enters
            <4>2. PICK x : x = [Top EXCEPT !.phase = "then", !.begin = IF Top.has THEN Next2 ELSE Next3,
                                 !.end = IF Top.has THEN Next3 ELSE Next2, !.entry = Live]
                OBVIOUS
            <4>3. open' = WithLast(open, x)
                BY <3>1, <4>2 DEF IfThen
            <4>4. PhaseOf(x)
                BY <2>2, <4>1, <4>2 DEF OpenT, PhaseOf, Loops
            <4>5. QED  BY <4>3, <4>4
        <3>2. CASE IfElse
            <4>1. Top.kind = "if"
                BY <3>2 DEF IfElse, Phase, Enters
            <4>2. PICK x : x = [Top EXCEPT !.phase = "else", !.thenEnd = ThenEnd, !.brk = Live]
                OBVIOUS
            <4>3. open' = WithLast(open, x)
                BY <3>2, <4>2 DEF IfElse
            <4>4. PhaseOf(x)
                BY <2>2, <4>1, <4>2 DEF OpenT, PhaseOf, Loops
            <4>5. QED  BY <4>3, <4>4
        <3>3. CASE WhileCond \/ ForCond
            <4>1. PICK x : x = [Top EXCEPT !.phase = "cond"]
                OBVIOUS
            <4>2. open' = WithLast(open, x)
                BY <3>3, <4>1 DEF WhileCond, ForCond
            <4>3. PhaseOf(x)
                BY <2>2, <4>1 DEF OpenT, PhaseOf
            <4>4. QED  BY <4>2, <4>3
        <3>4. CASE ForBody
            <4>1. PICK x : x = [Top EXCEPT !.phase = "body", !.entry = Live]
                OBVIOUS
            <4>2. open' = WithLast(open, x)
                BY <3>4, <4>1 DEF ForBody
            <4>3. PhaseOf(x)
                BY <2>2, <4>1 DEF OpenT, PhaseOf
            <4>4. QED  BY <4>2, <4>3
        <3>5. CASE ForStep
            <4>1. PICK x : x = [Top EXCEPT !.phase = "step"]
                OBVIOUS
            <4>2. open' = WithLast(open, x)
                BY <3>5, <4>1 DEF ForStep
            <4>3. PhaseOf(x)
                BY <2>2, <4>1 DEF OpenT, PhaseOf
            <4>4. QED  BY <4>2, <4>3
        <3>6. QED  BY <1>7, <3>1, <3>2, <3>3, <3>4, <3>5
    <2>4. QED  BY <2>1, <2>3, PhasesTurn
<1>8. ASSUME Break \/ Continue PROVE Phases'
    <2>1. get_loop_parent /\ \E isBreak \in BOOLEAN : open' = Taken(isBreak)
        BY <1>8 DEF Break, Continue
    <2>2. open # <<>>
        BY <2>1, InnermostLoop
    <2>3. Len(open') = Len(open) /\ \A i \in 1 .. Len(open) : Alike(open[i], open'[i])
        BY <2>1, <2>2, TakenIs
    <2>4. QED  BY <2>3, PhasesStay
<1>9. ASSUME NEW v \in Vals, Return(v) PROVE Phases'
    <2>1. open # <<>> /\ open' = Noted(TRUE)
        BY <1>9 DEF Return
    <2>2. Len(open') = Len(open) /\ \A i \in 1 .. Len(open) : Alike(open[i], open'[i])
        BY <2>1, NotedIs DEF FlowInv
    <2>3. QED  BY <2>2, PhasesStay
<1>10. ASSUME UNCHANGED vars PROVE Phases'
    BY <1>10 DEF vars, Phases
<1>11. QED
    BY <1>1, <1>2, <1>3, <1>4, <1>5, <1>6, <1>7, <1>8, <1>9, <1>10 DEF Next, Done

-----------------------------------------------------------------------------
(* Jumps. *)

\* The blocks of A come to live by a jump, and what is noted of the constructs
\* is what comes of it.
JumpFits(sec, t, s, A) ==
    /\ A # {} => Live
    /\ \A b \in A : b \in t.to /\ Awaited(b) /\ blocks[b].fn = Fn
    /\ \A m \in Nat, nsec \in [Nat -> Nat] :
          m = Len(open) /\ Turned(sec, nsec, s, m, A, {}, FALSE) =>
              /\ Live => \A b \in t.to : blocks[b].fn = Fn => nsec[b] # 0
              /\ \A i \in DOMAIN open : FnAt(i) = Fn => NoteFits(nsec, open'[i], i, Section(i - 1))

\* What a jump does to the constructs.
Leaps(t) ==
    /\ open # <<>> /\ Jump(t) /\ open' \in Seq(OpenT) /\ Len(open') = Len(open)
    /\ \A i \in DOMAIN open :
          /\ Alike(open[i], open'[i]) /\ open'[i].entry = open[i].entry
          /\ Flagged(open'[i]) => Live \/ Flagged(open[i])
          /\ FnAt(i) # Fn => Same(open[i], open'[i])
    /\ \A b \in t.to : b \in Block /\ blocks[b].fn <= Fn

\* What is noted of the innermost function before a step.
LivesOn(f, sec, s) ==
    /\ LiveFn(f, sec) /\ s = Section(Len(open)) /\ sec[Here] = Mk(Live, s)
    /\ Live => \A i \in DOMAIN open : FnAt(i) = f => Lit(sec, open[i])

\* A jump is a step of the innermost function.
LEMMA LeapGoes ==
    ASSUME FlowInv, FlowInv', NEW t \in TermT, Leaps(t), NEW m, m = Len(open)
    PROVE  /\ m \in Nat /\ m # m + 1
           /\ \E at \in Nat, q \in Nat :
                 /\ at = Here /\ Goes(at, t, q, m) /\ Here' = q /\ Live' = FALSE
                 /\ Fresh(q) /\ \A b \in Nat : Fresh(b) => blocks'[b].fn = Fn
<1>1. Typed /\ Shaped /\ open # <<>> /\ Jump(t)
    BY Shapes DEF FlowInv, Leaps
<1>2. m \in Nat /\ m # m + 1 /\ DOMAIN open = 1 .. m
    BY <1>1 DEF Shaped
<1>3. Here \in Block /\ Here \in Nat /\ Here # 0
    BY <1>1, HomeTop
<1>4. PICK q \in Nat, at \in Nat : q = Next1 /\ at = Here
    BY <1>3, NextsAre
<1>5. /\ blocks' = Append(Terminate(blocks, Here, t), never)
      /\ builders' = WithLast(builders, q) /\ lives' = WithLast(lives, FALSE)
      /\ marks' = marks \cup {<<Here, Live>>} /\ early \subseteq early'
    BY <1>1, <1>4 DEF Jump
<1>6. t.to \subseteq Block
    BY DEF Leaps
<1>7. /\ Len(blocks') = Len(blocks) + 1 /\ Writes(Here, t, q)
      /\ \A b \in Nat : Fresh(b) => blocks'[b].fn = Fn
    BY <1>1, <1>5, <1>6, JumpMakes
<1>8. Fresh(q)
    <2>1. Len(blocks) \in Nat
        BY <1>1 DEF Shaped
    <2>2. Len(blocks) + 1 \in Len(blocks) + 1 .. Len(blocks) + 1
        BY <2>1
    <2>3. QED  BY <1>4, <1>7, <2>2 DEF Fresh, Next1
<1>9. Len(open') = m /\ \A i \in 1 .. m : Alike(open[i], open'[i])
    BY <1>2 DEF Leaps
<1>10. Keeps(m)
    BY <1>2, <1>9 DEF Keeps
<1>11. ~ FuncLast(m) /\ ~ FuncLast(m)'
    BY <1>2, <1>9 DEF FuncLast
<1>12. /\ Goes(at, t, q, m)
       /\ \A h : h = Here' => h = IF at = 0 THEN Here ELSE q
       /\ \A l \in BOOLEAN : lives' = WithLast(lives, l) => Live' = l
    <2>1. \A i \in 1 .. m : FnAt(i) # Fn => Same(open[i], open'[i])
        BY <1>2 DEF Leaps
    <2>2. \A b \in t.to : Fresh(b) \/ (b \in Block /\ blocks[b].fn <= Fn)
        BY DEF Leaps
    <2>3. \A b \in Nat : Len(open') = m + 1 /\ WaitsFor(open'[m + 1], b) =>
              Fresh(b) \/ (Len(open) = m + 1 /\ WaitsFor(open[m + 1], b))
        BY <1>2, <1>9
    <2>4. at # 0 /\ at \in {0, Here} /\ Writes(at, t, q)
        BY <1>3, <1>4, <1>7
    <2>5. lives' = lives \/ \E l \in BOOLEAN : lives' = WithLast(lives, l)
        BY <1>5
    <2>6. marks' \subseteq marks \cup {<<Here, Live>>} /\ early \subseteq early'
        BY <1>5
    <2>7. \A b \in Nat : Fresh(b) => blocks'[b].fn = Fn
        BY <1>7
    <2>8. builders' = WithLast(builders, q) /\ Fresh(q) /\ open # <<>>
        BY <1>1, <1>5, <1>8
    <2>9. QED  BY <1>2, <1>10, <1>11, <2>1, <2>2, <2>3, <2>4, <2>5, <2>6, <2>7, <2>8, GoesBy
<1>13. Here' = q /\ Live' = FALSE
    BY <1>3, <1>4, <1>5, <1>12
<1>14. QED  BY <1>2, <1>4, <1>7, <1>8, <1>12, <1>13

\* The hypotheses of LiveGoes, but for those on what comes.
GoesWell(f, sec, nsec, s, at, t, q, m, A, B, joins) ==
    /\ Goes(at, t, q, m) /\ f \in Nat /\ f = Fn /\ LiveFn(f, sec) /\ s = Section(Len(open))
    /\ Turned(sec, nsec, s, m, A, B, joins) /\ Enlivens(f, t, at, m, A, B, joins)
    /\ Sections(sec, s, m, A, joins) /\ Notes(nsec, m) /\ Leading(f, t, at, nsec)

\* LiveGoes for them.
LEMMA LiveGoesWell ==
    ASSUME FlowInv, FlowInv', LiveInv, NEW at \in Nat, NEW t, NEW q, NEW m \in Nat,
           NEW f, NEW sec \in [Nat -> Nat], NEW s,
           NEW A \in SUBSET Nat, NEW B \in SUBSET Nat, NEW joins \in BOOLEAN,
           NEW nsec \in [Nat -> Nat], GoesWell(f, sec, nsec, s, at, t, q, m, A, B, joins),
           Running(nsec)', NotesFit(f, nsec)'
    PROVE  LiveFn(f, nsec)'
<1>1. /\ Goes(at, t, q, m) /\ f \in Nat /\ f = Fn /\ LiveFn(f, sec) /\ s = Section(Len(open))
      /\ Turned(sec, nsec, s, m, A, B, joins) /\ Enlivens(f, t, at, m, A, B, joins)
      /\ Sections(sec, s, m, A, joins) /\ Notes(nsec, m) /\ Leading(f, t, at, nsec)
    BY DEF GoesWell
<1>2. QED  BY <1>1, LiveGoes, ZenonT(60)

\* A jump, if the blocks that come to live are found.
LEMMA JumpLive ==
    ASSUME FlowInv, FlowInv', LiveInv, NEW t \in TermT, Leaps(t),
           Fn \notin early' =>
               \A sec \in [Nat -> Nat], s \in Nat : LivesOn(Fn, sec, s) =>
                   \E A \in SUBSET Nat : JumpFits(sec, t, s, A)
    PROVE  LiveInv'
<1>1. PICK f, m : f = Fn /\ m = Len(open)
    OBVIOUS
<1>2. PICK at \in Nat, q \in Nat :
          /\ at = Here /\ Goes(at, t, q, m) /\ Here' = q /\ Live' = FALSE
          /\ Fresh(q) /\ \A b \in Nat : Fresh(b) => blocks'[b].fn = Fn
    BY <1>1, LeapGoes
<1>3. m \in Nat /\ m # m + 1
    BY <1>1, LeapGoes
<1>4. Typed /\ Shaped /\ Shaped' /\ open # <<>> /\ Len(open') = m /\ DOMAIN open = 1 .. m
      /\ DOMAIN open' = 1 .. m /\ Keeps(m)
    BY <1>1, <1>2, Shapes DEF FlowInv, Leaps, Shaped, Goes
<1>5. ASSUME f \notin early' PROVE \E nsec \in [Nat -> Nat] : LiveFn(f, nsec)'
    <2>1. early \subseteq early'
        BY <1>2 DEF Goes
    <2>2. f \in Nat /\ \E sec \in [Nat -> Nat] : LiveFn(f, sec)
        BY <1>1, <1>4, <1>5, <2>1, LivedSo
    <2>3. PICK sec \in [Nat -> Nat] : LiveFn(f, sec)
        BY <2>2
    <2>4. PICK s, o : s = Section(Len(open)) /\ o = Section(m)
        OBVIOUS
    <2>5. Stands(sec, s, o, m)
        BY <1>1, <1>2, <1>3, <2>3, <2>4, StandsSo
    <2>6. s = o /\ o \in 1 .. m /\ s \in Nat
        BY <1>1, <1>3, <2>5 DEF Stands
    <2>7. /\ sec[Here] = Mk(Live, s) /\ \A b \in Nat : Fresh(b) => sec[b] = 0
          /\ Live => \A i \in DOMAIN open : FnAt(i) = f => Lit(sec, open[i])
        BY <1>1, <2>5 DEF Stands
    <2>8. LivesOn(f, sec, s)
        BY <2>3, <2>4, <2>7 DEF LivesOn
    <2>9. PICK A \in SUBSET Nat : JumpFits(sec, t, s, A)
        BY <1>1, <1>5, <2>6, <2>8
    <2>10. PICK B \in SUBSET Nat, joins \in BOOLEAN : B = {} /\ joins = FALSE
        OBVIOUS
    <2>11. PICK nsec \in [Nat -> Nat] : Turned(sec, nsec, s, m, A, B, joins)
        BY <1>3, <2>6, TurnedExists
    <2>12. Turned(sec, nsec, s, m, A, {}, FALSE)
        BY <2>10, <2>11
    <2>13. /\ Live => \A b \in t.to : blocks[b].fn = Fn => nsec[b] # 0
           /\ \A i \in DOMAIN open : FnAt(i) = Fn => NoteFits(nsec, open'[i], i, Section(i - 1))
        BY <1>1, <1>3, <2>9, <2>12 DEF JumpFits
    <2>14. \A b \in Block : blocks'[b].fn = blocks[b].fn
        BY <1>2 DEF Goes, Writes
    <2>15. Enlivens(f, t, at, m, A, B, joins)
        <3>1. \A b \in A : b \in t.to /\ Awaited(b) /\ blocks[b].fn = Fn /\ b \in Block
            BY <2>9 DEF JumpFits, Leaps
        <3>2. \A b \in A : blocks'[b].fn = f
            BY <1>1, <2>14, <3>1
        <3>3. A # {} => Live
            BY <2>9 DEF JumpFits
        <3>4. QED  BY <1>2, <2>10, <3>1, <3>2, <3>3 DEF Enlivens
    <2>16. Sections(sec, s, m, A, joins)
        BY <1>1, <1>3, <1>4, <2>6 DEF Sections
    <2>17. Notes(nsec, m)
        <3>1. \A i \in 1 .. m : /\ open'[i].entry = open[i].entry
                                /\ Flagged(open'[i]) => Live \/ Flagged(open[i])
            BY <1>4 DEF Leaps
        <3>2. QED  BY <1>2, <1>3, <1>4, <3>1 DEF Notes
    <2>18. Leading(f, t, at, nsec)
        <3>1. \A b \in t.to : blocks'[b].fn = blocks[b].fn
            BY <2>14 DEF Leaps
        <3>2. QED  BY <1>1, <2>13, <3>1 DEF Leading
    <2>19. Running(nsec)'
        <3>1. q \notin A
            <4>1. \A b \in A : b \in Block
                BY <2>9 DEF JumpFits, Leaps
            <4>2. q \notin Block
                BY <1>2, <1>4 DEF Fresh, Shaped
            <4>3. QED  BY <4>1, <4>2
        <3>2. nsec[q] = 0
            BY <1>2, <2>7, <2>10, <2>11, <3>1 DEF Turned
        <3>3. QED  BY <1>2, <3>2 DEF Running, Mk
    <2>20. NotesFit(f, nsec)'
        <3> SUFFICES ASSUME NEW i \in DOMAIN open', FnAt(i)' = f
                     PROVE  NoteFits(nsec, open'[i], i, Section(i - 1)')
            BY DEF NotesFit, NoteFits, Mk
        <3>1. i \in 1 .. m /\ i \in DOMAIN open /\ FnAt(i) = f
            <4>1. \A j \in 1 .. m : FnAt(j)' = FnAt(j)
                BY <1>2, <1>3, GoesLevels
            <4>2. QED  BY <1>4, <4>1
        <3>2. NoteFits(nsec, open'[i], i, Section(i - 1))
            BY <1>1, <2>13, <3>1
        <3>3. CASE i = 1
            <4>1. open[i].kind = "func"
                BY <3>1, <3>3, LevelIs
            <4>2. open'[i].kind = "func"
                BY <3>1, <4>1 DEF Leaps, Alike
            <4>3. QED  BY <4>2, NoteSame
        <3>4. CASE i # 1
            <4>1. i - 1 \in 1 .. m
                BY <1>3, <3>1, <3>4, UpToM
            <4>2. Section(i - 1)' = Section(i - 1)
                BY <1>3, <1>4, <4>1, LevelsStay
            <4>3. QED  BY <3>2, <4>2
        <3>5. QED  BY <3>3, <3>4
    <2>21. LiveFn(f, nsec)'
        <3>1. GoesWell(f, sec, nsec, s, at, t, q, m, A, B, joins)
            BY <1>1, <1>2, <2>2, <2>3, <2>4, <2>11, <2>15, <2>16, <2>17, <2>18 DEF GoesWell
        <3>2. m \in Nat
            BY <1>3
        <3>3. QED  BY <2>19, <2>20, <3>1, <3>2, LiveGoesWell, ZenonT(60)
    <2>22. QED  BY <2>21
<1>6. QED  BY <1>1, <1>2, <1>3, <1>5, GoesInv

\* A jump that leads nowhere in its function leaves the blocks as they are.
LEMMA JumpAway ==
    ASSUME FlowInv, NEW t \in TermT, NEW sec \in [Nat -> Nat], NEW s \in Nat, LivesOn(Fn, sec, s),
           \A i \in DOMAIN open : Same(open[i], open'[i]),
           Live => \A b \in t.to : blocks[b].fn # Fn
    PROVE  \E A \in SUBSET Nat : JumpFits(sec, t, s, A)
<1>1. ASSUME NEW nsec \in [Nat -> Nat], NEW m \in Nat, Turned(sec, nsec, s, m, {}, {}, FALSE)
      PROVE  nsec = sec
    <2>1. \A b \in Nat : nsec[b] = sec[b]
        BY <1>1 DEF Turned
    <2>2. QED  BY <2>1
<1>2. \A i \in DOMAIN open : FnAt(i) = Fn => NoteFits(sec, open'[i], i, Section(i - 1))
    BY NoteSame DEF LivesOn, LiveFn, NotesFit
<1>3. JumpFits(sec, t, s, {})
    BY <1>1, <1>2 DEF JumpFits
<1>4. QED  BY <1>3

\* Return.
LEMMA ReturnLive ==
    ASSUME FlowInv, FlowInv', LiveInv, NEW val \in Vals, Return(val)
    PROVE  LiveInv'
<1>1. open # <<>> /\ Jump(Ret(val)) /\ open' = Noted(TRUE)
    BY DEF Return
<1>2. PICK t : t = Ret(val)
    OBVIOUS
<1>3. t \in TermT /\ t.to = {}
    BY <1>2 DEF Ret, TermT, Vals
<1>4. Typed /\ DOMAIN open = 1 .. Len(open)
    BY Shapes DEF FlowInv, Shaped
<1>5. /\ open' \in Seq(OpenT) /\ Len(open') = Len(open)
      /\ \A i \in DOMAIN open : Alike(open[i], open'[i])
    BY <1>1, <1>4, NotedIs
<1>6. \A i \in DOMAIN open : Same(open[i], open'[i])
    BY <1>1, <1>4, NotedSame
<1>7. Leaps(t)
    BY <1>1, <1>2, <1>3, <1>5, <1>6 DEF Leaps, Same, Flagged
<1>8. \A sec \in [Nat -> Nat], s \in Nat : LivesOn(Fn, sec, s) =>
          \E A \in SUBSET Nat : JumpFits(sec, t, s, A)
    BY <1>3, <1>6, JumpAway
<1>9. QED  BY <1>3, <1>7, <1>8, JumpLive

-----------------------------------------------------------------------------

\* The innermost loop, as a jump finds it: if it is one of the innermost function,
\* the code that is generated is in its section, unless the jump is early.
LEMMA LeapLoop ==
    ASSUME FlowInv, Rising, Phases, get_loop_parent
    PROVE  /\ open # <<>>
           /\ \E g \in DOMAIN open :
                 /\ open[g].kind \in Loops /\ Last(loop_stack) = <<open[g].nxt, open[g].end>>
                 /\ FnAt(g) <= Fn
                 /\ OwnLoop = 0 => FnAt(g) # Fn
                 /\ OwnLoop # 0 => g = OwnLoop /\ FnAt(g) = Fn
                 /\ OwnLoop # 0 /\ ~ Early =>
                       open[g].phase \in {"body", "step"} /\ Section(Len(open)) = g
<1>1. Typed /\ Shaped
    BY Shapes DEF FlowInv
<1>2. PICK m \in Nat : m = Len(open) /\ DOMAIN open = 1 .. m
    BY <1>1 DEF Shaped
<1>3. OpenLoops # {} /\ OpenLoops \in SUBSET (1 .. m) /\ OwnLoops \in SUBSET (1 .. m)
    BY <1>2 DEF get_loop_parent, OpenLoops, OwnLoops
<1>4. open # <<>>
    <2>1. m # 0
        <3>1. PICK k \in 1 .. m : TRUE
            BY <1>3
        <3>2. QED  BY <3>1
    <2>2. QED  BY <1>1, <1>2, <2>1 DEF Shaped
<1>5. PICK g \in OpenLoops : \A j \in OpenLoops : j <= g
    BY <1>3, Greatest
<1>6. g \in 1 .. m /\ g \in Nat /\ g \in DOMAIN open /\ g <= m /\ open[g].kind \in Loops
    BY <1>2, <1>3 DEF OpenLoops
<1>7. UpTo(OpenLoops, g) = Cardinality(OpenLoops)
    BY <1>3, <1>5, <1>6, CountAll
<1>8. /\ Len(loop_stack) = Cardinality(OpenLoops)
      /\ loop_stack[UpTo(OpenLoops, g)] = <<open[g].nxt, open[g].end>>
    BY DEF FlowInv, LoopsFit, LoopsMirrored, OpenLoops, UpTo
<1>9. Last(loop_stack) = <<open[g].nxt, open[g].end>>
    BY <1>7, <1>8 DEF Last
<1>10. m \in DOMAIN open /\ FnAt(m) = Fn /\ m \in 1 .. m
    <2>1. Home(Len(open)) = Here /\ Len(open) \in DOMAIN open
        BY <1>4, HomeTop
    <2>2. QED  BY <1>2, <2>1 DEF FnAt, Fn
<1>11. \A i \in 1 .. m : FnAt(i) \in Nat /\ FnAt(i) <= Fn
    <2> SUFFICES ASSUME NEW i \in 1 .. m PROVE FnAt(i) \in Nat /\ FnAt(i) <= Fn
        OBVIOUS
    <2>1. FnAt(i) \in Nat
        BY <1>2, LevelIs
    <2>2. i < m => FnAt(i) <= FnAt(m)
        BY <1>2, <1>10 DEF Rising
    <2>3. i < m \/ i = m
        OBVIOUS
    <2>4. QED  BY <1>10, <2>1, <2>2, <2>3
<1>12. open[g].kind # "func"
    BY <1>6 DEF Loops
<1>13. \A i : i \in OwnLoops => i \in OpenLoops /\ \A j \in i .. m : open[j].kind # "func"
    BY <1>2 DEF OwnLoops, OpenLoops
<1>14. ASSUME OwnLoops = {} PROVE FnAt(g) # Fn
    <2>1. g \notin OwnLoops
        BY <1>14
    <2>2. PICK j \in g .. m : open[j].kind = "func"
        BY <1>2, <1>6, <2>1 DEF OwnLoops
    <2>3. j \in 1 .. m /\ g < j
        <3>1. j # g
            BY <1>12, <2>2
        <3>2. QED  BY <1>6, <3>1
    <2>4. FnAt(g) < FnAt(j)
        BY <1>2, <1>6, <2>2, <2>3 DEF Rising
    <2>5. FnAt(g) \in Nat /\ FnAt(j) \in Nat /\ FnAt(j) <= Fn /\ Fn \in Nat
        BY <1>6, <1>10, <1>11, <2>3
    <2>6. QED  BY <2>4, <2>5
<1>15. ASSUME OwnLoops # {} PROVE OwnLoop = g /\ g \in OwnLoops
    <2>1. \E i \in OwnLoops : \A j \in OwnLoops : j <= i
        BY <1>3, <1>15, Greatest
    <2>2. OwnLoop \in OwnLoops /\ \A j \in OwnLoops : j <= OwnLoop
        BY <1>15, <2>1 DEF OwnLoop
    <2>3. PICK i \in 1 .. m : i = OwnLoop
        BY <1>3, <2>2
    <2>4. i <= g /\ \A j \in i .. m : open[j].kind # "func"
        BY <1>5, <1>13, <2>2, <2>3
    <2>5. g \in OwnLoops
        <3>1. \A j \in g .. m : j \in i .. m
            BY <1>6, <2>4
        <3>2. QED  BY <1>2, <1>6, <2>4, <3>1 DEF OwnLoops
    <2>6. g <= i
        BY <2>2, <2>3, <2>5
    <2>7. g = i
        BY <1>6, <2>4, <2>6
    <2>8. QED  BY <2>3, <2>5, <2>7
<1>16. OwnLoop = 0 <=> OwnLoops = {}
    <2>1. OwnLoops = {} => OwnLoop = 0
        BY DEF OwnLoop
    <2>2. g # 0
        BY <1>6
    <2>3. QED  BY <1>15, <2>1, <2>2
<1>17. ASSUME g \in OwnLoops PROVE FnAt(g) = Fn
    <2>1. \A k \in g + 1 .. m : open[k].kind # "func"
        <3>1. \A k \in g + 1 .. m : k \in g .. m
            BY <1>6
        <3>2. QED  BY <1>13, <1>17, <3>1
    <2>2. FnAt(g) = FnAt(m)
        BY <1>6, <1>10, <2>1, SameLevel
    <2>3. QED  BY <1>10, <2>2
<1>18. ASSUME g \in OwnLoops, ~ Early
       PROVE  open[g].phase \in {"body", "step"} /\ Section(Len(open)) = g
    <2>1. open[g].phase \in {"body", "step"}
        <3>1. open[g].phase \notin {"cond", "init"}
            BY <1>18 DEF Early
        <3>2. open[g].phase \notin {"then", "else"}
            BY <1>6 DEF Phases, PhaseOf
        <3>3. open[g].phase \in {"cond", "then", "else", "init", "body", "step"}
            BY <1>1, <1>6 DEF Shaped, OpenT
        <3>4. QED  BY <3>1, <3>2, <3>3
    <2>2. Opens(open[g])
        BY <1>6, <2>1 DEF Opens
    <2>3. g \in Openers(m)
        BY <1>6, <2>2 DEF Openers
    <2>4. ASSUME NEW k \in Openers(m) PROVE k <= g
        <3>1. k \in 1 .. m /\ Opens(open[k])
            BY <1>2 DEF Openers
        <3>2. CASE open[k].kind \in Loops
            BY <1>2, <1>5, <3>1, <3>2 DEF OpenLoops
        <3>3. CASE open[k].kind = "func"
            <4>1. k \notin g .. m
                BY <1>13, <1>18, <3>3
            <4>2. QED  BY <1>6, <3>1, <4>1
        <3>4. QED  BY <3>1, <3>2, <3>3 DEF Opens
    <2>5. \A j \in Openers(m) : (\A k \in Openers(m) : k <= j) => j = g
        <3>1. Openers(m) \in SUBSET (1 .. m)
            BY <1>2 DEF Openers
        <3>2. QED  BY <1>6, <2>3, <2>4, <3>1
    <2>6. Section(m) = g
        BY <2>3, <2>4, <2>5 DEF Section
    <2>7. QED  BY <1>2, <2>1, <2>6
<1>19. OwnLoop # 0 => g = OwnLoop /\ FnAt(g) = Fn
    BY <1>15, <1>16, <1>17
<1>20. OwnLoop # 0 /\ ~ Early => open[g].phase \in {"body", "step"} /\ Section(Len(open)) = g
    BY <1>15, <1>16, <1>18
<1>21. QED  BY <1>4, <1>6, <1>9, <1>11, <1>14, <1>16, <1>19, <1>20

\* What a jump notes.
TakesTo(x, y, b, here) ==
    /\ Alike(x, y) /\ y.entry = x.entry
    /\ y.brk <=> x.brk \/ (b /\ here)
    /\ y.cont <=> x.cont \/ (~ b /\ here)

\* A jump that comes to pass is noted of the innermost loop of its function.
LEMMA TakenSo ==
    ASSUME FlowInv, open # <<>>, NEW isBreak \in BOOLEAN, NEW i \in DOMAIN open
    PROVE  TakesTo(open[i], Taken(isBreak)[i], isBreak, i = OwnLoop /\ Live)
<1>1. Typed /\ Shaped
    BY Shapes DEF FlowInv
<1>2. PICK s : s = Noted(FALSE)
    OBVIOUS
<1>3. s \in Seq(OpenT) /\ Len(s) = Len(open) /\ \A j \in 1 .. Len(open) : Same(open[j], s[j])
    BY <1>1, <1>2, NotedIs, NotedSame
<1>4. i \in 1 .. Len(open) /\ DOMAIN s = 1 .. Len(open) /\ i # 0
    BY <1>1, <1>3, SeqIs DEF Shaped
<1>5. s[i] \in OpenT /\ Same(open[i], s[i]) /\ open[i] \in OpenT
    BY <1>1, <1>3, <1>4, SeqIs DEF Shaped
<1>6. PICK l : l = OwnLoop
    OBVIOUS
<1>7. CASE l = 0 \/ ~ Live
    <2>1. Taken(isBreak) = s
        BY <1>2, <1>6, <1>7 DEF Taken
    <2>2. QED  BY <1>4, <1>5, <1>6, <1>7, <2>1 DEF TakesTo, Same
<1>8. CASE ~ (l = 0 \/ ~ Live)
    <2>1. Taken(isBreak) = [s EXCEPT ![l] = IF isBreak THEN [s[l] EXCEPT !.brk = TRUE]
                                            ELSE [s[l] EXCEPT !.cont = TRUE]]
        BY <1>2, <1>6, <1>8 DEF Taken
    <2>2. PICK y : y = Taken(isBreak)[i]
        OBVIOUS
    <2>3. CASE i # l
        <3>1. y = s[i]
            BY <1>4, <2>1, <2>2, <2>3
        <3>2. QED  BY <1>5, <1>6, <2>2, <2>3, <3>1 DEF TakesTo, Same
    <2>4. CASE i = l
        <3>1. y = IF isBreak THEN [s[i] EXCEPT !.brk = TRUE] ELSE [s[i] EXCEPT !.cont = TRUE]
            BY <1>4, <2>1, <2>2, <2>4
        <3>2. /\ Alike(s[i], y) /\ y.entry = s[i].entry
              /\ y.brk <=> s[i].brk \/ isBreak
              /\ y.cont <=> s[i].cont \/ ~ isBreak
            <4>1. CASE isBreak
                BY <1>5, <3>1, <4>1 DEF OpenT, Alike
            <4>2. CASE ~ isBreak
                BY <1>5, <3>1, <4>2 DEF OpenT, Alike
            <4>3. QED  BY <4>1, <4>2
        <3>3. Live
            BY <1>8
        <3>4. QED  BY <1>5, <1>6, <2>2, <2>4, <3>2, <3>3 DEF TakesTo, Same, Alike
    <2>5. QED  BY <2>3, <2>4
<1>9. QED  BY <1>7, <1>8

\* What the loop g, in section g, is after a jump out of it or on with it.
LoopTurns(x, y, isBreak, g, o, to, A, sec, nsec) ==
    /\ x.kind \in Loops /\ x.phase \in {"body", "step"} /\ Distinct(x)
    /\ NoteFits(sec, x, g, o) /\ Lit(sec, x)
    /\ to = (IF isBreak THEN x.end ELSE x.nxt)
    /\ A = (IF isBreak \/ (x.kind = "for" /\ x.phase = "body") THEN {to} ELSE {})
    /\ TakesTo(x, y, isBreak, TRUE)
    /\ x \in OpenT /\ isBreak \in BOOLEAN /\ g \in Nat /\ g # 0 /\ o \in Nat /\ o # 0
    /\ sec \in [Nat -> Nat] /\ nsec \in [Nat -> Nat]
    /\ \A b \in Nat : nsec[b] = IF b \in A THEN g ELSE sec[b]

\* The loop is noted as its blocks are.
LEMMA LoopTaken ==
    ASSUME NEW x, NEW y, NEW isBreak, NEW g, NEW o, NEW to, NEW A, NEW sec, NEW nsec,
           LoopTurns(x, y, isBreak, g, o, to, A, sec, nsec)
    PROVE  /\ NoteFits(nsec, y, g, o) /\ nsec[to] # 0
           /\ \A b \in A : WaitsFor(x, b) /\ b = to
<1>0. /\ x.kind \in Loops /\ x.phase \in {"body", "step"} /\ Distinct(x)
      /\ NoteFits(sec, x, g, o) /\ Lit(sec, x)
      /\ to = (IF isBreak THEN x.end ELSE x.nxt)
      /\ A = (IF isBreak \/ (x.kind = "for" /\ x.phase = "body") THEN {to} ELSE {})
      /\ TakesTo(x, y, isBreak, TRUE)
      /\ x \in OpenT /\ isBreak \in BOOLEAN /\ g \in Nat /\ g # 0 /\ o \in Nat /\ o # 0
      /\ sec \in [Nat -> Nat] /\ nsec \in [Nat -> Nat]
      /\ \A b \in Nat : nsec[b] = IF b \in A THEN g ELSE sec[b]
    BY DEF LoopTurns
<1>1. /\ x.begin \in Nat /\ x.nxt \in Nat /\ x.end \in Nat /\ x.nxt + 1 \in Nat /\ x.nxt + 1 # x.nxt
      /\ x.phase # "init"
    BY <1>0 DEF OpenT
<1>2. /\ y.kind = x.kind /\ y.phase = x.phase /\ y.begin = x.begin /\ y.nxt = x.nxt
      /\ y.end = x.end /\ y.entry = x.entry
      /\ y.brk <=> x.brk \/ isBreak
      /\ y.cont <=> x.cont \/ ~ isBreak
    BY <1>0 DEF TakesTo, Alike
<1>3. /\ x.begin # x.end /\ x.nxt # x.end
      /\ x.kind = "for" => x.begin # x.nxt /\ x.begin # x.nxt + 1 /\ x.nxt + 1 # x.end
    BY <1>0 DEF Distinct
<1>4. /\ sec[x.begin] = Mk(x.entry, g) /\ sec[x.end] = Mk(x.brk, g)
      /\ x.kind = "while" => sec[x.nxt] = Mk(x.entry, o)
      /\ x.kind = "for" => sec[x.nxt + 1] = Mk(x.entry, o)
      /\ x.kind = "for" /\ x.phase = "body" => sec[x.nxt] = Mk(x.cont, g)
    BY <1>0 DEF NoteFits
<1>5. x.entry /\ (x.phase = "step" => sec[x.nxt] # 0)
    BY <1>0, <1>1 DEF Lit
<1>6. x.kind \in {"while", "for"} /\ x.kind # "if" /\ (x.kind = "while" => x.kind # "for")
    BY <1>0 DEF Loops
<1>7. CASE isBreak
    <2>1. to = x.end /\ \A b \in Nat : nsec[b] = IF b = x.end THEN g ELSE sec[b]
        BY <1>0, <1>7
    <2>2. nsec[x.end] = Mk(y.brk, g) /\ nsec[x.begin] = Mk(y.entry, g)
        BY <1>0, <1>1, <1>2, <1>3, <1>4, <1>7, <2>1 DEF Mk
    <2>3. nsec[x.nxt] = sec[x.nxt] /\ (x.kind = "for" => nsec[x.nxt + 1] = sec[x.nxt + 1])
        BY <1>0, <1>1, <1>3, <2>1
    <2>4. y.cont <=> x.cont
        BY <1>0, <1>2, <1>7
    <2>5. NoteFits(nsec, y, g, o)
        BY <1>0, <1>1, <1>2, <1>4, <1>5, <1>6, <2>2, <2>3, <2>4 DEF NoteFits, Mk
    <2>6. QED  BY <1>0, <1>1, <1>7, <2>1, <2>5 DEF WaitsFor
<1>8. CASE ~ isBreak /\ x.kind = "for" /\ x.phase = "body"
    <2>1. to = x.nxt /\ \A b \in Nat : nsec[b] = IF b = x.nxt THEN g ELSE sec[b]
        BY <1>0, <1>8
    <2>2. nsec[x.nxt] = Mk(y.cont, g) /\ nsec[x.begin] = Mk(y.entry, g)
          /\ nsec[x.end] = Mk(y.brk, g) /\ nsec[x.nxt + 1] = Mk(y.entry, o)
        BY <1>0, <1>1, <1>2, <1>3, <1>4, <1>8, <2>1 DEF Mk
    <2>3. NoteFits(nsec, y, g, o)
        BY <1>0, <1>1, <1>2, <1>5, <1>6, <1>8, <2>2 DEF NoteFits
    <2>4. QED  BY <1>0, <1>1, <1>8, <2>1, <2>3 DEF WaitsFor
<1>9. CASE ~ isBreak /\ ~ (x.kind = "for" /\ x.phase = "body")
    <2>1. to = x.nxt /\ A = {} /\ \A b \in Nat : nsec[b] = sec[b]
        BY <1>0, <1>9
    <2>2. y.brk <=> x.brk
        BY <1>0, <1>2, <1>9
    <2>3. NoteFits(nsec, y, g, o)
        BY <1>0, <1>1, <1>2, <1>4, <1>5, <1>6, <1>9, <2>1, <2>2 DEF NoteFits, Mk
    <2>4. nsec[to] # 0
        BY <1>0, <1>1, <1>4, <1>5, <1>6, <1>9, <2>1 DEF Mk
    <2>5. QED  BY <1>0, <1>1, <2>1, <2>3, <2>4
<1>10. QED  BY <1>7, <1>8, <1>9

\* Some number is none of these.
LEMMA Another ==
    ASSUME NEW i \in Nat, NEW o \in Nat
    PROVE  \E k \in Nat : k # 0 /\ k # i /\ k # o
<1>1. i + o + 1 \in Nat /\ i + o + 1 # 0 /\ i + o + 1 # i /\ i + o + 1 # o
    OBVIOUS
<1>2. QED  BY <1>1

\* Break and Continue.
LEMMA LeapLive ==
    ASSUME FlowInv, FlowInv', LiveInv, Phases, Break \/ Continue
    PROVE  LiveInv'
<1>1. get_loop_parent
    BY DEF Break, Continue
<1>2. PICK to, isBreak : /\ isBreak \in BOOLEAN
                         /\ to = (IF isBreak THEN BreakTo ELSE ContinueTo)
                         /\ Jump(Br(to)) /\ open' = Taken(isBreak)
    BY DEF Break, Continue
<1>3. open # <<>> /\ Rising
    BY <1>1, InnermostLoop DEF LiveInv
<1>4. Typed /\ Shaped
    BY Shapes DEF FlowInv
<1>5. PICK g \in DOMAIN open :
          /\ open[g].kind \in Loops /\ Last(loop_stack) = <<open[g].nxt, open[g].end>>
          /\ FnAt(g) <= Fn
          /\ OwnLoop = 0 => FnAt(g) # Fn
          /\ OwnLoop # 0 => g = OwnLoop /\ FnAt(g) = Fn
          /\ OwnLoop # 0 /\ ~ Early => open[g].phase \in {"body", "step"} /\ Section(Len(open)) = g
    BY <1>1, <1>3, LeapLoop
<1>6. PICK x \in OpenT : x = open[g]
    BY <1>4 DEF Shaped
<1>7. to = IF isBreak THEN x.end ELSE x.nxt
    BY <1>2, <1>5, <1>6 DEF BreakTo, ContinueTo
<1>8. to \in Nat /\ Owns(x, to)
    <2>1. x.end \in Nat /\ x.nxt \in Nat
        BY DEF OpenT
    <2>2. QED  BY <1>5, <1>6, <1>7, <2>1 DEF Owns
<1>9. to \in Block /\ blocks[to].fn = FnAt(g)
    BY <1>6, <1>8 DEF FlowInv, OwnedFit, FnAt
<1>10. PICK t \in TermT : t = Br(to) /\ t.to = {to}
    BY <1>8, TermIs
<1>11. \A i \in DOMAIN open : TakesTo(open[i], open'[i], isBreak, i = OwnLoop /\ Live)
    BY <1>2, <1>3, TakenSo
<1>12. \A i \in DOMAIN open : ~ (i = OwnLoop /\ Live) => Same(open[i], open'[i])
    <2> SUFFICES ASSUME NEW i \in DOMAIN open, ~ (i = OwnLoop /\ Live) PROVE Same(open[i], open'[i])
        OBVIOUS
    <2>1. TakesTo(open[i], open'[i], isBreak, i = OwnLoop /\ Live)
        BY <1>11
    <2>2. /\ Alike(open[i], open'[i]) /\ open'[i].entry = open[i].entry
          /\ open'[i].brk <=> open[i].brk
          /\ open'[i].cont <=> open[i].cont
        BY <2>1 DEF TakesTo
    <2>3. open[i] \in OpenT
        BY <1>4 DEF Shaped
    <2>4. open' \in Seq(OpenT) /\ DOMAIN open' = DOMAIN open
        <3>1. open' \in Seq(OpenT) /\ Len(open') = Len(open)
            BY <1>2, <1>3, TakenIs
        <3>2. DOMAIN open' = 1 .. Len(open)
            BY <3>1, SeqIs
        <3>3. QED  BY <1>4, <3>1, <3>2 DEF Shaped
    <2>5. open'[i] \in OpenT
        BY <2>4, SeqIs
    <2>6. open'[i].brk \in BOOLEAN /\ open[i].brk \in BOOLEAN /\ open'[i].cont \in BOOLEAN /\ open[i].cont \in BOOLEAN
        BY <2>3, <2>5 DEF OpenT
    <2>7. open'[i].brk = open[i].brk /\ open'[i].cont = open[i].cont
        BY <2>2, <2>6
    <2>8. QED  BY <2>2, <2>7 DEF Same
<1>13. Leaps(t)
    <2>1. open' \in Seq(OpenT) /\ Len(open') = Len(open)
        BY <1>2, <1>3, TakenIs
    <2>2. ASSUME NEW i \in DOMAIN open
          PROVE  /\ Alike(open[i], open'[i]) /\ open'[i].entry = open[i].entry
                 /\ Flagged(open'[i]) => Live \/ Flagged(open[i])
                 /\ FnAt(i) # Fn => Same(open[i], open'[i])
        <3>1. TakesTo(open[i], open'[i], isBreak, i = OwnLoop /\ Live)
            BY <1>11
        <3>2. i # 0
            BY BlocksNat
        <3>3. i = OwnLoop => FnAt(i) = Fn
            BY <1>5, <3>2
        <3>4. FnAt(i) # Fn => Same(open[i], open'[i])
            BY <1>12, <3>3
        <3>5. Flagged(open'[i]) => Live \/ Flagged(open[i])
            BY <3>1 DEF TakesTo, Flagged
        <3>6. QED  BY <3>1, <3>4, <3>5 DEF TakesTo
    <2>3. \A b \in t.to : b \in Block /\ blocks[b].fn <= Fn
        BY <1>5, <1>9, <1>10
    <2>4. QED  BY <1>2, <1>3, <1>10, <2>1, <2>2, <2>3 DEF Leaps
<1>14. CASE OwnLoop = 0 \/ ~ Live
    <2>1. \A i \in DOMAIN open : Same(open[i], open'[i])
        <3>1. \A i \in DOMAIN open : i # 0
            BY BlocksNat
        <3>2. QED  BY <1>12, <1>14, <3>1
    <2>2. Live => \A b \in t.to : blocks[b].fn # Fn
        BY <1>5, <1>9, <1>10, <1>14
    <2>3. \A sec \in [Nat -> Nat], s \in Nat : LivesOn(Fn, sec, s) =>
              \E A \in SUBSET Nat : JumpFits(sec, t, s, A)
        BY <2>1, <2>2, JumpAway
    <2>4. QED  BY <1>13, <2>3, JumpLive
<1>15. CASE OwnLoop # 0 /\ Live
    <2>1. g = OwnLoop /\ FnAt(g) = Fn
        BY <1>5, <1>15
    <2>2. ASSUME Fn \notin early', NEW sec \in [Nat -> Nat], NEW s \in Nat, LivesOn(Fn, sec, s)
          PROVE  \E A \in SUBSET Nat : JumpFits(sec, t, s, A)
        <3>1. ~ Early
            BY <1>2, <2>2 DEF Jump
        <3>2. x.phase \in {"body", "step"} /\ s = g
            BY <1>5, <1>6, <1>15, <2>2, <3>1 DEF LivesOn
        <3>3. Lit(sec, x)
            BY <1>6, <1>15, <2>1, <2>2 DEF LivesOn
        <3>4. PICK o \in Nat : o = Section(g - 1) /\ o # 0
            <4>1. open[g].kind # "func" /\ ~ g = 1
                <5>1. open[g].kind # "func"
                    BY <1>5 DEF Loops
                <5>2. QED  BY <5>1, LevelIs
            <4>2. g - 1 \in DOMAIN open
                <5>1. PICK n \in Nat : n = Len(open) /\ DOMAIN open = 1 .. n
                    BY <1>4 DEF Shaped
                <5>2. g \in 1 .. n /\ g # 1
                    BY <4>1, <5>1
                <5>3. g - 1 \in 1 .. n
                    BY <5>2
                <5>4. QED  BY <5>1, <5>3
            <4>3. Section(g - 1) \in DOMAIN open
                BY <4>2, SectionIs
            <4>4. QED  BY <4>3, BlocksNat
        <3>5. NoteFits(sec, x, g, o) /\ g \in Nat /\ g # 0 /\ Distinct(x)
            BY <1>6, <2>1, <2>2, <3>4, BlocksNat DEF LivesOn, LiveFn, NotesFit, FlowInv, OwnedFit
        <3>6. PICK y : y = open'[g]
            OBVIOUS
        <3>7. TakesTo(x, y, isBreak, TRUE)
            BY <1>6, <1>11, <1>15, <2>1, <3>6 DEF TakesTo
        <3>8. PICK A : A = IF isBreak \/ (x.kind = "for" /\ x.phase = "body") THEN {to} ELSE {}
            OBVIOUS
        <3>9. ASSUME NEW nsec \in [Nat -> Nat], \A b \in Nat : nsec[b] = IF b \in A THEN g ELSE sec[b]
              PROVE  /\ NoteFits(nsec, y, g, o) /\ nsec[to] # 0
                     /\ \A b \in A : WaitsFor(x, b) /\ b = to
            <4>1. isBreak \in BOOLEAN /\ g \in Nat /\ g # 0 /\ o \in Nat /\ o # 0
                BY <1>2, <3>4, <3>5
            <4>2. LoopTurns(x, y, isBreak, g, o, to, A, sec, nsec)
                BY <1>5, <1>6, <1>7, <3>2, <3>3, <3>5, <3>7, <3>8, <3>9, <4>1 DEF LoopTurns
            <4>3. QED  BY <4>2, LoopTaken
        <3>10. A \in SUBSET Nat
            BY <1>8, <3>8
        <3>11. \A b \in A : b \in t.to /\ Awaited(b) /\ blocks[b].fn = Fn
            <4>1. \E nsec \in [Nat -> Nat] : \A b \in Nat : nsec[b] = IF b \in A THEN g ELSE sec[b]
                <5>1. PICK nsec : nsec = [b \in Nat |-> IF b \in A THEN g ELSE sec[b]]
                    OBVIOUS
                <5>2. nsec \in [Nat -> Nat]
                    BY <3>5, <5>1
                <5>3. QED  BY <5>1, <5>2
            <4>2. \A b \in A : WaitsFor(x, b) /\ b = to
                BY <3>9, <4>1
            <4>3. QED  BY <1>6, <1>9, <1>10, <2>1, <4>2 DEF Awaited
        <3>12. ASSUME NEW m \in Nat, NEW nsec \in [Nat -> Nat], Turned(sec, nsec, s, m, A, {}, FALSE)
               PROVE  /\ \A b \in t.to : blocks[b].fn = Fn => nsec[b] # 0
                      /\ \A i \in DOMAIN open : FnAt(i) = Fn => NoteFits(nsec, open'[i], i, Section(i - 1))
            <4>1. \A b \in Nat : nsec[b] = IF b \in A THEN g ELSE sec[b]
                BY <3>2, <3>12 DEF Turned
            <4>2. NoteFits(nsec, y, g, o) /\ nsec[to] # 0
                BY <3>9, <4>1
            <4>3. ASSUME NEW i \in DOMAIN open, FnAt(i) = Fn
                  PROVE  NoteFits(nsec, open'[i], i, Section(i - 1))
                <5>1. CASE i = g
                    BY <3>4, <3>6, <4>2, <5>1
                <5>2. CASE i # g
                    <6>1. Same(open[i], open'[i]) /\ open'[i].kind = open[i].kind
                        BY <1>12, <2>1, <5>2 DEF Same, Alike
                    <6>2. CASE open[i].kind = "func"
                        BY <6>1, <6>2, NoteSame
                    <6>3. CASE open[i].kind # "func"
                        <7>1. i # 1 /\ i \in Nat
                            BY <6>3, LevelIs
                        <7>2. i - 1 \in DOMAIN open
                            <8>1. PICK n \in Nat : n = Len(open) /\ DOMAIN open = 1 .. n
                                BY <1>4 DEF Shaped
                            <8>2. i \in 1 .. n
                                BY <8>1
                            <8>3. i - 1 \in 1 .. n
                                BY <7>1, <8>2
                            <8>4. QED  BY <8>1, <8>3
                        <7>3. PICK u \in Nat : u = Section(i - 1)
                            BY <7>2, SectionIs, BlocksNat
                        <7>4. PICK k \in Nat, z \in OpenT : k # 0 /\ k # i /\ k # u /\ z = open[i]
                            <8>1. open[i] \in OpenT
                                BY <1>4 DEF Shaped
                            <8>2. QED  BY <7>1, <7>3, <8>1, Another
                        <7>5. NoteFits(sec, z, i, u)
                            BY <2>2, <4>3, <7>3, <7>4 DEF LivesOn, LiveFn, NotesFit
                        <7>6. \A b \in Nat : Owns(z, b) => b \notin A
                            <8>1. ~ Owns(z, to)
                                BY <1>6, <1>8, <5>2, <7>4 DEF FlowInv, OwnedFit
                            <8>2. QED  BY <3>8, <8>1
                        <7>7. PICK joins \in BOOLEAN : joins = FALSE
                            OBVIOUS
                        <7>8. Remains(sec, nsec, z, i, u, s, k, joins)
                            BY <4>1, <7>4, <7>5, <7>6, <7>7 DEF Remains
                        <7>9. NoteFits(nsec, z, i, u)
                            BY <7>1, <7>8, NoteOther
                        <7>10. QED  BY <6>1, <7>3, <7>4, <7>9, NoteSame
                    <6>4. QED  BY <6>2, <6>3
                <5>3. QED  BY <5>1, <5>2
            <4>4. QED  BY <1>10, <4>2, <4>3
        <3>13. JumpFits(sec, t, s, A)
            BY <1>15, <3>11, <3>12 DEF JumpFits
        <3>14. QED  BY <3>10, <3>13
    <2>3. QED  BY <1>13, <2>2, JumpLive
<1>16. QED  BY <1>14, <1>15

-----------------------------------------------------------------------------
(* A function begins or is done. *)

\* The functions around are left as they are: m constructs stay, and one comes or goes.
Around(at, t, q, m) ==
    /\ Keeps(m) /\ Writes(at, t, q) /\ at \in {0, Here}
    /\ at # 0 => t.to = {} /\ Len(open) = m + 1 /\ open # <<>>
    /\ \/ Len(open) = m /\ FuncLast(m)'
       \/ Len(open') = m /\ FuncLast(m)
    /\ \A k \in DOMAIN builders : k \in DOMAIN builders' => builders'[k] = builders[k]
    /\ \A k \in DOMAIN builders : k \in DOMAIN builders' => lives'[k] = lives[k]
    /\ \A i \in 1 .. m : Same(open[i], open'[i])
    /\ early' = early /\ marks' \subseteq marks \cup {<<Here, Live>>}
    /\ open = <<>> => marks' \subseteq marks
    /\ \A b \in Nat : Fresh(b) => blocks'[b].fn \notin Block
    /\ Len(open') = m + 1 => FnAt(m + 1)' \notin Block

\* Where they are, before and after.
LEMMA AroundLevels ==
    ASSUME FlowInv, FlowInv', Rising, NEW at \in Nat, NEW t, NEW q, NEW m \in Nat, Around(at, t, q, m)
    PROVE  /\ \A i \in 1 .. m : /\ i \in DOMAIN open /\ i \in DOMAIN open' /\ i # m + 1
                                /\ Home(i)' = Home(i) /\ LivesAt(i)' = LivesAt(i)
                                /\ FnAt(i)' = FnAt(i) /\ FnAt(i) \in Block
                                /\ Tip(i)' <=> Tip(i)
           /\ \A i \in DOMAIN open : i \in 1 .. m \/ (i = m + 1 /\ Len(open) = m + 1)
           /\ \A i \in DOMAIN open' : i \in 1 .. m \/ (i = m + 1 /\ Len(open') = m + 1)
           /\ Len(open) = m + 1 => /\ m + 1 \in DOMAIN open /\ FnAt(m + 1) = Fn
                                   /\ open[m + 1].kind = "func"
                                   /\ \A i \in 1 .. m : FnAt(i) < Fn
           /\ \A b \in Block : blocks'[b].fn = blocks[b].fn
<1>1. Typed /\ Typed' /\ Shaped /\ Shaped'
    BY Shapes DEF FlowInv
<1>2. /\ Len(open) \in {m, m + 1} /\ Len(open') \in {m, m + 1} /\ Keeps(m)
      /\ \/ Len(open) = m /\ Len(open') = m + 1 /\ open'[m + 1].kind = "func"
         \/ Len(open') = m /\ Len(open) = m + 1 /\ open[m + 1].kind = "func"
      /\ m # m + 1
    BY DEF Around, Keeps, FuncLast
<1>3. /\ \A i \in 1 .. m : i \in DOMAIN open /\ i \in DOMAIN open' /\ i # m + 1
      /\ \A i \in DOMAIN open : i \in 1 .. m \/ (i = m + 1 /\ Len(open) = m + 1)
      /\ \A i \in DOMAIN open' : i \in 1 .. m \/ (i = m + 1 /\ Len(open') = m + 1)
      /\ Len(open) = m + 1 => m + 1 \in DOMAIN open
    <2>1. PICK n, p : n = Len(open) /\ p = Len(open') /\ DOMAIN open = 1 .. n /\ DOMAIN open' = 1 .. p
        BY <1>1 DEF Shaped
    <2>2. n \in {m, m + 1} /\ p \in {m, m + 1}
        BY <1>2, <2>1
    <2>3. \A k \in {m, m + 1} : /\ \A i \in 1 .. m : i \in 1 .. k /\ i # m + 1
                                /\ \A i \in 1 .. k : i \in 1 .. m \/ (i = m + 1 /\ k = m + 1)
                                /\ k = m + 1 => m + 1 \in 1 .. k
        OBVIOUS
    <2>4. QED  BY <2>1, <2>2, <2>3
<1>4. \A b \in Block : blocks'[b].fn = blocks[b].fn
    BY DEF Around, Writes
<1>5. ASSUME NEW i \in 1 .. m
      PROVE  /\ Home(i)' = Home(i) /\ LivesAt(i)' = LivesAt(i)
             /\ FnAt(i)' = FnAt(i) /\ FnAt(i) \in Block
             /\ Tip(i)' <=> Tip(i)
    <2>1. PICK u \in Nat : /\ u \in DOMAIN builders /\ u \in DOMAIN builders'
                           /\ Home(i) = builders[u] /\ Home(i)' = builders'[u]
                           /\ LivesAt(i) = lives[u] /\ LivesAt(i)' = lives'[u]
        BY <1>2, LevelsStay
    <2>2. Home(i)' = Home(i) /\ LivesAt(i)' = LivesAt(i)
        BY <2>1 DEF Around
    <2>3. FnAt(i) \in Block /\ Home(i) \in Block
        BY <1>3, LevelIs
    <2>4. FnAt(i)' = FnAt(i)
        BY <1>4, <2>2, <2>3 DEF FnAt
    <2>5. CASE i = m
        BY <1>2, <2>2, <2>3, <2>4, <2>5 DEF Tip
    <2>6. CASE i # m
        <3>1. i # Len(open) /\ i # Len(open') /\ i + 1 \in 1 .. m
            BY <1>2, <2>6
        <3>2. open'[i + 1].kind = open[i + 1].kind
            BY <1>2, <3>1 DEF Keeps, Alike
        <3>3. QED  BY <2>2, <2>3, <2>4, <3>1, <3>2 DEF Tip
    <2>7. QED  BY <2>2, <2>3, <2>4, <2>5, <2>6
<1>6. ASSUME Len(open) = m + 1
      PROVE  /\ m + 1 \in DOMAIN open /\ FnAt(m + 1) = Fn
             /\ open[m + 1].kind = "func"
             /\ \A i \in 1 .. m : FnAt(i) < Fn
    <2>1. m + 1 # m /\ \A i \in 1 .. m : i < m + 1
        OBVIOUS
    <2>2. open[m + 1].kind = "func" /\ m + 1 \in DOMAIN open
        BY <1>2, <1>3, <1>6, <2>1
    <2>3. open # <<>>
        BY <1>1, <1>6 DEF Shaped
    <2>4. FnAt(m + 1) = Fn
        <3>1. Home(Len(open)) = Here
            BY <2>3, HomeTop
        <3>2. QED  BY <1>6, <3>1 DEF FnAt, Fn
    <2>5. \A i \in 1 .. m : FnAt(i) < FnAt(m + 1)
        BY <1>3, <2>1, <2>2 DEF Rising
    <2>6. QED  BY <2>2, <2>4, <2>5
<1>7. QED  BY <1>3, <1>4, <1>5, <1>6

\* The functions around live on, and those that are done stay settled.
LEMMA AroundLives ==
    ASSUME FlowInv, FlowInv', LiveInv, NEW at \in Nat, NEW t, NEW q, NEW m \in Nat, Around(at, t, q, m)
    PROVE  /\ Upward' /\ MarksIn'
           /\ \A f \in Nat \ early' : (\E i \in 1 .. m : FnAt(i) = f) =>
                 \E sec \in [Nat -> Nat] : LiveFn(f, sec)'
           /\ \A f \in Closed \ early' : \A k \in marks' :
                 blocks'[k[1]].fn = f => (k[2] <=> Leads(f, k[1])')
<1>1. Typed /\ Typed' /\ Shaped /\ Shaped'
    BY Shapes DEF FlowInv
<1>2. Upward /\ Rising /\ MarksIn /\ Settled
    BY DEF LiveInv
<1>3. /\ \A i \in 1 .. m : /\ i \in DOMAIN open /\ i \in DOMAIN open' /\ i # m + 1
                           /\ Home(i)' = Home(i) /\ LivesAt(i)' = LivesAt(i)
                           /\ FnAt(i)' = FnAt(i) /\ FnAt(i) \in Block
                           /\ Tip(i)' <=> Tip(i)
      /\ \A i \in DOMAIN open : i \in 1 .. m \/ (i = m + 1 /\ Len(open) = m + 1)
      /\ \A i \in DOMAIN open' : i \in 1 .. m \/ (i = m + 1 /\ Len(open') = m + 1)
      /\ Len(open) = m + 1 => /\ m + 1 \in DOMAIN open /\ FnAt(m + 1) = Fn
                              /\ open[m + 1].kind = "func"
                              /\ \A i \in 1 .. m : FnAt(i) < Fn
      /\ \A b \in Block : blocks'[b].fn = blocks[b].fn
    BY <1>2, AroundLevels
<1>4. /\ Keeps(m) /\ Writes(at, t, q) /\ early' = early
      /\ at # 0 => /\ t.to = {} /\ Current(at) /\ at \in Block /\ blocks[at].fn = Fn
                   /\ Len(open) = m + 1
    <2>1. at # 0 => at = Here /\ open # <<>>
        BY DEF Around
    <2>2. at # 0 => Current(at) /\ at \in Block /\ blocks[at].fn = Fn
        BY <2>1, HomeTop DEF Fn
    <2>3. QED  BY <2>2 DEF Around
<1>5. /\ \A b \in Nat : b \in Block' <=> b \in Block \/ Fresh(b)
      /\ \A b \in Nat : b \in Block => ~ Fresh(b) /\ b # 0
      /\ Block \subseteq Block' /\ Block \subseteq Nat /\ Block' \subseteq Nat
    BY <1>4, SuccStep
<1>6. Upward'
    <2>1. at # 0 => Current(at) /\ \A to \in t.to : blocks'[to].fn <= blocks[at].fn
        BY <1>4
    <2>2. QED  BY <1>2, <1>4, <2>1, UpwardKeeps
<1>7. ASSUME NEW k \in marks'
      PROVE  \/ k \in marks
             \/ /\ k = <<Here, Live>> /\ open # <<>> /\ Here \in Block /\ Current(Here)
                /\ Live \in BOOLEAN /\ blocks[Here].fn = Fn /\ Fn \in Block
    <2>1. k \in marks \/ (k = <<Here, Live>> /\ open # <<>>)
        BY DEF Around
    <2>2. open # <<>> => /\ Here \in Block /\ Current(Here) /\ Live \in BOOLEAN
                         /\ blocks[Here].fn = Fn /\ Fn \in Block
        BY HomeTop, TopIs DEF Fn
    <2>3. QED  BY <2>1, <2>2
<1>8. \A k \in marks' : k[1] \in Block /\ k \in Block \X BOOLEAN
    <2>1. \A k \in marks : k \in Block \X BOOLEAN
        BY <1>2 DEF MarksIn
    <2>2. QED  BY <1>7, <2>1
<1>9. MarksIn'
    <2>1. marks' \subseteq Block' \X BOOLEAN
        BY <1>5, <1>8
    <2>2. ASSUME NEW k \in marks', Awaited(k[1])' PROVE FALSE
        <3>1. PICK b \in Nat : b = k[1] /\ b \in Block
            BY <1>5, <1>8
        <3>2. PICK i \in DOMAIN open' : WaitsFor(open'[i], b)
            BY <2>2, <3>1 DEF Awaited
        <3>3. i \in 1 .. m
            <4>1. i = m + 1 /\ Len(open') = m + 1 => open'[i].kind = "func"
                <5>1. Len(open') = m + 1 => Len(open') # m
                    OBVIOUS
                <5>2. QED  BY <5>1 DEF Around, FuncLast
            <4>2. open'[i].kind # "func"
                BY <3>2 DEF WaitsFor, Loops
            <4>3. QED  BY <1>3, <4>1, <4>2
        <3>4. WaitsFor(open[i], b)
            <4>1. Alike(open[i], open'[i])
                BY <1>4, <3>3 DEF Keeps
            <4>2. QED  BY <3>2, <4>1 DEF Alike, WaitsFor
        <3>5. Awaited(b)
            BY <1>3, <3>3, <3>4 DEF Awaited
        <3>6. CASE k \in marks
            BY <1>2, <3>1, <3>5, <3>6 DEF MarksIn
        <3>7. CASE k = <<Here, Live>> /\ Current(Here)
            <4>1. b = Here
                BY <3>1, <3>7
            <4>2. ~ Current(b)
                BY <1>3, <3>3, <3>4 DEF FlowInv, OwnedFit
            <4>3. QED  BY <3>7, <4>1, <4>2
        <3>8. QED  BY <1>7, <3>6, <3>7
    <2>3. QED  BY <2>1, <2>2 DEF MarksIn
<1>10. ASSUME NEW f \in Nat \ early', NEW l \in 1 .. m, FnAt(l) = f
       PROVE  \E sec \in [Nat -> Nat] : LiveFn(f, sec)'
    <2>1. PICK sec \in [Nat -> Nat] : LiveFn(f, sec)
        BY <1>3, <1>4, <1>10 DEF LiveInv
    <2>2. f \in Block
        BY <1>3, <1>10
    <2>3. \A b \in Nat : Fresh(b) => blocks'[b].fn # f
        BY <2>2 DEF Around
    <2>4. Len(open) = m + 1 => Fn # f
        <3>1. \A i \in Nat : ~ (i < i)
            OBVIOUS
        <3>2. QED  BY <1>3, <1>10, <3>1
    <2>5. \A i \in DOMAIN open : i \in 1 .. m \/ FnAt(i) # f
        BY <1>3, <2>4
    <2>6. \A i \in DOMAIN open' : i \in 1 .. m \/ FnAt(i)' # f
        BY <1>3, <2>2 DEF Around
    <2>7. \A i \in 1 .. m : FnAt(i)' = FnAt(i)
        BY <1>3
    <2>8. \A i \in 1 .. m : FnAt(i) = f =>
              /\ Same(open[i], open'[i]) /\ Home(i)' = Home(i)
              /\ LivesAt(i)' = LivesAt(i) /\ (Tip(i)' <=> Tip(i))
        BY <1>3 DEF Around
    <2>9. ASSUME NEW k \in marks', blocks'[k[1]].fn = f
          PROVE  (k \in marks /\ blocks[k[1]].fn = f) \/ (k[2] <=> sec[k[1]] # 0)
        <3>1. blocks[k[1]].fn = f
            BY <1>3, <1>8, <2>9
        <3>2. CASE k \in marks
            BY <3>1, <3>2
        <3>3. CASE k = <<Here, Live>> /\ open # <<>>
            <4>1. /\ Home(Len(open)) = Here /\ Len(open) \in DOMAIN open
                  /\ UpTo(Funcs, Len(open)) = Len(builders)
                BY <3>3, HomeTop
            <4>2. FnAt(Len(open)) = f /\ LivesAt(Len(open)) = Live /\ Tip(Len(open))
                <5>1. Len(lives) = Len(builders)
                    BY DEF FlowInv, LevelsFit
                <5>2. QED  BY <3>1, <3>3, <4>1, <5>1 DEF FnAt, LivesAt, Live, Last, Tip
            <4>3. sec[Here] = Mk(Live, Section(Len(open)))
                BY <2>1, <4>1, <4>2 DEF LiveFn, StandsFit
            <4>4. Section(Len(open)) # 0
                BY <4>1, SectionIs, BlocksNat
            <4>5. Live \in BOOLEAN
                BY <3>3, TopIs
            <4>6. Live <=> sec[Here] # 0
                BY <4>3, <4>4, <4>5 DEF Mk
            <4>7. k[1] = Here /\ k[2] = Live
                BY <3>3
            <4>8. QED  BY <4>6, <4>7
        <3>4. QED  BY <1>7, <3>2, <3>3
    <2>10. at # 0 => Current(at) /\ blocks[at].fn # f
        BY <1>4, <2>4
    <2>11. LiveFn(f, sec)'
        BY <1>4, <2>1, <2>3, <2>5, <2>6, <2>7, <2>8, <2>9, <2>10, LiveStays
    <2>12. QED  BY <2>11
<1>11. ASSUME NEW f \in Closed \ early', NEW k \in marks', blocks'[k[1]].fn = f
       PROVE  k[2] <=> Leads(f, k[1])'
    <2>1. f \in Block /\ blocks[f].fn = f /\ f \in Closed \ early
        BY <1>4, <1>11 DEF Closed, Entries
    <2>2. PICK b \in Block : b = k[1]
        BY <1>8
    <2>3. blocks[b].fn = f
        BY <1>3, <1>11, <2>2
    <2>4. open # <<>> => Fn # f
        <3>1. open # <<>> => Here = builders[Len(builders)] /\ Len(builders) \in DOMAIN builders
            BY HomeTop
        <3>2. QED  BY <1>11, <3>1 DEF Closed, Fn
    <2>5. k \in marks
        BY <1>7, <2>2, <2>3, <2>4
    <2>6. k[2] <=> Leads(f, b)
        BY <1>2, <2>1, <2>2, <2>3, <2>5 DEF Settled
    <2>7. at # 0 => Current(at) /\ blocks[at].fn # f
        <3>1. at # 0 => open # <<>>
            BY DEF Around
        <3>2. QED  BY <1>4, <2>4, <3>1
    <2>8. Leads(f, b)' <=> Leads(f, b)
        BY <1>4, <1>6, <2>1, <2>3, <2>7, LeadsKeeps
    <2>9. QED  BY <2>2, <2>6, <2>8
<1>12. QED  BY <1>6, <1>9, <1>10, <1>11

-----------------------------------------------------------------------------

\* A function of its own begins in q, at the level behind the m-th.
Begins(t, q, m) ==
    /\ Around(0, t, q, m) /\ Len(open) = m /\ Len(open') = m + 1 /\ open'[m + 1].kind = "func"
    /\ q # 0 /\ q \notin Block /\ \A b \in Block : b < q
    /\ \A b \in Nat : Fresh(b) <=> b = q
    /\ blocks'[q].fn = q /\ Successors(q)' = {}
    /\ Home(m + 1)' = q /\ LivesAt(m + 1)' = TRUE /\ FnAt(m + 1)' = q
    /\ Len(builders') = Len(builders) + 1 /\ builders'[Len(builders')] = q
    /\ \A k \in DOMAIN builders : k \in DOMAIN builders' /\ builders'[k] = builders[k]

\* FuncDecl does that.
LEMMA FuncDeclBegins ==
    ASSUME FlowInv, FlowInv', NEW ret \in Rets, NEW method \in BOOLEAN, FuncDecl(ret, method)
    PROVE  \E t \in TermT, q \in Nat, m \in Nat : Begins(t, q, m)
<1>1. Typed /\ Shaped /\ Typed' /\ Shaped'
    BY Shapes DEF FlowInv
<1>2. PICK m \in Nat : m = Len(open) /\ m # m + 1 /\ m + 1 \in Nat
    <2>1. PICK m \in Nat : m = Len(open)
        BY <1>1 DEF Shaped
    <2>2. m # m + 1 /\ m + 1 \in Nat
        OBVIOUS
    <2>3. QED  BY <2>1, <2>2
<1>3. PICK q \in Nat : q = Next1
    BY NextsAre
<1>4. PICK x \in OpenT : x = [Construct("func", "body") EXCEPT !.ret = ret, !.method = method]
    BY DEF OpenT, Construct
<1>5. x.kind = "func"
    BY <1>4 DEF Construct
<1>6. /\ blocks' = Append(blocks, NewBlock(q, ret, TRUE)) /\ builders' = Append(builders, q)
      /\ open' = (IF open = <<>> THEN <<x>> ELSE Append(Noted(FALSE), x))
      /\ lives' = Append(lives, TRUE)
      /\ early' = early /\ marks' \subseteq marks \cup {<<Here, Live>>}
      /\ open = <<>> => marks' \subseteq marks
    BY <1>3, <1>4 DEF FuncDecl, Marked
<1>7. /\ Len(open') = m + 1 /\ open'[m + 1] = x /\ Keeps(m)
      /\ \A i \in 1 .. m : Same(open[i], open'[i])
    <2>1. CASE open = <<>>
        <3>1. m = 0 /\ open' = <<x>>
            BY <1>1, <1>2, <1>6, <2>1 DEF Shaped
        <3>2. Len(open') = 1 /\ open'[1] = x
            BY <3>1
        <3>3. Len(open) = 0
            BY <1>2, <3>1
        <3>4. \A i \in 1 .. m : FALSE
            BY <3>1
        <3>5. QED  BY <1>2, <3>1, <3>2, <3>3, <3>4 DEF Keeps
    <2>2. CASE open # <<>>
        <3>1. open' = Append(Noted(FALSE), x)
            BY <1>6, <2>2
        <3>2. Keeps(m) /\ Len(open') = m + 1 /\ open'[m + 1] = x /\ SameBelow(m)
            BY <1>2, <2>2, <3>1, PushSame
        <3>3. QED  BY <3>2 DEF SameBelow
    <2>3. QED  BY <2>1, <2>2
<1>8. PICK t \in TermT : TRUE
    BY TermIs
<1>9. /\ Writes(0, t, q) /\ blocks'[q].placed
      /\ \A b \in Nat : Fresh(b) <=> b = q
      /\ q # 0 /\ q \notin Block
    BY <1>3, <1>6, EntryMade
<1>10. blocks'[q] = NewBlock(q, ret, TRUE)
    <2>1. q = Len(blocks) + 1
        BY <1>3 DEF Next1
    <2>2. blocks \in Seq(BlockT)
        BY <1>1 DEF Typed
    <2>3. NewBlock(q, ret, TRUE) \in BlockT
        <3>1. <<>> \in Seq(TermT)
            BY EmptySeq
        <3>2. QED  BY <3>1 DEF NewBlock, BlockT
    <2>4. PICK x2 \in BlockT : x2 = NewBlock(q, ret, TRUE)
        BY <2>3
    <2>5. Append(blocks, x2)[Len(blocks) + 1] = x2
        BY <2>2, <2>4, AppendIs
    <2>6. QED  BY <1>6, <2>1, <2>4, <2>5
<1>11. blocks'[q].fn = q /\ Successors(q)' = {}
    BY <1>10 DEF NewBlock, Successors
<1>12. \A b \in Block : b < q
    <2>1. PICK n \in Nat : n = Len(blocks) /\ Block = 1 .. n /\ q = n + 1
        BY <1>1, <1>3 DEF Shaped, Next1
    <2>2. QED  BY <2>1
<1>13. /\ Len(builders') = Len(builders) + 1
       /\ builders'[Len(builders')] = q
       /\ \A k \in DOMAIN builders : k \in DOMAIN builders' => builders'[k] = builders[k]
    BY <1>6, <1>9, BuilderCame
<1>14. Len(builders) \in Nat /\ DOMAIN builders = 1 .. Len(builders)
       /\ DOMAIN builders' = 1 .. Len(builders')
    BY <1>1 DEF Shaped
<1>15. \A k \in DOMAIN builders : k \in DOMAIN builders'
    BY <1>13, <1>14
<1>16. PICK n \in Nat : /\ n = Len(builders) /\ n = Len(lives) /\ lives \in Seq(BOOLEAN)
                        /\ Len(builders') = n + 1
    BY <1>1, <1>13, <1>14 DEF FlowInv, LevelsFit, Typed
<1>17. lives'[n + 1] = TRUE /\ \A k \in 1 .. n : lives'[k] = lives[k]
    <2>1. TRUE \in BOOLEAN
        OBVIOUS
    <2>2. /\ \A i \in 1 .. Len(lives) : Append(lives, TRUE)[i] = lives[i]
          /\ Append(lives, TRUE)[Len(lives) + 1] = TRUE
        BY <1>16, <2>1, AppendIs
    <2>3. QED  BY <1>6, <1>16, <2>2
<1>18. Len(builders') = Cardinality(Funcs')
    BY DEF FlowInv, LevelsFit
<1>19. Home(m + 1)' = q
    BY <1>1, <1>7, <1>13, <1>18, HomesStay
<1>20. FnAt(m + 1)' = q
    BY <1>11, <1>19 DEF FnAt
<1>21. LivesAt(m + 1)' = TRUE
    <2>1. PICK Q : Q = Funcs'
        OBVIOUS
    <2>2. Q \in SUBSET (1 .. m + 1)
        BY <1>1, <1>7, <2>1 DEF Funcs, Shaped
    <2>3. \A j \in Q : j <= m + 1
        BY <2>2
    <2>4. UpTo(Q, m + 1) = Cardinality(Q)
        BY <1>2, <2>2, <2>3, CountAll
    <2>5. UpTo(Funcs', m + 1) = n + 1
        BY <1>16, <1>18, <2>1, <2>4
    <2>6. LivesAt(m + 1)' = lives'[n + 1]
        BY <2>5 DEF LivesAt
    <2>7. QED  BY <1>17, <2>6
<1>22. Around(0, t, q, m)
    <2>1. \A b \in Nat : Fresh(b) => blocks'[b].fn \notin Block
        BY <1>9, <1>11
    <2>2. FuncLast(m)'
        BY <1>5, <1>7 DEF FuncLast
    <2>3. \A k \in DOMAIN builders : k \in DOMAIN builders' => lives'[k] = lives[k]
        BY <1>14, <1>16, <1>17
    <2>4. FnAt(m + 1)' \notin Block
        BY <1>9, <1>20
    <2>5. QED  BY <1>2, <1>6, <1>7, <1>9, <1>13, <2>1, <2>2, <2>3, <2>4 DEF Around
<1>23. Begins(t, q, m)
    BY <1>2, <1>5, <1>7, <1>9, <1>11, <1>12, <1>13, <1>15, <1>19, <1>20, <1>21, <1>22 DEF Begins
<1>24. QED  BY <1>23

\* The entry of a new function lives.
LEMMA EntryLives ==
    ASSUME FlowInv, FlowInv', MarksIn, NEW t, NEW q \in Nat, NEW m \in Nat, Begins(t, q, m),
           \A i \in 1 .. m : FnAt(i)' # q,
           \A i \in DOMAIN open' : i \in 1 .. m \/ i = m + 1
    PROVE  \E sec \in [Nat -> Nat] : LiveFn(q, sec)'
<1>1. PICK sec : sec = [b \in Nat |-> IF b = q THEN m + 1 ELSE 0]
    OBVIOUS
<1>2. sec \in [Nat -> Nat] /\ \A b \in Nat : sec[b] = IF b = q THEN m + 1 ELSE 0
    BY <1>1
<1>3. m + 1 # 0 /\ m + 1 \in Nat
    OBVIOUS
<1>4. Typed /\ Shaped /\ Typed' /\ Shaped'
    BY Shapes DEF FlowInv
<1>5. m + 1 \in DOMAIN open' /\ open'[m + 1].kind = "func" /\ ~ (open'[m + 1].kind \in Loops)
    BY <1>4 DEF Begins, Shaped, Loops
<1>6. /\ \A b \in Nat : b \in Block' <=> b \in Block \/ Fresh(b)
      /\ Block \subseteq Block' /\ Block \subseteq Nat /\ Block' \subseteq Nat
    <2>1. Writes(0, t, q)
        BY DEF Begins, Around
    <2>2. PICK at \in Nat : at = 0
        OBVIOUS
    <2>3. Writes(at, t, q) /\ (at # 0 => Current(at))
        BY <2>1, <2>2
    <2>4. QED  BY <2>3, SuccStep
<1>7. q \in Block' /\ blocks'[q].fn = q /\ Successors(q)' = {}
    BY <1>6 DEF Begins
<1>8. \A b \in Nat : sec[b] # 0 => b = q
    BY <1>2
<1>9. sec[q] = m + 1
    BY <1>2
<1>10. \A i \in DOMAIN open' : FnAt(i)' = q => i = m + 1
    OBVIOUS
<1>11. SectionsFit(q, sec)'
    <2>1. FnAt(m + 1)' = q
        BY DEF Begins
    <2>2. QED  BY <1>3, <1>5, <1>7, <1>8, <1>9, <2>1 DEF SectionsFit
<1>12. OnwardFit(q, sec)'
    BY <1>7, <1>8 DEF OnwardFit
<1>13. JustFit(q, sec)'
    <2> SUFFICES ASSUME NEW i \in DOMAIN open', FnAt(i)' = q,
                        NEW C \in SUBSET Block', Base(i)' \in C, NEW b \in Nat, sec[b] = i
                 PROVE  b \in C
        BY DEF JustFit
    <2>1. i = m + 1 /\ b = q
        BY <1>3, <1>8, <1>10
    <2>2. Base(i)' = q
        BY <1>5, <2>1 DEF Base
    <2>3. QED  BY <2>1, <2>2
<1>14. PICK k : k = m + 1
    OBVIOUS
<1>15. Section(k)' = k
    <2>1. k \in Openers(k)'
        BY <1>3, <1>5, <1>14 DEF Openers, Opens
    <2>2. \A j \in Openers(k)' : j <= k /\ j \in Nat
        BY <1>4 DEF Openers, Shaped
    <2>3. \A j \in Openers(k)' : (\A l \in Openers(k)' : l <= j) => j = k
        BY <1>3, <1>14, <2>1, <2>2
    <2>4. k <= k
        BY <1>3, <1>14
    <2>5. QED  BY <2>1, <2>2, <2>3, <2>4 DEF Section
<1>16. StandsFit(q, sec)'
    <2>1. Home(k)' = q /\ LivesAt(k)' = TRUE
        BY <1>14 DEF Begins
    <2>2. \A i \in DOMAIN open' : FnAt(i)' = q => i = k
        BY <1>10, <1>14
    <2>3. sec[Home(k)'] = Mk(LivesAt(k)', Section(k)')
        BY <1>9, <1>14, <1>15, <2>1 DEF Mk
    <2>4. QED  BY <2>2, <2>3 DEF StandsFit
<1>17. NotesFit(q, sec)'
    BY <1>5, <1>10, NoteSame DEF NotesFit
<1>18. DeadFit(q, sec)'
    BY <1>5, <1>10 DEF DeadFit, Lit
<1>19. MarksFit(q, sec)'
    <2>1. ASSUME NEW l \in marks' PROVE l[1] \in Block
        <3>1. l \in marks \/ (l = <<Here, Live>> /\ open # <<>>)
            BY DEF Begins, Around
        <3>2. l \in marks => l[1] \in Block
            BY DEF MarksIn
        <3>3. open # <<>> => Here \in Block
            BY HomeTop
        <3>4. QED  BY <3>1, <3>2, <3>3
    <2>2. \A b \in Block : blocks'[b].fn = blocks[b].fn /\ blocks[b].fn \in Block
        BY DEF Begins, Around, Writes, FlowInv, BlocksFit
    <2>3. \A l \in marks' : blocks'[l[1]].fn # q
        BY <2>1, <2>2 DEF Begins
    <2>4. QED  BY <2>3 DEF MarksFit
<1>20. LiveFn(q, sec)'
    BY <1>11, <1>12, <1>13, <1>16, <1>17, <1>18, <1>19 DEF LiveFn
<1>21. QED  BY <1>2, <1>20

\* FuncDecl.
LEMMA FuncDeclLive ==
    ASSUME FlowInv, FlowInv', LiveInv, NEW ret \in Rets, NEW method \in BOOLEAN,
           FuncDecl(ret, method)
    PROVE  LiveInv'
<1>1. PICK t \in TermT, q \in Nat, m \in Nat : Begins(t, q, m)
    BY FuncDeclBegins
<1>2. PICK at \in Nat : at = 0
    OBVIOUS
<1>3. Around(at, t, q, m) /\ Rising /\ MarksIn
    BY <1>1, <1>2 DEF Begins, LiveInv
<1>4. Typed /\ Shaped /\ Typed' /\ Shaped'
    BY Shapes DEF FlowInv
<1>5. /\ \A i \in 1 .. m : /\ i \in DOMAIN open /\ i \in DOMAIN open' /\ i # m + 1
                           /\ FnAt(i)' = FnAt(i) /\ FnAt(i) \in Block
      /\ \A i \in DOMAIN open' : i \in 1 .. m \/ (i = m + 1 /\ Len(open') = m + 1)
      /\ \A b \in Block : blocks'[b].fn = blocks[b].fn
    BY <1>3, AroundLevels
<1>6. /\ Upward' /\ MarksIn'
      /\ \A f \in Nat \ early' : (\E i \in 1 .. m : FnAt(i) = f) =>
            \E sec \in [Nat -> Nat] : LiveFn(f, sec)'
      /\ \A f \in Closed \ early' : \A k \in marks' :
            blocks'[k[1]].fn = f => (k[2] <=> Leads(f, k[1])')
    BY <1>3, AroundLives
<1>7. \A b \in Block : b \in Nat /\ b < q /\ b # q
    BY <1>1, <1>4 DEF Begins, Shaped
<1>8. FnAt(m + 1)' = q
    BY <1>1 DEF Begins
<1>9. Rising'
    <2> SUFFICES ASSUME NEW i \in DOMAIN open', NEW j \in DOMAIN open', i < j
                 PROVE  /\ FnAt(i)' <= FnAt(j)'
                        /\ open'[j].kind = "func" => FnAt(i)' < FnAt(j)'
        BY DEF Rising
    <2>1. i \in 1 .. m
        BY <1>5, Below
    <2>2. CASE j \in 1 .. m
        <3>1. open'[j].kind = open[j].kind
            BY <1>3, <2>2 DEF Around, Keeps, Alike
        <3>2. /\ FnAt(i) <= FnAt(j)
              /\ open[j].kind = "func" => FnAt(i) < FnAt(j)
            BY <1>3, <1>5, <2>1, <2>2 DEF Rising
        <3>3. QED  BY <1>5, <2>1, <2>2, <3>1, <3>2
    <2>3. CASE j = m + 1
        <3>1. FnAt(i) < q /\ FnAt(i) \in Nat
            BY <1>5, <1>7, <2>1
        <3>2. FnAt(i) <= q
            BY <3>1
        <3>3. QED  BY <1>5, <1>8, <2>1, <2>3, <3>1, <3>2
    <2>4. QED  BY <1>5, <2>2, <2>3
<1>10. \A f \in Closed' : f \in Closed
    <2> SUFFICES ASSUME NEW f \in Closed' PROVE f \in Closed
        OBVIOUS
    <2>1. f \in Block' /\ blocks'[f].fn = f /\ \A k \in DOMAIN builders' : blocks'[builders'[k]].fn # f
        BY DEF Closed, Entries
    <2>2. f # q
        <3>1. Len(builders') \in DOMAIN builders'
            BY <1>1, <1>4 DEF Begins, Shaped
        <3>2. QED  BY <1>1, <2>1, <3>1 DEF Begins
    <2>3. f \in Block
        <3>1. PICK b \in Nat : b = f
            BY <1>4, <2>1 DEF Shaped
        <3>2. b \in Block' => b \in Block \/ Fresh(b)
            <4>1. Block' = 1 .. Len(blocks') /\ Block = 1 .. Len(blocks) /\ Len(blocks) \in Nat
                BY <1>4 DEF Shaped
            <4>2. Len(blocks') \in Nat
                BY <1>4 DEF Shaped
            <4>3. QED  BY <4>1, <4>2 DEF Fresh
        <3>3. QED  BY <1>1, <2>1, <2>2, <3>1, <3>2 DEF Begins
    <2>4. \A k \in DOMAIN builders : blocks[builders[k]].fn # f
        <3>1. \A k \in DOMAIN builders : builders[k] \in Block
            BY DEF FlowInv, BuildersFit
        <3>2. \A k \in DOMAIN builders : k \in DOMAIN builders' /\ builders'[k] = builders[k]
            BY <1>1 DEF Begins
        <3>3. QED  BY <1>5, <2>1, <3>1, <3>2
    <2>5. QED  BY <1>5, <2>1, <2>3, <2>4 DEF Closed, Entries
<1>11. Settled'
    BY <1>6, <1>10 DEF Settled
<1>12. \E sec \in [Nat -> Nat] : LiveFn(q, sec)'
    <2>1. \A i \in 1 .. m : FnAt(i)' # q
        BY <1>5, <1>7
    <2>2. QED  BY <1>1, <1>3, <1>5, <2>1, EntryLives
<1>13. \A f \in Nat \ early' : (\E i \in DOMAIN open' : FnAt(i)' = f) =>
           \E sec \in [Nat -> Nat] : LiveFn(f, sec)'
    <2> SUFFICES ASSUME NEW f \in Nat \ early', NEW i \in DOMAIN open', FnAt(i)' = f
                 PROVE  \E sec \in [Nat -> Nat] : LiveFn(f, sec)'
        OBVIOUS
    <2>1. CASE i \in 1 .. m
        BY <1>5, <1>6, <2>1
    <2>2. CASE i = m + 1
        <3>1. f = q
            BY <1>8, <2>2
        <3>2. QED  BY <1>12, <3>1
    <2>3. QED  BY <1>5, <2>1, <2>2
<1>14. QED  BY <1>6, <1>9, <1>11, <1>13 DEF LiveInv

-----------------------------------------------------------------------------

\* The function is done at its level, the last one.
Finishes(t, m) ==
    /\ Around(Here, t, 0, m) /\ t.to = {} /\ Len(open) = m + 1 /\ open # <<>> /\ Len(open') = m
    /\ open[m + 1].kind = "func" /\ \A i \in 1 .. m : open'[i] = open[i]
    /\ marks' = marks \cup {<<Here, Live>>} /\ early' = early
    /\ \A b \in Nat : ~ Fresh(b)
    /\ Len(builders') + 1 = Len(builders)
    /\ \A k \in DOMAIN builders : k \in DOMAIN builders' => builders'[k] = builders[k]

\* FuncEnd does that, unless it throws.
LEMMA FuncEndFinishes ==
    ASSUME FlowInv, FlowInv', NEW value, FuncEnd(value), ~ ConvertFails(value)
    PROVE  \E t \in TermT, m \in Nat : Finishes(t, m)
<1>1. /\ open # <<>> /\ Top.kind = "func"
      /\ blocks' = Terminate(blocks, Here, TailRet(value))
      /\ builders' = Front(builders) /\ open' = Front(open) /\ lives' = Front(lives)
      /\ marks' = marks \cup {<<Here, Live>>} /\ early' = early
    BY DEF FuncEnd, OuterBuilder
<1>2. Typed /\ Shaped /\ Typed' /\ Shaped'
    BY Shapes DEF FlowInv
<1>3. PICK m \in Nat : Len(open) = m + 1 /\ Top = open[m + 1]
    BY <1>1, TopIs
<1>4. PICK t \in TermT : t = TailRet(value) /\ t.to = {}
    BY <1>1, TailIs
<1>5. /\ Here \in Block /\ Here \in Nat /\ Here # 0 /\ Here \in 1 .. Len(blocks)
      /\ blocks[Here].term = <<>>
    BY <1>1, <1>2, HomeTop DEF Shaped
<1>6. /\ Len(blocks') = Len(blocks)
      /\ \A b \in 1 .. Len(blocks) :
             /\ blocks'[b].fn = blocks[b].fn
             /\ blocks'[b].type = blocks[b].type
             /\ blocks'[b].placed = blocks[b].placed
             /\ blocks'[b].phi = blocks[b].phi
             /\ b # Here => blocks'[b].term = blocks[b].term
      /\ blocks'[Here].term = <<t>>
    <2>1. blocks' = Terminate(blocks, Here, t) /\ blocks \in Seq(BlockT)
        BY <1>1, <1>2, <1>4 DEF Typed
    <2>2. EndsIn(blocks, blocks', Here, t)
        BY <1>4, <1>5, <2>1, TerminateIs
    <2>3. Append(<<>>, t) = <<t>>
        OBVIOUS
    <2>4. QED  BY <1>5, <2>1, <2>2, <2>3 DEF EndsIn
<1>7. \A b \in Nat : ~ Fresh(b)
    BY <1>2, <1>6 DEF Fresh, Shaped
<1>8. Writes(Here, t, 0)
    <2>1. \A b \in Block : b \in 1 .. Len(blocks)
        BY <1>2 DEF Shaped
    <2>2. Len(blocks) <= Len(blocks')
        BY <1>2, <1>6 DEF Shaped
    <2>3. \A b \in Block :
              /\ blocks'[b].fn = blocks[b].fn /\ blocks'[b].type = blocks[b].type
              /\ blocks'[b].term = IF b = Here THEN <<t>> ELSE blocks[b].term
              /\ blocks[b].placed => blocks'[b].placed
              /\ b # 0 => blocks'[b].phi = blocks[b].phi
        BY <1>6, <2>1
    <2>4. QED  BY <1>4, <1>7, <2>2, <2>3 DEF Writes
<1>9. /\ Len(builders') + 1 = Len(builders)
      /\ \A k \in DOMAIN builders : k \in DOMAIN builders' => builders'[k] = builders[k]
    BY <1>1, BuilderWent
<1>10. \A k \in DOMAIN builders : k \in DOMAIN builders' => lives'[k] = lives[k]
    <2>1. lives \in Seq(BOOLEAN) /\ lives # <<>>
        BY <1>1, TopIs
    <2>2. \A k \in 1 .. Len(lives) - 1 : lives'[k] = lives[k]
        BY <1>1, <2>1, FrontIs
    <2>3. PICK n \in Nat : /\ n = Len(builders') /\ DOMAIN builders' = 1 .. n
                           /\ Len(builders) = n + 1
        BY <1>2, <1>9 DEF Shaped
    <2>4. Len(lives) - 1 = n
        <3>1. Len(lives) = n + 1
            BY <2>3 DEF FlowInv, LevelsFit
        <3>2. QED  BY <2>3, <3>1
    <2>5. QED  BY <2>2, <2>3, <2>4
<1>11. /\ Len(open') = m /\ \A i \in 1 .. m : open'[i] = open[i]
    <2>1. /\ Front(open) \in Seq(OpenT) /\ Len(Front(open)) = Len(open) - 1
          /\ \A i \in 1 .. Len(open) - 1 : Front(open)[i] = open[i]
        BY <1>1, Changed
    <2>2. Len(open) - 1 = m
        BY <1>3
    <2>3. QED  BY <1>1, <2>1, <2>2
<1>12. Keeps(m)
    BY <1>3, <1>11, KeepsBelow
<1>13. Around(Here, t, 0, m)
    <2>1. \A i \in 1 .. m : Same(open[i], open'[i])
        BY <1>11 DEF Same, Alike
    <2>2. FuncLast(m)
        BY <1>1, <1>3 DEF FuncLast
    <2>3. Len(open') # m + 1
        BY <1>11
    <2>4. QED  BY <1>1, <1>3, <1>4, <1>7, <1>8, <1>9, <1>10, <1>11, <1>12, <2>1, <2>2, <2>3 DEF Around
<1>14. Finishes(t, m)
    BY <1>1, <1>3, <1>4, <1>7, <1>9, <1>11, <1>13 DEF Finishes
<1>15. QED  BY <1>14

\* In a function that has one section only the blocks live that the entry leads to.
LEMMA LivesAsLed ==
    ASSUME FlowInv, Upward, NEW f \in Nat, NEW sec \in [Nat -> Nat], LiveFn(f, sec),
           NEW g \in DOMAIN open, FnAt(g) = f, open[g].kind = "func",
           \A i \in DOMAIN open : FnAt(i) = f => i = g,
           NEW b \in Block, blocks[b].fn = f
    PROVE  sec[b] # 0 <=> Leads(f, b)
<1>1. Typed /\ Shaped
    BY Shapes DEF FlowInv
<1>2. Block \subseteq Nat /\ \A x \in Block : blocks[x].fn \in Nat
    <2>1. Block \subseteq Nat
        BY <1>1 DEF Shaped
    <2>2. \A x \in Block : blocks[x] \in BlockT
        BY <1>1 DEF Shaped
    <2>3. \A x \in BlockT : x.fn \in Nat
        BY DEF BlockT
    <2>4. QED  BY <2>1, <2>2, <2>3
<1>3. ASSUME sec[b] # 0 PROVE Leads(f, b)
    <2>1. sec[b] = g
        BY <1>2, <1>3 DEF LiveFn, SectionsFit
    <2>2. Base(g) = f
        BY DEF Base
    <2>3. QED  BY <1>2, <2>1, <2>2 DEF LiveFn, JustFit, Leads
<1>4. ASSUME sec[b] = 0 PROVE ~ Leads(f, b)
    <2>1. PICK C : C = {x \in Block : sec[x] # 0} \cup {x \in Block : blocks[x].fn < f}
        OBVIOUS
    <2>2. C \in SUBSET Block /\ b \notin C
        <3>1. ~ (f < f)
            OBVIOUS
        <3>2. QED  BY <1>4, <2>1, <3>1
    <2>3. f \in C
        BY <2>1 DEF LiveFn, SectionsFit
    <2>4. Shut(C)
        <3> SUFFICES ASSUME NEW x \in C, NEW to \in Successors(x) PROVE to \in C
            BY DEF Shut
        <3>1. x \in Block /\ x \in Nat /\ to \in Block /\ to \in Nat
            BY <1>2, <2>2 DEF FlowInv, BlocksFit
        <3>2. blocks[to].fn <= blocks[x].fn /\ blocks[to].fn \in Nat /\ blocks[x].fn \in Nat
            BY <1>2, <3>1 DEF Upward
        <3>3. CASE blocks[x].fn < f
            <4>1. blocks[to].fn < f
                BY <3>2, <3>3
            <4>2. QED  BY <2>1, <3>1, <4>1
        <3>4. CASE sec[x] # 0
            <4>1. blocks[x].fn = f
                BY <3>1, <3>4 DEF LiveFn, SectionsFit
            <4>2. blocks[to].fn < f \/ blocks[to].fn = f
                BY <3>2, <4>1
            <4>3. blocks[to].fn = f => sec[to] # 0
                BY <3>1, <3>4 DEF LiveFn, OnwardFit
            <4>4. QED  BY <2>1, <3>1, <4>2, <4>3
        <3>5. QED  BY <2>1, <3>3, <3>4
    <2>5. QED  BY <2>2, <2>3, <2>4 DEF Leads
<1>5. QED  BY <1>3, <1>4

\* The statements of the function that is done are marked as the entry leads to them.
LEMMA DoneSettled ==
    ASSUME FlowInv, FlowInv', LiveInv, NEW t, NEW m \in Nat, Finishes(t, m),
           NEW f \in Nat, f = Fn, f \notin early, NEW k \in marks', blocks'[k[1]].fn = f
    PROVE  k[2] <=> Leads(f, k[1])'
<1>1. Typed /\ Shaped /\ Typed' /\ Shaped' /\ open # <<>>
    BY Shapes DEF FlowInv, Finishes
<1>2. /\ Home(Len(open)) = Here /\ Len(open) \in DOMAIN open /\ Current(Here)
      /\ UpTo(Funcs, Len(open)) = Len(builders)
      /\ Here \in Block /\ Here # 0 /\ Here \in Nat /\ Fn \in Block
    BY <1>1, HomeTop
<1>3. PICK at \in Nat, q \in Nat : at = Here /\ q = 0
    BY <1>2
<1>4. Around(at, t, q, m) /\ Writes(at, t, q) /\ Current(at) /\ Rising /\ Upward /\ MarksIn
    BY <1>2, <1>3 DEF Finishes, Around, LiveInv
<1>5. /\ \A b \in Nat : b \in Block' <=> b \in Block \/ Fresh(b)
      /\ Block \subseteq Nat /\ Block' \subseteq Nat
      /\ at # 0 => at \in Block /\ Successors(at) = {} /\ Successors(at)' = t.to
      /\ \A b \in Block : b # at => Successors(b)' = Successors(b)
    BY <1>4, SuccStep
<1>6. Block' = Block /\ \A b \in Block : Successors(b)' = Successors(b)
    BY <1>2, <1>3, <1>5 DEF Finishes
<1>7. /\ \A i \in DOMAIN open : i \in 1 .. m \/ i = m + 1
      /\ m + 1 \in DOMAIN open /\ FnAt(m + 1) = Fn
      /\ open[m + 1].kind = "func"
      /\ \A i \in 1 .. m : FnAt(i) < Fn
      /\ \A b \in Block : blocks'[b].fn = blocks[b].fn
    BY <1>4, AroundLevels DEF Finishes
<1>8. f \in Nat /\ f = Fn
    OBVIOUS
<1>9. PICK sec \in [Nat -> Nat] : LiveFn(f, sec)
    BY <1>7, <1>8 DEF LiveInv
<1>10. \A i \in DOMAIN open : FnAt(i) = f => i = m + 1
    <2>1. ~ (f < f)
        OBVIOUS
    <2>2. QED  BY <1>7, <1>8, <2>1
<1>11. k \in marks \/ k = <<Here, Live>>
    BY DEF Finishes
<1>12. PICK b \in Block : b = k[1]
    <2>1. k \in marks => k[1] \in Block
        BY <1>4 DEF MarksIn
    <2>2. k = <<Here, Live>> => k[1] = Here
        OBVIOUS
    <2>3. QED  BY <1>2, <1>11, <2>1, <2>2
<1>13. blocks[b].fn = f
    BY <1>7, <1>8, <1>12
<1>14. k[2] <=> sec[b] # 0
    <2>1. CASE k \in marks
        BY <1>9, <1>12, <1>13, <2>1 DEF LiveFn, MarksFit
    <2>2. CASE k = <<Here, Live>>
        <3>1. FnAt(Len(open)) = f /\ LivesAt(Len(open)) = Live /\ Tip(Len(open))
            <4>1. Len(lives) = Len(builders)
                BY DEF FlowInv, LevelsFit
            <4>2. QED  BY <1>2, <1>8, <4>1 DEF FnAt, Fn, LivesAt, Live, Last, Tip
        <3>2. sec[Here] = Mk(Live, Section(Len(open)))
            BY <1>2, <1>9, <3>1 DEF LiveFn, StandsFit
        <3>3. Section(Len(open)) # 0
            BY <1>2, SectionIs, BlocksNat
        <3>4. Live \in BOOLEAN
            BY <1>1, TopIs
        <3>5. QED  BY <1>12, <2>2, <3>2, <3>3, <3>4 DEF Mk
    <2>3. QED  BY <1>11, <2>1, <2>2
<1>15. sec[b] # 0 <=> Leads(f, b)
    BY <1>4, <1>7, <1>8, <1>9, <1>10, <1>13, LivesAsLed
<1>16. Leads(f, b)' <=> Leads(f, b)
    BY <1>6 DEF Leads, Shut
<1>17. QED  BY <1>8, <1>12, <1>14, <1>15, <1>16

\* FuncEnd.
LEMMA FuncEndLive ==
    ASSUME FlowInv, FlowInv', LiveInv, NEW value, FuncEnd(value), ~ ConvertFails(value)
    PROVE  LiveInv'
<1>1. PICK t \in TermT, m \in Nat : Finishes(t, m)
    BY FuncEndFinishes
<1>2. Typed /\ Shaped /\ Typed' /\ Shaped' /\ open # <<>>
    BY <1>1, Shapes DEF FlowInv, Finishes
<1>3. Here \in Nat /\ Here # 0 /\ Fn \in Block /\ Here = builders[Len(builders)]
    BY <1>2, HomeTop
<1>4. PICK at \in Nat, q \in Nat : at = Here /\ q = 0
    BY <1>3
<1>5. Around(at, t, q, m) /\ Rising /\ MarksIn
    BY <1>1, <1>4 DEF Finishes, LiveInv
<1>6. /\ \A i \in 1 .. m : /\ i \in DOMAIN open /\ FnAt(i)' = FnAt(i) /\ i # m + 1
      /\ \A i \in DOMAIN open' : i \in 1 .. m \/ (i = m + 1 /\ Len(open') = m + 1)
      /\ \A b \in Block : blocks'[b].fn = blocks[b].fn
    BY <1>5, AroundLevels
<1>7. \A i \in DOMAIN open' : i \in 1 .. m
    <2>1. m # m + 1
        OBVIOUS
    <2>2. QED  BY <1>1, <1>6, <2>1 DEF Finishes
<1>8. /\ Upward' /\ MarksIn'
      /\ \A f \in Nat \ early' : (\E i \in 1 .. m : FnAt(i) = f) =>
            \E sec \in [Nat -> Nat] : LiveFn(f, sec)'
      /\ \A f \in Closed \ early' : \A k \in marks' :
            blocks'[k[1]].fn = f => (k[2] <=> Leads(f, k[1])')
    BY <1>5, AroundLives
<1>9. Rising'
    <2> SUFFICES ASSUME NEW i \in DOMAIN open', NEW j \in DOMAIN open', i < j
                 PROVE  /\ FnAt(i)' <= FnAt(j)'
                        /\ open'[j].kind = "func" => FnAt(i)' < FnAt(j)'
        BY DEF Rising
    <2>1. i \in 1 .. m /\ j \in 1 .. m
        BY <1>7
    <2>2. open'[j].kind = open[j].kind
        BY <1>1, <2>1 DEF Finishes
    <2>3. /\ FnAt(i) <= FnAt(j)
          /\ open[j].kind = "func" => FnAt(i) < FnAt(j)
        BY <1>5, <1>6, <2>1 DEF Rising
    <2>4. QED  BY <1>6, <2>1, <2>2, <2>3
<1>10. \A f \in Closed' : f \in Closed \/ f = Fn
    <2> SUFFICES ASSUME NEW f \in Closed', f # Fn PROVE f \in Closed
        OBVIOUS
    <2>1. f \in Block' /\ blocks'[f].fn = f /\ \A k \in DOMAIN builders' : blocks'[builders'[k]].fn # f
        BY DEF Closed, Entries
    <2>2. f \in Block
        <3>1. Block' = 1 .. Len(blocks') /\ Block = 1 .. Len(blocks) /\ Len(blocks) \in Nat
            BY <1>2 DEF Shaped
        <3>2. Len(blocks') \in Nat
            BY <1>2 DEF Shaped
        <3>3. \A b \in Nat : b \in Block' => b \in Block \/ Fresh(b)
            BY <3>1, <3>2 DEF Fresh
        <3>4. f \in Nat
            BY <2>1, <3>1, <3>2
        <3>5. QED  BY <1>1, <2>1, <3>3, <3>4 DEF Finishes
    <2>3. ASSUME NEW k \in DOMAIN builders PROVE blocks[builders[k]].fn # f
        <3>1. builders[k] \in Block
            BY DEF FlowInv, BuildersFit
        <3>2. CASE k = Len(builders)
            BY <1>3, <3>2 DEF Fn
        <3>3. CASE k # Len(builders)
            <4>1. PICK n \in Nat : /\ n = Len(builders') /\ DOMAIN builders' = 1 .. n
                                   /\ Len(builders) = n + 1 /\ DOMAIN builders = 1 .. n + 1
                BY <1>1, <1>2 DEF Shaped, Finishes
            <4>2. k \in 1 .. n
                BY <3>3, <4>1
            <4>3. builders'[k] = builders[k]
                BY <1>1, <4>1, <4>2 DEF Finishes
            <4>4. QED  BY <1>6, <2>1, <3>1, <4>1, <4>2, <4>3
        <3>4. QED  BY <3>2, <3>3
    <2>4. QED  BY <1>6, <2>1, <2>2, <2>3 DEF Closed, Entries
<1>11. Settled'
    <2> SUFFICES ASSUME NEW f \in Closed' \ early', NEW k \in marks', blocks'[k[1]].fn = f
                 PROVE  k[2] <=> Leads(f, k[1])'
        BY DEF Settled
    <2>1. CASE f \in Closed
        BY <1>8, <2>1
    <2>2. CASE f = Fn
        <3>1. f \notin early /\ f \in Nat
            BY <1>1, <1>2, <1>3, <2>2 DEF Finishes, Shaped
        <3>2. QED  BY <1>1, <2>2, <3>1, DoneSettled
    <2>3. QED  BY <1>10, <2>1, <2>2
<1>12. \A f \in Nat \ early' : (\E i \in DOMAIN open' : FnAt(i)' = f) =>
           \E sec \in [Nat -> Nat] : LiveFn(f, sec)'
    BY <1>6, <1>7, <1>8
<1>13. QED  BY <1>8, <1>9, <1>11, <1>12 DEF LiveInv

-----------------------------------------------------------------------------
(* The blocks live as they are marked. *)

\* What is left as it is lives as it did.
LEMMA SameLives ==
    ASSUME LiveInv, UNCHANGED <<blocks, builders, open, lives, marks, early>>
    PROVE  LiveInv'
<1>1. /\ blocks' = blocks /\ builders' = builders /\ open' = open /\ lives' = lives
      /\ marks' = marks /\ early' = early
    OBVIOUS
<1>2. Block' = Block /\ \A b : Successors(b)' = Successors(b)
    BY <1>1 DEF Block, Successors
<1>3. Funcs' = Funcs
    BY <1>1 DEF Funcs
<1>4. \A i : /\ Home(i)' = Home(i) /\ LivesAt(i)' = LivesAt(i) /\ FnAt(i)' = FnAt(i)
             /\ Tip(i)' <=> Tip(i)
    BY <1>1, <1>3 DEF Home, LivesAt, FnAt, Tip
<1>5. \A i : Openers(i)' = Openers(i) /\ Base(i)' = Base(i)
    BY <1>1, <1>4 DEF Openers, Base
<1>6. \A i : Section(i)' = Section(i)
    BY <1>5 DEF Section
<1>7. \A C : Shut(C)' <=> Shut(C)
    BY <1>2 DEF Shut
<1>8. \A f, b : Leads(f, b)' <=> Leads(f, b)
    BY <1>2, <1>7 DEF Leads
<1>9. \A b : Awaited(b)' <=> Awaited(b)
    BY <1>1 DEF Awaited
<1>10. Closed' = Closed
    BY <1>1, <1>2 DEF Closed, Entries
<1>11. Upward' /\ Rising' /\ MarksIn' /\ Settled'
    <2>1. Upward'
        BY <1>1, <1>2 DEF LiveInv, Upward
    <2>2. Rising'
        BY <1>1, <1>4 DEF LiveInv, Rising
    <2>3. MarksIn'
        BY <1>1, <1>2, <1>9 DEF LiveInv, MarksIn
    <2>4. Settled'
        BY <1>1, <1>8, <1>10 DEF LiveInv, Settled
    <2>5. QED  BY <2>1, <2>2, <2>3, <2>4
<1>12. ASSUME NEW f \in Nat, NEW sec \in [Nat -> Nat], LiveFn(f, sec) PROVE LiveFn(f, sec)'
    <2>1. /\ SectionsFit(f, sec) /\ OnwardFit(f, sec) /\ JustFit(f, sec) /\ StandsFit(f, sec)
          /\ NotesFit(f, sec) /\ DeadFit(f, sec) /\ MarksFit(f, sec)
        BY <1>12 DEF LiveFn
    <2>2. SectionsFit(f, sec)'
        BY <1>1, <1>2, <1>4, <2>1 DEF SectionsFit
    <2>3. OnwardFit(f, sec)'
        BY <1>1, <1>2, <2>1 DEF OnwardFit
    <2>4. JustFit(f, sec)'
        BY <1>1, <1>2, <1>4, <1>5, <1>7, <2>1 DEF JustFit
    <2>5. StandsFit(f, sec)'
        BY <1>1, <1>4, <1>6, <2>1 DEF StandsFit
    <2>6. NotesFit(f, sec)'
        BY <1>1, <1>4, <1>6, <2>1 DEF NotesFit
    <2>7. DeadFit(f, sec)'
        BY <1>1, <1>4, <2>1 DEF DeadFit
    <2>8. MarksFit(f, sec)'
        BY <1>1, <2>1 DEF MarksFit
    <2>9. QED  BY <2>2, <2>3, <2>4, <2>5, <2>6, <2>7, <2>8 DEF LiveFn
<1>13. ASSUME NEW f \in Nat \ early', NEW i \in DOMAIN open', FnAt(i)' = f
       PROVE  \E sec \in [Nat -> Nat] : LiveFn(f, sec)'
    <2>1. PICK sec \in [Nat -> Nat] : LiveFn(f, sec)
        BY <1>1, <1>4, <1>13 DEF LiveInv
    <2>2. QED  BY <1>12, <2>1
<1>14. QED  BY <1>11, <1>13 DEF LiveInv

\* Nothing lives at first.
LEMMA InitLive == Init => LiveInv /\ Phases
<1> SUFFICES ASSUME Init PROVE LiveInv /\ Phases
    OBVIOUS
<1>1. blocks = <<>> /\ builders = <<>> /\ open = <<>> /\ marks = {}
    BY DEF Init
<1>2. Block = {} /\ DOMAIN open = {}
    BY <1>1 DEF Block
<1>3. Upward /\ Rising /\ MarksIn /\ Phases
    BY <1>1, <1>2 DEF Upward, Rising, MarksIn, Phases
<1>4. Settled
    BY <1>1 DEF Settled
<1>5. QED  BY <1>2, <1>3, <1>4 DEF LiveInv

\* Every step keeps the invariants.
LEMMA StepLive == FlowInv /\ LiveInv /\ Phases /\ [Next]_vars => LiveInv' /\ Phases'
<1> SUFFICES ASSUME FlowInv, LiveInv, Phases, [Next]_vars PROVE LiveInv' /\ Phases'
    OBVIOUS
<1>1. FlowInv'
    BY StepFlow
<1>2. Phases'
    BY <1>1, PhasesKeep
<1>3. ASSUME NEW r \in Rets, NEW method \in BOOLEAN, FuncDecl(r, method) PROVE LiveInv'
    BY <1>1, <1>3, FuncDeclLive
<1>4. ASSUME NEW v \in Vals \cup {"other"}, FuncEnd(v) PROVE LiveInv'
    <2>1. CASE ConvertFails(v)
        BY <1>4, <2>1, SameLives DEF FuncEnd
    <2>2. CASE ~ ConvertFails(v)
        BY <1>1, <1>4, <2>2, FuncEndLive
    <2>3. QED  BY <2>1, <2>2
<1>5. ASSUME NEW e \in BOOLEAN, NEW v \in BOOLEAN, IfStmt(e, v) PROVE LiveInv'
    BY <1>1, <1>5, IfStmtLive
<1>6. ASSUME IfThen \/ IfElse \/ IfEnd PROVE LiveInv'
    BY <1>1, <1>6, IfThenLive, IfElseLive, IfEndLive
<1>7. ASSUME WhileStmt \/ WhileCond \/ WhileEnd PROVE LiveInv'
    BY <1>1, <1>7, WhileStmtLive, WhileCondLive, WhileEndLive
<1>8. ASSUME NEW c \in BOOLEAN, ForStmt(c) PROVE LiveInv'
    BY <1>1, <1>8, ForStmtLive
<1>9. ASSUME ForBody \/ ForStep \/ ForCond PROVE LiveInv'
    BY <1>1, <1>9, ForBodyLive, ForStepLive, ForCondLive
<1>10. ASSUME NEW t \in Tests, ForEnd(t) PROVE LiveInv'
    BY <1>1, <1>10, ForEndLive
<1>11. ASSUME Break \/ Continue PROVE LiveInv'
    BY <1>1, <1>11, LeapLive
<1>12. ASSUME NEW v \in Vals, Return(v) PROVE LiveInv'
    BY <1>1, <1>12, ReturnLive
<1>13. ASSUME Done \/ UNCHANGED vars PROVE LiveInv'
    BY <1>13, SameLives DEF Done, vars
<1>14. LiveInv'
    BY <1>3, <1>4, <1>5, <1>6, <1>7, <1>8, <1>9, <1>10, <1>11, <1>12, <1>13 DEF Next
<1>15. QED  BY <1>2, <1>14

\* The invariants hold always.
LEMMA LiveHolds == Spec => [](FlowInv /\ LiveInv)
<1>1. Init => FlowInv /\ LiveInv /\ Phases
    BY InitFlow, InitLive
<1>2. FlowInv /\ LiveInv /\ Phases /\ [Next]_vars => (FlowInv /\ LiveInv /\ Phases)'
    BY StepFlow, StepLive
<1>3. QED  BY <1>1, <1>2, PTL DEF Spec

\* The blocks say what the source says: when a function is done, a statement of
\* it is in a block its entry leads to exactly if control may come to it in the
\* source, but for the functions in which a jump or a condition decides about
\* code that was generated before it.
THEOREM ReachesAlikeHolds == Spec => []ReachesAlike
<1>1. FlowInv /\ LiveInv => ReachesAlike
    <2> SUFFICES ASSUME FlowInv, LiveInv, NEW f \in Closed \ early, NEW k \in marks,
                        blocks[k[1]].fn = f
                 PROVE  (k[1] \in Reached(f)) = k[2]
        BY DEF ReachesAlike
    <2>1. Len(blocks) \in Nat /\ Block = 1 .. Len(blocks)
        BY Shapes DEF FlowInv, Shaped
    <2>2. \A b \in Block : Successors(b) \subseteq Block
        BY DEF FlowInv, BlocksFit
    <2>3. f \in Block
        BY DEF Closed, Entries
    <2>4. k[1] \in Reached(f) <=> Leads(f, k[1])
        BY <2>1, <2>2, <2>3, ReachedMeans
    <2>5. k[2] <=> Leads(f, k[1])
        BY DEF LiveInv, Settled
    <2>6. k[2] \in BOOLEAN
        BY DEF LiveInv, MarksIn
    <2>7. QED  BY <2>4, <2>5, <2>6
<1>2. QED  BY <1>1, LiveHolds, PTL
=============================================================================
