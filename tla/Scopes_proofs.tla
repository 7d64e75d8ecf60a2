--------------------------- MODULE Scopes_proofs ---------------------------
(***************************************************************************)
(* Proofs about names: for any names, parameter lists and bounds, every    *)
(* name of a program that is generated is declared, is what the checker    *)
(* took it for, the two gaps apart, and an entry is never replaced.        *)
(*                                                                         *)
(* Steps only add entries: the old ones keep their id, and their type once *)
(* it is known (Grown), and the new ones have ids that are new (Fresh).    *)
(* The inductive invariant is that the tables are well formed, that they   *)
(* have no error entry unless an error was reported, that a reported name  *)
(* has an entry where it was reported, and that a use has an entry to find *)
(* and means it, unless a new entry came between.                          *)
(***************************************************************************)
EXTENDS Scopes, SequenceLemmas, FiniteSetTheorems, TLAPS

\* A path to b, from the outside in.
PathOK(p, b) ==
    /\ p \in Seq(1 .. b)
    /\ p # <<>>
    /\ p[1] = 1 /\ Last(p) = b
    /\ \A i, j \in DOMAIN p : i < j => p[i] < p[j]

BlocksOK ==
    /\ IsSeq(blocks)
    /\ Len(blocks) # 0
    /\ \A b \in 1 .. Len(blocks) : blocks[b].kind \in Kinds /\ PathOK(Path(b), b)

\* Tables ts whose ids are less than n.
TableOK(t, n) == \A x \in DOMAIN t : t[x] \in Var /\ t[x].id < n

IdsApart(ts) ==
    \A b, c \in 1 .. Len(ts) : \A x \in DOMAIN ts[b], y \in DOMAIN ts[c] :
        ts[b][x].id = ts[c][y].id => b = c /\ x = y

TablesOK(ts, n) ==
    /\ IsSeq(ts)
    /\ \A b \in 1 .. Len(ts) : TableOK(ts[b], n)
    /\ IdsApart(ts)

AllKnown(ts) == \A b \in 1 .. Len(ts) : \A x \in DOMAIN ts[b] : ts[b][x].type = "known"

\* The entries of ts are kept by us, and the other entries of us at these
\* blocks have an id of at least n.
Grown(ts, us) ==
    /\ Len(ts) <= Len(us)
    /\ \A b \in 1 .. Len(ts) : \A x \in DOMAIN ts[b] :
        /\ x \in DOMAIN us[b]
        /\ us[b][x].id = ts[b][x].id
        /\ ts[b][x].type = "known" => us[b][x] = ts[b][x]

Fresh(ts, us, n) ==
    \A b \in 1 .. Len(ts) : \A x \in DOMAIN us[b] : x \in DOMAIN ts[b] \/ us[b][x].id >= n

\* A report of an undeclared name has its entry.
ReportsOK ==
    /\ undeclared \in Seq((1 .. Len(blocks)) \X Ids)
    /\ \A i \in 1 .. Len(undeclared) : undeclared[i][2] \in DOMAIN tables[undeclared[i][1]]
    /\ IsInjective(undeclared)

UseOK(u) ==
    /\ u.block \in 1 .. Len(blocks)
    /\ u.clock \in Nat /\ u.clock <= var_id
    /\ Having(u.block, u.name) # {}
    /\ get_info(u.block, u.name) = u.var \/ DeclaredLater(u) \/ BehindBarrier(u)

IInv ==
    /\ BlocksOK
    /\ var_id \in Nat
    /\ TablesOK(tables, var_id)
    /\ Len(tables) = Len(blocks)
    /\ at \in 0 .. Len(blocks)
    /\ errors \in BOOLEAN
    /\ ~errors => AllKnown(tables) /\ \A u \in uses : UseOK(u)
    /\ ReportsOK

-----------------------------------------------------------------------------
(* Paths. *)

\* A path is a function on positions, and its last one is the block itself.
LEMMA PathShape ==
    ASSUME NEW b \in Nat, NEW p, PathOK(p, b)
    PROVE  /\ Len(p) \in Nat \ {0}
           /\ DOMAIN p = 1 .. Len(p)
           /\ p[1] = 1 /\ p[Len(p)] = b
           /\ \A i \in 1 .. Len(p) : p[i] \in 1 .. b
<1>1. Len(p) \in Nat /\ DOMAIN p = 1 .. Len(p)
    BY LenProperties DEF PathOK
<1>2. Len(p) # 0
    BY <1>1, EmptySeq DEF PathOK
<1>3. \A i \in 1 .. Len(p) : p[i] \in 1 .. b
    BY ElementOfSeq DEF PathOK
<1>4. QED  BY <1>1, <1>2, <1>3 DEF PathOK, Last

\* The path of a block inside another one.
LEMMA PathLonger ==
    ASSUME NEW b \in Nat \ {0}, NEW p, PathOK(p, b), NEW c \in Nat, b < c
    PROVE  PathOK(Append(p, c), c)
<1>1. p \in Seq(1 .. c) /\ c \in 1 .. c
    BY SeqMonotonic DEF PathOK
<1>2. /\ Append(p, c) \in Seq(1 .. c)
      /\ Append(p, c) # <<>>
      /\ Len(Append(p, c)) = Len(p) + 1
      /\ \A i \in 1 .. Len(p) : Append(p, c)[i] = p[i]
      /\ Append(p, c)[Len(p) + 1] = c
    BY <1>1, AppendProperties
<1>3. Len(p) \in Nat /\ DOMAIN p = 1 .. Len(p) /\ \A i \in 1 .. Len(p) : p[i] \in 1 .. b
    BY PathShape
<1>4. DOMAIN Append(p, c) = 1 .. Len(p) + 1
    BY <1>2, LenProperties
<1>5. ASSUME NEW i \in 1 .. Len(p) + 1, NEW j \in 1 .. Len(p) + 1, i < j
      PROVE  Append(p, c)[i] < Append(p, c)[j]
    <2>1. i \in 1 .. Len(p) /\ p[i] \in 1 .. b
        BY <1>3, <1>5
    <2>2. CASE j = Len(p) + 1
        BY <1>2, <2>1, <2>2
    <2>3. CASE j \in 1 .. Len(p)
        <3>1. p[i] < p[j]
            BY <1>3, <1>5, <2>1, <2>3 DEF PathOK
        <3>2. QED  BY <1>2, <2>1, <2>3, <3>1
    <2>4. QED  BY <1>3, <2>2, <2>3
<1>6. Last(Append(p, c)) = c
    BY <1>2 DEF Last
<1>7. Append(p, c)[1] = 1
    BY <1>2, PathShape DEF PathOK
<1>8. QED  BY <1>2, <1>4, <1>5, <1>6, <1>7 DEF PathOK

\* The innermost block of some positions is at one of them.
LEMMA InnermostIsThere ==
    ASSUME IInv, NEW b \in 1 .. Len(blocks), NEW P \in SUBSET DOMAIN Path(b), P # {}
    PROVE  \E i \in P : Innermost(b, P) = Path(b)[i]
<1>1. PathOK(Path(b), b)
    BY DEF IInv, BlocksOK
<1>2. Len(blocks) \in Nat
    BY SeqShape DEF IInv, BlocksOK
<1>3. Len(Path(b)) \in Nat /\ DOMAIN Path(b) = 1 .. Len(Path(b))
    BY <1>1, <1>2, PathShape
<1>4. P \subseteq 1 .. Len(Path(b))
    BY <1>3
<1>5. PICK k \in P : \A j \in P : j <= k
    BY <1>3, <1>4, Greatest
<1> DEFINE m == CHOOSE i \in P : \A j \in P : j <= i
<1>6. m \in P
    BY <1>5
<1>7. QED  BY <1>6 DEF Innermost

\* What is found at some positions is an entry there.
LEMMA LookUpFinds ==
    ASSUME IInv, NEW b \in 1 .. Len(blocks), NEW x, NEW P \in SUBSET Having(b, x), P # {}
    PROVE  \E i \in P : LookUp(b, x, P) = tables[Path(b)[i]][x]
<1>1. P \in SUBSET DOMAIN Path(b)
    BY DEF Having
<1>2. PICK i \in P : Innermost(b, P) = Path(b)[i]
    BY <1>1, InnermostIsThere
<1>3. QED  BY <1>2 DEF LookUp

\* The block itself is among what the checker looks at.
LEMMA OwnSeen ==
    ASSUME IInv, NEW b \in 1 .. Len(blocks)
    PROVE  Len(Path(b)) \in Seen(b) /\ Path(b)[Len(Path(b))] = b
<1>1. PathOK(Path(b), b)
    BY DEF IInv, BlocksOK
<1>2. Len(blocks) \in Nat
    BY SeqShape DEF IInv, BlocksOK
<1>3. /\ Len(Path(b)) \in Nat \ {0}
      /\ DOMAIN Path(b) = 1 .. Len(Path(b))
      /\ Path(b)[Len(Path(b))] = b
    BY <1>1, <1>2, PathShape
<1>4. QED  BY <1>3 DEF Seen, Barrier

\* On the path of a block there are blocks.
LEMMA OnPath ==
    ASSUME IInv, NEW b \in 1 .. Len(blocks)
    PROVE  \A i \in DOMAIN Path(b) : Path(b)[i] \in 1 .. Len(blocks)
<1>1. PathOK(Path(b), b)
    BY DEF IInv, BlocksOK
<1>2. Len(blocks) \in Nat
    BY SeqShape DEF IInv, BlocksOK
<1>3. QED  BY <1>1, <1>2, PathShape

\* The checker finds nothing only if the block has no entry itself.
LEMMA MissingHere ==
    ASSUME IInv, Checking, NEW x, Found(at, x) = None
    PROVE  x \notin DOMAIN tables[at]
<1>1. at \in 1 .. Len(blocks) /\ at \in 1 .. Len(tables)
    BY SeqShape DEF IInv, BlocksOK, Checking
<1>2. SUFFICES ASSUME x \in DOMAIN tables[at]
               PROVE  FALSE
    OBVIOUS
<1> DEFINE P == Having(at, x) \cap Seen(at)
<1>3. P # {}
    BY <1>1, <1>2, OwnSeen DEF Having, Seen
<1>4. PICK i \in P : Found(at, x) = tables[Path(at)[i]][x]
    BY <1>1, <1>3, LookUpFinds DEF Found
<1>5. Path(at)[i] \in 1 .. Len(tables) /\ x \in DOMAIN tables[Path(at)[i]]
    BY <1>1, <1>4, OnPath DEF Having, IInv
<1>6. tables[Path(at)[i]][x].id \in Nat
    BY <1>5 DEF IInv, TablesOK, TableOK, Var
<1>7. QED  BY <1>4, <1>6 DEF None

-----------------------------------------------------------------------------
(* Tables. *)

\* set_id adds an entry with an id of its own, or gives an error a type.
LEMMA DeclaredGrows ==
    ASSUME IInv, NEW b \in 1 .. Len(tables), NEW x, NEW type \in Types, ~ Refused(b, x),
           NEW ts, ts = [tables EXCEPT ![b] = Declared(b, x, type)]
    PROVE  /\ NextId(b, x) \in Nat /\ var_id <= NextId(b, x)
           /\ TablesOK(ts, NextId(b, x))
           /\ Len(ts) = Len(tables)
           /\ Grown(tables, ts)
           /\ Fresh(tables, ts, var_id)
           /\ x \in DOMAIN ts[b]
           /\ type = "known" /\ AllKnown(tables) => AllKnown(ts)
<1>1. Len(tables) \in Nat /\ DOMAIN tables = 1 .. Len(tables) /\ var_id \in Nat
    BY SeqShape DEF IInv, TablesOK
<1>2. NextId(b, x) \in Nat /\ var_id <= NextId(b, x)
    BY <1>1 DEF NextId
<1> DEFINE t == Declared(b, x, type)
           e == Entry(tables[b], x, type)
<1>3. DOMAIN t = DOMAIN tables[b] \cup {x} /\ t[x] = e
      /\ \A y \in DOMAIN tables[b] : y # x => t[y] = tables[b][y]
    BY DEF Declared, Insert
<1>4. x \in DOMAIN tables[b] => tables[b][x] \in Var /\ tables[b][x].id < var_id
    BY DEF IInv, TablesOK, TableOK
<1>5. e \in Var /\ e.type = type /\ e.id < NextId(b, x)
    BY <1>1, <1>4 DEF Entry, NextId, Var
<1>6. x \in DOMAIN tables[b] => e.id = tables[b][x].id /\ tables[b][x].type # "known"
    BY <1>4 DEF Entry, Var, Refused, Types
<1>7. x \notin DOMAIN tables[b] => e.id = var_id
    BY DEF Entry
<1> HIDE DEF t, e
<1>8. IsSeq(ts) /\ Len(ts) = Len(tables)
    <2>1. ts = [c \in 1 .. Len(tables) |-> ts[c]]
        BY <1>1
    <2>2. QED  BY <1>1, <2>1, FunctionShape
<1>9. ts[b] = t /\ \A c \in 1 .. Len(tables) : c # b => ts[c] = tables[c]
    BY <1>1 DEF t
<1>10. \A c \in 1 .. Len(ts) : TableOK(ts[c], NextId(b, x))
    <2>1. ASSUME NEW c \in 1 .. Len(ts), NEW y \in DOMAIN ts[c]
          PROVE  ts[c][y] \in Var /\ ts[c][y].id < NextId(b, x)
        <3>1. CASE c = b /\ y = x
            BY <1>3, <1>5, <1>9, <3>1
        <3>2. CASE ~ (c = b /\ y = x)
            <4>1. y \in DOMAIN tables[c] /\ ts[c][y] = tables[c][y]
                BY <1>3, <1>8, <1>9, <2>1, <3>2
            <4>2. tables[c][y] \in Var /\ tables[c][y].id < var_id
                BY <4>1, <1>8, <2>1 DEF IInv, TablesOK, TableOK
            <4>3. QED  BY <1>1, <1>2, <4>1, <4>2 DEF Var
        <3>3. QED  BY <3>1, <3>2
    <2>2. QED  BY <2>1 DEF TableOK
<1>11. ASSUME NEW c \in 1 .. Len(ts), NEW y \in DOMAIN ts[c]
       PROVE  \/ y \in DOMAIN tables[c] /\ ts[c][y].id = tables[c][y].id
              \/ c = b /\ y = x /\ x \notin DOMAIN tables[b] /\ ts[c][y].id = var_id
    BY <1>3, <1>6, <1>7, <1>8, <1>9, <1>11
<1>12. \A c \in 1 .. Len(tables) : \A y \in DOMAIN tables[c] :
          tables[c][y].id \in Nat /\ tables[c][y].id < var_id
    BY DEF IInv, TablesOK, TableOK, Var
<1>13. IdsApart(ts)
    <2>1. ASSUME NEW c \in 1 .. Len(ts), NEW d \in 1 .. Len(ts),
                 NEW y \in DOMAIN ts[c], NEW z \in DOMAIN ts[d],
                 ts[c][y].id = ts[d][z].id
          PROVE  c = d /\ y = z
        <3>1. CASE y \in DOMAIN tables[c] /\ ts[c][y].id = tables[c][y].id
                   /\ z \in DOMAIN tables[d] /\ ts[d][z].id = tables[d][z].id
            BY <1>8, <2>1, <3>1 DEF IInv, TablesOK, IdsApart
        <3>2. QED  BY <1>1, <1>8, <1>11, <1>12, <2>1, <3>1
    <2>2. QED  BY <2>1 DEF IdsApart
<1>14. Grown(tables, ts)
    BY <1>1, <1>3, <1>6, <1>8, <1>9 DEF Grown
<1>15. Fresh(tables, ts, var_id)
    BY <1>1, <1>8, <1>11 DEF Fresh
<1>16. x \in DOMAIN ts[b]
    BY <1>3, <1>9
<1>17. type = "known" /\ AllKnown(tables) => AllKnown(ts)
    BY <1>3, <1>5, <1>8, <1>9 DEF AllKnown
<1>18. QED  BY <1>2, <1>8, <1>10, <1>13, <1>14, <1>15, <1>16, <1>17 DEF TablesOK

\* A block comes with a table whose ids are new.
LEMMA AppendedGrows ==
    ASSUME NEW ts, NEW n \in Nat, TablesOK(ts, n), NEW m \in Nat, n <= m,
           NEW t, TableOK(t, m), \A x \in DOMAIN t : t[x].id >= n,
           \A x, y \in DOMAIN t : t[x].id = t[y].id => x = y
    PROVE  /\ TablesOK(Append(ts, t), m)
           /\ Len(Append(ts, t)) = Len(ts) + 1
           /\ \A b \in 1 .. Len(ts) : Append(ts, t)[b] = ts[b]
           /\ Append(ts, t)[Len(ts) + 1] = t
<1> DEFINE us == Append(ts, t)
<1>1. Len(ts) \in Nat
    BY SeqShape DEF TablesOK
<1>2. /\ IsSeq(us)
      /\ Len(us) = Len(ts) + 1
      /\ \A b \in 1 .. Len(ts) : us[b] = ts[b]
      /\ us[Len(ts) + 1] = t
    BY AppendShape DEF TablesOK
<1> HIDE DEF us
<1>3. \A b \in 1 .. Len(ts) : \A x \in DOMAIN ts[b] :
        ts[b][x] \in Var /\ ts[b][x].id \in Nat /\ ts[b][x].id < n
    BY DEF TablesOK, TableOK, Var
<1>4. \A x \in DOMAIN t : t[x].id \in Nat /\ t[x].id >= n
    BY DEF TableOK, Var
<1>5. \A b \in 1 .. Len(us) : TableOK(us[b], m)
    <2>1. ASSUME NEW b \in 1 .. Len(ts)  PROVE TableOK(us[b], m)
        BY <1>2, <1>3, <2>1 DEF TableOK
    <2>2. QED  BY <1>1, <1>2, <2>1
<1>6. IdsApart(us)
    <2>1. ASSUME NEW b \in 1 .. Len(us), NEW c \in 1 .. Len(us),
                 NEW x \in DOMAIN us[b], NEW y \in DOMAIN us[c],
                 us[b][x].id = us[c][y].id
          PROVE  b = c /\ x = y
        <3>1. CASE b \in 1 .. Len(ts) /\ c \in 1 .. Len(ts)
            BY <1>2, <2>1, <3>1 DEF TablesOK, IdsApart
        <3>2. CASE b = Len(ts) + 1 /\ c = Len(ts) + 1
            BY <1>2, <2>1, <3>2
        <3>3. CASE b \in 1 .. Len(ts) /\ c = Len(ts) + 1
            BY <1>2, <1>3, <1>4, <2>1, <3>3
        <3>4. CASE b = Len(ts) + 1 /\ c \in 1 .. Len(ts)
            BY <1>2, <1>3, <1>4, <2>1, <3>4
        <3>5. QED  BY <1>1, <1>2, <3>1, <3>2, <3>3, <3>4
    <2>2. QED  BY <2>1 DEF IdsApart
<1>7. QED  BY <1>2, <1>5, <1>6 DEF us, TablesOK

\* The parameters whose type is known, and their numbers.
LEMMA KnownCounts ==
    ASSUME NEW ps \in Params
    PROVE  /\ Cardinality(KnownAt(ps)) \in Nat
           /\ \A i \in KnownAt(ps) : UpTo(ps, i) \in 1 .. Cardinality(KnownAt(ps))
           /\ \A i, k \in KnownAt(ps) : i < k => UpTo(ps, i) < UpTo(ps, k)
<1> DEFINE K == KnownAt(ps)
<1>1. Len(ps) \in Nat /\ DOMAIN ps = 1 .. Len(ps)
    BY ScopesAssumption, LenProperties
<1>2. K \subseteq 1 .. Len(ps)
    BY <1>1 DEF KnownAt
<1>3. IsFiniteSet(1 .. Len(ps))
    BY <1>1, FS_Interval
<1>4. IsFiniteSet(K)
    BY <1>2, <1>3, FS_Subset
<1>5. Cardinality(K) \in Nat
    BY <1>4, FS_CardinalityType
<1> HIDE DEF K
<1>6. ASSUME NEW i \in K
      PROVE  /\ IsFiniteSet({j \in K : j <= i})
             /\ Cardinality({j \in K : j <= i}) \in 1 .. Cardinality(K)
    <2> DEFINE A == {j \in K : j <= i}
    <2>1. A \subseteq K /\ i \in A
        BY <1>2, <1>1
    <2> HIDE DEF A
    <2>2. IsFiniteSet(A) /\ Cardinality(A) <= Cardinality(K)
        BY <1>4, <2>1, FS_Subset
    <2>3. Cardinality(A) \in Nat /\ Cardinality(A) # 0
        BY <2>1, <2>2, FS_CardinalityType, FS_EmptySet
    <2>4. QED  BY <1>5, <2>2, <2>3 DEF A
<1>7. ASSUME NEW i \in K, NEW k \in K, i < k
      PROVE  Cardinality({j \in K : j <= i}) < Cardinality({j \in K : j <= k})
    <2> DEFINE A == {j \in K : j <= i}
               B == {j \in K : j <= k}
    <2>1. \A j \in K : j \in Int
        BY <1>1, <1>2
    <2>2. A \subseteq B /\ k \in B /\ k \notin A
        BY <2>1, <1>7
    <2>3. IsFiniteSet(B)
        BY <1>6
    <2>4. Cardinality(A) \in Nat /\ Cardinality(B) \in Nat
        BY <1>5, <1>6
    <2> HIDE DEF A, B
    <2>5. Cardinality(A) <= Cardinality(B) /\ (Cardinality(A) = Cardinality(B) => A = B)
        BY <2>2, <2>3, FS_Subset
    <2>6. QED  BY <2>2, <2>4, <2>5 DEF A, B
<1>8. QED  BY <1>5, <1>6, <1>7 DEF K, UpTo

\* The last parameter of a name.
LEMMA LastOfName ==
    ASSUME NEW ps \in Params, NEW x \in {ps[i].name : i \in KnownAt(ps)}
    PROVE  LastOf(ps, x) \in KnownAt(ps) /\ ps[LastOf(ps, x)].name = x
<1> DEFINE P == {i \in KnownAt(ps) : ps[i].name = x}
<1>1. Len(ps) \in Nat /\ DOMAIN ps = 1 .. Len(ps)
    BY ScopesAssumption, LenProperties
<1>2. P \in SUBSET (1 .. Len(ps)) /\ P # {}
    BY <1>1 DEF KnownAt
<1>3. \E i \in P : \A j \in P : j <= i
    BY <1>1, <1>2, Greatest
<1>4. \E i \in KnownAt(ps) :
        ps[i].name = x /\ \A j \in KnownAt(ps) : ps[j].name = x => j <= i
    BY <1>3
<1>5. QED  BY <1>4 DEF LastOf

\* The table of the parameters.
LEMMA ParamsGrow ==
    ASSUME NEW ps \in Params, NEW n \in Nat
    PROVE  LET t == ParamTable(ps, n) IN
           /\ n + Cardinality(KnownAt(ps)) \in Nat /\ n <= n + Cardinality(KnownAt(ps))
           /\ TableOK(t, n + Cardinality(KnownAt(ps)))
           /\ \A x \in DOMAIN t : t[x].id >= n /\ t[x].type = "known"
           /\ \A x, y \in DOMAIN t : t[x].id = t[y].id => x = y
<1> DEFINE t == ParamTable(ps, n)
           m == Cardinality(KnownAt(ps))
           X == {ps[i].name : i \in KnownAt(ps)}
<1>1. m \in Nat
    BY KnownCounts
<1>2. DOMAIN t = X
    BY DEF ParamTable
<1>3. \A x \in X : t[x] = [id |-> n + UpTo(ps, LastOf(ps, x)) - 1, type |-> "known"]
    BY DEF ParamTable
<1>4. \A x \in X : LastOf(ps, x) \in KnownAt(ps) /\ ps[LastOf(ps, x)].name = x
    BY LastOfName
<1>5. \A x \in X : UpTo(ps, LastOf(ps, x)) \in 1 .. m
    BY <1>4, KnownCounts
<1>6. \A i \in KnownAt(ps) : i \in Nat
    BY ScopesAssumption, LenProperties DEF KnownAt
<1>7. ASSUME NEW x \in X, NEW y \in X, UpTo(ps, LastOf(ps, x)) = UpTo(ps, LastOf(ps, y))
      PROVE  x = y
    <2>1. ~ (LastOf(ps, x) < LastOf(ps, y)) /\ ~ (LastOf(ps, y) < LastOf(ps, x))
        BY <1>1, <1>4, <1>5, <1>7, KnownCounts
    <2>2. LastOf(ps, x) = LastOf(ps, y)
        BY <1>4, <1>6, <2>1
    <2>3. QED  BY <1>4, <2>2
<1> HIDE DEF t, m, X
<1>8. ASSUME NEW x \in X
      PROVE  /\ t[x] \in Var /\ t[x].id < n + m /\ t[x].id >= n /\ t[x].type = "known"
             /\ t[x].id = n + UpTo(ps, LastOf(ps, x)) - 1
    <2>1. PICK c \in 1 .. m : c = UpTo(ps, LastOf(ps, x))
        BY <1>5
    <2>2. n + c - 1 \in Nat /\ n + c - 1 >= n /\ n + c - 1 < n + m
        BY <1>1
    <2>3. t[x] = [id |-> n + c - 1, type |-> "known"]
        BY <1>3, <2>1
    <2>4. QED  BY <2>1, <2>2, <2>3 DEF Var, Types
<1>9. ASSUME NEW x \in X, NEW y \in X, t[x].id = t[y].id
      PROVE  x = y
    <2>1. UpTo(ps, LastOf(ps, x)) \in Int /\ UpTo(ps, LastOf(ps, y)) \in Int
        BY <1>1, <1>5
    <2>2. UpTo(ps, LastOf(ps, x)) = UpTo(ps, LastOf(ps, y))
        BY <1>8, <1>9, <2>1
    <2>3. QED  BY <1>7, <2>2
<1>10. QED  BY <1>1, <1>2, <1>8, <1>9 DEF TableOK, t, m

-----------------------------------------------------------------------------
(* Steps. *)

\* What every step does to the state.
Keeps ==
    /\ BlocksOK'
    /\ Len(blocks) <= Len(blocks')
    /\ \A b \in 1 .. Len(blocks) : blocks'[b] = blocks[b]
    /\ var_id' \in Nat /\ var_id <= var_id'
    /\ TablesOK(tables', var_id')
    /\ Len(tables') = Len(blocks')
    /\ Grown(tables, tables')
    /\ Fresh(tables, tables', var_id)
    /\ at' \in 0 .. Len(blocks')
    /\ errors' \in BOOLEAN /\ (errors => errors')
    /\ ~errors' => AllKnown(tables')

\* A use that meant what the generator would find still does, or an entry
\* that is new makes one of the two gaps.
LEMMA UseKept ==
    ASSUME IInv, Keeps, ~errors', NEW u, UseOK(u)
    PROVE  UseOK(u)'
<1> DEFINE b == u.block
           x == u.name
<1>1. AllKnown(tables)
    BY DEF IInv, Keeps
<1>2. b \in 1 .. Len(blocks) /\ Len(blocks) \in Nat /\ Len(blocks') \in Nat
    BY SeqShape DEF UseOK, IInv, BlocksOK, Keeps
<1>3. blocks'[b] = blocks[b]
    BY <1>2 DEF Keeps
<1>4. \A i \in DOMAIN Path(b) : Path(b)[i] \in 1 .. Len(blocks)
    BY <1>2, OnPath
<1>5. Path(b)' = Path(b)
    BY <1>3 DEF Path
<1>6. \A i \in DOMAIN Path(b) : blocks'[Path(b)[i]] = blocks[Path(b)[i]]
    BY <1>4 DEF Keeps
<1>7. Seen(b)' = Seen(b)
    BY <1>5, <1>6 DEF Seen, Barrier
<1>8. \A i \in DOMAIN Path(b) : \A y \in DOMAIN tables[Path(b)[i]] :
        y \in DOMAIN tables'[Path(b)[i]] /\ tables'[Path(b)[i]][y] = tables[Path(b)[i]][y]
    BY <1>1, <1>4 DEF IInv, Keeps, Grown, AllKnown
<1>9. Having(b, x) \subseteq Having(b, x)' /\ Having(b, x) # {}
    BY <1>5, <1>8 DEF Having, UseOK
<1>10. u.clock \in Nat /\ u.clock <= var_id'
    BY DEF UseOK, Keeps, IInv
<1>11. DeclaredLater(u) => DeclaredLater(u)'
    BY <1>5, <1>7, <1>8 DEF DeclaredLater, Seen
<1>12. BehindBarrier(u) => BehindBarrier(u)'
    BY <1>5, <1>7, <1>8 DEF BehindBarrier
<1>13. CASE Having(b, x)' = Having(b, x)
    <2>1. Innermost(b, Having(b, x))' = Innermost(b, Having(b, x))
        BY <1>5, <1>13 DEF Innermost
    <2>2. PICK i \in Having(b, x) : Innermost(b, Having(b, x)) = Path(b)[i]
        BY <1>2, <1>9, InnermostIsThere DEF Having
    <2>3. tables'[Path(b)[i]][x] = tables[Path(b)[i]][x]
        BY <1>8 DEF Having
    <2>4. get_info(b, x) = tables[Path(b)[i]][x]
        BY <1>9, <2>2 DEF get_info, LookUp
    <2>5. get_info(b, x)' = tables'[Path(b)[i]][x]
        BY <1>9, <1>13, <2>1, <2>2 DEF get_info, LookUp
    <2>6. get_info(b, x)' = get_info(b, x)
        BY <2>3, <2>4, <2>5
    <2>7. get_info(b, x)' = u.var \/ DeclaredLater(u)' \/ BehindBarrier(u)'
        BY <1>11, <1>12, <2>6 DEF UseOK
    <2>8. QED
        BY <1>2, <1>9, <1>10, <2>7 DEF UseOK, Keeps
<1>14. CASE Having(b, x)' # Having(b, x)
    <2>1. PICK i \in DOMAIN Path(b) :
            x \in DOMAIN tables'[Path(b)[i]] /\ x \notin DOMAIN tables[Path(b)[i]]
        BY <1>5, <1>9, <1>14 DEF Having
    <2>2. Path(b)[i] \in 1 .. Len(tables) /\ Path(b)[i] \in 1 .. Len(tables')
        BY <1>2, <1>4 DEF IInv, Keeps
    <2>3. tables'[Path(b)[i]][x].id >= var_id /\ tables'[Path(b)[i]][x].id \in Nat
        BY <2>1, <2>2 DEF Keeps, Fresh, TablesOK, TableOK, Var
    <2>4. tables'[Path(b)[i]][x].id >= u.clock
        BY <2>3 DEF UseOK, IInv
    <2>5. DeclaredLater(u)' \/ BehindBarrier(u)'
        BY <1>5, <1>7, <2>1, <2>4 DEF DeclaredLater, BehindBarrier
    <2>6. QED
        BY <1>2, <1>9, <1>10, <2>5 DEF UseOK, Keeps
<1>15. QED  BY <1>13, <1>14

\* The same tables, and tables with one more.
LEMMA GrownSame == Grown(tables, tables) /\ Fresh(tables, tables, var_id)
BY DEF Grown, Fresh

\* A table more changes nothing about the others.
LEMMA GrownMore ==
    ASSUME IInv, NEW ts, Len(ts) = Len(tables), Grown(tables, ts), Fresh(tables, ts, var_id),
           NEW us, Len(us) = Len(ts) + 1, \A b \in 1 .. Len(ts) : us[b] = ts[b]
    PROVE  Grown(tables, us) /\ Fresh(tables, us, var_id)
<1>1. Len(tables) \in Nat
    BY SeqShape DEF IInv, TablesOK
<1>2. QED  BY <1>1 DEF Grown, Fresh

\* The block being checked.
LEMMA AtBlock ==
    ASSUME IInv, Checking
    PROVE  at \in 1 .. Len(blocks) /\ at \in 1 .. Len(tables) /\ Len(blocks) \in Nat
BY SeqShape DEF IInv, BlocksOK, Checking

\* A block inside it.
LEMMA BlocksGrow ==
    ASSUME IInv, Checking, NEW kind \in Kinds, blocks' = Append(blocks, NewBlock(kind))
    PROVE  /\ BlocksOK'
           /\ Len(blocks') = Len(blocks) + 1
           /\ \A b \in 1 .. Len(blocks) : blocks'[b] = blocks[b]
<1> DEFINE c == Len(blocks) + 1
           k == NewBlock(kind)
<1>1. at \in 1 .. Len(blocks) /\ Len(blocks) \in Nat
    BY AtBlock
<1>2. PathOK(Path(at), at)
    BY <1>1 DEF IInv, BlocksOK
<1>3. PathOK(Append(Path(at), c), c)
    BY <1>1, <1>2, PathLonger
<1>4. k.kind = kind /\ k.path = Append(Path(at), c)
    BY DEF NewBlock
<1> HIDE DEF k
<1>5. /\ IsSeq(blocks')
      /\ Len(blocks') = c
      /\ \A b \in 1 .. Len(blocks) : blocks'[b] = blocks[b]
      /\ blocks'[c] = k
    BY AppendShape DEF IInv, BlocksOK, k
<1>6. ASSUME NEW b \in 1 .. c
      PROVE  blocks'[b].kind \in Kinds /\ PathOK(blocks'[b].path, b)
    <2>1. CASE b = c
        BY <1>3, <1>4, <1>5, <2>1
    <2>2. CASE b \in 1 .. Len(blocks)
        BY <1>5, <2>2 DEF IInv, BlocksOK, Path
    <2>3. QED  BY <1>1, <2>1, <2>2
<1>7. QED  BY <1>1, <1>5, <1>6 DEF BlocksOK, Path

\* A step that leaves the blocks alone.
LEMMA BlocksSame ==
    ASSUME IInv, blocks' = blocks
    PROVE  /\ BlocksOK'
           /\ Len(blocks) <= Len(blocks')
           /\ \A b \in 1 .. Len(blocks) : blocks'[b] = blocks[b]
<1>1. Len(blocks) \in Nat
    BY SeqShape DEF IInv, BlocksOK
<1>2. BlocksOK'
    BY DEF IInv, BlocksOK, Path
<1>3. QED  BY <1>1, <1>2

\* A step that leaves the blocks, the tables and the reports alone.
LEMMA RestKeeps ==
    ASSUME IInv, UNCHANGED <<blocks, tables, var_id, errors>>, at' \in 0 .. Len(blocks)
    PROVE  Keeps
<1>1. Len(blocks) \in Nat
    BY SeqShape DEF IInv, BlocksOK
<1>2. BlocksOK'
    BY BlocksSame
<1>3. QED  BY <1>1, <1>2, GrownSame DEF Keeps, IInv

\* A use of a name adds at most the entry it is reported with.
LEMMA IdentifierKeeps ==
    ASSUME IInv, NEW x \in Ids, Identifier(x)
    PROVE  Keeps
<1>1. CASE Found(at, x) # None
    <2>1. UNCHANGED <<blocks, tables, var_id, errors, at>>
        BY <1>1 DEF Identifier, IsMissing
    <2>2. QED  BY <2>1, RestKeeps DEF IInv
<1>2. CASE Found(at, x) = None
    <2>1. Checking /\ at \in 1 .. Len(tables)
        BY AtBlock DEF Identifier
    <2>2. x \notin DOMAIN tables[at]
        BY <1>2, <2>1, MissingHere
    <2>3. /\ tables' = [tables EXCEPT ![at] = Declared(at, x, "error")]
          /\ var_id' = var_id + 1 /\ errors' = TRUE
          /\ UNCHANGED <<blocks, at>>
        BY <1>2 DEF Identifier, IsMissing, Assumed
    <2>4. ~ Refused(at, x) /\ NextId(at, x) = var_id + 1
        BY <2>2 DEF Refused, NextId
    <2>5. /\ TablesOK(tables', var_id')
          /\ Len(tables') = Len(tables)
          /\ Grown(tables, tables')
          /\ Fresh(tables, tables', var_id)
        BY <2>1, <2>3, <2>4, DeclaredGrows DEF Types
    <2>6. QED  BY <2>3, <2>5, BlocksSame DEF Keeps, IInv
<1>3. QED  BY <1>1, <1>2

\* A declaration adds a variable, or fills the entry of an earlier report.
LEMMA VarDeclKeeps ==
    ASSUME IInv, NEW x \in Ids, NEW type \in Types, VarDecl(x, type)
    PROVE  Keeps
<1>1. Checking /\ at \in 1 .. Len(tables)
    BY AtBlock DEF VarDecl
<1>2. /\ errors' = (errors \/ type = "error" \/ Refused(at, x))
      /\ UNCHANGED <<blocks, at>>
    BY DEF VarDecl
<1>3. CASE Refused(at, x)
    <2>1. UNCHANGED <<tables, var_id>>
        BY <1>3 DEF VarDecl
    <2>2. QED  BY <1>2, <1>3, <2>1, BlocksSame, GrownSame DEF Keeps, IInv
<1>4. CASE ~ Refused(at, x)
    <2>1. /\ tables' = [tables EXCEPT ![at] = Declared(at, x, type)]
          /\ var_id' = NextId(at, x)
        BY <1>4 DEF VarDecl
    <2>2. /\ var_id' \in Nat /\ var_id <= var_id'
          /\ TablesOK(tables', var_id')
          /\ Len(tables') = Len(tables)
          /\ Grown(tables, tables')
          /\ Fresh(tables, tables', var_id)
          /\ type = "known" /\ AllKnown(tables) => AllKnown(tables')
        BY <1>1, <1>4, <2>1, DeclaredGrows
    <2>3. ~errors' => AllKnown(tables')
        BY <1>2, <2>2 DEF IInv, Types
    <2>4. QED  BY <1>2, <2>2, <2>3, BlocksSame DEF Keeps, IInv
<1>5. QED  BY <1>3, <1>4

\* A new block comes with an empty table.
LEMMA BlockKeeps ==
    ASSUME IInv, Block
    PROVE  Keeps
<1>1. /\ Checking /\ blocks' = Append(blocks, NewBlock("plain"))
      /\ tables' = Append(tables, <<>>)
      /\ at' = Len(blocks) + 1
      /\ UNCHANGED <<var_id, errors>>
    BY DEF Block
<1>2. /\ BlocksOK'
      /\ Len(blocks') = Len(blocks) + 1
      /\ \A b \in 1 .. Len(blocks) : blocks'[b] = blocks[b]
    BY <1>1, BlocksGrow DEF Kinds
<1>3. Len(blocks) \in Nat /\ var_id \in Nat
    BY <1>1, AtBlock DEF IInv
<1>4. TableOK(<<>>, var_id)
    BY DEF TableOK
<1>5. /\ TablesOK(tables', var_id)
      /\ Len(tables') = Len(tables) + 1
      /\ \A b \in 1 .. Len(tables) : tables'[b] = tables[b]
      /\ tables'[Len(tables) + 1] = <<>>
    BY <1>1, <1>3, <1>4, AppendedGrows DEF IInv
<1>6. Grown(tables, tables') /\ Fresh(tables, tables', var_id)
    BY <1>5, GrownSame, GrownMore
<1>7. ~errors' => AllKnown(tables')
    BY <1>1, <1>3, <1>5 DEF AllKnown, IInv
<1>8. QED  BY <1>1, <1>2, <1>3, <1>5, <1>6, <1>7 DEF Keeps, IInv

\* The name of a function enters the block around, as set_id says, and the
\* parameters a new table.
LEMMA FuncDeclKeeps ==
    ASSUME IInv, NEW f \in Ids, NEW ps \in Params, FuncDecl(f, ps)
    PROVE  Keeps
<1> DEFINE first == IF Refused(at, f) THEN var_id ELSE NextId(at, f)
           here == IF Refused(at, f) THEN tables
                   ELSE [tables EXCEPT ![at] = Declared(at, f, "known")]
           m == first + Cardinality(KnownAt(ps))
           t == ParamTable(ps, first)
<1>1. /\ Checking /\ blocks' = Append(blocks, NewBlock("func"))
      /\ var_id' = m
      /\ tables' = Append(here, t)
      /\ at' = Len(blocks) + 1
      /\ errors' = (errors \/ Refused(at, f) \/ \E i \in DOMAIN ps : ps[i].type = "error")
    BY DEF FuncDecl
<1>2. /\ BlocksOK'
      /\ Len(blocks') = Len(blocks) + 1
      /\ \A b \in 1 .. Len(blocks) : blocks'[b] = blocks[b]
    BY <1>1, BlocksGrow DEF Kinds
<1>3. at \in 1 .. Len(tables) /\ Len(blocks) \in Nat /\ var_id \in Nat
    BY <1>1, AtBlock DEF IInv
<1>4. /\ first \in Nat /\ var_id <= first
      /\ TablesOK(here, first)
      /\ Len(here) = Len(tables)
      /\ Grown(tables, here)
      /\ Fresh(tables, here, var_id)
      /\ ~ Refused(at, f) /\ AllKnown(tables) => AllKnown(here)
    <2>1. CASE Refused(at, f)
        BY <1>3, <2>1, GrownSame DEF IInv
    <2>2. CASE ~ Refused(at, f)
        BY <1>3, <2>2, DeclaredGrows DEF Types
    <2>3. QED  BY <2>1, <2>2
<1> HIDE DEF first, here
<1>5. /\ m \in Nat /\ first <= m
      /\ TableOK(t, m)
      /\ \A x \in DOMAIN t : t[x].id >= first /\ t[x].type = "known"
      /\ \A x, y \in DOMAIN t : t[x].id = t[y].id => x = y
    BY <1>4, ParamsGrow
<1> HIDE DEF m, t
<1>6. /\ TablesOK(tables', m)
      /\ Len(tables') = Len(here) + 1
      /\ \A b \in 1 .. Len(here) : tables'[b] = here[b]
      /\ tables'[Len(here) + 1] = t
    BY <1>1, <1>4, <1>5, AppendedGrows
<1>7. Grown(tables, tables') /\ Fresh(tables, tables', var_id)
    BY <1>4, <1>6, GrownMore
<1>8. ASSUME ~errors'  PROVE AllKnown(tables')
    <2>1. AllKnown(here)
        BY <1>1, <1>4, <1>8 DEF IInv
    <2>2. Len(here) \in Nat
        BY <1>4, SeqShape DEF TablesOK
    <2>3. \A b \in 1 .. Len(tables') : b \in 1 .. Len(here) \/ b = Len(here) + 1
        BY <1>6, <2>2
    <2>4. QED  BY <1>5, <1>6, <2>1, <2>3 DEF AllKnown
<1>9. errors' \in BOOLEAN /\ (errors => errors')
    BY <1>1 DEF IInv
<1>10. at' \in 0 .. Len(blocks') /\ Len(blocks) <= Len(blocks') /\ Len(tables') = Len(blocks')
    BY <1>1, <1>2, <1>3, <1>4, <1>6 DEF IInv
<1>11. var_id' \in Nat /\ var_id <= var_id'
    BY <1>1, <1>3, <1>4, <1>5
<1>12. QED  BY <1>1, <1>2, <1>6, <1>7, <1>8, <1>9, <1>10, <1>11 DEF Keeps

\* The end of a block goes back to the one around it.
LEMMA LeaveKeeps ==
    ASSUME IInv, Leave
    PROVE  Keeps
<1>1. /\ Checking /\ UNCHANGED <<blocks, tables, var_id, errors>>
      /\ at' = IF at = 1 THEN 0 ELSE Path(at)[Len(Path(at)) - 1]
    BY DEF Leave
<1>2. at \in 1 .. Len(blocks) /\ Len(blocks) \in Nat
    BY <1>1, AtBlock
<1>3. PathOK(Path(at), at)
    BY <1>2 DEF IInv, BlocksOK
<1>4. /\ Len(Path(at)) \in Nat \ {0}
      /\ Path(at)[1] = 1 /\ Path(at)[Len(Path(at))] = at
      /\ \A i \in 1 .. Len(Path(at)) : Path(at)[i] \in 1 .. at
    BY <1>2, <1>3, PathShape
<1>5. at # 1 => Path(at)[Len(Path(at)) - 1] \in 1 .. at
    <2>1. at # 1 => Len(Path(at)) # 1
        BY <1>4
    <2>2. at # 1 => Len(Path(at)) - 1 \in 1 .. Len(Path(at))
        BY <1>4, <2>1
    <2>3. QED  BY <1>4, <2>2
<1>6. at' \in 0 .. Len(blocks)
    BY <1>1, <1>2, <1>5
<1>7. QED  BY <1>1, <1>6, RestKeeps

\* So does every step: blocks stay, and tables grow.
LEMMA StepKeeps ==
    ASSUME IInv, [Next]_vars
    PROVE  Keeps
<1>1. CASE \E x \in Ids : Identifier(x)
    BY <1>1, IdentifierKeeps
<1>2. CASE \E x \in Ids, type \in Types : VarDecl(x, type)
    BY <1>2, VarDeclKeeps
<1>3. CASE Block
    BY <1>3, BlockKeeps
<1>4. CASE \E f \in Ids, ps \in Params : FuncDecl(f, ps)
    BY <1>4, FuncDeclKeeps
<1>5. CASE Leave
    BY <1>5, LeaveKeeps
<1>6. CASE Done \/ UNCHANGED vars
    BY <1>6, RestKeeps DEF Done, vars, IInv
<1>7. QED  BY <1>1, <1>2, <1>3, <1>4, <1>5, <1>6 DEF Next

-----------------------------------------------------------------------------
(* Uses and reports. *)

\* A name that is used in a program without an error means what it is found
\* to be, or the entry is in a function around.
LEMMA NewUse ==
    ASSUME IInv, NEW x \in Ids, Identifier(x), Found(at, x) # None, ~errors,
           NEW u, u = [block |-> at, name |-> x, clock |-> var_id, var |-> Found(at, x)]
    PROVE  UseOK(u)
<1>1. at \in 1 .. Len(blocks)
    BY AtBlock DEF Identifier
<1>2. u.block = at /\ u.name = x /\ u.clock = var_id /\ u.var = Found(at, x)
    OBVIOUS
<1>3. Having(at, x) \cap Seen(at) # {}
    BY DEF Found, LookUp
<1>4. CASE Having(at, x) \subseteq Seen(at)
    <2>1. Having(at, x) \cap Seen(at) = Having(at, x)
        BY <1>4
    <2>2. get_info(at, x) = Found(at, x)
        BY <2>1 DEF get_info, Found
    <2>3. QED  BY <1>1, <1>2, <1>3, <2>2 DEF UseOK, IInv
<1>5. CASE ~ (Having(at, x) \subseteq Seen(at))
    <2>1. BehindBarrier(u)
        BY <1>2, <1>5 DEF BehindBarrier, Having
    <2>2. QED  BY <1>1, <1>2, <1>3, <2>1 DEF UseOK, IInv
<1>6. QED  BY <1>4, <1>5

\* What a use was bound to holds after every step, with the tables that have grown.
LEMMA UsesKept ==
    ASSUME IInv, [Next]_vars, ~errors', NEW u \in uses'
    PROVE  UseOK(u)'
<1>1. Keeps /\ ~errors
    BY StepKeeps DEF Keeps, IInv
<1>2. CASE u \in uses
    BY <1>1, <1>2, UseKept DEF IInv
<1>3. CASE u \notin uses
    <2>1. PICK x \in Ids : Identifier(x)
        BY <1>3 DEF Next, VarDecl, Block, FuncDecl, Leave, Done, vars
    <2>2. u = [block |-> at, name |-> x, clock |-> var_id, var |-> Found(at, x)]
        BY <1>3, <2>1 DEF Identifier
    <2>3. Found(at, x) # None
        BY <2>1 DEF Identifier, IsMissing
    <2>4. UseOK(u)
        BY <1>1, <2>1, <2>2, <2>3, NewUse
    <2>5. QED  BY <1>1, <2>4, UseKept
<1>4. QED  BY <1>2, <1>3

\* A name is reported where it had no entry, and there it has one then.
LEMMA ReportsKept ==
    ASSUME IInv, [Next]_vars
    PROVE  ReportsOK'
<1>1. Keeps
    BY StepKeeps
<1> DEFINE S == (1 .. Len(blocks)) \X Ids
           T == (1 .. Len(blocks')) \X Ids
           n == Len(undeclared)
<1>2. Len(blocks) \in Nat /\ Len(blocks') \in Nat
    BY <1>1, SeqShape DEF IInv, BlocksOK, Keeps
<1>3. S \subseteq T
    BY <1>1, <1>2 DEF Keeps
<1>4. undeclared \in Seq(S) /\ undeclared \in Seq(T)
    BY <1>3, SeqMonotonic DEF IInv, ReportsOK
<1>5. n \in Nat /\ DOMAIN undeclared = 1 .. n /\ \A i \in 1 .. n : undeclared[i] \in S
    BY <1>4, LenProperties, ElementOfSeq
<1>6. \A i \in 1 .. n : undeclared[i][1] \in 1 .. Len(tables)
    BY <1>5 DEF IInv
<1>7. \A i \in 1 .. n : undeclared[i][2] \in DOMAIN tables'[undeclared[i][1]]
    BY <1>1, <1>6 DEF IInv, ReportsOK, Keeps, Grown
<1>8. CASE undeclared' = undeclared
    BY <1>4, <1>7, <1>8 DEF IInv, ReportsOK, IsInjective
<1>9. CASE undeclared' # undeclared
    <2>1. PICK x \in Ids : Identifier(x)
        BY <1>9 DEF Next, VarDecl, Block, FuncDecl, Leave, Done, vars
    <2>2. Checking /\ Found(at, x) = None /\ undeclared' = Append(undeclared, <<at, x>>)
        BY <1>9, <2>1 DEF Identifier, IsMissing
    <2>3. at \in 1 .. Len(tables) /\ at \in 1 .. Len(blocks)
        BY <2>2, AtBlock
    <2>4. x \notin DOMAIN tables[at]
        BY <2>2, MissingHere
    <2>5. tables' = [tables EXCEPT ![at] = Declared(at, x, "error")]
        BY <2>1, <2>2 DEF Identifier, Assumed
    <2>6. x \in DOMAIN tables'[at]
        BY <2>3, <2>4, <2>5, DeclaredGrows DEF Types, Refused
    <2>7. <<at, x>> \in S /\ <<at, x>> \in T
        BY <1>3, <2>3
    <2>8. /\ undeclared' \in Seq(T)
          /\ Len(undeclared') = n + 1
          /\ \A i \in 1 .. n : undeclared'[i] = undeclared[i]
          /\ undeclared'[n + 1] = <<at, x>>
        BY <1>4, <2>2, <2>7, AppendProperties
    <2>9. DOMAIN undeclared' = 1 .. n + 1
        BY <2>8, LenProperties
    <2>10. \A i \in 1 .. n : undeclared[i] # <<at, x>>
        BY <2>4 DEF IInv, ReportsOK
    <2>11. \A i \in 1 .. n + 1 : undeclared'[i][2] \in DOMAIN tables'[undeclared'[i][1]]
        BY <1>5, <1>7, <2>6, <2>8
    <2>12. \A i, j \in 1 .. n : undeclared[i] = undeclared[j] => i = j
        BY <1>5 DEF IInv, ReportsOK, IsInjective
    <2>13. IsInjective(undeclared')
        <3>1. ASSUME NEW i \in 1 .. n + 1, NEW j \in 1 .. n + 1, undeclared'[i] = undeclared'[j]
              PROVE  i = j
            <4>1. CASE i \in 1 .. n /\ j \in 1 .. n
                BY <2>8, <2>12, <3>1, <4>1
            <4>2. CASE i \in 1 .. n /\ j = n + 1
                BY <2>8, <2>10, <3>1, <4>2
            <4>3. CASE i = n + 1 /\ j \in 1 .. n
                BY <2>8, <2>10, <3>1, <4>3
            <4>4. CASE i = n + 1 /\ j = n + 1
                BY <4>4
            <4>5. QED  BY <1>5, <4>1, <4>2, <4>3, <4>4
        <3>2. QED  BY <2>9, <3>1 DEF IsInjective
    <2>14. QED  BY <2>8, <2>11, <2>13 DEF ReportsOK
<1>10. QED  BY <1>8, <1>9

-----------------------------------------------------------------------------
(* The properties. *)

LEMMA InitOK == Init => IInv
<1> SUFFICES ASSUME Init
             PROVE  IInv
    OBVIOUS
<1> USE DEF Init
<1>1. IsSeq(blocks) /\ Len(blocks) = 1
    <2> DEFINE k == [kind |-> "ext", path |-> <<1>>]
    <2> HIDE DEF k
    <2>1. <<k>> \in Seq({k}) /\ Len(<<k>>) = 1
        OBVIOUS
    <2>2. blocks = <<k>>
        BY DEF k
    <2>3. QED  BY <2>1, <2>2, SeqIsSeq
<1>2. IsSeq(tables) /\ Len(tables) = 1 /\ tables[1] = <<>>
    <2>1. tables \in Seq({<<>>})
        OBVIOUS
    <2>2. QED  BY <2>1, SeqIsSeq
<1>3. PathOK(<<1>>, 1)
    BY DEF PathOK, Last
<1>4. BlocksOK
    BY <1>1, <1>3 DEF BlocksOK, Path, Kinds
<1>5. TablesOK(tables, var_id) /\ AllKnown(tables)
    BY <1>2 DEF TablesOK, TableOK, IdsApart, AllKnown
<1>6. ReportsOK
    BY DEF ReportsOK, IsInjective
<1>7. var_id \in Nat /\ at \in 0 .. Len(blocks) /\ errors \in BOOLEAN
    <2>1. 1 \in 0 .. 1
        OBVIOUS
    <2>2. QED  BY <1>1, <2>1
<1>8. \A u \in uses : UseOK(u)
    OBVIOUS
<1>9. Len(tables) = Len(blocks)
    BY <1>1, <1>2
<1>10. QED  BY <1>4, <1>5, <1>6, <1>7, <1>8, <1>9, Zenon DEF IInv

\* The invariant is inductive.
LEMMA StepOK == IInv /\ [Next]_vars => IInv'
<1> SUFFICES ASSUME IInv, [Next]_vars
             PROVE  IInv'
    OBVIOUS
<1>1. Keeps
    BY StepKeeps
<1>2. ReportsOK'
    BY ReportsKept
<1>3. ~errors' => \A u \in uses' : UseOK(u)'
    BY UsesKept
<1>4. QED  BY <1>1, <1>2, <1>3 DEF Keeps, IInv

\* Whatever the checker meets, the tables are well formed: one for each block,
\* with numbers of variables of their own.  While there is no error, what a use was
\* bound to is what get_info finds for it in the generator, but for the two gaps:
\* a declaration that came later, and a function that stands between.
THEOREM Invariant == Spec => []IInv
<1>1. Init => IInv
    BY InitOK
<1>2. IInv /\ [Next]_vars => IInv'
    BY StepOK
<1>3. QED  BY <1>1, <1>2, PTL DEF Spec

\* The tables that build_sym_table and set_id leave are well formed: the
\* blocks make a tree, and no two variables share an id.
THEOREM WellFormed == Spec => []ScopesOK
<1>1. IInv => ScopesOK
    <2> SUFFICES ASSUME IInv
                 PROVE  ScopesOK
        OBVIOUS
    <2>1. DOMAIN blocks = 1 .. Len(blocks) /\ DOMAIN tables = 1 .. Len(tables)
        BY SeqShape DEF IInv, BlocksOK, TablesOK
    <2>2. \A b \in DOMAIN blocks :
            /\ blocks[b].kind \in Kinds
            /\ Path(b) \in Seq(1 .. b) /\ Path(b) # <<>> /\ Last(Path(b)) = b
            /\ \A i, j \in DOMAIN Path(b) : i < j => Path(b)[i] < Path(b)[j]
        BY <2>1 DEF IInv, BlocksOK, PathOK
    <2>3. \A b \in DOMAIN blocks : \A x \in DOMAIN tables[b] :
            tables[b][x] \in Var /\ tables[b][x].id < var_id
        BY <2>1 DEF IInv, TablesOK, TableOK
    <2>4. \A b, c \in DOMAIN blocks : \A x \in DOMAIN tables[b], y \in DOMAIN tables[c] :
            tables[b][x].id = tables[c][y].id => b = c /\ x = y
        BY <2>1 DEF IInv, TablesOK, IdsApart
    <2>5. QED  BY <2>2, <2>3, <2>4 DEF IInv, ScopesOK
<1>2. QED  BY <1>1, Invariant, PTL

\* What get_info answers for a name of a program that is generated is a
\* declared variable, so gen_llvm_ir may follow it without a test.
THEOREM AlwaysFoundHolds == Spec => []AlwaysFound
<1>1. IInv => AlwaysFound
    <2> SUFFICES ASSUME IInv, ~errors, NEW u \in uses
                 PROVE  get_info(u.block, u.name).type = "known"
        BY DEF AlwaysFound, Generated
    <2>1. u.block \in 1 .. Len(blocks) /\ Having(u.block, u.name) # {}
        BY DEF IInv, UseOK
    <2>2. PICK i \in Having(u.block, u.name) :
            get_info(u.block, u.name) = tables[Path(u.block)[i]][u.name]
        BY <2>1, LookUpFinds DEF get_info
    <2>3. Path(u.block)[i] \in 1 .. Len(tables) /\ u.name \in DOMAIN tables[Path(u.block)[i]]
        BY <2>1, <2>2, OnPath DEF Having, IInv
    <2>4. QED  BY <2>2, <2>3 DEF IInv, AllKnown
<1>2. QED  BY <1>1, Invariant, PTL

\* get_id leaves an entry behind a name it did not find, so that the block
\* reports it once.
THEOREM ReportedOnceHolds == Spec => []ReportedOnce
<1>1. IInv => ReportedOnce
    BY DEF IInv, ReportsOK, ReportedOnce
<1>2. QED  BY <1>1, Invariant, PTL

\* get_id and get_info, the checker's and the generator's look-up, answer
\* alike but for the two gaps.
THEOREM ResolvesAlikeHolds == Spec => []ResolvesAlike
<1>1. IInv => ResolvesAlike
    BY DEF IInv, UseOK, ResolvesAlike, Generated
<1>2. QED  BY <1>1, Invariant, PTL

\* set_id never replaces a variable that was declared.
THEOREM EntriesKeptHolds == Spec => EntriesKept
<1> DEFINE Kept ==
        \A b \in DOMAIN tables : \A x \in DOMAIN tables[b] :
            /\ x \in DOMAIN tables'[b]
            /\ tables'[b][x].id = tables[b][x].id
            /\ tables[b][x].type = "known" => tables'[b][x] = tables[b][x]
<1>1. IInv /\ [Next]_vars => Kept
    <2> SUFFICES ASSUME IInv, [Next]_vars
                 PROVE  Kept
        OBVIOUS
    <2>1. DOMAIN tables = 1 .. Len(tables)
        BY SeqShape DEF IInv, TablesOK
    <2>2. Grown(tables, tables')
        BY StepKeeps DEF Keeps
    <2>3. QED  BY <2>1, <2>2 DEF Grown
<1>2. QED  BY <1>1, Invariant, PTL DEF Spec, EntriesKept
=============================================================================
