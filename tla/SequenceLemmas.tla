-------------------------- MODULE SequenceLemmas ---------------------------
(***************************************************************************)
(* Sequences of things that are not described by a set: what Append and    *)
(* Front make of them, and the greatest of a set of positions.             *)
(***************************************************************************)
EXTENDS Integers, SequencesExt, SequenceTheorems, WellFoundedInduction, TLAPS

\* A sequence over its own elements.
IsSeq(s) == s \in Seq(Range(s))

\* A sequence is one over its own elements.
LEMMA SeqIsSeq ==
    ASSUME NEW S, NEW s \in Seq(S)
    PROVE  IsSeq(s)
<1>1. Len(s) \in Nat /\ DOMAIN s = 1 .. Len(s) /\ s \in [1 .. Len(s) -> S]
    BY LenProperties
<1>2. s \in [1 .. Len(s) -> Range(s)]
    BY <1>1 DEF Range
<1>3. QED  BY <1>1, <1>2, SeqDef DEF IsSeq

\* Such a sequence is a function on 1 .. its length.
LEMMA SeqShape ==
    ASSUME NEW s, IsSeq(s)
    PROVE  /\ Len(s) \in Nat
           /\ DOMAIN s = 1 .. Len(s)
           /\ s = <<>> <=> Len(s) = 0
<1>1. Len(s) \in Nat /\ DOMAIN s = 1 .. Len(s)
    BY LenProperties DEF IsSeq
<1>2. s = <<>> <=> Len(s) = 0
    BY EmptySeq, SeqDef DEF IsSeq
<1>3. QED  BY <1>1, <1>2

\* What Append makes.
LEMMA AppendShape ==
    ASSUME NEW s, IsSeq(s), NEW e
    PROVE  /\ IsSeq(Append(s, e))
           /\ Len(Append(s, e)) = Len(s) + 1
           /\ \A i \in 1 .. Len(s) : Append(s, e)[i] = s[i]
           /\ Append(s, e)[Len(s) + 1] = e
<1> DEFINE S == Range(s) \cup {e}
<1>1. s \in Seq(S) /\ e \in S
    BY SeqMonotonic DEF IsSeq
<1> HIDE DEF S
<1>2. /\ Append(s, e) \in Seq(S)
      /\ Len(Append(s, e)) = Len(s) + 1
      /\ \A i \in 1 .. Len(s) : Append(s, e)[i] = s[i]
      /\ Append(s, e)[Len(s) + 1] = e
    BY <1>1, AppendProperties
<1>3. IsSeq(Append(s, e))
    BY <1>2, SeqIsSeq
<1>4. QED  BY <1>2, <1>3

\* A function on 1 .. n is a sequence.
LEMMA FunctionShape ==
    ASSUME NEW r, NEW n \in Nat, r = [i \in 1 .. n |-> r[i]]
    PROVE  IsSeq(r) /\ Len(r) = n
<1>1. r \in [1 .. n -> Range(r)]
    BY DEF Range
<1>2. r \in Seq(Range(r))
    BY <1>1, SeqDef
<1>3. Len(r) = n
    BY <1>2, <1>1, LenProperties
<1>4. QED  BY <1>2, <1>3 DEF IsSeq

\* What Front leaves.
LEMMA FrontShape ==
    ASSUME NEW s, IsSeq(s), Len(s) # 0
    PROVE  /\ IsSeq(Front(s))
           /\ Len(Front(s)) = Len(s) - 1
           /\ \A i \in 1 .. Len(s) - 1 : Front(s)[i] = s[i]
<1> DEFINE S == Range(s)
<1>1. Len(s) \in Nat
    BY SeqShape
<1>2. s \in Seq(S)
    BY DEF IsSeq
<1> HIDE DEF S
<1> DEFINE n == Len(s) - 1
<1>3. n \in Nat /\ \A i \in 1 .. n : s[i] \in S
    BY <1>1, <1>2, ElementOfSeq
<1> HIDE DEF n
<1>4. /\ SubSeq(s, 1, n) \in Seq(S)
      /\ Len(SubSeq(s, 1, n)) = n
      /\ \A i \in 1 .. n : SubSeq(s, 1, n)[i] = s[i]
    BY <1>3, SubSeqProperties
<1>5. IsSeq(SubSeq(s, 1, n))
    BY <1>4, SeqIsSeq
<1>6. QED  BY <1>4, <1>5 DEF n, Front

\* Of some positions one is the greatest.
LEMMA Greatest ==
    ASSUME NEW n \in Nat, NEW P \in SUBSET (1 .. n), P # {}
    PROVE  \E i \in P : \A j \in P : j <= i
<1> DEFINE T == {n - i : i \in P}
<1>1. T \subseteq Nat
    OBVIOUS
<1>2. T # {}
    OBVIOUS
<1> HIDE DEF T
<1>3. PICK m \in T : \A k \in T : <<k, m>> \notin OpToRel(<, Nat)
    BY <1>1, <1>2, WFMin, NatLessThanWellFounded, Zenon
<1>4. \A k \in T : ~ (k < m)
    BY <1>1, <1>3, Zenon DEF OpToRel
<1>5. PICK i \in P : m = n - i
    BY DEF T
<1>6. \A j \in P : n - j \in T
    BY DEF T
<1>7. \A j \in P : j <= i
    BY <1>4, <1>5, <1>6
<1>8. QED  BY <1>7

\* Of some numbers one is the least.
LEMMA LeastNumber ==
    ASSUME NEW T \in SUBSET Nat, T # {}
    PROVE  \E m \in T : \A k \in T : m <= k
<1>1. PICK m \in T : \A k \in T : <<k, m>> \notin OpToRel(<, Nat)
    BY WFMin, NatLessThanWellFounded, Zenon
<1>2. \A k \in T : ~ (k < m)
    BY <1>1, Zenon DEF OpToRel
<1>3. \A k \in T : m <= k
    BY <1>2
<1>4. QED  BY <1>3

\* Induction, for a set of numbers.
LEMMA Inductive ==
    ASSUME NEW T, 0 \in T, \A n \in Nat : n \in T => n + 1 \in T
    PROVE  \A n \in Nat : n \in T
<1> DEFINE F == {n \in Nat : n \notin T}
<1>1. SUFFICES ASSUME F # {} PROVE FALSE
    OBVIOUS
<1>2. F \in SUBSET Nat
    OBVIOUS
<1> HIDE DEF F
<1>3. PICK m \in F : \A k \in F : m <= k
    BY <1>1, <1>2, LeastNumber
<1>4. m \in Nat /\ m \notin T /\ m # 0
    BY <1>3 DEF F
<1>5. m - 1 \in Nat /\ m - 1 \notin F /\ (m - 1) + 1 = m
    BY <1>2, <1>3, <1>4
<1>6. m - 1 \in T
    BY <1>5 DEF F
<1>7. QED  BY <1>4, <1>5, <1>6

\* What Tail leaves.
LEMMA TailShape ==
    ASSUME NEW s, IsSeq(s), Len(s) # 0
    PROVE  /\ IsSeq(Tail(s))
           /\ Len(Tail(s)) = Len(s) - 1
           /\ \A i \in 1 .. Len(s) - 1 : Tail(s)[i] = s[i + 1]
<1> DEFINE S == Range(s)
<1>1. Len(s) \in Nat /\ s # <<>>
    BY SeqShape
<1>2. s \in Seq(S)
    BY DEF IsSeq
<1> HIDE DEF S
<1>3. Tail(s) \in Seq(S) /\ Len(Tail(s)) = Len(s) - 1
      /\ \A i \in 1 .. Len(s) - 1 : Tail(s)[i] = s[i + 1]
    BY <1>1, <1>2, HeadTailProperties
<1>4. QED  BY <1>3, SeqIsSeq
=============================================================================
