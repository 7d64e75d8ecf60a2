--------------------------- MODULE FlowGen_proofs ---------------------------
(***************************************************************************)
(* Proofs about FlowGen: loop_stack mirrors the loops around the place     *)
(* that is generated, and what is left of a function passes LLVM's         *)
(* verifier.                                                               *)
(*                                                                         *)
(* The argument is about who will still write in a block.  A construct     *)
(* owns the blocks it made that code may still branch to, and waits for    *)
(* those it has not come to: they are empty, and no other construct owns   *)
(* them.  An empty or loose block is therefore either the insertion point  *)
(* of a builder or waited for, and what a construct waits for lies in the  *)
(* function of the builder at its own level of nesting.                    *)
(***************************************************************************)
EXTENDS FlowGen, SequenceLemmas, FiniteSetTheorems

TermT  == [to : SUBSET Nat, test : {"no", "bool", "other"},
           ret : {"no", "none", "value", "void", "other"}]
BlockT == [fn : Nat, type : Rets, placed : BOOLEAN, term : Seq(TermT), phi : SUBSET Nat]
OpenT  == [kind : {"func", "if", "while", "for"},
           phase : {"cond", "then", "else", "init", "body", "step"},
           begin : Nat, nxt : Nat, end : Nat, thenEnd : Nat,
           has : BOOLEAN, val : BOOLEAN, ret : Rets, tail : BOOLEAN, method : BOOLEAN,
           entry : BOOLEAN, brk : BOOLEAN, cont : BOOLEAN]

\* What the variables hold.
Typed ==
    /\ blocks \in Seq(BlockT)
    /\ builders \in Seq(Nat)
    /\ open \in Seq(OpenT)
    /\ loop_stack \in Seq(Nat \X Nat)
    /\ lives \in Seq(BOOLEAN)

\* The blocks construct x has not come to.
WaitsFor(x, b) ==
    \/ x.kind = "if" /\ x.phase = "then" /\ x.has /\ b = x.begin
    \/ x.kind = "if" /\ x.phase # "cond" /\ b = x.end
    \/ x.kind \in Loops /\ b = x.end
    \/ x.kind = "while" /\ x.phase = "body" /\ b = x.nxt
    \/ x.kind = "for" /\ x.phase = "init" /\ b = x.begin
    \/ x.kind = "for" /\ x.phase \in {"init", "body"} /\ b = x.nxt
    \/ x.kind = "for" /\ x.phase \in {"init", "body", "step"} /\ b = x.nxt + 1

\* The blocks code of construct x may still branch to.
Owns(x, b) ==
    \/ WaitsFor(x, b)
    \/ x.kind \in Loops /\ b \in {x.begin, x.nxt, x.end}
    \/ x.kind = "for" /\ b = x.nxt + 1

\* A construct waits for a block once.
Distinct(x) ==
    /\ x.kind = "if" /\ x.phase = "then" /\ x.has => x.begin # x.end
    /\ x.kind \in Loops => x.begin # x.end /\ x.nxt # x.end
    /\ x.kind = "for" => /\ x.begin # x.nxt /\ x.begin # x.nxt + 1 /\ x.nxt + 1 # x.end

Funcs     == {i \in DOMAIN open : open[i].kind = "func"}
OpenLoops == {i \in DOMAIN open : open[i].kind \in Loops}
UpTo(P, i) == Cardinality({j \in P : j <= i})

\* The insertion point of the builder at the level of the i-th construct.
Home(i) == builders[UpTo(Funcs, i)]

Current(b)  == \E k \in DOMAIN builders : builders[k] = b
Awaited(b)  == \E i \in DOMAIN open : WaitsFor(open[i], b)

\* Every block is in a function, ends at most once and branches to blocks.
BlocksFit ==
    \A b \in Block :
        /\ blocks[b].fn \in Block /\ blocks[blocks[b].fn].fn = blocks[b].fn
        /\ Len(blocks[b].term) <= 1
        /\ Successors(b) \subseteq Block

\* The builders write in blocks of their own, which are open.
BuildersFit ==
    /\ \A k \in DOMAIN builders : /\ builders[k] \in Block
                                  /\ blocks[builders[k]].term = <<>>
                                  /\ blocks[builders[k]].placed
    /\ \A k, l \in DOMAIN builders : builders[k] = builders[l] => k = l

\* Each open function has a builder and a mark of liveness; the first
\* construct is a function.
LevelsFit ==
    /\ Len(builders) = Cardinality(Funcs)
    /\ Len(lives) = Cardinality(Funcs)
    /\ open # <<>> => open[1].kind = "func"

\* A construct owns blocks of its level's function that no other construct
\* owns and no phi is in, and waits for empty ones.
OwnedFit ==
    /\ \A i \in DOMAIN open : \A b \in Nat : Owns(open[i], b) =>
          /\ b \in Block
          /\ blocks[b].fn = blocks[Home(i)].fn
          /\ blocks[b].type = blocks[Home(i)].type
          /\ blocks[b].phi = {}
    /\ \A i \in DOMAIN open : \A b \in Nat : WaitsFor(open[i], b) =>
          blocks[b].term = <<>> /\ ~ Current(b)
    /\ \A i, j \in DOMAIN open : \A b \in Nat :
          Owns(open[i], b) /\ Owns(open[j], b) => i = j
    /\ \A i \in DOMAIN open : Distinct(open[i])
    /\ \A i \in Funcs : blocks[Home(i)].type = open[i].ret
    /\ \A i \in DOMAIN open : open[i].kind = "for" /\ open[i].phase = "init" =>
          blocks[open[i].begin].placed

\* A block that is empty or loose is written in, or waited for.
NoneLost ==
    \A b \in Block : blocks[b].term = <<>> \/ ~ blocks[b].placed => Current(b) \/ Awaited(b)

\* Only the end of the then branch leads to the end of an if with a value, once
\* it is generated.
PhisFit ==
    /\ PhisMatch
    /\ \A i \in DOMAIN open : open[i].kind = "if" /\ open[i].val =>
          /\ open[i].has
          /\ open[i].phase = "then" => Predecessors(open[i].end) = {}
          /\ open[i].phase = "else" => Predecessors(open[i].end) = {open[i].thenEnd}

LoopsFit ==
    /\ LoopsMirrored
    /\ \A i \in DOMAIN loop_stack : loop_stack[i][1] \in Block /\ loop_stack[i][2] \in Block

FlowInv ==
    /\ Typed /\ BlocksFit /\ BuildersFit /\ LevelsFit /\ OwnedFit /\ NoneLost
    /\ PhisFit /\ LoopsFit
    /\ JumpsStay /\ RetMatches /\ TestsAreBool
-----------------------------------------------------------------------------
(* Counting constructs. *)

\* Of some positions, those up to one are a finite number, and no more than all.
LEMMA CountTo ==
    ASSUME NEW n \in Nat, NEW P \in SUBSET (1 .. n), NEW i \in Nat
    PROVE  /\ IsFiniteSet(P) /\ Cardinality(P) \in Nat
           /\ UpTo(P, i) \in Nat /\ UpTo(P, i) <= Cardinality(P)
           /\ i \in P => UpTo(P, i) >= 1
<1> DEFINE Q == {j \in P : j <= i}
<1>1. IsFiniteSet(1 .. n)
    BY FS_Interval
<1>2. IsFiniteSet(P)
    BY <1>1, FS_Subset
<1>3. Cardinality(P) \in Nat /\ IsFiniteSet(Q) /\ Cardinality(Q) <= Cardinality(P)
    BY <1>2, FS_Subset, FS_CardinalityType
<1>4. Cardinality(Q) \in Nat
    BY <1>3, FS_CardinalityType
<1>5. i \in P => Q # {}
    OBVIOUS
<1>6. Q # {} => Cardinality(Q) # 0
    BY <1>3, FS_EmptySet
<1> HIDE DEF Q
<1>7. UpTo(P, i) = Cardinality(Q)
    BY DEF UpTo, Q
<1>8. QED  BY <1>2, <1>3, <1>4, <1>5, <1>6, <1>7

\* Nothing lies behind the greatest.
LEMMA CountAll ==
    ASSUME NEW n \in Nat, NEW P \in SUBSET (1 .. n), NEW i \in Nat, \A j \in P : j <= i
    PROVE  UpTo(P, i) = Cardinality(P)
<1>1. {j \in P : j <= i} = P
    OBVIOUS
<1>2. QED  BY <1>1 DEF UpTo

\* One more position behind the others.
LEMMA CountPush ==
    ASSUME NEW n \in Nat, NEW P \in SUBSET (1 .. n)
    PROVE  /\ Cardinality(P \cup {n + 1}) = Cardinality(P) + 1
           /\ \A i \in 1 .. n : UpTo(P \cup {n + 1}, i) = UpTo(P, i)
           /\ UpTo(P \cup {n + 1}, n + 1) = Cardinality(P) + 1
<1>1. IsFiniteSet(P)
    BY CountTo
<1>2. n + 1 \notin P
    OBVIOUS
<1>3. Cardinality(P \cup {n + 1}) = Cardinality(P) + 1
    BY <1>1, <1>2, FS_AddElement
<1>4. ASSUME NEW i \in 1 .. n PROVE UpTo(P \cup {n + 1}, i) = UpTo(P, i)
    <2>1. {j \in P \cup {n + 1} : j <= i} = {j \in P : j <= i}
        OBVIOUS
    <2>2. QED  BY <2>1 DEF UpTo
<1>5. {j \in P \cup {n + 1} : j <= n + 1} = P \cup {n + 1}
    <2>1. \A j \in P \cup {n + 1} : j <= n + 1
        OBVIOUS
    <2> DEFINE Q == P \cup {n + 1}
    <2> HIDE DEF Q
    <2>2. \A j \in Q : j <= n + 1
        BY <2>1 DEF Q
    <2>3. {j \in Q : j <= n + 1} = Q
        BY <2>2
    <2>4. QED  BY <2>3 DEF Q
<1>6. UpTo(P \cup {n + 1}, n + 1) = Cardinality(P \cup {n + 1})
    BY <1>5 DEF UpTo
<1>7. QED  BY <1>3, <1>4, <1>6

\* The last position goes.
LEMMA CountPop ==
    ASSUME NEW n \in Nat, NEW P \in SUBSET (1 .. n), n \in P
    PROVE  /\ P \ {n} \in SUBSET (1 .. (n - 1))
           /\ Cardinality(P \ {n}) = Cardinality(P) - 1
           /\ \A i \in 1 .. (n - 1) : UpTo(P \ {n}, i) = UpTo(P, i)
<1>1. n - 1 \in Nat /\ n = (n - 1) + 1
    OBVIOUS
<1>2. P \ {n} \in SUBSET (1 .. (n - 1))
    OBVIOUS
<1>3. P = (P \ {n}) \cup {(n - 1) + 1}
    BY <1>1
<1> DEFINE m == n - 1   R == P \ {n}
<1> HIDE DEF m, R
<1>4. m \in Nat /\ R \in SUBSET (1 .. m) /\ P = R \cup {m + 1}
    BY <1>1, <1>2, <1>3 DEF m, R
<1>5. Cardinality(P) = Cardinality(R) + 1 /\ \A i \in 1 .. m : UpTo(P, i) = UpTo(R, i)
    BY <1>4, CountPush
<1>6. Cardinality(R) \in Nat
    BY <1>4, CountTo, <1>1
<1>7. Cardinality(P) \in Nat
    BY CountTo
<1>8. Cardinality(R) = Cardinality(P) - 1 /\ \A i \in 1 .. m : UpTo(R, i) = UpTo(P, i)
    BY <1>5, <1>6, <1>7
<1>9. QED  BY <1>2, <1>8 DEF m, R

-----------------------------------------------------------------------------
(* Blocks. *)

\* The blocks cs are the blocks bs with the end t added to the one at that place.
EndsIn(bs, cs, at, t) ==
    /\ cs \in Seq(BlockT) /\ Len(cs) = Len(bs)
    /\ \A b \in 1 .. Len(bs) :
          /\ cs[b].fn = bs[b].fn /\ cs[b].type = bs[b].type
          /\ cs[b].placed = bs[b].placed /\ cs[b].phi = bs[b].phi
          /\ b # at => cs[b].term = bs[b].term
    /\ cs[at].term = Append(bs[at].term, t)

\* The blocks cs are the blocks bs with the one at that place put into its function.
PlacesIn(bs, cs, at) ==
    /\ cs \in Seq(BlockT) /\ Len(cs) = Len(bs)
    /\ \A b \in 1 .. Len(bs) :
          /\ cs[b].fn = bs[b].fn /\ cs[b].type = bs[b].type
          /\ cs[b].term = bs[b].term /\ cs[b].phi = bs[b].phi
          /\ b # at => cs[b].placed = bs[b].placed
    /\ cs[at].placed

\* What a block of the model keeps: all but its end.
LEMMA TerminateIs ==
    ASSUME NEW bs \in Seq(BlockT), NEW at \in 1 .. Len(bs), NEW t \in TermT
    PROVE  EndsIn(bs, Terminate(bs, at, t), at, t)
<1> DEFINE x == Ended(bs[at], t)
<1>1. bs[at] \in BlockT
    BY ElementOfSeq
<1>2. Append(bs[at].term, t) \in Seq(TermT)
    BY <1>1, AppendProperties DEF BlockT
<1>3. /\ x \in BlockT /\ x.fn = bs[at].fn /\ x.type = bs[at].type
      /\ x.placed = bs[at].placed /\ x.phi = bs[at].phi
      /\ x.term = Append(bs[at].term, t)
    BY <1>1, <1>2 DEF Ended, BlockT
<1> HIDE DEF x
<1>4. Terminate(bs, at, t) = [bs EXCEPT ![at] = x]
    BY DEF Terminate, x
<1>5. /\ Terminate(bs, at, t) \in Seq(BlockT)
      /\ Len(Terminate(bs, at, t)) = Len(bs)
      /\ \A b \in 1 .. Len(bs) : Terminate(bs, at, t)[b] = IF b = at THEN x ELSE bs[b]
    BY <1>3, <1>4, ExceptSeq, LenProperties
<1>6. PICK cs : cs = Terminate(bs, at, t)
    OBVIOUS
<1>7. EndsIn(bs, cs, at, t)
    BY <1>3, <1>5, <1>6 DEF EndsIn
<1>8. QED  BY <1>6, <1>7

\* Placing a block changes nothing else.
LEMMA PlaceIs ==
    ASSUME NEW bs \in Seq(BlockT), NEW at \in 1 .. Len(bs)
    PROVE  PlacesIn(bs, Place(bs, at), at)
<1> DEFINE x == InFunction(bs[at])
<1>1. bs[at] \in BlockT
    BY ElementOfSeq
<1>3. /\ x \in BlockT /\ x.fn = bs[at].fn /\ x.type = bs[at].type
      /\ x.placed = TRUE /\ x.phi = bs[at].phi /\ x.term = bs[at].term
    BY <1>1 DEF InFunction, BlockT
<1> HIDE DEF x
<1>4. Place(bs, at) = [bs EXCEPT ![at] = x]
    BY DEF Place, x
<1>5. /\ Place(bs, at) \in Seq(BlockT)
      /\ Len(Place(bs, at)) = Len(bs)
      /\ \A b \in 1 .. Len(bs) : Place(bs, at)[b] = IF b = at THEN x ELSE bs[b]
    BY <1>3, <1>4, ExceptSeq, LenProperties
<1>6. PICK cs : cs = Place(bs, at)
    OBVIOUS
<1>7. PlacesIn(bs, cs, at)
    BY <1>3, <1>5, <1>6 DEF PlacesIn
<1>8. QED  BY <1>6, <1>7

\* A phi changes nothing else.
LEMMA PhiIs ==
    ASSUME NEW bs \in Seq(BlockT), NEW at \in 1 .. Len(bs), NEW from \in SUBSET Nat
    PROVE  LET as == [bs EXCEPT ![at] = WithPhi(@, from)] IN
           /\ as \in Seq(BlockT)
           /\ Len(as) = Len(bs)
           /\ \A b \in 1 .. Len(bs) :
                 /\ as[b].fn = bs[b].fn
                 /\ as[b].type = bs[b].type
                 /\ as[b].term = bs[b].term
                 /\ as[b].placed = bs[b].placed
                 /\ b # at => as[b].phi = bs[b].phi
           /\ as[at].phi = from
<1> DEFINE x == WithPhi(bs[at], from)   as == [bs EXCEPT ![at] = x]
<1>1. bs[at] \in BlockT
    BY ElementOfSeq
<1>3. /\ x \in BlockT /\ x.fn = bs[at].fn /\ x.type = bs[at].type
      /\ x.placed = bs[at].placed /\ x.phi = from /\ x.term = bs[at].term
    BY <1>1 DEF WithPhi, BlockT
<1>4. as = [bs EXCEPT ![at] = WithPhi(@, from)]
    OBVIOUS
<1> HIDE DEF x
<1>5. /\ as \in Seq(BlockT)
      /\ Len(as) = Len(bs)
      /\ \A b \in 1 .. Len(bs) : as[b] = IF b = at THEN x ELSE bs[b]
    BY <1>3, ExceptSeq, LenProperties
<1>6. QED  BY <1>3, <1>4, <1>5

\* A new block is empty.
LEMMA NewBlockIs ==
    ASSUME NEW fn \in Nat, NEW type \in Rets, NEW placed \in BOOLEAN
    PROVE  /\ NewBlock(fn, type, placed) \in BlockT
           /\ NewBlock(fn, type, placed).fn = fn
           /\ NewBlock(fn, type, placed).type = type
           /\ NewBlock(fn, type, placed).placed = placed
           /\ NewBlock(fn, type, placed).term = <<>>
           /\ NewBlock(fn, type, placed).phi = {}
<1>1. <<>> \in Seq(TermT)
    BY EmptySeq
<1>2. QED  BY <1>1 DEF NewBlock, BlockT

\* New blocks come behind the others.
LEMMA MadeIs ==
    ASSUME NEW bs \in Seq(BlockT), NEW made \in Seq(BlockT)
    PROVE  /\ bs \o made \in Seq(BlockT)
           /\ Len(bs \o made) = Len(bs) + Len(made)
           /\ \A b \in 1 .. Len(bs) : (bs \o made)[b] = bs[b]
           /\ \A i \in 1 .. Len(made) : (bs \o made)[Len(bs) + i] = made[i]
<1>1. Len(bs) \in Nat /\ Len(made) \in Nat
    BY LenProperties
<1>2. /\ bs \o made \in Seq(BlockT)
      /\ Len(bs \o made) = Len(bs) + Len(made)
      /\ \A i \in 1 .. Len(bs) + Len(made) :
            (bs \o made)[i] = IF i <= Len(bs) THEN bs[i] ELSE made[i - Len(bs)]
    BY ConcatProperties
<1>3. QED  BY <1>1, <1>2

-----------------------------------------------------------------------------
(* What a step does, in the terms of the invariant.                        *)

SuccOf(s) == UNION {s[i].to : i \in DOMAIN s}

\* The lengths and the elements of the sequences.
Shaped ==
    /\ Len(blocks) \in Nat /\ Block = 1 .. Len(blocks)
    /\ \A b \in Block : blocks[b] \in BlockT
    /\ Len(builders) \in Nat /\ DOMAIN builders = 1 .. Len(builders)
    /\ \A k \in DOMAIN builders : builders[k] \in Nat
    /\ Len(open) \in Nat /\ DOMAIN open = 1 .. Len(open)
    /\ \A i \in DOMAIN open : open[i] \in OpenT
    /\ open = <<>> <=> Len(open) = 0
    /\ Len(loop_stack) \in Nat /\ DOMAIN loop_stack = 1 .. Len(loop_stack)
    /\ Len(lives) \in Nat /\ DOMAIN lives = 1 .. Len(lives)

\* What a sequence is.
LEMMA SeqIs ==
    ASSUME NEW S, NEW s \in Seq(S)
    PROVE  /\ Len(s) \in Nat /\ DOMAIN s = 1 .. Len(s)
           /\ \A i \in DOMAIN s : s[i] \in S
           /\ s = <<>> <=> Len(s) = 0
    BY LenProperties, ElementOfSeq, EmptySeq

\* The sequences are typed, before and after a step.
LEMMA Shapes == (Typed => Shaped) /\ (Typed' => Shaped')
<1>1. ASSUME Typed PROVE Shaped
    <2>1. blocks \in Seq(BlockT) /\ builders \in Seq(Nat) /\ open \in Seq(OpenT)
          /\ loop_stack \in Seq(Nat \X Nat) /\ lives \in Seq(BOOLEAN)
        BY <1>1 DEF Typed
    <2>2. QED  BY <2>1, SeqIs DEF Shaped, Block
<1>2. ASSUME Typed' PROVE Shaped'
    <2>1. blocks' \in Seq(BlockT) /\ builders' \in Seq(Nat) /\ open' \in Seq(OpenT)
          /\ loop_stack' \in Seq(Nat \X Nat) /\ lives' \in Seq(BOOLEAN)
        BY <1>2 DEF Typed
    <2>2. QED  BY <2>1, SeqIs DEF Shaped, Block
<1>3. QED  BY <1>1, <1>2

\* Where a block without a terminator leads, and one with one.
LEMMA SuccIs == SuccOf(<<>>) = {} /\ \A t : SuccOf(<<t>>) = t.to
    BY DEF SuccOf

\* The blocks a step makes.
Fresh(b) == b \in Len(blocks) + 1 .. Len(blocks')

\* Block at ends in t (none does, if at is 0); q may be placed and get a phi.
Writes(at, t, q) ==
    /\ Len(blocks) <= Len(blocks')
    /\ \A b \in Block :
          /\ blocks'[b].fn = blocks[b].fn /\ blocks'[b].type = blocks[b].type
          /\ blocks'[b].term = IF b = at THEN <<t>> ELSE blocks[b].term
          /\ blocks[b].placed => blocks'[b].placed
          /\ b # q => blocks'[b].phi = blocks[b].phi
    /\ \A b \in Nat : Fresh(b) =>
          /\ blocks'[b].term = <<>> /\ blocks'[b].phi = {}
          /\ blocks'[b].fn \in Block' /\ blocks'[blocks'[b].fn].fn = blocks'[b].fn
    /\ at # 0 => t.to \subseteq Block'

\* The builders leave block at and come to q.
Shifts(at, q) ==
    /\ at # 0 => Current(at)
    /\ \A b \in Nat : Current(b)' <=> (Current(b) /\ b # at) \/ (b = q /\ q # 0)
    /\ q # 0 => blocks'[q].placed
    /\ \A k, l \in DOMAIN builders' : builders'[k] = builders'[l] => k = l

Alike(x, y) ==
    /\ x.kind = y.kind /\ x.phase = y.phase
    /\ x.begin = y.begin /\ x.nxt = y.nxt /\ x.end = y.end /\ x.thenEnd = y.thenEnd
    /\ x.has = y.has /\ x.val = y.val /\ x.ret = y.ret

\* The first m constructs stay, one more may go and one more may come.
Keeps(m) ==
    /\ m \in Nat
    /\ Len(open) \in {m, m + 1} /\ Len(open') \in {m, m + 1}
    /\ \A i \in 1 .. m : Alike(open[i], open'[i])

\* What the construct that goes waited for, q among it or new, is what the one
\* that comes waits for, but for q.
Turns(q, m) ==
    /\ q # 0 => Fresh(q) \/ (Len(open) = m + 1 /\ WaitsFor(open[m + 1], q))
    /\ Len(open') = m + 1 =>
          /\ Distinct(open'[m + 1])
          /\ open'[m + 1].kind = "for" /\ open'[m + 1].phase = "init" =>
                blocks'[open'[m + 1].begin].placed
          /\ \A b \in Nat : Owns(open'[m + 1], b) =>
                /\ Fresh(b) \/ (Len(open) = m + 1 /\ Owns(open[m + 1], b))
                /\ b = q => blocks'[q].phi = {}
          /\ \A b \in Nat : WaitsFor(open'[m + 1], b) =>
                /\ b # q
                /\ Fresh(b) \/ (Len(open) = m + 1 /\ WaitsFor(open[m + 1], b))
    /\ \A b \in Nat : Fresh(b) \/ (Len(open) = m + 1 /\ WaitsFor(open[m + 1], b)) =>
          (b = q /\ q # 0) \/ (Len(open') = m + 1 /\ WaitsFor(open'[m + 1], b))

\* The functions the constructs are in stay, and that of the one that comes is
\* the one its blocks are in.
Homes(m) ==
    /\ \A i \in 1 .. m : /\ blocks'[Home(i)'].fn = blocks[Home(i)].fn
                         /\ blocks'[Home(i)'].type = blocks[Home(i)].type
    /\ Len(open') = m + 1 =>
          /\ \A b \in Nat : Owns(open'[m + 1], b) =>
                /\ blocks'[b].fn = blocks'[Home(m + 1)'].fn
                /\ blocks'[b].type = blocks'[Home(m + 1)'].type
          /\ open'[m + 1].kind = "func" =>
                blocks'[Home(m + 1)'].type = open'[m + 1].ret

\* What construct x owns does not depend on what else is noted of it.
LEMMA AlikeOwns ==
    ASSUME NEW x, NEW y, Alike(x, y), NEW b
    PROVE  /\ Owns(x, b) <=> Owns(y, b)
           /\ WaitsFor(x, b) <=> WaitsFor(y, b)
           /\ Distinct(x) <=> Distinct(y)
BY DEF Alike, Owns, WaitsFor, Distinct

\* The positions of the constructs that stay, and of the one that does not.
LEMMA KeepsIs ==
    ASSUME Typed, Typed', NEW m \in Nat, Keeps(m)
    PROVE  /\ \A i \in 1 .. m : i \in DOMAIN open /\ i \in DOMAIN open' /\ i # m + 1
           /\ \A i \in DOMAIN open' : i \in 1 .. m \/ (i = m + 1 /\ Len(open') = m + 1)
           /\ \A i \in DOMAIN open : i \in 1 .. m \/ (i = m + 1 /\ Len(open) = m + 1)
           /\ Len(open) = m + 1 => m + 1 \in DOMAIN open
           /\ Len(open') = m + 1 => m + 1 \in DOMAIN open'
<1> DEFINE k == Len(open)   l == Len(open')
<1>1. (k = m \/ k = m + 1) /\ (l = m \/ l = m + 1)
    BY DEF Keeps
<1>2. DOMAIN open = 1 .. k /\ DOMAIN open' = 1 .. l
    BY Shapes DEF Shaped
<1> HIDE DEF k, l
<1>3. /\ \A i \in 1 .. m : i \in 1 .. k /\ i \in 1 .. l /\ i # m + 1
      /\ \A i \in 1 .. l : i \in 1 .. m \/ (i = m + 1 /\ l = m + 1)
      /\ \A i \in 1 .. k : i \in 1 .. m \/ (i = m + 1 /\ k = m + 1)
      /\ k = m + 1 => m + 1 \in 1 .. k
      /\ l = m + 1 => m + 1 \in 1 .. l
    BY <1>1
<1>4. QED  BY <1>2, <1>3 DEF k, l

\* A step of this kind keeps the blocks in order.
LEMMA StepBlocks ==
    ASSUME FlowInv, Typed', NEW at \in Nat, NEW t, NEW q \in Nat, NEW m \in Nat,
           Writes(at, t, q), Shifts(at, q), Keeps(m), Turns(q, m), Homes(m)
    PROVE  BlocksFit' /\ BuildersFit' /\ OwnedFit' /\ NoneLost'
<1> USE DEF FlowInv
<1>1. /\ Len(blocks) \in Nat /\ Block = 1 .. Len(blocks)
      /\ Len(blocks') \in Nat /\ Block' = 1 .. Len(blocks')
      /\ \A b \in Block : blocks[b] \in BlockT
      /\ DOMAIN open = 1 .. Len(open) /\ DOMAIN open' = 1 .. Len(open')
      /\ Len(open) \in Nat /\ Len(open') \in Nat
      /\ DOMAIN builders = 1 .. Len(builders) /\ DOMAIN builders' = 1 .. Len(builders')
    <2>1. Typed
        OBVIOUS
    <2>2. QED  BY <2>1, Shapes DEF Shaped
<1>2. \A b \in Nat : b \in Block' <=> b \in Block \/ Fresh(b)
    BY <1>1 DEF Fresh, Writes
<1>3. \A b \in Nat : b \in Block => ~ Fresh(b)
    BY <1>1 DEF Fresh
<1>4. \A b \in Nat : Current(b) => b \in Block /\ blocks[b].term = <<>> /\ blocks[b].placed
    BY DEF Current, BuildersFit
<1>5. BlocksFit'
    <2> SUFFICES ASSUME NEW b \in Block'
                 PROVE  /\ blocks'[b].fn \in Block' /\ blocks'[blocks'[b].fn].fn = blocks'[b].fn
                        /\ Len(blocks'[b].term) <= 1
                        /\ Successors(b)' \subseteq Block'
        BY DEF BlocksFit
    <2>0. b \in Nat
        BY <1>1
    <2>1. Successors(b)' = SuccOf(blocks'[b].term)
        BY DEF Successors, SuccOf
    <2>2. CASE Fresh(b)
        <3>1. Len(<<>>) <= 1
            OBVIOUS
        <3>2. QED  BY <2>0, <2>1, <2>2, <3>1, SuccIs DEF Writes
    <2>3. CASE b \in Block
        <3>1. /\ blocks[b].fn \in Block /\ blocks[blocks[b].fn].fn = blocks[b].fn
              /\ Len(blocks[b].term) <= 1
              /\ SuccOf(blocks[b].term) \subseteq Block
            BY <2>3 DEF BlocksFit, Successors, SuccOf
        <3>2. blocks'[b].fn = blocks[b].fn /\ blocks'[blocks[b].fn].fn = blocks[blocks[b].fn].fn
            BY <2>3, <3>1 DEF Writes
        <3>3. Block \subseteq Block'
            BY <1>1, <1>2
        <3>4. blocks'[b].fn \in Block' /\ blocks'[blocks'[b].fn].fn = blocks'[b].fn
            BY <3>1, <3>2, <3>3
        <3>5. CASE b = at
            <4>0. b # 0
                BY <1>1, <2>3
            <4>1. blocks'[b].term = <<t>> /\ t.to \subseteq Block'
                BY <2>3, <3>5, <4>0 DEF Writes
            <4>2. Len(<<t>>) = 1
                OBVIOUS
            <4>3. QED  BY <2>1, <3>4, <4>1, <4>2, SuccIs
        <3>6. CASE b # at
            <4>1. blocks'[b].term = blocks[b].term
                BY <2>3, <3>6 DEF Writes
            <4>2. QED  BY <2>1, <3>1, <3>3, <3>4, <4>1
        <3>7. QED  BY <3>5, <3>6
    <2>4. QED  BY <1>2, <2>0, <2>2, <2>3
<1>6. BuildersFit'
    <2> SUFFICES ASSUME NEW k \in DOMAIN builders'
                 PROVE  /\ builders'[k] \in Block'
                        /\ blocks'[builders'[k]].term = <<>>
                        /\ blocks'[builders'[k]].placed
        BY DEF BuildersFit, Shifts
    <2>0. PICK b \in Nat : b = builders'[k]
        BY Shapes DEF Shaped
    <2>1. b \in Nat /\ Current(b)'
        BY <2>0 DEF Current
    <2>2. CASE Current(b) /\ b # at
        <3>1. b \in Block /\ blocks[b].term = <<>> /\ blocks[b].placed
            BY <1>4, <2>1, <2>2
        <3>2. QED  BY <3>1, <2>0, <2>1, <2>2, <1>2 DEF Writes
    <2>3. CASE b = q /\ q # 0
        <3>1. blocks'[b].placed
            BY <2>3 DEF Shifts
        <3>2. CASE Fresh(b)
            BY <3>1, <3>2, <1>2, <2>0, <2>1 DEF Writes
        <3>3. CASE ~ Fresh(b)
            <4>1. Len(open) = m + 1 /\ WaitsFor(open[m + 1], b)
                BY <2>3, <3>3 DEF Turns
            <4>2. m + 1 \in DOMAIN open
                BY <1>1, <4>1
            <4>3. /\ b \in Block /\ blocks[b].term = <<>> /\ ~ Current(b)
                BY <4>1, <4>2, <2>1 DEF OwnedFit, Owns
            <4>4. b # at
                <5>1. CASE at = 0
                    BY <4>3, <1>1, <5>1
                <5>2. CASE at # 0
                    BY <4>3, <5>2 DEF Shifts
                <5>3. QED  BY <5>1, <5>2
            <4>5. QED  BY <3>1, <4>3, <4>4, <1>2, <2>0, <2>1 DEF Writes
        <3>4. QED  BY <3>2, <3>3
    <2>4. (Current(b) /\ b # at) \/ (b = q /\ q # 0)
        BY <2>1 DEF Shifts
    <2>5. QED  BY <2>2, <2>3, <2>4
<1>7. \A b \in Nat : q # 0 /\ b = q => Fresh(b) \/ (m + 1 \in DOMAIN open /\ Owns(open[m + 1], b))
    BY <1>1 DEF Turns, Owns
<1>8. \A i \in 1 .. m : /\ i \in DOMAIN open /\ i \in DOMAIN open' /\ i # m + 1
                        /\ \A b \in Nat : /\ Owns(open'[i], b) <=> Owns(open[i], b)
                                          /\ WaitsFor(open'[i], b) <=> WaitsFor(open[i], b)
                        /\ Distinct(open'[i]) <=> Distinct(open[i])
    <2> SUFFICES ASSUME NEW i \in 1 .. m
                 PROVE  /\ i \in DOMAIN open /\ i \in DOMAIN open' /\ i # m + 1
                        /\ \A b \in Nat : /\ Owns(open'[i], b) <=> Owns(open[i], b)
                                          /\ WaitsFor(open'[i], b) <=> WaitsFor(open[i], b)
                        /\ Distinct(open'[i]) <=> Distinct(open[i])
        OBVIOUS
    <2>1. i \in DOMAIN open /\ i \in DOMAIN open' /\ i # m + 1
        BY KeepsIs
    <2>2. Alike(open[i], open'[i])
        BY DEF Keeps
    <2>3. QED  BY <2>1, <2>2, AlikeOwns
<1>9. \A i \in DOMAIN open' : i \in 1 .. m \/ (i = m + 1 /\ Len(open') = m + 1)
    BY KeepsIs
<1>10. \A i \in DOMAIN open : i \in 1 .. m \/ (i = m + 1 /\ Len(open) = m + 1)
    BY KeepsIs
<1>11. Len(open) = m + 1 => m + 1 \in DOMAIN open
    BY <1>1
<1>12. Len(open') = m + 1 => m + 1 \in DOMAIN open'
    BY <1>1
<1>13. \A b \in Nat : WaitsFor(open[m + 1], b) => Owns(open[m + 1], b)
    BY DEF Owns
<1>14. ASSUME NEW i \in DOMAIN open', NEW b \in Nat, Owns(open'[i], b)
       PROVE  \/ Fresh(b) /\ i = m + 1
              \/ i \in DOMAIN open /\ Owns(open[i], b) /\ b \in Block
    <2>1. CASE i \in 1 .. m
        BY <2>1, <1>8, <1>14 DEF OwnedFit
    <2>2. CASE i = m + 1 /\ Len(open') = m + 1
        BY <2>2, <1>14, <1>11 DEF Turns, OwnedFit
    <2>3. QED  BY <2>1, <2>2, <1>9
<1>15. ASSUME NEW i \in DOMAIN open', NEW b \in Nat, Owns(open'[i], b)
       PROVE  /\ b \in Block'
              /\ blocks'[b].fn = blocks'[Home(i)'].fn
              /\ blocks'[b].type = blocks'[Home(i)'].type
              /\ blocks'[b].phi = {}
    <2>1. b \in Block'
        BY <1>2, <1>14, <1>15
    <2>2. CASE i \in 1 .. m
        <3>1. /\ i \in DOMAIN open /\ Owns(open[i], b) /\ b \in Block
              /\ blocks[b].fn = blocks[Home(i)].fn
              /\ blocks[b].type = blocks[Home(i)].type
              /\ blocks[b].phi = {}
            BY <2>2, <1>8, <1>15 DEF OwnedFit
        <3>2. b # q
            <4>1. CASE q = 0
                BY <4>1, <3>1, <1>1
            <4>2. CASE q # 0
                BY <4>2, <3>1, <1>3, <1>7, <2>2, <1>8 DEF OwnedFit
            <4>3. QED  BY <4>1, <4>2
        <3>3. blocks'[b].phi = {} /\ blocks'[b].fn = blocks[b].fn /\ blocks'[b].type = blocks[b].type
            BY <3>1, <3>2 DEF Writes
        <3>4. QED  BY <2>1, <2>2, <3>1, <3>3 DEF Homes
    <2>3. CASE i = m + 1 /\ Len(open') = m + 1
        <3>1. /\ blocks'[b].fn = blocks'[Home(i)'].fn
              /\ blocks'[b].type = blocks'[Home(i)'].type
            BY <2>3, <1>15 DEF Homes
        <3>2. blocks'[b].phi = {}
            <4>1. CASE b = q
                BY <4>1, <2>3, <1>15 DEF Turns
            <4>2. CASE Fresh(b)
                BY <4>2 DEF Writes
            <4>3. CASE b # q /\ ~ Fresh(b)
                <5>1. i \in DOMAIN open /\ Owns(open[i], b) /\ b \in Block
                    BY <1>14, <1>15, <4>3
                <5>2. blocks[b].phi = {}
                    BY <5>1 DEF OwnedFit
                <5>3. QED  BY <4>3, <5>1, <5>2 DEF Writes
            <4>4. QED  BY <4>1, <4>2, <4>3
        <3>3. QED  BY <2>1, <3>1, <3>2
    <2>4. QED  BY <2>2, <2>3, <1>9
<1>16. ASSUME NEW i \in DOMAIN open', NEW b \in Nat, WaitsFor(open'[i], b)
       PROVE  blocks'[b].term = <<>> /\ ~ Current(b)'
    <2>1. CASE i \in 1 .. m
        <3>1. /\ i \in DOMAIN open /\ Owns(open[i], b) /\ b \in Block
              /\ blocks[b].term = <<>> /\ ~ Current(b)
            BY <2>1, <1>8, <1>16 DEF OwnedFit, Owns
        <3>2. b # at
            <4>1. CASE at = 0
                BY <4>1, <3>1, <1>1
            <4>2. CASE at # 0
                BY <4>2, <3>1 DEF Shifts
            <4>3. QED  BY <4>1, <4>2
        <3>3. q # 0 => b # q
            BY <3>1, <1>3, <1>7, <2>1, <1>8 DEF OwnedFit
        <3>4. QED  BY <3>1, <3>2, <3>3 DEF Writes, Shifts
    <2>2. CASE i = m + 1 /\ Len(open') = m + 1
        <3>1. b # q /\ (Fresh(b) \/ (Len(open) = m + 1 /\ WaitsFor(open[m + 1], b)))
            BY <2>2, <1>16 DEF Turns
        <3>2. CASE Fresh(b)
            BY <3>1, <3>2, <1>3, <1>4 DEF Writes, Shifts
        <3>3. CASE Len(open) = m + 1 /\ WaitsFor(open[m + 1], b)
            <4>1. b \in Block /\ blocks[b].term = <<>> /\ ~ Current(b)
                BY <3>3, <1>11 DEF OwnedFit, Owns
            <4>2. b # at
                <5>1. CASE at = 0
                    BY <5>1, <4>1, <1>1
                <5>2. CASE at # 0
                    BY <5>2, <4>1 DEF Shifts
                <5>3. QED  BY <5>1, <5>2
            <4>3. QED  BY <3>1, <4>1, <4>2 DEF Writes, Shifts
        <3>4. QED  BY <3>1, <3>2, <3>3
    <2>3. QED  BY <2>1, <2>2, <1>9
<1>17. ASSUME NEW i \in DOMAIN open', NEW j \in DOMAIN open', NEW b \in Nat,
              Owns(open'[i], b), Owns(open'[j], b)
       PROVE  i = j
    <2>1. \/ Fresh(b) /\ i = m + 1
          \/ i \in DOMAIN open /\ Owns(open[i], b) /\ b \in Block
        BY <1>14, <1>17
    <2>2. \/ Fresh(b) /\ j = m + 1
          \/ j \in DOMAIN open /\ Owns(open[j], b) /\ b \in Block
        BY <1>14, <1>17
    <2>3. QED  BY <2>1, <2>2, <1>3 DEF OwnedFit
<1>18. \A i \in DOMAIN open' : Distinct(open'[i])
    BY <1>8, <1>9 DEF OwnedFit, Turns
<1>19. ASSUME NEW i \in Funcs' PROVE blocks'[Home(i)'].type = open'[i].ret
    <2>1. i \in DOMAIN open' /\ open'[i].kind = "func"
        BY DEF Funcs
    <2>2. CASE i \in 1 .. m
        <3>1. Alike(open[i], open'[i]) /\ i \in DOMAIN open
            BY <2>2, <1>8 DEF Keeps
        <3>2. open[i].kind = "func" /\ open[i].ret = open'[i].ret
            BY <3>1, <2>1 DEF Alike
        <3>3. blocks[Home(i)].type = open[i].ret
            BY <3>1, <3>2 DEF Funcs, OwnedFit
        <3>4. QED  BY <2>2, <3>2, <3>3 DEF Homes
    <2>3. CASE i = m + 1 /\ Len(open') = m + 1
        BY <2>1, <2>3 DEF Homes
    <2>4. QED  BY <2>1, <2>2, <2>3, <1>9
<1>23. ASSUME NEW i \in DOMAIN open', open'[i].kind = "for", open'[i].phase = "init"
       PROVE  blocks'[open'[i].begin].placed
    <2>1. CASE i \in 1 .. m
        <3>1. i \in DOMAIN open /\ Alike(open[i], open'[i])
            BY <2>1, <1>8 DEF Keeps
        <3>2. /\ open[i].kind = "for" /\ open[i].phase = "init"
              /\ open[i].begin = open'[i].begin
            BY <3>1, <1>23 DEF Alike
        <3>3. open[i] \in OpenT
            BY <3>1, Shapes DEF Shaped
        <3>4. open[i].begin \in Nat /\ Owns(open[i], open[i].begin)
            BY <3>2, <3>3 DEF OpenT, Owns, WaitsFor
        <3>5. open[i].begin \in Block /\ blocks[open[i].begin].placed
            BY <3>1, <3>2, <3>4 DEF OwnedFit
        <3>6. QED  BY <3>2, <3>5 DEF Writes
    <2>2. CASE i = m + 1 /\ Len(open') = m + 1
        BY <2>2, <1>23 DEF Turns
    <2>3. QED  BY <2>1, <2>2, <1>9
<1>20. OwnedFit'
    BY <1>15, <1>16, <1>17, <1>18, <1>19, <1>23 DEF OwnedFit
<1>21. NoneLost'
    <2> SUFFICES ASSUME NEW b \in Block', blocks'[b].term = <<>> \/ ~ blocks'[b].placed
                 PROVE  Current(b)' \/ Awaited(b)'
        BY DEF NoneLost
    <2>0. b \in Nat
        BY <1>1
    <2>1. b = q /\ q # 0 => Current(b)'
        BY <2>0 DEF Shifts
    <2>2. Len(open') = m + 1 /\ WaitsFor(open'[m + 1], b) => Awaited(b)'
        BY <1>12 DEF Awaited
    <2>3. CASE Fresh(b)
        BY <2>0, <2>1, <2>2, <2>3 DEF Turns
    <2>4. CASE b \in Block
        <3>1. b # at
            <4>1. CASE b = at
                <5>1. b # 0
                    BY <1>1, <2>4
                <5>2. blocks[b].placed /\ blocks'[b].term = <<t>>
                    BY <2>0, <2>4, <4>1, <5>1, <1>4 DEF Shifts, Writes
                <5>3. <<t>> # <<>>
                    OBVIOUS
                <5>4. blocks'[b].placed
                    BY <2>4, <5>2 DEF Writes
                <5>5. QED  BY <5>2, <5>3, <5>4
            <4>2. QED  BY <4>1
        <3>2. blocks[b].term = <<>> \/ ~ blocks[b].placed
            BY <2>4, <3>1 DEF Writes
        <3>3. CASE Current(b)
            BY <2>0, <3>1, <3>3 DEF Shifts
        <3>4. CASE Awaited(b)
            <4>1. PICK i \in DOMAIN open : WaitsFor(open[i], b)
                BY <3>4 DEF Awaited
            <4>2. CASE i \in 1 .. m
                BY <2>0, <4>1, <4>2, <1>8 DEF Awaited
            <4>3. CASE i = m + 1 /\ Len(open) = m + 1
                BY <2>0, <2>1, <2>2, <4>1, <4>3 DEF Turns
            <4>4. QED  BY <4>2, <4>3, <1>10
        <3>5. QED  BY <2>4, <3>2, <3>3, <3>4 DEF NoneLost
    <2>5. QED  BY <1>2, <2>0, <2>3, <2>4
<1>22. QED  BY <1>5, <1>6, <1>20, <1>21

\* The step ends block at as the checker allows, or notes that it does not.
Lawful(at, t) ==
    /\ lax \subseteq lax'
    /\ at # 0 =>
          \/ at \in lax'
          \/ /\ \A to \in t.to : blocks'[to].fn = blocks[at].fn
             /\ t.ret \in {"no", IF blocks[at].type = "void" THEN "none" ELSE "value"}
             /\ t.test \in {"no", "bool"}

\* The step leads to blocks that are new, or belong to the construct that goes
\* or to a loop.
Aims(at, t, m) ==
    at # 0 => \A b \in t.to :
        Fresh(b) \/ \E j \in DOMAIN open : /\ Owns(open[j], b)
                                           /\ j = m + 1 \/ open[j].kind \in Loops

\* The phi that is made, and the if that comes, are right.
Joins(q, m) ==
    /\ q # 0 /\ blocks'[q].phi # {} => blocks'[q].phi = Predecessors(q)'
    /\ Len(open') = m + 1 /\ open'[m + 1].kind = "if" /\ open'[m + 1].val =>
          /\ open'[m + 1].has
          /\ open'[m + 1].phase = "then" => Predecessors(open[m + 1].end)' = {}
          /\ open'[m + 1].phase = "else" =>
                Predecessors(open[m + 1].end)' = {open'[m + 1].thenEnd}

\* The blocks that lead to a block before and after the step.
LEMMA StepPredecessors ==
    ASSUME FlowInv, Typed', NEW at \in Nat, NEW t, NEW q \in Nat,
           Writes(at, t, q), Shifts(at, q), NEW b \in Nat
    PROVE  Predecessors(b)' = Predecessors(b) \cup (IF at # 0 /\ b \in t.to THEN {at} ELSE {})
<1>1. /\ Len(blocks) \in Nat /\ Block = 1 .. Len(blocks)
      /\ Len(blocks') \in Nat /\ Block' = 1 .. Len(blocks')
    BY Shapes DEF FlowInv, Shaped
<1>2. \A p : p \in Block' <=> p \in Block \/ Fresh(p)
    BY <1>1 DEF Fresh, Writes
<1>3. at # 0 => at \in Block /\ blocks[at].term = <<>>
    BY DEF Shifts, Current, FlowInv, BuildersFit
<1>4. ASSUME NEW p \in Block'
      PROVE  b \in Successors(p)' <=>
                \/ p \in Block /\ b \in Successors(p)
                \/ p = at /\ at # 0 /\ b \in t.to
    <2>1. Successors(p)' = SuccOf(blocks'[p].term)
        BY DEF Successors, SuccOf
    <2>2. CASE p \in Block /\ p = at
        <3>1. p # 0
            BY <1>1, <2>2
        <3>2. Successors(p) = SuccOf(blocks[p].term)
            BY DEF Successors, SuccOf
        <3>3. blocks'[p].term = <<t>> /\ blocks[p].term = <<>>
            BY <1>3, <2>2, <3>1 DEF Writes
        <3>4. QED  BY <2>1, <2>2, <3>1, <3>2, <3>3, SuccIs
    <2>3. CASE p \in Block /\ p # at
        <3>1. Successors(p) = SuccOf(blocks[p].term)
            BY DEF Successors, SuccOf
        <3>2. blocks'[p].term = blocks[p].term
            BY <2>3 DEF Writes
        <3>3. QED  BY <2>1, <2>3, <3>1, <3>2
    <2>4. CASE Fresh(p)
        <3>1. blocks'[p].term = <<>>
            BY <1>1, <2>4 DEF Writes
        <3>2. p \notin Block
            BY <1>1, <2>4 DEF Fresh
        <3>3. QED  BY <1>3, <2>1, <3>1, <3>2, SuccIs
    <2>5. QED  BY <1>2, <2>2, <2>3, <2>4
<1>5. at # 0 => at \in Block'
    BY <1>2, <1>3
<1>6. Predecessors(b)' = {p \in Block' : b \in Successors(p)'}
    BY DEF Predecessors
<1>7. \A p : p \in Predecessors(b)' <=>
                p \in Predecessors(b) \/ (p = at /\ at # 0 /\ b \in t.to)
    BY <1>2, <1>4, <1>5, <1>6 DEF Predecessors
<1>8. QED  BY <1>7

\* Such a step keeps what is left of a function as it should be.
LEMMA StepEnds ==
    ASSUME FlowInv, Typed', NEW at \in Nat, NEW t, NEW q \in Nat, NEW m \in Nat,
           Writes(at, t, q), Shifts(at, q), Keeps(m), Turns(q, m),
           Lawful(at, t), Aims(at, t, m), Joins(q, m)
    PROVE  JumpsStay' /\ RetMatches' /\ TestsAreBool' /\ PhisFit'
<1>1. /\ Len(blocks) \in Nat /\ Block = 1 .. Len(blocks)
      /\ Len(blocks') \in Nat /\ Block' = 1 .. Len(blocks')
      /\ DOMAIN open = 1 .. Len(open) /\ DOMAIN open' = 1 .. Len(open')
      /\ Len(open) \in Nat /\ Len(open') \in Nat
    BY Shapes DEF FlowInv, Shaped
<1>2. \A b \in Nat : b \in Block' <=> b \in Block \/ Fresh(b)
    BY <1>1 DEF Fresh, Writes
<1>3. at # 0 => at \in Block /\ blocks[at].term = <<>>
    BY DEF Shifts, Current, FlowInv, BuildersFit
<1>4. ASSUME NEW b \in Block' \ lax', NEW i \in DOMAIN blocks'[b].term
      PROVE  /\ \A to \in blocks'[b].term[i].to : blocks'[to].fn = blocks'[b].fn
             /\ blocks'[b].term[i].ret \in
                   {"no", IF blocks'[b].type = "void" THEN "none" ELSE "value"}
             /\ blocks'[b].term[i].test \in {"no", "bool"}
    <2>0. b \in Nat /\ DOMAIN <<>> = {} /\ DOMAIN <<t>> = {1} /\ <<t>>[1] = t
        BY <1>1
    <2>1. b \in Block
        BY <1>2, <2>0 DEF Writes
    <2>2. b # 0 /\ blocks'[b].fn = blocks[b].fn /\ blocks'[b].type = blocks[b].type
        BY <1>1, <2>1 DEF Writes
    <2>3. CASE b = at
        <3>1. blocks'[b].term[i] = t
            BY <2>0, <2>1, <2>3 DEF Writes
        <3>2. QED  BY <2>2, <2>3, <3>1 DEF Lawful
    <2>4. CASE b # at
        <3>1. blocks'[b].term = blocks[b].term /\ i \in DOMAIN blocks[b].term /\ b \notin lax
            BY <2>1, <2>4 DEF Writes, Lawful
        <3>2. /\ blocks[b].term[i].to \subseteq Successors(b)
              /\ Successors(b) \subseteq Block
            BY <2>1, <3>1 DEF Successors, FlowInv, BlocksFit
        <3>3. \A to \in blocks[b].term[i].to : blocks[to].fn = blocks[b].fn /\ to \in Block
            BY <2>1, <3>1, <3>2 DEF FlowInv, JumpsStay
        <3>4. /\ blocks[b].term[i].ret \in
                   {"no", IF blocks[b].type = "void" THEN "none" ELSE "value"}
              /\ blocks[b].term[i].test \in {"no", "bool"}
            BY <2>1, <3>1 DEF FlowInv, RetMatches, TestsAreBool
        <3>5. \A to \in Block : blocks'[to].fn = blocks[to].fn
            BY DEF Writes
        <3>6. QED  BY <2>2, <3>1, <3>3, <3>4, <3>5
    <2>5. QED  BY <2>3, <2>4
<1>5. JumpsStay' /\ RetMatches' /\ TestsAreBool'
    <2>1. \A b : Successors(b)' = UNION {blocks'[b].term[i].to : i \in DOMAIN blocks'[b].term}
        BY DEF Successors
    <2>2. JumpsStay'
        BY <1>4, <2>1 DEF JumpsStay
    <2>3. QED  BY <1>4, <2>2 DEF RetMatches, TestsAreBool
<1>6. ASSUME NEW b \in t.to, at # 0, b \in Block PROVE blocks[b].phi = {}
    <2>1. b \in Nat /\ ~ Fresh(b)
        BY <1>1, <1>6 DEF Fresh
    <2>2. PICK j \in DOMAIN open : Owns(open[j], b)
        BY <1>6, <2>1 DEF Aims
    <2>3. QED  BY <2>1, <2>2 DEF FlowInv, OwnedFit
<1>7. PhisMatch'
    <2> SUFFICES ASSUME NEW b \in Block', blocks'[b].phi # {}
                 PROVE  blocks'[b].phi = Predecessors(b)'
        BY DEF PhisMatch
    <2>0. b \in Nat /\ b # 0
        BY <1>1
    <2>1. CASE b = q
        BY <2>0, <2>1 DEF Joins
    <2>2. CASE b # q
        <3>1. b \in Block
            BY <1>2, <2>0 DEF Writes
        <3>2. blocks'[b].phi = blocks[b].phi
            BY <2>2, <3>1 DEF Writes
        <3>3. at # 0 => b \notin t.to
            BY <1>6, <3>1, <3>2
        <3>4. Predecessors(b)' = Predecessors(b)
            BY <2>0, <3>3, StepPredecessors
        <3>5. QED  BY <3>1, <3>2, <3>4 DEF FlowInv, PhisFit, PhisMatch
    <2>3. QED  BY <2>1, <2>2
<1>8. ASSUME NEW i \in DOMAIN open', open'[i].kind = "if", open'[i].val
      PROVE  /\ open'[i].has
             /\ open'[i].phase = "then" => Predecessors(open[i].end)' = {}
             /\ open'[i].phase = "else" => Predecessors(open[i].end)' = {open'[i].thenEnd}
    <2>0. i \in 1 .. m \/ (i = m + 1 /\ Len(open') = m + 1)
        BY KeepsIs DEF FlowInv
    <2>1. CASE i = m + 1
        <3>1. Len(open') = m + 1
            BY KeepsIs, <2>0, <2>1
        <3>2. QED  BY <2>1, <3>1, <1>8 DEF Joins
    <2>2. CASE i # m + 1
        <3>1. i \in 1 .. m
            BY <2>0, <2>2
        <3>2. i \in DOMAIN open
            BY KeepsIs, <3>1 DEF FlowInv
        <3>3. Alike(open[i], open'[i])
            BY <3>1 DEF Keeps
        <3>0. PICK e : e = open[i].end
            OBVIOUS
        <3>4. /\ open[i].kind = "if" /\ open[i].val /\ e = open'[i].end
              /\ open'[i].has = open[i].has /\ open'[i].phase = open[i].phase
              /\ open'[i].thenEnd = open[i].thenEnd
            BY <3>0, <3>3, <1>8 DEF Alike
        <3>5. e \in Nat
            BY <3>0, <3>2, Shapes DEF FlowInv, Shaped, OpenT
        <3>6. /\ open[i].has
              /\ open[i].phase = "then" => Predecessors(e) = {}
              /\ open[i].phase = "else" => Predecessors(e) = {open[i].thenEnd}
            BY <3>0, <3>2, <3>4 DEF FlowInv, PhisFit
        <3>7. ASSUME open[i].phase \in {"then", "else"} PROVE Predecessors(e)' = Predecessors(e)
            <4>1. Owns(open[i], e)
                BY <3>0, <3>4, <3>7 DEF Owns, WaitsFor
            <4>2. e \in Block
                BY <3>2, <3>5, <4>1 DEF FlowInv, OwnedFit
            <4>3. ~ Fresh(e)
                BY <1>1, <4>2 DEF Fresh
            <4>4. \A j \in DOMAIN open : Owns(open[j], e) => j = i
                BY <3>2, <3>5, <4>1 DEF FlowInv, OwnedFit
            <4>5. open[i].kind \notin Loops
                BY <3>4 DEF Loops
            <4>6. at # 0 => e \notin t.to
                BY <2>2, <4>3, <4>4, <4>5 DEF Aims
            <4>7. QED  BY <3>5, <4>6, StepPredecessors
        <3>8. Predecessors(open[i].end)' = Predecessors(e)'
            BY <3>4
        <3>9. QED  BY <3>4, <3>6, <3>7, <3>8
    <2>3. QED  BY <2>1, <2>2
<1>9. QED  BY <1>5, <1>7, <1>8 DEF PhisFit

-----------------------------------------------------------------------------
(* Levels of functions and loops. *)

\* L are positions up to m, and P those and perhaps one more.
CountsAs(P, L, m) ==
    /\ Cardinality(L) \in Nat
    /\ Cardinality(P) = Cardinality(L) + (IF m + 1 \in P THEN 1 ELSE 0)
    /\ \A i \in 1 .. m : /\ UpTo(P, i) = UpTo(L, i)
                         /\ UpTo(L, i) \in Nat /\ UpTo(L, i) <= Cardinality(L)
                         /\ i \in L => UpTo(L, i) >= 1
                         /\ 1 \in L => UpTo(L, i) >= 1
    /\ UpTo(P, m + 1) = Cardinality(P)

\* Positions up to m, and perhaps one more.
LEMMA Counts ==
    ASSUME NEW m \in Nat, NEW L \in SUBSET (1 .. m), NEW P, P = L \/ P = L \cup {m + 1}
    PROVE  CountsAs(P, L, m)
<1> USE DEF CountsAs
<1>1. m + 1 \notin L
    OBVIOUS
<1>2. Cardinality(L) \in Nat
    BY CountTo
<1>3. ASSUME NEW i \in 1 .. m
      PROVE  /\ UpTo(L, i) \in Nat /\ UpTo(L, i) <= Cardinality(L)
             /\ i \in L => UpTo(L, i) >= 1
             /\ 1 \in L => UpTo(L, i) >= 1
    <2>1. i \in Nat
        OBVIOUS
    <2>2. /\ IsFiniteSet(L) /\ UpTo(L, i) \in Nat /\ UpTo(L, i) <= Cardinality(L)
          /\ i \in L => UpTo(L, i) >= 1
        BY <2>1, CountTo
    <2>3. ASSUME 1 \in L PROVE UpTo(L, i) >= 1
        <3> DEFINE Q == {j \in L : j <= i}
        <3>1. 1 \in Q
            BY <2>3
        <3>2. IsFiniteSet(Q)
            BY <2>2, FS_Subset
        <3> HIDE DEF Q
        <3>3. Cardinality(Q) \in Nat /\ Cardinality(Q) # 0
            BY <3>1, <3>2, FS_CardinalityType, FS_EmptySet
        <3>4. Cardinality(Q) = UpTo(L, i)
            BY DEF UpTo, Q
        <3>5. QED  BY <3>3, <3>4
    <2>4. QED  BY <2>2, <2>3
<1>4. CASE P = L
    <2>1. m + 1 \in Nat /\ \A j \in L : j <= m + 1
        OBVIOUS
    <2>2. UpTo(L, m + 1) = Cardinality(L)
        BY <2>1, CountAll
    <2>3. QED  BY <1>1, <1>2, <1>3, <1>4, <2>2
<1>5. CASE P = L \cup {m + 1}
    <2>1. /\ Cardinality(P) = Cardinality(L) + 1
          /\ \A i \in 1 .. m : UpTo(P, i) = UpTo(L, i)
          /\ UpTo(P, m + 1) = Cardinality(L) + 1
        BY <1>5, CountPush
    <2>2. m + 1 \in P
        BY <1>5
    <2>3. QED  BY <1>2, <1>3, <2>1, <2>2
<1>6. QED  BY <1>4, <1>5

FuncLast(m) == Len(open) = m + 1 /\ open[m + 1].kind = "func"
LoopLast(m) == Len(open) = m + 1 /\ open[m + 1].kind \in Loops

\* The functions among the constructs that stay are the same before and after,
\* and so are the loops.
LEMMA Levels ==
    ASSUME Typed, Typed', NEW m \in Nat, Keeps(m)
    PROVE  \E F \in SUBSET (1 .. m), L \in SUBSET (1 .. m) :
              /\ \A i \in 1 .. m : i \in F <=> open[i].kind = "func"
              /\ \A i \in 1 .. m : i \in L <=> open[i].kind \in Loops
              /\ Funcs = IF FuncLast(m) THEN F \cup {m + 1} ELSE F
              /\ Funcs' = IF FuncLast(m)' THEN F \cup {m + 1} ELSE F
              /\ OpenLoops = IF LoopLast(m) THEN L \cup {m + 1} ELSE L
              /\ OpenLoops' = IF LoopLast(m)' THEN L \cup {m + 1} ELSE L
<1> DEFINE F == {i \in 1 .. m : open[i].kind = "func"}
           L == {i \in 1 .. m : open[i].kind \in Loops}
<1>1. /\ \A i \in 1 .. m : i \in DOMAIN open /\ i \in DOMAIN open' /\ i # m + 1
      /\ \A i \in DOMAIN open' : i \in 1 .. m \/ (i = m + 1 /\ Len(open') = m + 1)
      /\ \A i \in DOMAIN open : i \in 1 .. m \/ (i = m + 1 /\ Len(open) = m + 1)
      /\ Len(open) = m + 1 => m + 1 \in DOMAIN open
      /\ Len(open') = m + 1 => m + 1 \in DOMAIN open'
    BY KeepsIs
<1>2. \A i \in 1 .. m : open'[i].kind = open[i].kind
    BY DEF Keeps, Alike
<1>3. \A i : i \in Funcs <=> i \in F \/ (i = m + 1 /\ FuncLast(m))
    BY <1>1 DEF Funcs, FuncLast
<1>4. \A i : i \in Funcs' <=> i \in F \/ (i = m + 1 /\ FuncLast(m)')
    BY <1>1, <1>2 DEF Funcs, FuncLast
<1>5. \A i : i \in OpenLoops <=> i \in L \/ (i = m + 1 /\ LoopLast(m))
    BY <1>1 DEF OpenLoops, LoopLast
<1>6. \A i : i \in OpenLoops' <=> i \in L \/ (i = m + 1 /\ LoopLast(m)')
    BY <1>1, <1>2 DEF OpenLoops, LoopLast
<1>7. F \in SUBSET (1 .. m) /\ L \in SUBSET (1 .. m)
    OBVIOUS
<1>8. /\ \A i \in 1 .. m : i \in F <=> open[i].kind = "func"
      /\ \A i \in 1 .. m : i \in L <=> open[i].kind \in Loops
    OBVIOUS
<1> HIDE DEF F, L
<1>9. /\ Funcs = IF FuncLast(m) THEN F \cup {m + 1} ELSE F
      /\ Funcs' = IF FuncLast(m)' THEN F \cup {m + 1} ELSE F
      /\ OpenLoops = IF LoopLast(m) THEN L \cup {m + 1} ELSE L
      /\ OpenLoops' = IF LoopLast(m)' THEN L \cup {m + 1} ELSE L
    BY <1>3, <1>4, <1>5, <1>6
<1>10. QED  BY <1>7, <1>8, <1>9

\* The builder at work is that of the innermost construct.
LEMMA HomeTop ==
    ASSUME FlowInv, open # <<>>
    PROVE  /\ Len(builders) >= 1 /\ Len(builders) \in DOMAIN builders
           /\ Here = builders[Len(builders)] /\ Home(Len(open)) = Here
           /\ Here \in Block /\ Here # 0 /\ Here \in Nat /\ Current(Here)
           /\ blocks[Here].term = <<>> /\ blocks[Here].placed
           /\ Fn \in Block /\ blocks[Fn].fn = Fn
           /\ Len(open) \in DOMAIN open /\ Top = open[Len(open)]
           /\ UpTo(Funcs, Len(open)) = Len(builders)
<1>1. Shaped
    BY Shapes DEF FlowInv
<1>2. Len(open) \in Nat /\ Len(open) # 0 /\ DOMAIN open = 1 .. Len(open)
    BY <1>1 DEF Shaped
<1>3. Funcs \in SUBSET (1 .. Len(open)) /\ \A j \in Funcs : j <= Len(open)
    BY <1>2 DEF Funcs
<1>4. UpTo(Funcs, Len(open)) = Cardinality(Funcs)
    BY <1>2, <1>3, CountAll
<1>5. 1 \in Funcs
    BY <1>2 DEF Funcs, FlowInv, LevelsFit
<1>6. IsFiniteSet(Funcs) /\ Cardinality(Funcs) \in Nat
    BY <1>2, <1>3, CountTo
<1>7. Cardinality(Funcs) # 0
    BY <1>5, <1>6, FS_EmptySet
<1>8. Len(builders) = Cardinality(Funcs)
    BY DEF FlowInv, LevelsFit
<1>9. Len(builders) >= 1 /\ Len(builders) \in DOMAIN builders
    BY <1>1, <1>6, <1>7, <1>8 DEF Shaped
<1>10. Here = builders[Len(builders)] /\ Top = open[Len(open)]
    BY DEF Here, Last, Top
<1>11. /\ Here \in Block /\ blocks[Here].term = <<>> /\ blocks[Here].placed
       /\ Current(Here)
    BY <1>9, <1>10 DEF FlowInv, BuildersFit, Current
<1>12. Here # 0 /\ Here \in Nat
    BY <1>1, <1>11 DEF Shaped
<1>13. Fn \in Block /\ blocks[Fn].fn = Fn
    BY <1>11 DEF FlowInv, BlocksFit, Fn
<1>14. Len(open) \in DOMAIN open
    BY <1>2
<1>15. QED  BY <1>4, <1>8, <1>9, <1>10, <1>11, <1>12, <1>13, <1>14 DEF Home

\* The loops of the generator after a step that makes, leaves or keeps one.
LEMMA LoopsStep ==
    ASSUME FlowInv, Typed', NEW m \in Nat, Keeps(m), Len(blocks) <= Len(blocks'),
           \/ /\ loop_stack' = loop_stack
              /\ LoopLast(m) <=> LoopLast(m)'
              /\ LoopLast(m) => /\ open[m + 1].nxt = open'[m + 1].nxt
                                /\ open[m + 1].end = open'[m + 1].end
           \/ /\ ~ LoopLast(m) /\ LoopLast(m)'
              /\ loop_stack' = Append(loop_stack, <<open'[m + 1].nxt, open'[m + 1].end>>)
              /\ open'[m + 1].nxt \in Block' /\ open'[m + 1].end \in Block'
           \/ /\ LoopLast(m) /\ ~ LoopLast(m)'
              /\ loop_stack' = Front(loop_stack)
    PROVE  LoopsFit'
<1>1. Typed /\ Shaped /\ Shaped'
    BY Shapes DEF FlowInv
<1>2. PICK L \in SUBSET (1 .. m) :
          /\ \A i \in 1 .. m : i \in L <=> open[i].kind \in Loops
          /\ OpenLoops = IF LoopLast(m) THEN L \cup {m + 1} ELSE L
          /\ OpenLoops' = IF LoopLast(m)' THEN L \cup {m + 1} ELSE L
    BY <1>1, Levels
<1>3. m + 1 \notin L
    OBVIOUS
<1>4. /\ Cardinality(L) \in Nat
      /\ Cardinality(OpenLoops) = Cardinality(L) + (IF LoopLast(m) THEN 1 ELSE 0)
      /\ UpTo(OpenLoops, m + 1) = Cardinality(OpenLoops)
      /\ \A i \in 1 .. m : UpTo(OpenLoops, i) = UpTo(L, i)
    <2> DEFINE P == OpenLoops
    <2>1. (P = L \/ P = L \cup {m + 1}) /\ (m + 1 \in P <=> LoopLast(m))
        BY <1>2, <1>3
    <2> HIDE DEF P
    <2>2. /\ Cardinality(P) = Cardinality(L) + (IF m + 1 \in P THEN 1 ELSE 0)
          /\ UpTo(P, m + 1) = Cardinality(P)
          /\ \A i \in 1 .. m : UpTo(P, i) = UpTo(L, i)
        <3>1. CountsAs(P, L, m)
            BY <2>1, Counts
        <3>2. QED  BY <3>1 DEF CountsAs
    <2>3. Cardinality(L) \in Nat
        BY CountTo
    <2>4. QED  BY <2>1, <2>2, <2>3 DEF P
<1>5. /\ Cardinality(OpenLoops') = Cardinality(L) + (IF LoopLast(m)' THEN 1 ELSE 0)
      /\ UpTo(OpenLoops', m + 1) = Cardinality(OpenLoops')
      /\ \A i \in 1 .. m : UpTo(OpenLoops', i) = UpTo(L, i)
    <2> DEFINE P == OpenLoops'   now == LoopLast(m)'
    <2>1. (P = L \/ P = L \cup {m + 1}) /\ (m + 1 \in P <=> now)
        BY <1>2, <1>3
    <2> HIDE DEF P, now
    <2>2. /\ Cardinality(P) = Cardinality(L) + (IF m + 1 \in P THEN 1 ELSE 0)
          /\ UpTo(P, m + 1) = Cardinality(P)
          /\ \A i \in 1 .. m : UpTo(P, i) = UpTo(L, i)
        <3>1. CountsAs(P, L, m)
            BY <2>1, Counts
        <3>2. QED  BY <3>1 DEF CountsAs
    <2>3. QED  BY <2>1, <2>2 DEF P, now
<1>6. \A i \in L : UpTo(L, i) \in 1 .. Cardinality(L)
    <2>1. \A i \in 1 .. m : UpTo(L, i) \in Nat /\ UpTo(L, i) <= Cardinality(L)
                            /\ (i \in L => UpTo(L, i) >= 1)
        <3>1. CountsAs(L, L, m)
            BY Counts
        <3>2. QED  BY <3>1 DEF CountsAs
    <2>2. QED  BY <1>4, <2>1
<1>7. /\ Len(loop_stack) = Cardinality(OpenLoops)
      /\ \A i \in OpenLoops : loop_stack[UpTo(OpenLoops, i)] = <<open[i].nxt, open[i].end>>
    BY DEF FlowInv, LoopsFit, LoopsMirrored, OpenLoops, UpTo
<1>8. \A i \in L : /\ i \in OpenLoops /\ UpTo(OpenLoops, i) = UpTo(L, i)
                   /\ UpTo(OpenLoops', i) = UpTo(L, i)
                   /\ open'[i].nxt = open[i].nxt /\ open'[i].end = open[i].end
    BY <1>2, <1>4, <1>5 DEF Keeps, Alike
<1>9. Block \subseteq Block'
    <2> DEFINE k == Len(blocks)   l == Len(blocks')
    <2>1. k \in Nat /\ l \in Nat /\ k <= l /\ Block = 1 .. k /\ Block' = 1 .. l
        BY <1>1 DEF Shaped
    <2> HIDE DEF k, l
    <2>2. QED  BY <2>1
<1>10. \A i \in DOMAIN loop_stack : loop_stack[i][1] \in Block /\ loop_stack[i][2] \in Block
    BY DEF FlowInv, LoopsFit
<1>11. Len(loop_stack) \in Nat /\ DOMAIN loop_stack = 1 .. Len(loop_stack)
    BY <1>1 DEF Shaped
<1>12. loop_stack \in Seq(Nat \X Nat) /\ IsSeq(loop_stack)
    BY <1>1, SeqIsSeq DEF Typed
<1> DEFINE Goal == /\ Len(loop_stack') = Cardinality(OpenLoops')
                   /\ \A i \in OpenLoops' : loop_stack'[UpTo(OpenLoops', i)]
                                                = <<open'[i].nxt, open'[i].end>>
                   /\ \A i \in DOMAIN loop_stack' : /\ loop_stack'[i][1] \in Block'
                                                    /\ loop_stack'[i][2] \in Block'
<1>13. CASE /\ loop_stack' = loop_stack
            /\ LoopLast(m) <=> LoopLast(m)'
            /\ LoopLast(m) => /\ open[m + 1].nxt = open'[m + 1].nxt
                              /\ open[m + 1].end = open'[m + 1].end
    <2>1. Cardinality(OpenLoops') = Cardinality(OpenLoops)
        BY <1>4, <1>5, <1>13
    <2>2. ASSUME NEW i \in OpenLoops'
          PROVE  loop_stack'[UpTo(OpenLoops', i)] = <<open'[i].nxt, open'[i].end>>
        <3>1. CASE i \in L
            BY <1>7, <1>8, <1>13, <3>1
        <3>2. CASE i = m + 1 /\ LoopLast(m)
            <4>1. i \in OpenLoops
                BY <1>2, <3>2
            <4>2. loop_stack[UpTo(OpenLoops, i)] = <<open[i].nxt, open[i].end>>
                BY <1>7, <4>1
            <4>3. UpTo(OpenLoops', i) = UpTo(OpenLoops, i)
                BY <1>4, <1>5, <2>1, <3>2
            <4>4. QED  BY <1>13, <3>2, <4>2, <4>3
        <3>3. QED  BY <1>2, <1>13, <3>1, <3>2
    <2>3. Goal
        BY <1>7, <1>9, <1>10, <1>13, <2>1, <2>2
    <2>4. QED  BY <2>3 DEF LoopsFit, LoopsMirrored, OpenLoops, UpTo
<1>14. CASE /\ ~ LoopLast(m) /\ LoopLast(m)'
            /\ loop_stack' = Append(loop_stack, <<open'[m + 1].nxt, open'[m + 1].end>>)
            /\ open'[m + 1].nxt \in Block' /\ open'[m + 1].end \in Block'
    <2> DEFINE p == <<open'[m + 1].nxt, open'[m + 1].end>>
               n == Len(loop_stack)
    <2>0. p[1] = open'[m + 1].nxt /\ p[2] = open'[m + 1].end
        OBVIOUS
    <2> HIDE DEF p
    <2>1. /\ Len(loop_stack') = n + 1
          /\ \A i \in 1 .. n : loop_stack'[i] = loop_stack[i]
          /\ loop_stack'[n + 1] = p
          /\ DOMAIN loop_stack' = 1 .. n + 1
        <3>1. loop_stack' = Append(loop_stack, p)
            BY <1>14 DEF p
        <3>2. /\ Len(loop_stack') = n + 1
              /\ \A i \in 1 .. n : loop_stack'[i] = loop_stack[i]
              /\ loop_stack'[n + 1] = p
            BY <1>12, <3>1, AppendShape
        <3>3. QED  BY <1>1, <3>2 DEF Shaped
    <2>2. Cardinality(L) = n /\ Cardinality(OpenLoops') = n + 1
        BY <1>4, <1>5, <1>7, <1>14
    <2>3. ASSUME NEW i \in OpenLoops'
          PROVE  loop_stack'[UpTo(OpenLoops', i)] = <<open'[i].nxt, open'[i].end>>
        <3>1. CASE i \in L
            <4>1. UpTo(OpenLoops', i) \in 1 .. n
                BY <1>6, <1>8, <2>2, <3>1
            <4>2. QED  BY <1>7, <1>8, <2>1, <3>1, <4>1
        <3>2. CASE i = m + 1
            BY <1>5, <2>1, <2>2, <3>2 DEF p
        <3>3. QED  BY <1>2, <3>1, <3>2
    <2>4. ASSUME NEW i \in DOMAIN loop_stack'
          PROVE  loop_stack'[i][1] \in Block' /\ loop_stack'[i][2] \in Block'
        <3>1. i \in 1 .. n \/ i = n + 1
            BY <1>11, <2>1
        <3>2. QED  BY <1>9, <1>10, <1>11, <1>14, <2>0, <2>1, <3>1
    <2>5. Goal
        BY <2>1, <2>2, <2>3, <2>4
    <2>6. QED  BY <2>5 DEF LoopsFit, LoopsMirrored, OpenLoops, UpTo
<1>15. CASE /\ LoopLast(m) /\ ~ LoopLast(m)'
            /\ loop_stack' = Front(loop_stack)
    <2> DEFINE n == Cardinality(L)
    <2>1. Len(loop_stack) = n + 1 /\ Cardinality(OpenLoops') = n /\ n \in Nat
        BY <1>4, <1>5, <1>7, <1>15
    <2> HIDE DEF n
    <2>2. /\ Len(loop_stack') = n
          /\ \A i \in 1 .. n : loop_stack'[i] = loop_stack[i]
          /\ DOMAIN loop_stack' = 1 .. n
        <3>1. Len(loop_stack) # 0 /\ Len(loop_stack) - 1 = n
            BY <2>1
        <3>2. /\ Len(loop_stack') = n
              /\ \A i \in 1 .. n : loop_stack'[i] = loop_stack[i]
            BY <1>12, <1>15, <3>1, FrontShape
        <3>3. QED  BY <1>1, <3>2 DEF Shaped
    <2>3. ASSUME NEW i \in OpenLoops'
          PROVE  loop_stack'[UpTo(OpenLoops', i)] = <<open'[i].nxt, open'[i].end>>
        <3>1. i \in L
            BY <1>2, <1>15
        <3>2. UpTo(OpenLoops', i) \in 1 .. n
            BY <1>6, <1>8, <3>1 DEF n
        <3>3. QED  BY <1>7, <1>8, <2>2, <3>1, <3>2
    <2>4. \A i \in 1 .. n : i \in DOMAIN loop_stack
        BY <1>11, <2>1
    <2>5. Goal
        BY <1>9, <1>10, <2>1, <2>2, <2>3, <2>4
    <2>6. QED  BY <2>5 DEF LoopsFit, LoopsMirrored, OpenLoops, UpTo
<1>16. QED  BY <1>13, <1>14, <1>15

\* The builder of the innermost function goes on in q: what stays where it is.
LEMMA Moved ==
    ASSUME FlowInv, Typed', open # <<>>, NEW t, NEW q \in Nat, q # 0, NEW m \in Nat,
           Writes(Here, t, q), Keeps(m), Turns(q, m),
           builders' = WithLast(builders, q), Len(lives') = Len(lives),
           ~ FuncLast(m), ~ FuncLast(m)',
           \A b \in Nat : Fresh(b) => blocks'[b].fn = Fn /\ blocks'[b].type = blocks[Here].type,
           blocks'[q].placed
    PROVE  Shifts(Here, q) /\ Homes(m) /\ LevelsFit'
<1> DEFINE n == Len(builders)
<1>1. Typed /\ Shaped /\ Shaped'
    BY Shapes DEF FlowInv
<1>2. /\ n >= 1 /\ n \in DOMAIN builders /\ Here = builders[n] /\ Home(Len(open)) = Here
      /\ Here \in Block /\ Here # 0 /\ Here \in Nat /\ Current(Here)
    BY HomeTop
<1>3. n \in Nat /\ DOMAIN builders = 1 .. n
    BY <1>1 DEF Shaped
<1>4. /\ Len(builders') = n /\ DOMAIN builders' = 1 .. n
      /\ \A k \in 1 .. n : builders'[k] = IF k = n THEN q ELSE builders[k]
    <2>1. builders' = [builders EXCEPT ![n] = q]
        BY DEF WithLast
    <2>2. DOMAIN builders' = 1 .. n
        BY <1>3, <2>1
    <2>3. Len(builders') = n
        <3>1. builders \in Seq(Nat) /\ n \in 1 .. Len(builders)
            BY <1>1, <1>2, <1>3 DEF Typed
        <3>2. QED  BY <2>1, <3>1, ExceptSeq
    <2>4. QED  BY <1>3, <2>1, <2>2, <2>3
<1>5. \A k, l \in 1 .. n : builders[k] = builders[l] => k = l
    BY <1>3 DEF FlowInv, BuildersFit
<1>6. /\ blocks'[q].fn = Fn /\ blocks'[q].type = blocks[Here].type
      /\ ~ Current(q)
    <2>1. CASE Fresh(q)
        <3>1. q \notin Block
            BY <1>1, <2>1 DEF Fresh, Shaped
        <3>2. QED  BY <2>1, <3>1 DEF Current, FlowInv, BuildersFit
    <2>2. CASE Len(open) = m + 1 /\ WaitsFor(open[m + 1], q)
        <3>1. m + 1 \in DOMAIN open /\ Owns(open[m + 1], q)
            BY <1>1, <2>2 DEF Shaped, Owns
        <3>2. /\ q \in Block /\ ~ Current(q)
              /\ blocks[q].fn = blocks[Home(m + 1)].fn
              /\ blocks[q].type = blocks[Home(m + 1)].type
            BY <2>2, <3>1 DEF FlowInv, OwnedFit
        <3>3. QED  BY <1>2, <2>2, <3>2 DEF Writes, Fn
    <2>3. QED  BY <2>1, <2>2 DEF Turns
<1>7. Shifts(Here, q)
    <2>1. \A k \in 1 .. n : builders[k] # q
        BY <1>3, <1>6 DEF Current
    <2>2. \A b \in Nat : Current(b)' <=> \E k \in 1 .. n : builders'[k] = b
        BY <1>4 DEF Current
    <2>3. \A b \in Nat : Current(b) <=> \E k \in 1 .. n : builders[k] = b
        BY <1>3 DEF Current
    <2>4. n \in 1 .. n
        BY <1>2, <1>3
    <2> HIDE DEF n
    <2>5. ASSUME NEW b \in Nat
          PROVE  Current(b)' <=> (Current(b) /\ b # Here) \/ (b = q /\ q # 0)
        <3>1. ASSUME Current(b)' PROVE (Current(b) /\ b # Here) \/ b = q
            <4>1. PICK k \in 1 .. n : builders'[k] = b
                BY <2>2, <3>1
            <4>2. CASE k = n
                BY <1>4, <4>1, <4>2
            <4>3. CASE k # n
                BY <1>2, <1>4, <1>5, <2>3, <2>4, <4>1, <4>3
            <4>4. QED  BY <4>2, <4>3
        <3>2. ASSUME Current(b), b # Here PROVE Current(b)'
            <4>1. PICK k \in 1 .. n : builders[k] = b
                BY <2>3, <3>2
            <4>2. k # n
                BY <1>2, <3>2, <4>1
            <4>3. QED  BY <1>4, <2>2, <4>1, <4>2
        <3>3. ASSUME b = q PROVE Current(b)'
            BY <1>4, <2>2, <2>4, <3>3
        <3>4. QED  BY <3>1, <3>2, <3>3
    <2>6. \A k, l \in DOMAIN builders' : builders'[k] = builders'[l] => k = l
        BY <1>4, <1>5, <2>1
    <2>7. QED  BY <1>2, <2>5, <2>6 DEF Shifts
<1>8. PICK F \in SUBSET (1 .. m) :
          /\ \A i \in 1 .. m : i \in F <=> open[i].kind = "func"
          /\ Funcs = F /\ Funcs' = F
    BY <1>1, Levels
<1>9. /\ n = Cardinality(F) /\ Len(lives) = n
      /\ open[1].kind = "func"
    BY <1>8 DEF FlowInv, LevelsFit
<1>10. m >= 1 /\ 1 \in F
    <2>1. m # 0
        <3>1. CASE m = 0
            <4>1. Len(open) = 1
                <5>1. Len(open) # 0 /\ Len(open) \in {m, m + 1}
                    BY <1>1 DEF Shaped, Keeps
                <5>2. QED  BY <3>1, <5>1
            <4>2. QED  BY <1>9, <3>1, <4>1 DEF FuncLast
        <3>2. QED  BY <3>1
    <2>2. m >= 1
        BY <2>1
    <2>3. QED  BY <1>8, <1>9, <2>2
<1>11. \A i \in 1 .. m : UpTo(F, i) \in 1 .. n
    <2>1. \A i \in 1 .. m : UpTo(F, i) \in Nat /\ UpTo(F, i) <= Cardinality(F) /\ UpTo(F, i) >= 1
        <3>1. CountsAs(F, F, m)
            BY <1>8, Counts
        <3>2. QED  BY <1>10, <3>1 DEF CountsAs
    <2>2. QED  BY <1>3, <1>9, <2>1
<1>12. UpTo(F, m + 1) = n
    <2>1. CountsAs(F, F, m)
        BY <1>8, Counts
    <2>2. QED  BY <1>9, <2>1 DEF CountsAs
<1>13. /\ \A i \in 1 .. m : Home(i)' = builders'[UpTo(F, i)] /\ Home(i) = builders[UpTo(F, i)]
       /\ Home(m + 1)' = q
    <2>1. n \in 1 .. n
        BY <1>2, <1>3
    <2>2. builders'[n] = q
        BY <1>4, <2>1
    <2>3. QED  BY <1>8, <1>12, <2>2 DEF Home
<1>14. Homes(m)
    <2>1. ASSUME NEW i \in 1 .. m
          PROVE  /\ blocks'[Home(i)'].fn = blocks[Home(i)].fn
                 /\ blocks'[Home(i)'].type = blocks[Home(i)].type
        <3>1. PICK u \in 1 .. n : u = UpTo(F, i)
            BY <1>11
        <3>2. Home(i)' = builders'[u] /\ Home(i) = builders[u]
            BY <1>13, <3>1
        <3>3. CASE u = n
            BY <1>2, <1>4, <1>6, <3>2, <3>3 DEF Fn
        <3>4. CASE u # n
            <4>1. Home(i)' = Home(i) /\ Home(i) \in Block
                <5>1. builders'[u] = builders[u] /\ u \in DOMAIN builders
                    BY <1>3, <1>4, <3>4
                <5>2. builders[u] \in Block
                    BY <5>1 DEF FlowInv, BuildersFit
                <5>3. QED  BY <3>2, <5>1, <5>2
            <4>2. QED  BY <4>1 DEF Writes
        <3>5. QED  BY <3>3, <3>4
    <2>2. ASSUME Len(open') = m + 1, NEW b \in Nat, Owns(open'[m + 1], b)
          PROVE  blocks'[b].fn = Fn /\ blocks'[b].type = blocks[Here].type
        <3>1. Fresh(b) \/ (Len(open) = m + 1 /\ Owns(open[m + 1], b))
            BY <2>2 DEF Turns
        <3>2. CASE Fresh(b)
            BY <3>2
        <3>3. CASE Len(open) = m + 1 /\ Owns(open[m + 1], b)
            <4>1. m + 1 \in DOMAIN open
                BY <1>1, <3>3 DEF Shaped
            <4>2. /\ b \in Block
                  /\ blocks[b].fn = blocks[Home(m + 1)].fn
                  /\ blocks[b].type = blocks[Home(m + 1)].type
                BY <3>3, <4>1 DEF FlowInv, OwnedFit
            <4>3. QED  BY <1>2, <3>3, <4>2 DEF Writes, Fn
        <3>4. QED  BY <3>1, <3>2, <3>3
    <2>3. Len(open') = m + 1 => open'[m + 1].kind # "func"
        BY DEF FuncLast
    <2>4. QED  BY <1>6, <1>13, <2>1, <2>2, <2>3 DEF Homes
<1>15. LevelsFit'
    <2>1. open'[1].kind = "func"
        <3>1. Alike(open[1], open'[1])
            BY <1>10 DEF Keeps
        <3>2. QED  BY <1>9, <3>1 DEF Alike
    <2>2. QED  BY <1>4, <1>8, <1>9, <2>1 DEF LevelsFit
<1>16. QED  BY <1>7, <1>14, <1>15

\* Such a step keeps everything.
LEMMA MovedKeeps ==
    ASSUME FlowInv, Typed', open # <<>>, NEW t, NEW q \in Nat, q # 0, NEW m \in Nat,
           Writes(Here, t, q), Keeps(m), Turns(q, m),
           builders' = WithLast(builders, q), Len(lives') = Len(lives),
           ~ FuncLast(m), ~ FuncLast(m)',
           \A b \in Nat : Fresh(b) => blocks'[b].fn = Fn /\ blocks'[b].type = blocks[Here].type,
           blocks'[q].placed,
           Lawful(Here, t), Aims(Here, t, m), Joins(q, m), LoopsFit'
    PROVE  FlowInv'
<1>1. Here \in Nat
    BY HomeTop
<1>2. Shifts(Here, q) /\ Homes(m) /\ LevelsFit'
    BY Moved
<1>3. BlocksFit' /\ BuildersFit' /\ OwnedFit' /\ NoneLost'
    BY <1>1, <1>2, StepBlocks
<1>4. JumpsStay' /\ RetMatches' /\ TestsAreBool' /\ PhisFit'
    BY <1>1, <1>2, StepEnds
<1>5. QED  BY <1>2, <1>3, <1>4 DEF FlowInv

-----------------------------------------------------------------------------
(* What the actions make of the sequences. *)

\* The sequence r is s with x in the last place.
LastSet(S, s, r, x) ==
    /\ r \in Seq(S) /\ Len(r) = Len(s) /\ r[Len(s)] = x
    /\ \A i \in 1 .. Len(s) : i # Len(s) => r[i] = s[i]

\* The last element is changed.
LEMMA WithLastIs ==
    ASSUME NEW S, NEW s \in Seq(S), s # <<>>, NEW x \in S
    PROVE  LastSet(S, s, WithLast(s, x), x)
<1>1. Len(s) \in Nat /\ Len(s) # 0
    BY SeqIs
<1>2. Len(s) \in 1 .. Len(s)
    BY <1>1
<1>3. QED  BY <1>2, ExceptSeq DEF WithLast, LastSet

\* The last element goes.
LEMMA FrontIs ==
    ASSUME NEW S, NEW s \in Seq(S), s # <<>>
    PROVE  /\ Front(s) \in Seq(S)
           /\ Len(Front(s)) = Len(s) - 1
           /\ \A i \in 1 .. Len(s) - 1 : Front(s)[i] = s[i]
<1>1. Len(s) \in Nat /\ Len(s) # 0 /\ DOMAIN s = 1 .. Len(s) /\ \A i \in DOMAIN s : s[i] \in S
    BY SeqIs
<1> DEFINE n == Len(s) - 1
<1>2. n \in Nat /\ \A i \in 1 .. n : s[i] \in S
    BY <1>1
<1> HIDE DEF n
<1>3. /\ SubSeq(s, 1, n) \in Seq(S)
      /\ Len(SubSeq(s, 1, n)) = n
      /\ \A i \in 1 .. n : SubSeq(s, 1, n)[i] = s[i]
    BY <1>2, SubSeqProperties
<1>4. QED  BY <1>3 DEF n, Front

\* What is noted of a body is nothing the invariant depends on.
LEMMA NotedIs ==
    ASSUME Typed, open # <<>>, NEW isReturn \in BOOLEAN
    PROVE  /\ Noted(isReturn) \in Seq(OpenT)
           /\ Len(Noted(isReturn)) = Len(open)
           /\ \A i \in 1 .. Len(open) : Alike(open[i], Noted(isReturn)[i])
<1>1. open \in Seq(OpenT) /\ Len(open) \in 1 .. Len(open) /\ DOMAIN open = 1 .. Len(open)
    <2>1. Len(open) \in Nat /\ Len(open) # 0 /\ DOMAIN open = 1 .. Len(open)
        BY Shapes DEF Shaped
    <2>2. QED  BY <2>1 DEF Typed
<1>2. Top \in OpenT /\ Top = open[Len(open)]
    BY <1>1, SeqIs DEF Top, Last
<1>3. \A x : Alike(x, x)
    BY DEF Alike
<1>4. CASE Top.kind = "func"
    <2> DEFINE y == [Top EXCEPT !.tail = isReturn]
    <2>1. y \in OpenT /\ Alike(Top, y)
        BY <1>2 DEF OpenT, Alike
    <2> HIDE DEF y
    <2>2. Noted(isReturn) = WithLast(open, y)
        BY <1>4 DEF Noted, y
    <2> DEFINE w == WithLast(open, y)
    <2>3. /\ w \in Seq(OpenT) /\ Len(w) = Len(open) /\ w[Len(open)] = y
          /\ \A i \in 1 .. Len(open) : i # Len(open) => w[i] = open[i]
        <3>1. open \in Seq(OpenT) /\ open # <<>>
            BY <1>1
        <3>2. LastSet(OpenT, open, w, y)
            BY <2>1, <3>1, WithLastIs
        <3> HIDE DEF w
        <3>3. QED  BY <3>2 DEF LastSet
    <2> HIDE DEF w
    <2>4. \A i \in 1 .. Len(open) : Alike(open[i], w[i])
        BY <1>2, <1>3, <2>1, <2>3
    <2>5. QED  BY <2>2, <2>3, <2>4 DEF w
<1>5. CASE Top.kind # "func"
    BY <1>1, <1>3, <1>5 DEF Noted
<1>6. QED  BY <1>4, <1>5

\* A block ends and another is placed: what comes of the blocks.
LEMMA EndedPlaced ==
    ASSUME NEW t \in TermT, NEW here \in 1 .. Len(blocks), NEW q \in 1 .. Len(blocks),
           blocks \in Seq(BlockT), blocks[here].term = <<>>
    PROVE  LET bs == Place(Terminate(blocks, here, t), q) IN
           /\ bs \in Seq(BlockT) /\ Len(bs) = Len(blocks)
           /\ \A b \in 1 .. Len(blocks) :
                 /\ bs[b].fn = blocks[b].fn /\ bs[b].type = blocks[b].type
                 /\ bs[b].term = IF b = here THEN <<t>> ELSE blocks[b].term
                 /\ bs[b].phi = blocks[b].phi
                 /\ b # q => bs[b].placed = blocks[b].placed
           /\ bs[q].placed
<1>1. PICK es : es = Terminate(blocks, here, t)
    OBVIOUS
<1>2. EndsIn(blocks, es, here, t)
    BY <1>1, TerminateIs
<1>3. es \in Seq(BlockT) /\ Len(es) = Len(blocks) /\ es[here].term = <<t>>
    BY <1>2 DEF EndsIn
<1>4. PICK bs : bs = Place(es, q)
    OBVIOUS
<1>5. PlacesIn(es, bs, q)
    BY <1>3, <1>4, PlaceIs
<1>6. /\ bs \in Seq(BlockT) /\ Len(bs) = Len(blocks) /\ bs[q].placed
    BY <1>3, <1>5 DEF PlacesIn
<1>7. ASSUME NEW b \in 1 .. Len(blocks)
      PROVE  /\ bs[b].fn = blocks[b].fn /\ bs[b].type = blocks[b].type
             /\ bs[b].term = IF b = here THEN <<t>> ELSE blocks[b].term
             /\ bs[b].phi = blocks[b].phi
             /\ b # q => bs[b].placed = blocks[b].placed
    <2>1. /\ es[b].fn = blocks[b].fn /\ es[b].type = blocks[b].type
          /\ es[b].placed = blocks[b].placed /\ es[b].phi = blocks[b].phi
          /\ b # here => es[b].term = blocks[b].term
        BY <1>2 DEF EndsIn
    <2>2. /\ bs[b].fn = es[b].fn /\ bs[b].type = es[b].type
          /\ bs[b].term = es[b].term /\ bs[b].phi = es[b].phi
          /\ b # q => bs[b].placed = es[b].placed
        BY <1>3, <1>5 DEF PlacesIn
    <2>3. QED  BY <1>3, <2>1, <2>2
<1>8. QED  BY <1>1, <1>4, <1>6, <1>7

\* A block ends and another is placed.
LEMMA EndsAndPlaces ==
    ASSUME FlowInv, open # <<>>, NEW t \in TermT, t.to \subseteq Block,
           NEW q \in Block, q # Here, blocks' = Place(Terminate(blocks, Here, t), q)
    PROVE  /\ blocks' \in Seq(BlockT) /\ Len(blocks') = Len(blocks)
           /\ Writes(Here, t, q) /\ blocks'[q].placed /\ blocks'[q].phi = blocks[q].phi
           /\ \A b \in Nat : ~ Fresh(b)
<1>1. /\ blocks \in Seq(BlockT) /\ Len(blocks) \in Nat /\ Block = 1 .. Len(blocks)
    BY Shapes DEF FlowInv, Shaped, Typed
<1>2. Here \in 1 .. Len(blocks) /\ blocks[Here].term = <<>> /\ blocks[Here].placed
    BY <1>1, HomeTop
<1>3. q \in 1 .. Len(blocks)
    BY <1>1
<1>4. /\ blocks' \in Seq(BlockT) /\ Len(blocks') = Len(blocks)
      /\ \A b \in 1 .. Len(blocks) :
            /\ blocks'[b].fn = blocks[b].fn /\ blocks'[b].type = blocks[b].type
            /\ blocks'[b].term = IF b = Here THEN <<t>> ELSE blocks[b].term
            /\ blocks'[b].phi = blocks[b].phi
            /\ b # q => blocks'[b].placed = blocks[b].placed
      /\ blocks'[q].placed
    BY <1>1, <1>2, <1>3, EndedPlaced
<1>5. \A b \in Nat : ~ Fresh(b)
    BY <1>1, <1>4 DEF Fresh
<1>6. Block' = Block
    BY <1>1, <1>4, SeqIs DEF Block
<1>7. \A b \in Block :
          /\ blocks'[b].fn = blocks[b].fn /\ blocks'[b].type = blocks[b].type
          /\ blocks'[b].term = IF b = Here THEN <<t>> ELSE blocks[b].term
          /\ blocks[b].placed => blocks'[b].placed
          /\ b # q => blocks'[b].phi = blocks[b].phi
    BY <1>1, <1>4
<1>8. Len(blocks) <= Len(blocks') /\ t.to \subseteq Block'
    BY <1>1, <1>4, <1>6
<1>9. Writes(Here, t, q)
    BY <1>5, <1>7, <1>8 DEF Writes
<1>10. QED  BY <1>1, <1>4, <1>5, <1>9

\* Empty blocks of the function that is generated.
OfFn(made) == \A i \in 1 .. Len(made) : \E placed \in BOOLEAN : made[i] = InFn(placed)

\* What a step leaves that puts the blocks made behind the others and writes to at and q.
Makes(at, t, q, made) ==
    /\ blocks' \in Seq(BlockT) /\ Len(blocks') = Len(blocks) + Len(made)
    /\ Block' = 1 .. Len(blocks) + Len(made)
    /\ Writes(at, t, q)
    /\ \A i \in 1 .. Len(made) : blocks'[Len(blocks) + i] = made[i]
    /\ \A b \in Nat : Fresh(b) =>
          /\ b \in Len(blocks) + 1 .. Len(blocks) + Len(made)
          /\ blocks'[b].fn = Fn /\ blocks'[b].type = blocks[Here].type
          /\ blocks'[b].phi = {} /\ blocks'[b].term = <<>>

\* Blocks of the function are made, behind the others; at may end before.
LEMMA MakesBlocks ==
    ASSUME FlowInv, open # <<>>, NEW t \in TermT, NEW at \in {0, Here}, NEW q \in Nat,
           NEW made \in Seq(BlockT),
           OfFn(made), at # 0 => t.to \subseteq 1 .. Len(blocks) + Len(made),
           blocks' = (IF at = 0 THEN blocks ELSE Terminate(blocks, at, t)) \o made
    PROVE  Makes(at, t, q, made)
<1>1. /\ blocks \in Seq(BlockT) /\ Len(blocks) \in Nat /\ Block = 1 .. Len(blocks)
      /\ \A b \in Block : blocks[b] \in BlockT
    BY Shapes DEF FlowInv, Shaped, Typed
<1>2. /\ Here \in 1 .. Len(blocks) /\ blocks[Here].term = <<>> /\ blocks[Here].placed
      /\ Here # 0 /\ Fn \in Block /\ blocks[Fn].fn = Fn
    BY <1>1, HomeTop
<1>3. Len(made) \in Nat
    BY SeqIs
<1> DEFINE bs == IF at = 0 THEN blocks ELSE Terminate(blocks, at, t)
<1>4. /\ bs \in Seq(BlockT) /\ Len(bs) = Len(blocks)
      /\ \A b \in 1 .. Len(blocks) :
            /\ bs[b].fn = blocks[b].fn /\ bs[b].type = blocks[b].type
            /\ bs[b].placed = blocks[b].placed /\ bs[b].phi = blocks[b].phi
            /\ bs[b].term = IF b = at THEN <<t>> ELSE blocks[b].term
    <2>1. CASE at = 0
        <3>1. bs = blocks
            BY <2>1
        <3>2. QED  BY <1>1, <2>1, <3>1
    <2>2. CASE at = Here
        <3>1. bs = Terminate(blocks, Here, t)
            BY <1>2, <2>2
        <3>2. PICK es : es = Terminate(blocks, Here, t)
            OBVIOUS
        <3>3. EndsIn(blocks, es, Here, t)
            BY <1>1, <1>2, <3>2, TerminateIs
        <3>4. es[Here].term = <<t>>
            BY <1>2, <3>3 DEF EndsIn
        <3>5. bs = es
            BY <3>1, <3>2
        <3> HIDE DEF bs
        <3>6. QED  BY <2>2, <3>3, <3>4, <3>5 DEF EndsIn
    <2>3. QED  BY <2>1, <2>2
<1> HIDE DEF bs
<1>5. blocks' = bs \o made
    BY DEF bs
<1>6. /\ blocks' \in Seq(BlockT) /\ Len(blocks') = Len(blocks) + Len(made)
      /\ \A b \in 1 .. Len(blocks) : blocks'[b] = bs[b]
      /\ \A i \in 1 .. Len(made) : blocks'[Len(blocks) + i] = made[i]
    <2>1. /\ bs \o made \in Seq(BlockT) /\ Len(bs \o made) = Len(bs) + Len(made)
          /\ \A b \in 1 .. Len(bs) : (bs \o made)[b] = bs[b]
          /\ \A i \in 1 .. Len(made) : (bs \o made)[Len(bs) + i] = made[i]
        BY <1>4, MadeIs
    <2>2. QED  BY <1>4, <1>5, <2>1
<1>7. Block' = 1 .. Len(blocks) + Len(made)
    BY <1>6, SeqIs DEF Block
<1>8. ASSUME NEW b \in Nat, Fresh(b)
      PROVE  /\ b \in Len(blocks) + 1 .. Len(blocks) + Len(made)
             /\ blocks'[b].fn = Fn /\ blocks'[b].type = blocks[Here].type
             /\ blocks'[b].phi = {} /\ blocks'[b].term = <<>>
    <2>1. b \in Len(blocks) + 1 .. Len(blocks) + Len(made)
        BY <1>6, <1>8 DEF Fresh
    <2>2. PICK i \in 1 .. Len(made) : b = Len(blocks) + i
        <3>1. b - Len(blocks) \in 1 .. Len(made)
            BY <1>1, <1>3, <2>1
        <3>2. b = Len(blocks) + (b - Len(blocks))
            BY <1>1
        <3>3. QED  BY <3>1, <3>2
    <2>3. PICK placed \in BOOLEAN : made[i] = InFn(placed)
        BY DEF OfFn
    <2>4. blocks'[b] = NewBlock(Fn, blocks[Here].type, placed)
        BY <1>6, <2>2, <2>3 DEF InFn
    <2> DEFINE x == NewBlock(Fn, blocks[Here].type, placed)
    <2>5. x.fn = Fn /\ x.type = blocks[Here].type /\ x.phi = {} /\ x.term = <<>>
        BY DEF NewBlock
    <2> HIDE DEF x
    <2>6. blocks'[b] = x
        BY <2>4 DEF x
    <2>7. QED  BY <2>1, <2>5, <2>6
<1>9. Block \subseteq Block'
    BY <1>1, <1>3, <1>7
<1>10. at # 0 => t.to \subseteq Block'
    BY <1>7
<1>11. Len(blocks) <= Len(blocks')
    BY <1>1, <1>3, <1>6
<1>12. ASSUME NEW b \in Block
       PROVE  /\ blocks'[b].fn = blocks[b].fn /\ blocks'[b].type = blocks[b].type
              /\ blocks'[b].term = IF b = at THEN <<t>> ELSE blocks[b].term
              /\ blocks[b].placed => blocks'[b].placed
              /\ blocks'[b].phi = blocks[b].phi
    BY <1>1, <1>4, <1>6
<1>13. ASSUME NEW b \in Nat, Fresh(b)
       PROVE  /\ blocks'[b].term = <<>> /\ blocks'[b].phi = {}
              /\ blocks'[b].fn \in Block' /\ blocks'[blocks'[b].fn].fn = blocks'[b].fn
    <2>1. blocks'[Fn].fn = Fn /\ Fn \in Block'
        BY <1>2, <1>9, <1>12
    <2>2. blocks'[b].fn = Fn /\ blocks'[b].phi = {} /\ blocks'[b].term = <<>>
        BY <1>8, <1>13
    <2>3. QED  BY <2>1, <2>2
<1>14. Writes(at, t, q)
    BY <1>10, <1>11, <1>12, <1>13 DEF Writes
<1>15. QED  BY <1>6, <1>7, <1>8, <1>14 DEF Makes

\* The innermost construct.
LEMMA TopIs ==
    ASSUME FlowInv, open # <<>>
    PROVE  /\ Top \in OpenT
           /\ \E m \in Nat : Len(open) = m + 1 /\ Top = open[m + 1]
           /\ lives \in Seq(BOOLEAN) /\ lives # <<>> /\ Live \in BOOLEAN
           /\ builders \in Seq(Nat) /\ builders # <<>>
           /\ open \in Seq(OpenT)
<1>1. /\ Shaped
      /\ lives \in Seq(BOOLEAN) /\ builders \in Seq(Nat) /\ open \in Seq(OpenT)
    BY Shapes DEF FlowInv, Typed
<1>2. Len(open) \in DOMAIN open /\ Top = open[Len(open)] /\ Len(builders) >= 1
    BY HomeTop
<1>3. Top \in OpenT
    BY <1>1, <1>2 DEF Shaped
<1>4. \E m \in Nat : Len(open) = m + 1
    <2>1. Len(open) \in Nat /\ Len(open) # 0
        BY <1>1 DEF Shaped
    <2>2. Len(open) - 1 \in Nat /\ Len(open) = (Len(open) - 1) + 1
        BY <2>1
    <2>3. QED  BY <2>2
<1>5. Len(lives) = Len(builders) /\ Len(builders) \in Nat
    BY <1>1 DEF FlowInv, LevelsFit, Shaped
<1>6. builders # <<>>
    <2>1. Len(builders) # 0
        BY <1>2, <1>5
    <2>2. QED  BY <1>1, <2>1, SeqIs
<1>7. lives # <<>> /\ Len(lives) \in DOMAIN lives
    <2>1. Len(lives) # 0 /\ Len(lives) \in 1 .. Len(lives)
        BY <1>2, <1>5
    <2>2. QED  BY <1>1, <2>1, SeqIs
<1>8. Live \in BOOLEAN
    BY <1>1, <1>7, SeqIs DEF Live, Last
<1>9. QED  BY <1>1, <1>2, <1>3, <1>4, <1>6, <1>7, <1>8

\* What the actions make of builders, open and lives.
LEMMA Changed ==
    ASSUME FlowInv, open # <<>>
    PROVE  /\ \A q \in Nat : /\ WithLast(builders, q) \in Seq(Nat)
                             /\ Len(WithLast(builders, q)) = Len(builders)
           /\ \A l \in BOOLEAN : /\ WithLast(lives, l) \in Seq(BOOLEAN)
                                 /\ Len(WithLast(lives, l)) = Len(lives)
           /\ \A x \in OpenT :
                 /\ WithLast(open, x) \in Seq(OpenT)
                 /\ Len(WithLast(open, x)) = Len(open)
                 /\ WithLast(open, x)[Len(open)] = x
                 /\ \A i \in 1 .. Len(open) : i # Len(open) => WithLast(open, x)[i] = open[i]
           /\ Front(open) \in Seq(OpenT)
           /\ Len(Front(open)) = Len(open) - 1
           /\ \A i \in 1 .. Len(open) - 1 : Front(open)[i] = open[i]
<1>1. /\ builders \in Seq(Nat) /\ builders # <<>>
      /\ lives \in Seq(BOOLEAN) /\ lives # <<>>
      /\ open \in Seq(OpenT)
    BY TopIs
<1>2. ASSUME NEW q \in Nat
      PROVE  WithLast(builders, q) \in Seq(Nat) /\ Len(WithLast(builders, q)) = Len(builders)
    BY <1>1, WithLastIs DEF LastSet
<1>3. ASSUME NEW l \in BOOLEAN
      PROVE  WithLast(lives, l) \in Seq(BOOLEAN) /\ Len(WithLast(lives, l)) = Len(lives)
    <2> DEFINE B == BOOLEAN
    <2>1. lives \in Seq(B) /\ lives # <<>> /\ l \in B
        BY <1>1
    <2> HIDE DEF B
    <2>2. WithLast(lives, l) \in Seq(B) /\ Len(WithLast(lives, l)) = Len(lives)
        BY <2>1, WithLastIs DEF LastSet
    <2>3. QED  BY <2>2 DEF B
<1>4. ASSUME NEW x \in OpenT
      PROVE  /\ WithLast(open, x) \in Seq(OpenT)
             /\ Len(WithLast(open, x)) = Len(open)
             /\ WithLast(open, x)[Len(open)] = x
             /\ \A i \in 1 .. Len(open) : i # Len(open) => WithLast(open, x)[i] = open[i]
    BY <1>1, WithLastIs DEF LastSet
<1>5. /\ Front(open) \in Seq(OpenT)
      /\ Len(Front(open)) = Len(open) - 1
      /\ \A i \in 1 .. Len(open) - 1 : Front(open)[i] = open[i]
    BY <1>1, FrontIs, Zenon
<1>6. QED  BY <1>2, <1>3, <1>4, <1>5

\* Constructs that do not change.
LEMMA KeepsBelow ==
    ASSUME NEW m \in Nat, Len(open) \in {m, m + 1}, Len(open') \in {m, m + 1},
           \A i \in 1 .. m : open'[i] = open[i]
    PROVE  Keeps(m)
BY DEF Keeps, Alike

\* The innermost construct goes on: it comes to a block it waited for, or has
\* made.
LEMMA PhaseKeeps ==
    ASSUME FlowInv, open # <<>>, NEW x \in OpenT, NEW t \in TermT, NEW q \in Nat, q # 0,
           Top.kind # "func", x.kind = Top.kind, x.nxt = Top.nxt, x.end = Top.end \/ x.kind = "if",
           ~ (x.kind = "for" /\ x.phase = "init"), Distinct(x),
           blocks' \in Seq(BlockT), Writes(Here, t, q), blocks'[q].placed, blocks'[q].phi = {},
           \A b \in Nat : Fresh(b) => blocks'[b].fn = Fn /\ blocks'[b].type = blocks[Here].type,
           Fresh(q) \/ WaitsFor(Top, q),
           \A b \in Nat : WaitsFor(x, b) <=> (Fresh(b) \/ WaitsFor(Top, b)) /\ b # q,
           \A b \in Nat : Owns(x, b) => Fresh(b) \/ Owns(Top, b),
           \A b \in t.to : Fresh(b) \/ Owns(Top, b),
           t.ret = "no", t.test \in {"no", "bool"}, lax' = lax,
           builders' = WithLast(builders, q), open' = WithLast(open, x),
           lives' = lives \/ \E l \in BOOLEAN : lives' = WithLast(lives, l),
           loop_stack' = loop_stack,
           x.kind = "if" /\ x.val =>
              /\ x.has
              /\ x.phase = "then" => Fresh(x.end) /\ x.end \notin t.to
              /\ x.phase = "else" => /\ Top.val /\ Top.phase = "then" /\ x.end = Top.end
                                     /\ t.to = {x.end} /\ x.thenEnd = Here
    PROVE  FlowInv'
<1>1. PICK m \in Nat : Len(open) = m + 1 /\ Top = open[m + 1]
    BY TopIs
<1>2. /\ Top \in OpenT /\ open \in Seq(OpenT)
      /\ builders \in Seq(Nat) /\ builders # <<>>
      /\ lives \in Seq(BOOLEAN) /\ lives # <<>>
    BY TopIs
<1>3. /\ open' \in Seq(OpenT) /\ Len(open') = m + 1 /\ open'[m + 1] = x
      /\ \A i \in 1 .. m : open'[i] = open[i]
    <2>1. /\ open' \in Seq(OpenT) /\ Len(open') = Len(open) /\ open'[Len(open)] = x
          /\ \A i \in 1 .. Len(open) : i # Len(open) => open'[i] = open[i]
        <3> DEFINE w == WithLast(open, x)
        <3>1. /\ w \in Seq(OpenT) /\ Len(w) = Len(open) /\ w[Len(open)] = x
              /\ \A i \in 1 .. Len(open) : i # Len(open) => w[i] = open[i]
            BY Changed
        <3>2. open' = w
            OBVIOUS
        <3> HIDE DEF w
        <3>3. QED  BY <3>1, <3>2
    <2>2. QED  BY <1>1, <2>1
<1>4. builders' \in Seq(Nat)
    BY Changed
<1>5. lives' \in Seq(BOOLEAN) /\ Len(lives') = Len(lives)
    <2>1. ASSUME NEW l \in BOOLEAN, lives' = WithLast(lives, l)
          PROVE  lives' \in Seq(BOOLEAN) /\ Len(lives') = Len(lives)
        <3>1. WithLast(lives, l) \in Seq(BOOLEAN) /\ Len(WithLast(lives, l)) = Len(lives)
            BY Changed
        <3>2. QED  BY <2>1, <3>1
    <2>2. QED  BY <1>2, <2>1
<1>6. Typed'
    BY <1>3, <1>4, <1>5 DEF FlowInv, Typed
<1>7. Keeps(m)
    BY <1>1, <1>3, KeepsBelow
<1>8. /\ ~ FuncLast(m) /\ ~ FuncLast(m)'
      /\ LoopLast(m) <=> LoopLast(m)'
    BY <1>1, <1>3 DEF FuncLast, LoopLast
<1>9. Turns(q, m)
    <2>1. \A b \in Nat : Owns(x, b) =>
              (Fresh(b) \/ (Len(open) = m + 1 /\ Owns(open[m + 1], b)))
        BY <1>1
    <2>2. \A b \in Nat : WaitsFor(x, b) =>
              /\ b # q
              /\ Fresh(b) \/ (Len(open) = m + 1 /\ WaitsFor(open[m + 1], b))
        BY <1>1
    <2>3. \A b \in Nat : Fresh(b) \/ (Len(open) = m + 1 /\ WaitsFor(open[m + 1], b)) =>
              b = q \/ WaitsFor(x, b)
        BY <1>1
    <2>4. Fresh(q) \/ (Len(open) = m + 1 /\ WaitsFor(open[m + 1], q))
        BY <1>1
    <2>5. QED  BY <1>3, <2>1, <2>2, <2>3, <2>4 DEF Turns
<1>10. m + 1 \in DOMAIN open /\ Home(m + 1) = Here /\ Here \in Block /\ Here # 0 /\ Here \in Nat
    BY <1>1, HomeTop
<1>11. t.to \subseteq Nat
    BY DEF TermT
<1>12. Lawful(Here, t)
    <2>1. ASSUME NEW b \in t.to PROVE blocks'[b].fn = blocks[Here].fn
        <3>1. CASE Fresh(b)
            BY <1>11, <3>1 DEF Fn
        <3>2. CASE Owns(Top, b)
            <4>1. b \in Block /\ blocks[b].fn = blocks[Here].fn
                BY <1>1, <1>10, <1>11, <3>2 DEF FlowInv, OwnedFit
            <4>2. QED  BY <4>1 DEF Writes
        <3>3. QED  BY <3>1, <3>2
    <2>2. QED  BY <2>1 DEF Lawful
<1>13. Aims(Here, t, m)
    BY <1>1, <1>10 DEF Aims
<1>14. LoopsFit'
    <2>1. LoopLast(m) => open[m + 1].nxt = open'[m + 1].nxt /\ open[m + 1].end = open'[m + 1].end
        BY <1>1, <1>3 DEF LoopLast, Loops
    <2>2. Len(blocks) <= Len(blocks')
        BY DEF Writes
    <2>3. QED  BY <1>6, <1>7, <1>8, <2>1, <2>2, LoopsStep
<1>15. Shifts(Here, q)
    BY <1>6, <1>7, <1>8, <1>9, <1>5, Moved
<1>16. Joins(q, m)
    <2>1. ASSUME x.kind = "if", x.val
          PROVE  /\ x.has
                 /\ x.phase = "then" => Predecessors(x.end)' = {}
                 /\ x.phase = "else" => Predecessors(x.end)' = {x.thenEnd}
        <3>0. PICK e \in Nat : e = x.end
            BY DEF OpenT
        <3>1. Predecessors(e)' = Predecessors(e) \cup (IF Here # 0 /\ e \in t.to THEN {Here} ELSE {})
            BY <1>6, <1>10, <1>15, StepPredecessors
        <3>2. Predecessors(x.end)' = Predecessors(e)'
            BY <3>0
        <3>3. CASE x.phase = "then"
            <4>1. Fresh(e) /\ e \notin t.to
                BY <2>1, <3>0, <3>3
            <4>2. e \notin Block
                BY <4>1, Shapes DEF Fresh, FlowInv, Shaped
            <4>3. Predecessors(e) = {}
                BY <4>2 DEF Predecessors, FlowInv, BlocksFit
            <4>4. QED  BY <2>1, <3>1, <3>2, <3>3, <4>1, <4>3
        <3>4. CASE x.phase = "else"
            <4>1. /\ Top.kind = "if" /\ Top.val /\ Top.phase = "then" /\ e = Top.end
                  /\ t.to = {e} /\ x.thenEnd = Here
                BY <2>1, <3>0, <3>4
            <4>2. Predecessors(e) = {}
                BY <1>1, <1>10, <4>1 DEF FlowInv, PhisFit
            <4>3. QED  BY <1>10, <2>1, <3>1, <3>2, <3>4, <4>1, <4>2
        <3>5. QED  BY <2>1, <3>3, <3>4
    <2>2. ASSUME x.kind = "if", x.val
          PROVE  Predecessors(x.end)' = Predecessors(open[m + 1].end)'
        BY <1>3
    <2>3. QED  BY <1>3, <2>1, <2>2 DEF Joins
<1>17. QED  BY <1>5, <1>6, <1>7, <1>8, <1>9, <1>12, <1>13, <1>14, <1>16, MovedKeeps

\* The innermost construct is done: it comes to the last block it waited for.
LEMMA PopKeeps ==
    ASSUME FlowInv, open # <<>>, NEW t \in TermT, NEW q \in Nat, q # 0,
           Top.kind # "func", WaitsFor(Top, q),
           blocks' \in Seq(BlockT), Writes(Here, t, q), blocks'[q].placed,
           \A b \in Nat : ~ Fresh(b),
           blocks'[q].phi # {} => blocks'[q].phi = Predecessors(q) \cup {Here} /\ q \in t.to,
           \A b \in Nat : WaitsFor(Top, b) => b = q,
           \A b \in t.to : Owns(Top, b),
           t.ret = "no", lax \subseteq lax', t.test \in {"no", "bool"} \/ Here \in lax',
           builders' = WithLast(builders, q), open' = Front(open),
           lives' = lives \/ \E l \in BOOLEAN : lives' = WithLast(lives, l),
           loop_stack' = IF Top.kind \in Loops THEN Front(loop_stack) ELSE loop_stack,
           loop_stack' \in Seq(Nat \X Nat)
    PROVE  FlowInv'
<1>1. PICK m \in Nat : Len(open) = m + 1 /\ Top = open[m + 1]
    BY TopIs
<1>2. /\ Top \in OpenT /\ open \in Seq(OpenT)
      /\ builders \in Seq(Nat) /\ builders # <<>>
      /\ lives \in Seq(BOOLEAN) /\ lives # <<>>
    BY TopIs
<1>3. /\ open' \in Seq(OpenT) /\ Len(open') = m
      /\ \A i \in 1 .. m : open'[i] = open[i]
    <2>1. /\ open' \in Seq(OpenT) /\ Len(open') = Len(open) - 1
          /\ \A i \in 1 .. Len(open) - 1 : open'[i] = open[i]
        BY Changed
    <2>2. Len(open) - 1 = m
        BY <1>1
    <2>3. QED  BY <2>1, <2>2
<1>4. builders' \in Seq(Nat)
    BY Changed
<1>5. lives' \in Seq(BOOLEAN) /\ Len(lives') = Len(lives)
    <2>1. ASSUME NEW l \in BOOLEAN, lives' = WithLast(lives, l)
          PROVE  lives' \in Seq(BOOLEAN) /\ Len(lives') = Len(lives)
        <3>1. WithLast(lives, l) \in Seq(BOOLEAN) /\ Len(WithLast(lives, l)) = Len(lives)
            BY Changed
        <3>2. QED  BY <2>1, <3>1
    <2>2. QED  BY <1>2, <2>1
<1>6. Typed'
    BY <1>3, <1>4, <1>5 DEF FlowInv, Typed
<1>7. Keeps(m)
    BY <1>1, <1>3, KeepsBelow
<1>8. /\ ~ FuncLast(m) /\ ~ FuncLast(m)' /\ ~ LoopLast(m)' /\ Len(open') # m + 1
      /\ LoopLast(m) <=> Top.kind \in Loops
    BY <1>1, <1>3 DEF FuncLast, LoopLast
<1>9. Turns(q, m)
    BY <1>1, <1>8 DEF Turns
<1>10. m + 1 \in DOMAIN open /\ Home(m + 1) = Here /\ Here \in Block /\ Here # 0 /\ Here \in Nat
    BY <1>1, HomeTop
<1>11. t.to \subseteq Nat
    BY DEF TermT
<1>12. Lawful(Here, t)
    <2>1. ASSUME NEW b \in t.to PROVE blocks'[b].fn = blocks[Here].fn
        <3>1. b \in Block /\ blocks[b].fn = blocks[Here].fn
            BY <1>1, <1>10, <1>11 DEF FlowInv, OwnedFit
        <3>2. QED  BY <3>1 DEF Writes
    <2>2. QED  BY <2>1 DEF Lawful
<1>13. Aims(Here, t, m)
    BY <1>1, <1>10 DEF Aims
<1>14. LoopsFit'
    <2>2. Len(blocks) <= Len(blocks')
        BY DEF Writes
    <2>3. QED  BY <1>6, <1>7, <1>8, <2>2, LoopsStep
<1>15. Shifts(Here, q)
    BY <1>6, <1>7, <1>8, <1>9, <1>5, Moved
<1>16. Joins(q, m)
    <2>1. Predecessors(q)' = Predecessors(q) \cup (IF Here # 0 /\ q \in t.to THEN {Here} ELSE {})
        BY <1>6, <1>10, <1>15, StepPredecessors
    <2>2. QED  BY <1>8, <1>10, <2>1 DEF Joins
<1>17. QED  BY <1>5, <1>6, <1>7, <1>8, <1>9, <1>12, <1>13, <1>14, <1>16, MovedKeeps

-----------------------------------------------------------------------------
(* The actions. *)

\* What the innermost construct owns, and what its jumps are.
LEMMA OwnedTop ==
    ASSUME FlowInv, open # <<>>
    PROVE  /\ \A b \in Nat : Owns(Top, b) =>
                 /\ b \in Block /\ blocks[b].phi = {}
                 /\ blocks[b].fn = Fn /\ blocks[b].type = blocks[Here].type
           /\ \A b \in Nat : WaitsFor(Top, b) => Owns(Top, b) /\ b # Here /\ b # 0
           /\ Distinct(Top)
           /\ Top.kind = "for" /\ Top.phase = "init" => blocks[Top.begin].placed
           /\ Top \in OpenT
           /\ Top.begin \in Nat /\ Top.nxt \in Nat /\ Top.end \in Nat
<1>1. Len(open) \in DOMAIN open /\ Top = open[Len(open)] /\ Home(Len(open)) = Here /\ Current(Here)
    BY HomeTop
<1>2. Top \in OpenT
    BY TopIs
<1>3. \A b \in Nat : Owns(Top, b) =>
          /\ b \in Block /\ blocks[b].phi = {}
          /\ blocks[b].fn = Fn /\ blocks[b].type = blocks[Here].type
    BY <1>1 DEF FlowInv, OwnedFit, Fn
<1>4. \A b \in Nat : WaitsFor(Top, b) => Owns(Top, b) /\ b # Here /\ b # 0
    <2>1. \A b \in Nat : WaitsFor(Top, b) => Owns(Top, b) /\ b # Here
        BY <1>1 DEF FlowInv, OwnedFit, Owns
    <2>2. 0 \notin Block
        BY Shapes DEF FlowInv, Shaped
    <2>3. QED  BY <1>3, <2>1, <2>2
<1>5. Distinct(Top) /\ (Top.kind = "for" /\ Top.phase = "init" => blocks[Top.begin].placed)
    BY <1>1 DEF FlowInv, OwnedFit
<1>6. QED  BY <1>2, <1>3, <1>4, <1>5 DEF OpenT

\* Terminators.
LEMMA TermIs ==
    /\ \A to \in Nat : Br(to) \in TermT /\ Br(to).to = {to}
                       /\ Br(to).ret = "no" /\ Br(to).test = "no"
    /\ \A to \in Nat, alt \in Nat, test \in Tests :
          /\ CondBr(to, alt, test) \in TermT /\ CondBr(to, alt, test).to = {to, alt}
          /\ CondBr(to, alt, test).ret = "no" /\ CondBr(to, alt, test).test = test
BY DEF Br, CondBr, TermT, Tests

\* The code of a construct ends, and goes on in a block that waits.
LEMMA Places ==
    ASSUME FlowInv, open # <<>>, NEW t \in TermT, NEW q \in Nat,
           \A b \in t.to : Owns(Top, b), WaitsFor(Top, q),
           blocks' = Place(Terminate(blocks, Here, t), q)
    PROVE  /\ q # 0 /\ blocks' \in Seq(BlockT) /\ Writes(Here, t, q)
           /\ blocks'[q].placed /\ blocks'[q].phi = {}
           /\ \A b \in Nat : ~ Fresh(b)
<1>1. q # 0 /\ q # Here /\ q \in Block /\ blocks[q].phi = {}
    BY OwnedTop
<1>2. t.to \subseteq Block
    BY OwnedTop DEF TermT
<1>3. QED  BY <1>1, <1>2, EndsAndPlaces

\* IfElse keeps the invariant.
LEMMA IfElseKeeps == ASSUME FlowInv, IfElse PROVE FlowInv'
<1> USE DEF IfElse, Phase, Enters
<1>1. open # <<>> /\ Top \in OpenT /\ Live \in BOOLEAN
    BY TopIs
<1>2. PICK t, q : t = Br(Top.end) /\ q = Top.begin
    OBVIOUS
<1>3. /\ t \in TermT /\ t.to = {Top.end} /\ t.ret = "no" /\ t.test = "no" /\ q \in Nat
      /\ WaitsFor(Top, q) /\ Owns(Top, Top.end) /\ Distinct(Top)
    BY <1>1, <1>2, OwnedTop, TermIs DEF Owns, WaitsFor
<1>4. /\ q # 0 /\ blocks' \in Seq(BlockT) /\ Writes(Here, t, q)
      /\ blocks'[q].placed /\ blocks'[q].phi = {} /\ \A b \in Nat : ~ Fresh(b)
    BY <1>1, <1>2, <1>3, Places
<1>5. PICK x : x = [Top EXCEPT !.phase = "else", !.thenEnd = ThenEnd, !.brk = Live]
    OBVIOUS
<1>6. /\ x \in OpenT /\ x.kind = "if" /\ x.phase = "else" /\ x.thenEnd = Here
      /\ x.begin = Top.begin /\ x.end = Top.end /\ x.nxt = Top.nxt
      /\ x.has /\ x.val = Top.val
    BY <1>1, <1>5, HomeTop DEF OpenT, ThenEnd
<1>7. \A b \in Nat : /\ WaitsFor(x, b) <=> WaitsFor(Top, b) /\ b # q
                     /\ Owns(x, b) => Owns(Top, b)
    BY <1>2, <1>3, <1>6 DEF WaitsFor, Owns, Loops, Distinct
<1>8. Distinct(x)
    BY <1>6 DEF Distinct, Loops
<1>9. /\ builders' = WithLast(builders, q) /\ open' = WithLast(open, x)
      /\ \E l \in BOOLEAN : lives' = WithLast(lives, l)
      /\ loop_stack' = loop_stack /\ lax' = lax
    BY <1>1, <1>2, <1>5 DEF OpenT
<1>10. QED  BY <1>1, <1>3, <1>4, <1>6, <1>7, <1>8, <1>9, PhaseKeeps

\* WhileCond keeps the invariant.
LEMMA WhileCondKeeps == ASSUME FlowInv, WhileCond PROVE FlowInv'
<1> USE DEF WhileCond, Phase, Enters
<1>1. open # <<>> /\ Top \in OpenT /\ Live \in BOOLEAN
    BY TopIs
<1>2. PICK t, q : t = Br(Top.nxt) /\ q = Top.nxt
    OBVIOUS
<1>3. /\ t \in TermT /\ t.to = {Top.nxt} /\ t.ret = "no" /\ t.test = "no" /\ q \in Nat
      /\ WaitsFor(Top, q) /\ Owns(Top, Top.nxt) /\ Distinct(Top)
    BY <1>1, <1>2, OwnedTop, TermIs DEF Owns, WaitsFor
<1>4. /\ q # 0 /\ blocks' \in Seq(BlockT) /\ Writes(Here, t, q)
      /\ blocks'[q].placed /\ blocks'[q].phi = {} /\ \A b \in Nat : ~ Fresh(b)
    BY <1>1, <1>2, <1>3, Places
<1>5. PICK x : x = [Top EXCEPT !.phase = "cond"]
    OBVIOUS
<1>6. /\ x \in OpenT /\ x.kind = "while" /\ x.phase = "cond"
      /\ x.begin = Top.begin /\ x.end = Top.end /\ x.nxt = Top.nxt
    BY <1>1, <1>5 DEF OpenT
<1>7. \A b \in Nat : /\ WaitsFor(x, b) <=> WaitsFor(Top, b) /\ b # q
                     /\ Owns(x, b) => Owns(Top, b)
    BY <1>2, <1>3, <1>6 DEF WaitsFor, Owns, Loops, Distinct
<1>8. Distinct(x)
    BY <1>3, <1>6 DEF Distinct, Loops
<1>9. /\ builders' = WithLast(builders, q) /\ open' = WithLast(open, x)
      /\ \E l \in BOOLEAN : lives' = WithLast(lives, l)
      /\ loop_stack' = loop_stack /\ lax' = lax
    BY <1>1, <1>2, <1>5 DEF OpenT
<1>10. QED  BY <1>1, <1>3, <1>4, <1>6, <1>7, <1>8, <1>9, PhaseKeeps

\* ForStep keeps the invariant.
LEMMA ForStepKeeps == ASSUME FlowInv, ForStep PROVE FlowInv'
<1> USE DEF ForStep, Phase, Enters
<1>1. open # <<>> /\ Top \in OpenT /\ Live \in BOOLEAN
    BY TopIs
<1>2. PICK t, q : t = Br(Top.nxt) /\ q = Top.nxt
    OBVIOUS
<1>3. /\ t \in TermT /\ t.to = {Top.nxt} /\ t.ret = "no" /\ t.test = "no" /\ q \in Nat
      /\ WaitsFor(Top, q) /\ Owns(Top, Top.nxt) /\ Distinct(Top)
    BY <1>1, <1>2, OwnedTop, TermIs DEF Owns, WaitsFor
<1>4. /\ q # 0 /\ blocks' \in Seq(BlockT) /\ Writes(Here, t, q)
      /\ blocks'[q].placed /\ blocks'[q].phi = {} /\ \A b \in Nat : ~ Fresh(b)
    BY <1>1, <1>2, <1>3, Places
<1>5. PICK x : x = [Top EXCEPT !.phase = "step"]
    OBVIOUS
<1>6. /\ x \in OpenT /\ x.kind = "for" /\ x.phase = "step"
      /\ x.begin = Top.begin /\ x.end = Top.end /\ x.nxt = Top.nxt
    BY <1>1, <1>5 DEF OpenT
<1>7. \A b \in Nat : /\ WaitsFor(x, b) <=> WaitsFor(Top, b) /\ b # q
                     /\ Owns(x, b) => Owns(Top, b)
    BY <1>2, <1>3, <1>6 DEF WaitsFor, Owns, Loops, Distinct
<1>8. Distinct(x)
    BY <1>3, <1>6 DEF Distinct, Loops
<1>9. /\ builders' = WithLast(builders, q) /\ open' = WithLast(open, x)
      /\ \E l \in BOOLEAN : lives' = WithLast(lives, l)
      /\ loop_stack' = loop_stack /\ lax' = lax
    BY <1>1, <1>2, <1>5 DEF OpenT
<1>10. QED  BY <1>1, <1>3, <1>4, <1>6, <1>7, <1>8, <1>9, PhaseKeeps

\* ForCond keeps the invariant.
LEMMA ForCondKeeps == ASSUME FlowInv, ForCond PROVE FlowInv'
<1> USE DEF ForCond, Phase, Enters
<1>1. open # <<>> /\ Top \in OpenT /\ Live \in BOOLEAN
    BY TopIs
<1>2. PICK t, q : t = Br(ForCondBlock(Top)) /\ q = ForCondBlock(Top)
    OBVIOUS
<1>3. /\ q \in Nat /\ q = Top.nxt + 1 /\ WaitsFor(Top, q) /\ Owns(Top, q) /\ Distinct(Top)
    BY <1>1, <1>2, OwnedTop DEF Owns, WaitsFor, ForCondBlock
<1>4. t \in TermT /\ t.to = {q} /\ t.ret = "no" /\ t.test = "no"
    BY <1>2, <1>3, TermIs
<1>5. /\ q # 0 /\ blocks' \in Seq(BlockT) /\ Writes(Here, t, q)
      /\ blocks'[q].placed /\ blocks'[q].phi = {} /\ \A b \in Nat : ~ Fresh(b)
    BY <1>1, <1>2, <1>3, <1>4, Places
<1>6. PICK x : x = [Top EXCEPT !.phase = "cond"]
    OBVIOUS
<1>7. /\ x \in OpenT /\ x.kind = "for" /\ x.phase = "cond"
      /\ x.begin = Top.begin /\ x.end = Top.end /\ x.nxt = Top.nxt
    BY <1>1, <1>6 DEF OpenT
<1>8. \A b \in Nat : /\ WaitsFor(x, b) <=> WaitsFor(Top, b) /\ b # q
                     /\ Owns(x, b) => Owns(Top, b)
    BY <1>2, <1>3, <1>7 DEF WaitsFor, Owns, Loops, Distinct
<1>9. Distinct(x)
    BY <1>3, <1>7 DEF Distinct, Loops
<1>10. /\ builders' = WithLast(builders, q) /\ open' = WithLast(open, x)
      /\ \E l \in BOOLEAN : lives' = WithLast(lives, l)
      /\ loop_stack' = loop_stack /\ lax' = lax /\ Top.kind = "for"
    BY <1>1, <1>2, <1>6 DEF OpenT
<1> HIDE DEF ForCond, Phase, Enters
<1>11. QED  BY <1>1, <1>3, <1>4, <1>5, <1>7, <1>8, <1>9, <1>10, PhaseKeeps

\* The code of a construct ends, and goes on in a block that is placed.
LEMMA EndsOnly ==
    ASSUME FlowInv, open # <<>>, NEW t \in TermT, NEW q \in Nat,
           \A b \in t.to : Owns(Top, b), WaitsFor(Top, q), blocks[q].placed,
           blocks' = Terminate(blocks, Here, t)
    PROVE  /\ q # 0 /\ blocks' \in Seq(BlockT) /\ Writes(Here, t, q)
           /\ blocks'[q].placed /\ blocks'[q].phi = {}
           /\ \A b \in Nat : ~ Fresh(b)
<1>1. q # 0 /\ q # Here /\ q \in Block /\ blocks[q].phi = {}
    BY OwnedTop
<1>2. t.to \subseteq Block
    BY OwnedTop DEF TermT
<1>3. /\ blocks \in Seq(BlockT) /\ Len(blocks) \in Nat /\ Block = 1 .. Len(blocks)
    BY Shapes DEF FlowInv, Shaped, Typed
<1>4. Here \in 1 .. Len(blocks) /\ blocks[Here].term = <<>>
    BY <1>3, HomeTop
<1>5. /\ blocks' \in Seq(BlockT) /\ Len(blocks') = Len(blocks)
      /\ \A b \in 1 .. Len(blocks) :
            /\ blocks'[b].fn = blocks[b].fn /\ blocks'[b].type = blocks[b].type
            /\ blocks'[b].placed = blocks[b].placed /\ blocks'[b].phi = blocks[b].phi
            /\ b # Here => blocks'[b].term = blocks[b].term
      /\ blocks'[Here].term = Append(blocks[Here].term, t)
    <2>1. EndsIn(blocks, blocks', Here, t)
        BY <1>3, <1>4, TerminateIs
    <2>2. QED  BY <2>1 DEF EndsIn
<1>6. blocks'[Here].term = <<t>>
    BY <1>4, <1>5
<1>7. \A b \in Nat : ~ Fresh(b)
    BY <1>3, <1>5 DEF Fresh
<1>8. Block' = Block
    BY <1>3, <1>5, SeqIs DEF Block
<1>9. \A b \in Block :
          /\ blocks'[b].fn = blocks[b].fn /\ blocks'[b].type = blocks[b].type
          /\ blocks'[b].term = IF b = Here THEN <<t>> ELSE blocks[b].term
          /\ blocks[b].placed => blocks'[b].placed
          /\ blocks'[b].phi = blocks[b].phi
    BY <1>3, <1>5, <1>6
<1>10. Len(blocks) <= Len(blocks') /\ t.to \subseteq Block'
    BY <1>2, <1>3, <1>5, <1>8
<1>11. Writes(Here, t, q)
    BY <1>7, <1>9, <1>10 DEF Writes
<1>12. QED  BY <1>1, <1>5, <1>7, <1>9, <1>11

\* ForBody keeps the invariant.
LEMMA ForBodyKeeps == ASSUME FlowInv, ForBody PROVE FlowInv'
<1> USE DEF ForBody, Phase, Enters
<1>1. open # <<>> /\ Top \in OpenT /\ Live \in BOOLEAN
    BY TopIs
<1>2. PICK t, q, c : c = ForCondBlock(Top) /\ t = Br(c) /\ q = Top.begin
    OBVIOUS
<1>3. /\ q \in Nat /\ WaitsFor(Top, q) /\ Distinct(Top) /\ blocks[q].placed
      /\ c \in Nat /\ Owns(Top, c) /\ Top.kind = "for" /\ Top.phase = "init"
    BY <1>1, <1>2, OwnedTop DEF Owns, WaitsFor, ForCondBlock, Loops
<1>4. t \in TermT /\ t.to = {c} /\ t.ret = "no" /\ t.test = "no"
    BY <1>2, <1>3, TermIs
<1>5. /\ q # 0 /\ blocks' \in Seq(BlockT) /\ Writes(Here, t, q)
      /\ blocks'[q].placed /\ blocks'[q].phi = {} /\ \A b \in Nat : ~ Fresh(b)
    BY <1>1, <1>2, <1>3, <1>4, EndsOnly
<1>6. PICK x : x = [Top EXCEPT !.phase = "body", !.entry = Live]
    OBVIOUS
<1>7. /\ x \in OpenT /\ x.kind = "for" /\ x.phase = "body"
      /\ x.begin = Top.begin /\ x.end = Top.end /\ x.nxt = Top.nxt
    BY <1>1, <1>6 DEF OpenT
<1>8. \A b \in Nat : /\ WaitsFor(x, b) <=> WaitsFor(Top, b) /\ b # q
                     /\ Owns(x, b) => Owns(Top, b)
    BY <1>2, <1>3, <1>7 DEF WaitsFor, Owns, Loops, Distinct
<1>9. Distinct(x)
    BY <1>3, <1>7 DEF Distinct, Loops
<1>10. /\ builders' = WithLast(builders, q) /\ open' = WithLast(open, x)
       /\ lives' = lives /\ loop_stack' = loop_stack /\ lax' = lax
    BY <1>1, <1>2, <1>6
<1> HIDE DEF ForBody, Phase, Enters
<1>11. QED  BY <1>1, <1>3, <1>4, <1>5, <1>7, <1>8, <1>9, <1>10, PhaseKeeps

\* The blocks IfThen makes.
LEMMA IfMade ==
    ASSUME FlowInv, open # <<>>, NEW has \in BOOLEAN
    PROVE  LET made == <<InFn(TRUE), InFn(FALSE)>> \o (IF has THEN <<InFn(FALSE)>> ELSE <<>>) IN
           /\ made \in Seq(BlockT)
           /\ Len(made) = IF has THEN 3 ELSE 2
           /\ made[1] = InFn(TRUE)
           /\ OfFn(made)
<1>1. Here \in Block /\ Fn \in Block /\ Shaped
    BY HomeTop, Shapes DEF FlowInv
<1>2. Fn \in Nat /\ blocks[Here].type \in Rets
    BY <1>1 DEF Shaped, BlockT
<1>3. InFn(TRUE) \in BlockT /\ InFn(FALSE) \in BlockT
    BY <1>2, NewBlockIs DEF InFn
<1> DEFINE a == InFn(TRUE)   b == InFn(FALSE)
<1> HIDE DEF a, b
<1>4. a \in BlockT /\ b \in BlockT
    BY <1>3 DEF a, b
<1> DEFINE s == <<a, b>>   r == IF has THEN <<b>> ELSE <<>>
<1>5. /\ s \in Seq(BlockT) /\ Len(s) = 2 /\ s[1] = a /\ s[2] = b
      /\ r \in Seq(BlockT) /\ Len(r) = (IF has THEN 1 ELSE 0) /\ (has => r[1] = b)
    BY <1>4
<1> HIDE DEF s, r
<1> DEFINE made == s \o r
<1>6. /\ made \in Seq(BlockT) /\ Len(made) = Len(s) + Len(r)
      /\ \A i \in 1 .. Len(s) : made[i] = s[i]
      /\ \A i \in 1 .. Len(r) : made[Len(s) + i] = r[i]
    BY <1>5, MadeIs
<1> HIDE DEF made
<1>7. /\ made \in Seq(BlockT) /\ Len(made) = IF has THEN 3 ELSE 2
      /\ made[1] = a /\ made[2] = b /\ (has => made[3] = b)
    BY <1>5, <1>6
<1>8. \A i \in 1 .. Len(made) : made[i] \in {a, b}
    BY <1>7
<1>9. made = <<InFn(TRUE), InFn(FALSE)>> \o (IF has THEN <<InFn(FALSE)>> ELSE <<>>)
    BY DEF made, s, r, a, b
<1>10. OfFn(made)
    BY <1>8 DEF OfFn, a, b
<1>11. QED  BY <1>7, <1>9, <1>10 DEF a, b

\* IfThen keeps the invariant.
LEMMA IfThenKeeps == ASSUME FlowInv, IfThen PROVE FlowInv'
<1> USE DEF IfThen, Phase, Enters
<1>1. open # <<>> /\ Top \in OpenT /\ Live \in BOOLEAN /\ Top.has \in BOOLEAN
      /\ Top.kind = "if" /\ Top.phase = "cond" /\ (Top.val => Top.has)
    <2>1. open # <<>> /\ Top \in OpenT /\ Live \in BOOLEAN
        BY TopIs
    <2>2. Len(open) \in DOMAIN open /\ Top = open[Len(open)]
        BY <2>1, HomeTop
    <2>3. QED  BY <2>1, <2>2 DEF OpenT, FlowInv, PhisFit
<1> DEFINE n == Len(blocks)
<1>2. n \in Nat /\ Here # 0 /\ Here \in Nat /\ Block = 1 .. n
    BY <1>1, HomeTop, Shapes DEF FlowInv, Shaped
<1>3. PICK t, q, made :
          /\ t = CondBr(Next1, Next2, "bool") /\ q = Next1
          /\ made = <<InFn(TRUE), InFn(FALSE)>> \o (IF Top.has THEN <<InFn(FALSE)>> ELSE <<>>)
    OBVIOUS
<1>4. /\ q \in Nat /\ q = n + 1 /\ q # 0
      /\ t \in TermT /\ t.to = {n + 1, n + 2} /\ t.ret = "no" /\ t.test = "bool"
    <2>1. n + 1 \in Nat /\ n + 2 \in Nat /\ n + 1 # 0
        BY <1>2
    <2>2. t = CondBr(n + 1, n + 2, "bool") /\ q = n + 1
        BY <1>3 DEF Next1, Next2
    <2>3. "bool" \in Tests
        BY DEF Tests
    <2> HIDE DEF n
    <2>4. QED  BY <2>1, <2>2, <2>3, TermIs
<1>5. /\ made \in Seq(BlockT) /\ Len(made) = (IF Top.has THEN 3 ELSE 2) /\ made[1] = InFn(TRUE)
      /\ OfFn(made)
    BY <1>1, <1>3, IfMade
<1>6. blocks' = (IF Here = 0 THEN blocks ELSE Terminate(blocks, Here, t)) \o made
    BY <1>2, <1>3
<1>7. t.to \subseteq 1 .. Len(blocks) + Len(made)
    BY <1>1, <1>2, <1>4, <1>5
<1> HIDE DEF IfThen, Phase, Enters
<1>8. /\ blocks' \in Seq(BlockT) /\ Len(blocks') = n + Len(made) /\ Writes(Here, t, q)
      /\ \A i \in 1 .. Len(made) : blocks'[n + i] = made[i]
      /\ \A b \in Nat : Fresh(b) =>
            /\ blocks'[b].fn = Fn /\ blocks'[b].type = blocks[Here].type
            /\ blocks'[b].phi = {}
    <2>1. Makes(Here, t, q, made)
        BY <1>1, <1>4, <1>5, <1>6, <1>7, MakesBlocks
    <2>2. QED  BY <2>1 DEF Makes
<1>9. \A b \in Nat : Fresh(b) <=> b = n + 1 \/ b = n + 2 \/ (Top.has /\ b = n + 3)
    <2> DEFINE k == n
    <2> HIDE DEF n, k
    <2>1. Len(blocks') = IF Top.has THEN n + 3 ELSE n + 2
        BY <1>1, <1>2, <1>5, <1>8
    <2>2. QED  BY <1>1, <1>2, <2>1 DEF Fresh, n
<1>10. blocks'[q].placed /\ blocks'[q].phi = {} /\ Fresh(q)
    <2>1. blocks'[n + 1] = InFn(TRUE)
        <3>1. 1 \in 1 .. Len(made)
            BY <1>1, <1>5
        <3>2. QED  BY <1>5, <1>8, <3>1
    <2>2. QED  BY <1>4, <1>8, <1>9, <2>1 DEF InFn, NewBlock
<1>11. PICK x, c, e : /\ c = (IF Top.has THEN Next2 ELSE Next3)
                      /\ e = (IF Top.has THEN Next3 ELSE Next2)
                      /\ x = [Top EXCEPT !.phase = "then", !.begin = c, !.end = e, !.entry = Live]
    OBVIOUS
<1>12. /\ x \in OpenT /\ x.kind = "if" /\ x.phase = "then" /\ x.nxt = Top.nxt
       /\ x.has = Top.has /\ x.val = Top.val
       /\ x.begin = (IF Top.has THEN n + 2 ELSE n + 3)
       /\ x.end = (IF Top.has THEN n + 3 ELSE n + 2)
    <2>1. /\ c = (IF Top.has THEN n + 2 ELSE n + 3) /\ c \in Nat
          /\ e = (IF Top.has THEN n + 3 ELSE n + 2) /\ e \in Nat
        BY <1>1, <1>2, <1>11 DEF Next2, Next3
    <2> HIDE DEF n
    <2>2. /\ x \in OpenT /\ x.kind = "if" /\ x.phase = "then" /\ x.nxt = Top.nxt
          /\ x.has = Top.has /\ x.val = Top.val /\ x.begin = c /\ x.end = e
        BY <1>1, <1>11, <2>1 DEF OpenT
    <2>3. QED  BY <2>1, <2>2
<1>13. \A b \in Nat : ~ WaitsFor(Top, b)
    BY <1>1 DEF WaitsFor, Loops
<1>14. \A b \in Nat : WaitsFor(x, b) <=> Fresh(b) /\ b # q
    BY <1>2, <1>4, <1>9, <1>12 DEF WaitsFor, Loops
<1>15. \A b \in Nat : Owns(x, b) => Fresh(b)
    BY <1>12, <1>14 DEF Owns, Loops
<1>16. Distinct(x)
    BY <1>2, <1>12 DEF Distinct, Loops
<1>17. /\ builders' = WithLast(builders, q) /\ open' = WithLast(open, x)
       /\ lives' = lives /\ loop_stack' = loop_stack /\ lax' = lax
    BY <1>3, <1>11 DEF IfThen, Phase, Enters
<1>18. x.val => Fresh(x.end) /\ x.end \notin t.to /\ x.has
    BY <1>1, <1>2, <1>4, <1>9, <1>12
<1>19. \A b \in t.to : Fresh(b)
    BY <1>2, <1>4, <1>9
<1> HIDE DEF n
<1>20. QED  BY <1>1, <1>4, <1>8, <1>10, <1>12, <1>13, <1>14, <1>15, <1>16, <1>17, <1>18,
               <1>19, PhaseKeeps

\* The code of an if ends in a block with a phi.
LEMMA Phis ==
    ASSUME FlowInv, open # <<>>, NEW t \in TermT, NEW q \in Nat, NEW from \in SUBSET Nat,
           \A b \in t.to : Owns(Top, b), WaitsFor(Top, q),
           blocks' = [Place(Terminate(blocks, Here, t), q) EXCEPT ![q] = WithPhi(@, from)]
    PROVE  /\ q # 0 /\ blocks' \in Seq(BlockT) /\ Writes(Here, t, q)
           /\ blocks'[q].placed /\ blocks'[q].phi = from
           /\ \A b \in Nat : ~ Fresh(b)
<1>1. q # 0 /\ q # Here /\ q \in Block /\ t.to \subseteq Block
    BY OwnedTop DEF TermT
<1>2. /\ blocks \in Seq(BlockT) /\ Len(blocks) \in Nat /\ Block = 1 .. Len(blocks)
    BY Shapes DEF FlowInv, Shaped, Typed
<1>3. Here \in 1 .. Len(blocks) /\ q \in 1 .. Len(blocks) /\ blocks[Here].term = <<>>
    BY <1>1, <1>2, HomeTop
<1> DEFINE bs == Place(Terminate(blocks, Here, t), q)
<1>4. /\ bs \in Seq(BlockT) /\ Len(bs) = Len(blocks)
      /\ \A b \in 1 .. Len(blocks) :
            /\ bs[b].fn = blocks[b].fn /\ bs[b].type = blocks[b].type
            /\ bs[b].term = IF b = Here THEN <<t>> ELSE blocks[b].term
            /\ bs[b].phi = blocks[b].phi
            /\ b # q => bs[b].placed = blocks[b].placed
      /\ bs[q].placed
    BY <1>2, <1>3, EndedPlaced
<1>5. blocks' = [bs EXCEPT ![q] = WithPhi(@, from)]
    BY DEF bs
<1> HIDE DEF bs
<1> DEFINE cs == [bs EXCEPT ![q] = WithPhi(@, from)]
<1>6. /\ cs \in Seq(BlockT) /\ Len(cs) = Len(blocks)
      /\ \A b \in 1 .. Len(blocks) :
            /\ cs[b].fn = bs[b].fn /\ cs[b].type = bs[b].type
            /\ cs[b].term = bs[b].term /\ cs[b].placed = bs[b].placed
            /\ b # q => cs[b].phi = bs[b].phi
      /\ cs[q].phi = from
    <2>1. q \in 1 .. Len(bs)
        BY <1>3, <1>4
    <2>2. /\ cs \in Seq(BlockT) /\ Len(cs) = Len(bs)
          /\ \A b \in 1 .. Len(bs) :
                /\ cs[b].fn = bs[b].fn /\ cs[b].type = bs[b].type
                /\ cs[b].term = bs[b].term /\ cs[b].placed = bs[b].placed
                /\ b # q => cs[b].phi = bs[b].phi
          /\ cs[q].phi = from
        BY <1>4, <2>1, PhiIs
    <2> HIDE DEF cs
    <2>3. QED  BY <1>4, <2>2
<1>7. blocks' = cs
    BY <1>5
<1> HIDE DEF cs
<1>8. \A b \in Nat : ~ Fresh(b)
    BY <1>2, <1>6, <1>7 DEF Fresh
<1>9. Block' = Block /\ Len(blocks') = Len(blocks)
    BY <1>2, <1>6, <1>7, SeqIs DEF Block
<1>10. \A b \in Block :
          /\ blocks'[b].fn = blocks[b].fn /\ blocks'[b].type = blocks[b].type
          /\ blocks'[b].term = IF b = Here THEN <<t>> ELSE blocks[b].term
          /\ blocks[b].placed => blocks'[b].placed
          /\ b # q => blocks'[b].phi = blocks[b].phi
    <2> TAKE b \in Block
    <2>1. b \in 1 .. Len(blocks)
        BY <1>2
    <2>2. /\ bs[b].fn = blocks[b].fn /\ bs[b].type = blocks[b].type
          /\ bs[b].term = IF b = Here THEN <<t>> ELSE blocks[b].term
          /\ bs[b].phi = blocks[b].phi
          /\ blocks[b].placed => bs[b].placed
        BY <1>4, <2>1
    <2>3. /\ cs[b].fn = bs[b].fn /\ cs[b].type = bs[b].type
          /\ cs[b].term = bs[b].term /\ cs[b].placed = bs[b].placed
          /\ b # q => cs[b].phi = bs[b].phi
        BY <1>6, <2>1
    <2>4. QED  BY <1>7, <2>2, <2>3
<1>11. Len(blocks) <= Len(blocks') /\ t.to \subseteq Block'
    BY <1>1, <1>2, <1>9
<1>12. Writes(Here, t, q)
    BY <1>8, <1>10, <1>11 DEF Writes
<1>13. cs[q].placed
    BY <1>3, <1>4, <1>6
<1>14. QED  BY <1>1, <1>6, <1>7, <1>8, <1>12, <1>13

\* IfEnd keeps the invariant.
LEMMA IfEndKeeps == ASSUME FlowInv, IfEnd PROVE FlowInv'
<1> USE DEF IfEnd, Phase, Enters
<1>1. /\ open # <<>> /\ Top \in OpenT /\ Live \in BOOLEAN
      /\ Top.kind = "if" /\ Top.phase = (IF Top.has THEN "else" ELSE "then")
    BY TopIs
<1>2. PICK t, q : t = Br(Top.end) /\ q = Top.end
    OBVIOUS
<1>3. /\ q \in Nat /\ WaitsFor(Top, q) /\ Owns(Top, q) /\ blocks[q].phi = {}
      /\ \A b \in Nat : WaitsFor(Top, b) => b = q
    BY <1>1, <1>2, OwnedTop DEF Owns, WaitsFor, Loops
<1>4. t \in TermT /\ t.to = {q} /\ t.ret = "no" /\ t.test = "no"
    BY <1>2, <1>3, TermIs
<1>5. ASSUME Top.val
      PROVE  {Top.thenEnd, Here} = Predecessors(q) \cup {Here} /\ {Top.thenEnd, Here} \in SUBSET Nat
    <2>1. Len(open) \in DOMAIN open /\ Top = open[Len(open)] /\ Here \in Nat
        BY <1>1, HomeTop
    <2>2. Predecessors(Top.end) = {Top.thenEnd}
        BY <1>1, <1>5, <2>1 DEF FlowInv, PhisFit
    <2>3. QED  BY <1>1, <1>2, <2>1, <2>2 DEF OpenT
<1>6. /\ q # 0 /\ blocks' \in Seq(BlockT) /\ Writes(Here, t, q) /\ blocks'[q].placed
      /\ \A b \in Nat : ~ Fresh(b)
      /\ blocks'[q].phi # {} => blocks'[q].phi = Predecessors(q) \cup {Here}
    <2>1. CASE Top.val
        <3>1. PICK from \in SUBSET Nat : from = {Top.thenEnd, Here}
            BY <1>5, <2>1
        <3>2. blocks' = [Place(Terminate(blocks, Here, t), q) EXCEPT ![q] = WithPhi(@, from)]
            BY <1>2, <2>1, <3>1
        <3> HIDE DEF IfEnd, Phase, Enters
        <3>3. /\ q # 0 /\ blocks' \in Seq(BlockT) /\ Writes(Here, t, q) /\ blocks'[q].placed
              /\ \A b \in Nat : ~ Fresh(b)
              /\ blocks'[q].phi = from
            BY <1>1, <1>3, <1>4, <3>2, Phis
        <3>4. from = Predecessors(q) \cup {Here}
            BY <1>5, <2>1, <3>1
        <3>5. QED  BY <3>3, <3>4
    <2>2. CASE ~ Top.val
        <3>1. blocks' = Place(Terminate(blocks, Here, t), q)
            BY <1>2, <2>2
        <3> HIDE DEF IfEnd, Phase, Enters
        <3>2. QED  BY <1>1, <1>3, <1>4, <3>1, Places
    <2>3. QED  BY <2>1, <2>2
<1>7. /\ builders' = WithLast(builders, q) /\ open' = Front(open)
      /\ loop_stack' = loop_stack /\ lax' = lax
      /\ lives' = WithLast(lives, Live \/ (IF Top.has THEN Top.brk ELSE Top.entry))
    BY <1>2
<1>8. \E l \in BOOLEAN : lives' = WithLast(lives, l)
    <2>1. (Live \/ (IF Top.has THEN Top.brk ELSE Top.entry)) \in BOOLEAN
        OBVIOUS
    <2>2. QED  BY <1>7, <2>1
<1>9. loop_stack' \in Seq(Nat \X Nat) /\ Top.kind \notin Loops /\ Top.kind # "func"
    BY <1>1, <1>7 DEF FlowInv, Typed, Loops
<1>10. \A b \in t.to : b = q
    BY <1>4
<1> HIDE DEF IfEnd, Phase, Enters
<1>11. QED  BY <1>1, <1>3, <1>4, <1>6, <1>7, <1>8, <1>9, <1>10, PopKeeps

\* loop_stack without its last pair.
LEMMA LeaveIs ==
    ASSUME FlowInv, open # <<>>, Top.kind \in Loops
    PROVE  Front(loop_stack) \in Seq(Nat \X Nat)
<1>1. loop_stack \in Seq(Nat \X Nat) /\ Shaped
    BY Shapes DEF FlowInv, Typed
<1>2. Len(open) \in OpenLoops /\ OpenLoops \in SUBSET (1 .. Len(open)) /\ Len(open) \in Nat
    BY <1>1, HomeTop DEF OpenLoops, Shaped
<1>3. IsFiniteSet(OpenLoops)
    BY <1>2, CountTo
<1>4. Cardinality(OpenLoops) # 0
    BY <1>2, <1>3, FS_EmptySet
<1>5. Len(loop_stack) = Cardinality(OpenLoops)
    BY DEF FlowInv, LoopsFit, LoopsMirrored, OpenLoops
<1>6. loop_stack # <<>>
    BY <1>1, <1>4, <1>5, SeqIs
<1>7. QED  BY <1>1, <1>6, FrontIs

\* WhileEnd keeps the invariant.
LEMMA WhileEndKeeps == ASSUME FlowInv, WhileEnd PROVE FlowInv'
<1> USE DEF WhileEnd, Phase, Enters
<1>1. /\ open # <<>> /\ Top \in OpenT /\ Live \in BOOLEAN
      /\ Top.kind = "while" /\ Top.phase = "cond"
    BY TopIs
<1>2. PICK t, q : t = CondBr(Top.begin, Top.end, "bool") /\ q = Top.end
    OBVIOUS
<1>3. /\ q \in Nat /\ Top.begin \in Nat /\ WaitsFor(Top, q)
      /\ Owns(Top, q) /\ Owns(Top, Top.begin)
      /\ \A b \in Nat : WaitsFor(Top, b) => b = q
    BY <1>1, <1>2, OwnedTop DEF Owns, WaitsFor, Loops
<1>4. t \in TermT /\ t.to = {Top.begin, q} /\ t.ret = "no" /\ t.test = "bool"
    BY <1>2, <1>3, TermIs DEF Tests
<1>5. \A b \in t.to : Owns(Top, b)
    BY <1>3, <1>4
<1>6. /\ q # 0 /\ blocks' \in Seq(BlockT) /\ Writes(Here, t, q) /\ blocks'[q].placed
      /\ \A b \in Nat : ~ Fresh(b)
      /\ blocks'[q].phi = {}
    <2>1. blocks' = Place(Terminate(blocks, Here, t), q)
        BY <1>2
    <2> HIDE DEF WhileEnd, Phase, Enters
    <2>2. QED  BY <1>1, <1>3, <1>4, <1>5, <2>1, Places
<1>7. /\ builders' = WithLast(builders, q) /\ open' = Front(open)
      /\ loop_stack' = Front(loop_stack) /\ lax' = lax
      /\ lives' = WithLast(lives, Live \/ Top.brk)
    BY <1>2 DEF Leave
<1>8. \E l \in BOOLEAN : lives' = WithLast(lives, l)
    BY <1>7
<1>9. loop_stack' \in Seq(Nat \X Nat) /\ Top.kind \in Loops /\ Top.kind # "func"
    BY <1>1, <1>7, LeaveIs DEF Loops
<1> HIDE DEF WhileEnd, Phase, Enters
<1>10. QED  BY <1>1, <1>3, <1>4, <1>5, <1>6, <1>7, <1>8, <1>9, PopKeeps

\* ForEnd keeps the invariant.
LEMMA ForEndKeeps == ASSUME FlowInv, NEW test \in Tests, ForEnd(test) PROVE FlowInv'
<1> USE DEF ForEnd, Enters
<1>1. /\ open # <<>> /\ Top \in OpenT /\ Live \in BOOLEAN
      /\ Top.kind = "for" /\ Top.phase = "cond"
    BY TopIs
<1>2. PICK t, q : /\ t = (IF Top.has THEN CondBr(Top.begin, Top.end, test) ELSE Br(Top.begin))
                  /\ q = Top.end
    OBVIOUS
<1>3. /\ q \in Nat /\ Top.begin \in Nat /\ WaitsFor(Top, q)
      /\ Owns(Top, q) /\ Owns(Top, Top.begin)
      /\ \A b \in Nat : WaitsFor(Top, b) => b = q
    BY <1>1, <1>2, OwnedTop DEF Owns, WaitsFor, Loops
<1>4. t \in TermT /\ t.to \subseteq {Top.begin, q} /\ t.ret = "no" /\ t.test \in {"no", test}
    BY <1>2, <1>3, TermIs
<1>5. \A b \in t.to : Owns(Top, b)
    BY <1>3, <1>4
<1>6. /\ q # 0 /\ blocks' \in Seq(BlockT) /\ Writes(Here, t, q) /\ blocks'[q].placed
      /\ \A b \in Nat : ~ Fresh(b)
      /\ blocks'[q].phi = {}
    <2>1. blocks' = Place(Terminate(blocks, Here, t), q)
        BY <1>2
    <2> HIDE DEF ForEnd, Enters
    <2>2. QED  BY <1>1, <1>3, <1>4, <1>5, <2>1, Places
<1>7. /\ builders' = WithLast(builders, q) /\ open' = Front(open)
      /\ loop_stack' = Front(loop_stack)
      /\ lax \subseteq lax' /\ (test # "bool" => Here \in lax')
      /\ lives' = WithLast(lives, (Top.has /\ Live) \/ Top.brk)
    BY <1>2 DEF Leave
<1>8. \E l \in BOOLEAN : lives' = WithLast(lives, l)
    BY <1>7
<1>9. loop_stack' \in Seq(Nat \X Nat) /\ Top.kind \in Loops /\ Top.kind # "func"
    BY <1>1, <1>7, LeaveIs DEF Loops
<1>10. t.test \in {"no", "bool"} \/ Here \in lax'
    BY <1>4, <1>7
<1> HIDE DEF ForEnd, Enters
<1>11. QED  BY <1>1, <1>3, <1>4, <1>5, <1>6, <1>7, <1>8, <1>9, <1>10, PopKeeps

\* An element comes behind the others.
LEMMA AppendIs ==
    ASSUME NEW S, NEW s \in Seq(S), NEW x \in S
    PROVE  /\ Append(s, x) \in Seq(S)
           /\ Len(Append(s, x)) = Len(s) + 1
           /\ \A i \in 1 .. Len(s) : Append(s, x)[i] = s[i]
           /\ Append(s, x)[Len(s) + 1] = x
    BY AppendProperties, LenProperties

\* A construct arrives.
LEMMA PushIs ==
    ASSUME FlowInv, open # <<>>, NEW x \in OpenT, open' = Append(Noted(FALSE), x)
    PROVE  /\ open' \in Seq(OpenT) /\ Len(open') = Len(open) + 1
           /\ open'[Len(open) + 1] = x /\ Keeps(Len(open)) /\ Len(open) \in Nat
<1> DEFINE s == Noted(FALSE)
<1>1. Len(open) \in Nat
    BY Shapes DEF FlowInv, Shaped
<1>2. /\ s \in Seq(OpenT) /\ Len(s) = Len(open)
      /\ \A i \in 1 .. Len(open) : Alike(open[i], s[i])
    BY NotedIs DEF FlowInv
<1> HIDE DEF s
<1>3. /\ open' \in Seq(OpenT) /\ Len(open') = Len(s) + 1
      /\ \A i \in 1 .. Len(s) : open'[i] = s[i]
      /\ open'[Len(s) + 1] = x
    <2>1. open' = Append(s, x)
        BY DEF s
    <2>2. /\ Append(s, x) \in Seq(OpenT) /\ Len(Append(s, x)) = Len(s) + 1
          /\ \A i \in 1 .. Len(s) : Append(s, x)[i] = s[i]
          /\ Append(s, x)[Len(s) + 1] = x
        BY <1>2, AppendIs
    <2>3. QED  BY <2>1, <2>2
<1>4. QED  BY <1>1, <1>2, <1>3 DEF Keeps

\* Three of the blocks a loop makes, or four.
LEMMA LoopMade ==
    ASSUME FlowInv, open # <<>>
    PROVE  /\ InFn(TRUE) \in BlockT /\ InFn(FALSE) \in BlockT
           /\ InFn(TRUE).placed /\ InFn(TRUE).phi = {}
<1>1. Here \in Block /\ Fn \in Block /\ Shaped
    BY HomeTop, Shapes DEF FlowInv
<1>2. Fn \in Nat /\ blocks[Here].type \in Rets
    BY <1>1 DEF Shaped, BlockT
<1>3. QED  BY <1>2, NewBlockIs DEF InFn

\* WhileStmt keeps the invariant.
LEMMA WhileStmtKeeps == ASSUME FlowInv, WhileStmt PROVE FlowInv'
<1> USE DEF WhileStmt, Statement, Marked
<1>1. open # <<>> /\ Live \in BOOLEAN
    BY TopIs
<1>0. PICK n, m : n = Len(blocks) /\ m = Len(open)
    OBVIOUS
<1>2. n \in Nat /\ m \in Nat /\ Here # 0 /\ Here \in Nat /\ Block = 1 .. n
    BY <1>0, <1>1, HomeTop, Shapes DEF FlowInv, Shaped
<1>3. PICK t, q, made :
          /\ t = Br(Next2) /\ q = Next1
          /\ made = <<InFn(TRUE), InFn(FALSE), InFn(FALSE)>>
    OBVIOUS
<1>4. /\ q \in Nat /\ q = n + 1 /\ q # 0
      /\ t \in TermT /\ t.to = {n + 2} /\ t.ret = "no" /\ t.test = "no"
    <2>1. n + 1 \in Nat /\ n + 2 \in Nat /\ n + 1 # 0
        BY <1>2
    <2>2. t = Br(n + 2) /\ q = n + 1
        BY <1>0, <1>3 DEF Next1, Next2
    <2>3. QED  BY <2>1, <2>2, TermIs
<1>5. /\ made \in Seq(BlockT) /\ Len(made) = 3 /\ made[1] = InFn(TRUE)
      /\ OfFn(made)
    <2> DEFINE a == InFn(TRUE)   b == InFn(FALSE)
    <2>1. a \in BlockT /\ b \in BlockT /\ made = <<a, b, b>>
        BY <1>1, <1>3, LoopMade
    <2> HIDE DEF a, b
    <2>2. made \in Seq(BlockT) /\ Len(made) = 3 /\ made[1] = a /\ \A i \in 1 .. 3 : made[i] \in {a, b}
        BY <2>1
    <2>3. QED  BY <2>2 DEF OfFn, a, b
<1>6. blocks' = (IF Here = 0 THEN blocks ELSE Terminate(blocks, Here, t)) \o made
    BY <1>2, <1>3
<1>7. t.to \subseteq 1 .. Len(blocks) + Len(made)
    BY <1>0, <1>2, <1>4, <1>5
<1>8. PICK x : x = [Construct("while", "body") EXCEPT
                        !.begin = Next1, !.nxt = Next2, !.end = Next3, !.entry = Live]
    OBVIOUS
<1>9. /\ x \in OpenT /\ x.kind = "while" /\ x.phase = "body"
      /\ x.begin = n + 1 /\ x.nxt = n + 2 /\ x.end = n + 3
    <2>1. PICK b1, b2, b3 \in Nat : b1 = n + 1 /\ b2 = n + 2 /\ b3 = n + 3
        BY <1>2
    <2>2. x = [Construct("while", "body") EXCEPT !.begin = b1, !.nxt = b2, !.end = b3, !.entry = Live]
        BY <1>0, <1>8, <2>1 DEF Next1, Next2, Next3
    <2>3. QED  BY <1>1, <2>1, <2>2 DEF OpenT, Construct, Rets
<1>10. /\ builders' = WithLast(builders, q) /\ open' = Append(Noted(FALSE), x)
       /\ lives' = lives /\ lax' = lax /\ loop_stack' = Append(loop_stack, <<Next2, Next3>>)
    BY <1>1, <1>3, <1>8 DEF Enter
<1> HIDE DEF WhileStmt, Statement, Marked
<1>11. /\ blocks' \in Seq(BlockT) /\ Len(blocks') = n + Len(made) /\ Writes(Here, t, q)
       /\ Block' = 1 .. n + Len(made)
       /\ \A i \in 1 .. Len(made) : blocks'[n + i] = made[i]
       /\ \A b \in Nat : Fresh(b) =>
             /\ blocks'[b].fn = Fn /\ blocks'[b].type = blocks[Here].type
             /\ blocks'[b].phi = {}
    <2>1. /\ blocks' \in Seq(BlockT) /\ Len(blocks') = Len(blocks) + Len(made)
          /\ Writes(Here, t, q)
          /\ Block' = 1 .. Len(blocks) + Len(made)
          /\ \A i \in 1 .. Len(made) : blocks'[Len(blocks) + i] = made[i]
          /\ \A b \in Nat : Fresh(b) =>
                /\ blocks'[b].fn = Fn /\ blocks'[b].type = blocks[Here].type
                /\ blocks'[b].phi = {}
        <3>1. Makes(Here, t, q, made)
            BY <1>1, <1>4, <1>5, <1>6, <1>7, MakesBlocks
        <3>2. QED  BY <3>1 DEF Makes
    <2>2. QED  BY <1>0, <2>1
<1>12. \A b \in Nat : Fresh(b) <=> b = n + 1 \/ b = n + 2 \/ b = n + 3
    <2>1. Len(blocks') = n + 3
        BY <1>5, <1>11
    <2>2. \A b \in Nat : Fresh(b) <=> b \in n + 1 .. n + 3
        BY <1>0, <2>1 DEF Fresh
    <2>3. QED  BY <1>2, <2>2
<1>13. blocks'[q].placed /\ blocks'[q].phi = {} /\ Fresh(q)
    <2>1. blocks'[n + 1] = InFn(TRUE)
        <3>1. 1 \in 1 .. Len(made)
            BY <1>5
        <3>2. QED  BY <1>5, <1>11, <3>1
    <2>2. QED  BY <1>1, <1>4, <1>11, <1>12, <2>1, LoopMade
<1>14. \A b \in Nat : WaitsFor(x, b) <=> Fresh(b) /\ b # q
    BY <1>2, <1>4, <1>9, <1>12 DEF WaitsFor, Loops
<1>15. \A b \in Nat : Owns(x, b) => Fresh(b)
    BY <1>9, <1>12, <1>14 DEF Owns, Loops
<1>16. Distinct(x)
    BY <1>2, <1>9 DEF Distinct, Loops
<1>17. /\ open' \in Seq(OpenT) /\ Len(open') = m + 1
       /\ open'[m + 1] = x /\ Keeps(m)
    BY <1>0, <1>1, <1>9, <1>10, PushIs
<1>18. builders' \in Seq(Nat)
    BY <1>1, <1>4, <1>10, Changed
<1>19. loop_stack' = Append(loop_stack, <<x.nxt, x.end>>) /\ x.nxt \in Block' /\ x.end \in Block'
    <2>1. n + 2 \in 1 .. n + 3 /\ n + 3 \in 1 .. n + 3
        BY <1>2
    <2>2. QED  BY <1>0, <1>5, <1>9, <1>10, <1>11, <2>1 DEF Next2, Next3
<1>20. loop_stack' \in Seq(Nat \X Nat)
    <2>1. <<x.nxt, x.end>> \in Nat \X Nat
        BY <1>9 DEF OpenT
    <2>2. loop_stack \in Seq(Nat \X Nat)
        BY DEF FlowInv, Typed
    <2>3. QED  BY <1>19, <2>1, <2>2, AppendProperties
<1>21. Typed'
    BY <1>10, <1>11, <1>17, <1>18, <1>20 DEF Typed, FlowInv
<1>22. m # m + 1
    BY <1>2
<1>23. /\ ~ FuncLast(m) /\ ~ FuncLast(m)' /\ ~ LoopLast(m) /\ LoopLast(m)'
    BY <1>0, <1>9, <1>17, <1>22 DEF FuncLast, LoopLast, Loops
<1>24. LoopsFit'
    <2>1. Len(blocks) <= Len(blocks')
        BY <1>11 DEF Writes
    <2>2. /\ ~ LoopLast(m) /\ LoopLast(m)'
          /\ loop_stack' = Append(loop_stack, <<open'[m + 1].nxt, open'[m + 1].end>>)
          /\ open'[m + 1].nxt \in Block' /\ open'[m + 1].end \in Block'
        BY <1>17, <1>19, <1>23
    <2>3. QED  BY <1>2, <1>17, <1>21, <2>1, <2>2, LoopsStep
<1>25. Turns(q, m)
    BY <1>0, <1>9, <1>12, <1>13, <1>14, <1>15, <1>16, <1>17, <1>22 DEF Turns
<1>26. Lawful(Here, t)
    BY <1>2, <1>4, <1>10, <1>11, <1>12 DEF Lawful, Fn
<1>27. Aims(Here, t, m)
    BY <1>2, <1>4, <1>12 DEF Aims
<1>28. Joins(q, m)
    BY <1>9, <1>13, <1>17 DEF Joins
<1>29. QED  BY <1>1, <1>2, <1>4, <1>10, <1>11, <1>13, <1>17, <1>21, <1>23, <1>24, <1>25, <1>26,
               <1>27, <1>28, MovedKeeps
\* A step that leaves the builders of the constructs that stay.
LEMMA HomesStay ==
    ASSUME FlowInv, Typed', NEW m \in Nat, Keeps(m),
           \A k \in DOMAIN builders : k \in DOMAIN builders' => builders'[k] = builders[k],
           Len(builders') = Cardinality(Funcs')
    PROVE  /\ \A i \in 1 .. m : Home(i)' = Home(i) /\ Home(i) \in Block
           /\ m # 0 => open'[1].kind = "func"
           /\ Home(m + 1)' = builders'[Len(builders')]
           /\ Cardinality(Funcs') + (IF FuncLast(m) THEN 1 ELSE 0)
                 = Cardinality(Funcs) + (IF FuncLast(m)' THEN 1 ELSE 0)
<1>1. Typed /\ Shaped /\ Shaped'
    BY Shapes DEF FlowInv
<1>2. PICK F \in SUBSET (1 .. m) :
          /\ \A i \in 1 .. m : i \in F <=> open[i].kind = "func"
          /\ Funcs = IF FuncLast(m) THEN F \cup {m + 1} ELSE F
          /\ Funcs' = IF FuncLast(m)' THEN F \cup {m + 1} ELSE F
    BY <1>1, Levels
<1>3. PICK P, Q : P = Funcs /\ Q = Funcs'
    OBVIOUS
<1>4. (P = F \/ P = F \cup {m + 1}) /\ (Q = F \/ Q = F \cup {m + 1})
    BY <1>2, <1>3
<1>5. (m + 1 \in P <=> FuncLast(m)) /\ (m + 1 \in Q <=> FuncLast(m)')
    <2>1. m + 1 \notin F
        OBVIOUS
    <2>2. QED  BY <1>2, <1>3, <2>1
<1>6. /\ Cardinality(F) \in Nat
      /\ Cardinality(P) = Cardinality(F) + (IF m + 1 \in P THEN 1 ELSE 0)
      /\ \A i \in 1 .. m : /\ UpTo(P, i) = UpTo(F, i)
                           /\ UpTo(F, i) \in Nat /\ UpTo(F, i) <= Cardinality(F)
                           /\ 1 \in F => UpTo(F, i) >= 1
    <2>1. P = F \/ P = F \cup {m + 1}
        BY <1>4
    <2>2. CountsAs(P, F, m)
        BY <2>1, Counts
    <2>3. QED  BY <2>2 DEF CountsAs
<1>7. /\ Cardinality(Q) = Cardinality(F) + (IF m + 1 \in Q THEN 1 ELSE 0)
      /\ \A i \in 1 .. m : UpTo(Q, i) = UpTo(F, i)
      /\ UpTo(Q, m + 1) = Cardinality(Q)
    <2>1. Q = F \/ Q = F \cup {m + 1}
        BY <1>4
    <2>2. CountsAs(Q, F, m)
        BY <2>1, Counts
    <2>3. QED  BY <2>2 DEF CountsAs
<1>8. Len(builders) = Cardinality(P) /\ Len(builders') = Cardinality(Q)
    BY <1>3 DEF FlowInv, LevelsFit
<1>9. m # 0 => 1 \in 1 .. m /\ 1 \in F /\ open'[1].kind = "func"
    <2>1. ASSUME m # 0 PROVE 1 \in 1 .. m /\ open # <<>>
        <3>1. 1 \in 1 .. m
            BY <2>1
        <3>2. Len(open) # 0
            BY <2>1 DEF Keeps
        <3>3. QED  BY <1>1, <3>1, <3>2 DEF Shaped
    <2>2. open # <<>> => open[1].kind = "func"
        BY DEF FlowInv, LevelsFit
    <2>3. ASSUME m # 0 PROVE Alike(open[1], open'[1])
        BY <2>1, <2>3 DEF Keeps
    <2>4. QED  BY <1>2, <2>1, <2>2, <2>3 DEF Alike
<1>10. ASSUME NEW i \in 1 .. m PROVE Home(i)' = Home(i) /\ Home(i) \in Block
    <2>1. PICK u : u = UpTo(F, i)
        OBVIOUS
    <2>2. u \in Nat /\ u >= 1 /\ u <= Cardinality(F)
        BY <1>6, <1>9, <2>1
    <2>3. u <= Len(builders) /\ u <= Len(builders')
        BY <1>6, <1>7, <1>8, <2>2
    <2>4. u \in DOMAIN builders /\ u \in DOMAIN builders'
        BY <1>1, <2>2, <2>3 DEF Shaped
    <2>5. UpTo(Funcs, i) = u /\ UpTo(Funcs', i) = u
        BY <1>3, <1>6, <1>7, <2>1
    <2>6. Home(i) = builders[u] /\ Home(i)' = builders'[u]
        BY <2>5 DEF Home
    <2>7. QED  BY <2>4, <2>6 DEF FlowInv, BuildersFit
<1>11. Home(m + 1)' = builders'[Len(builders')]
    BY <1>3, <1>7, <1>8 DEF Home
<1>12. Cardinality(Q) + (IF FuncLast(m) THEN 1 ELSE 0)
           = Cardinality(P) + (IF FuncLast(m)' THEN 1 ELSE 0)
    BY <1>5, <1>6, <1>7
<1>13. QED  BY <1>3, <1>9, <1>10, <1>11, <1>12

\* A statement of the innermost function arrives, the code of which goes on here.
LEMMA PushKeeps ==
    ASSUME FlowInv, open # <<>>, NEW x \in OpenT, x.kind # "func",
           open' = Append(Noted(FALSE), x), NEW t,
           blocks' \in Seq(BlockT), Writes(0, t, 0),
           \A b \in Nat : Fresh(b) => blocks'[b].fn = Fn /\ blocks'[b].type = blocks[Here].type,
           \A b \in Nat : WaitsFor(x, b) <=> Fresh(b),
           \A b \in Nat : Owns(x, b) => Fresh(b),
           Distinct(x),
           x.kind = "for" /\ x.phase = "init" => blocks'[x.begin].placed,
           x.kind = "if" => x.phase = "cond" /\ (x.val => x.has),
           builders' = builders, lives' = lives, lax' = lax,
           loop_stack' = IF x.kind \in Loops THEN Append(loop_stack, <<x.nxt, x.end>>)
                                             ELSE loop_stack,
           x.kind \in Loops => x.nxt \in Block' /\ x.end \in Block'
    PROVE  FlowInv'
<1>1. PICK m \in Nat : m = Len(open)
    BY Shapes DEF FlowInv, Shaped
<1>2. /\ open' \in Seq(OpenT) /\ Len(open') = m + 1 /\ open'[m + 1] = x
      /\ Keeps(m) /\ Len(open) # m + 1
    <2>1. /\ open' \in Seq(OpenT) /\ Len(open') = Len(open) + 1
          /\ open'[Len(open) + 1] = x /\ Keeps(Len(open))
        BY PushIs
    <2>2. Keeps(m)
        BY <1>1, <2>1
    <2>3. Len(open') = m + 1 /\ open'[m + 1] = x /\ Len(open) # m + 1
        <3>1. Len(open) + 1 = m + 1
            BY <1>1, Zenon
        <3>2. m # m + 1
            OBVIOUS
        <3>3. QED  BY <1>1, <2>1, <3>1, <3>2, Zenon
    <2>4. QED  BY <2>1, <2>2, <2>3
<1>3. Typed /\ Shaped
    BY Shapes DEF FlowInv
<1>4. loop_stack' \in Seq(Nat \X Nat)
    <2>1. <<x.nxt, x.end>> \in Nat \X Nat
        BY DEF OpenT
    <2>2. loop_stack \in Seq(Nat \X Nat)
        BY <1>3 DEF Typed
    <2>3. CASE x.kind \in Loops
        BY <2>1, <2>2, <2>3, AppendProperties
    <2>4. CASE x.kind \notin Loops
        BY <2>2, <2>4
    <2>5. QED  BY <2>3, <2>4
<1>5. Typed' /\ Shaped'
    <2>1. Typed'
        BY <1>2, <1>3, <1>4 DEF Typed
    <2>2. QED  BY <2>1, Shapes
<1>6. ~ FuncLast(m) /\ ~ FuncLast(m)' /\ ~ LoopLast(m) /\ (LoopLast(m)' <=> x.kind \in Loops)
    BY <1>2 DEF FuncLast, LoopLast
<1>7. /\ Here \in Nat /\ Here \in Block /\ Home(m) = Here /\ m # 0
      /\ Len(builders) \in DOMAIN builders /\ Here = builders[Len(builders)]
    BY <1>1, <1>3, HomeTop DEF Shaped
<1>8. Funcs' = Funcs /\ Len(builders) = Cardinality(Funcs)
    <2>1. Funcs' = Funcs
        BY <1>3, <1>5, <1>2, <1>6, Levels
    <2>2. QED  BY <2>1 DEF FlowInv, LevelsFit
<1>9. /\ \A i \in 1 .. m : Home(i)' = Home(i) /\ Home(i) \in Block
      /\ open'[1].kind = "func" /\ Home(m + 1)' = Here
    <2>1. Len(builders') = Cardinality(Funcs')
        BY <1>8
    <2>2. \A k \in DOMAIN builders : k \in DOMAIN builders' => builders'[k] = builders[k]
        OBVIOUS
    <2>3. QED  BY <1>2, <1>5, <1>7, <2>1, <2>2, HomesStay
<1>10. Homes(m)
    <2>1. \A i \in 1 .. m : /\ blocks'[Home(i)'].fn = blocks[Home(i)].fn
                            /\ blocks'[Home(i)'].type = blocks[Home(i)].type
        BY <1>9 DEF Writes
    <2>2. ASSUME NEW b \in Nat, Owns(open'[m + 1], b)
          PROVE  /\ blocks'[b].fn = blocks'[Home(m + 1)'].fn
                 /\ blocks'[b].type = blocks'[Home(m + 1)'].type
        <3>1. Fresh(b)
            BY <1>2, <2>2
        <3>2. blocks'[Here].fn = Fn /\ blocks'[Here].type = blocks[Here].type
            BY <1>7 DEF Writes, Fn
        <3>3. QED  BY <1>9, <3>1, <3>2
    <2>3. open'[m + 1].kind # "func"
        BY <1>2
    <2>4. QED  BY <2>1, <2>2, <2>3 DEF Homes
<1>11. LevelsFit'
    <2>1. Len(lives) = Cardinality(Funcs)
        BY DEF FlowInv, LevelsFit
    <2>2. QED  BY <1>8, <1>9, <2>1 DEF LevelsFit
<1>12. Shifts(0, 0)
    <2>1. \A b \in Nat : Current(b)' <=> Current(b)
        BY DEF Current
    <2>2. \A k, l \in DOMAIN builders' : builders'[k] = builders'[l] => k = l
        BY DEF FlowInv, BuildersFit
    <2>3. \A b \in Nat : Current(b) => b # 0
        <3>1. \A k \in DOMAIN builders : builders[k] \in Block
            BY DEF FlowInv, BuildersFit
        <3>2. \A b \in Block : b # 0
            BY <1>3 DEF Shaped
        <3>3. QED  BY <3>1, <3>2 DEF Current
    <2>4. QED  BY <2>1, <2>2, <2>3 DEF Shifts
<1>13. Turns(0, m)
    <2>1. ~ Fresh(0)
        BY <1>3 DEF Fresh, Shaped
    <2>2. \A b \in Nat : Fresh(b) => b # 0
        BY <2>1
    <2>3. QED  BY <1>2, <2>2 DEF Turns
<1>14. Lawful(0, t) /\ Aims(0, t, m)
    BY DEF Lawful, Aims
<1>15. Joins(0, m)
    BY <1>2 DEF Joins
<1>16. BlocksFit' /\ BuildersFit' /\ OwnedFit' /\ NoneLost'
    BY <1>2, <1>5, <1>10, <1>12, <1>13, StepBlocks
<1>17. JumpsStay' /\ RetMatches' /\ TestsAreBool' /\ PhisFit'
    BY <1>2, <1>5, <1>12, <1>13, <1>14, <1>15, StepEnds
<1>18. LoopsFit'
    <2>1. Len(blocks) <= Len(blocks')
        BY DEF Writes
    <2>2. CASE x.kind \in Loops
        <3>1. /\ ~ LoopLast(m) /\ LoopLast(m)'
              /\ loop_stack' = Append(loop_stack, <<open'[m + 1].nxt, open'[m + 1].end>>)
              /\ open'[m + 1].nxt \in Block' /\ open'[m + 1].end \in Block'
            BY <1>2, <1>6, <2>2
        <3>2. QED  BY <1>2, <1>5, <2>1, <3>1, LoopsStep
    <2>3. CASE x.kind \notin Loops
        <3>1. loop_stack' = loop_stack /\ ~ LoopLast(m) /\ ~ LoopLast(m)'
            BY <1>6, <2>3
        <3>2. QED  BY <1>2, <1>5, <2>1, <3>1, LoopsStep
    <2>4. QED  BY <2>2, <2>3
<1>19. QED  BY <1>5, <1>11, <1>16, <1>17, <1>18 DEF FlowInv
\* ForStmt keeps the invariant.
LEMMA ForStmtKeeps == ASSUME FlowInv, NEW hasCond \in BOOLEAN, ForStmt(hasCond) PROVE FlowInv'
<1> USE DEF ForStmt, Statement, Marked
<1>1. open # <<>>
    OBVIOUS
<1>2. PICK n \in Nat : n = Len(blocks)
    BY Shapes DEF FlowInv, Shaped
<1>3. PICK made : made = <<InFn(TRUE), InFn(FALSE), InFn(FALSE), InFn(FALSE)>>
    OBVIOUS
<1>4. /\ made \in Seq(BlockT) /\ Len(made) = 4 /\ made[1] = InFn(TRUE)
      /\ OfFn(made)
    <2> DEFINE a == InFn(TRUE)   b == InFn(FALSE)
    <2>1. a \in BlockT /\ b \in BlockT /\ made = <<a, b, b, b>>
        BY <1>1, <1>3, LoopMade
    <2> HIDE DEF a, b
    <2>2. made \in Seq(BlockT) /\ Len(made) = 4 /\ made[1] = a /\ \A i \in 1 .. 4 : made[i] \in {a, b}
        BY <2>1
    <2>3. QED  BY <2>2 DEF OfFn, a, b
<1>5. PICK x : x = [Construct("for", "init") EXCEPT
                        !.begin = Next1, !.nxt = Next2, !.end = Next4, !.has = hasCond]
    OBVIOUS
<1>6. /\ x \in OpenT /\ x.kind = "for" /\ x.phase = "init"
      /\ x.begin = n + 1 /\ x.nxt = n + 2 /\ x.end = n + 4
    <2>1. PICK b1, b2, b3 \in Nat : b1 = n + 1 /\ b2 = n + 2 /\ b3 = n + 4
        BY <1>2
    <2>2. x = [Construct("for", "init") EXCEPT !.begin = b1, !.nxt = b2, !.end = b3, !.has = hasCond]
        BY <1>2, <1>5, <2>1 DEF Next1, Next2, Next4
    <2>3. QED  BY <1>1, <2>1, <2>2 DEF OpenT, Construct, Rets
<1>7. /\ builders' = builders /\ open' = Append(Noted(FALSE), x)
      /\ lives' = lives /\ lax' = lax /\ loop_stack' = Append(loop_stack, <<Next2, Next4>>)
      /\ blocks' = blocks \o made
    BY <1>1, <1>3, <1>5 DEF Enter
<1> HIDE DEF ForStmt, Statement, Marked
<1>8. PICK t : t \in TermT
    BY TermIs
<1>9. /\ blocks' \in Seq(BlockT) /\ Len(blocks') = n + 4 /\ Writes(0, t, 0)
      /\ Block' = 1 .. n + 4
      /\ blocks'[n + 1] = InFn(TRUE)
      /\ \A b \in Nat : Fresh(b) =>
            blocks'[b].fn = Fn /\ blocks'[b].type = blocks[Here].type
    <2>1. blocks' = (IF 0 = 0 THEN blocks ELSE Terminate(blocks, 0, t)) \o made
        BY <1>7
    <2>2. /\ blocks' \in Seq(BlockT) /\ Len(blocks') = Len(blocks) + Len(made)
          /\ Writes(0, t, 0)
          /\ Block' = 1 .. Len(blocks) + Len(made)
          /\ \A i \in 1 .. Len(made) : blocks'[Len(blocks) + i] = made[i]
          /\ \A b \in Nat : Fresh(b) =>
                /\ blocks'[b].fn = Fn /\ blocks'[b].type = blocks[Here].type
        <3>1. Makes(0, t, 0, made)
            BY <1>1, <1>4, <1>8, <2>1, MakesBlocks
        <3>2. QED  BY <3>1 DEF Makes
    <2>3. 1 \in 1 .. Len(made)
        BY <1>4
    <2>4. QED  BY <1>2, <1>4, <2>2, <2>3
<1>10. \A b \in Nat : Fresh(b) <=> b = n + 1 \/ b = n + 2 \/ b = n + 3 \/ b = n + 4
    <2>1. \A b \in Nat : Fresh(b) <=> b \in n + 1 .. n + 4
        BY <1>2, <1>9 DEF Fresh
    <2>2. QED  BY <1>2, <2>1
<1>11. \A b \in Nat : WaitsFor(x, b) <=> Fresh(b)
    <2>1. x.nxt + 1 = n + 3
        BY <1>6
    <2>2. \A b \in Nat : WaitsFor(x, b) <=> b = n + 1 \/ b = n + 2 \/ b = n + 3 \/ b = n + 4
        BY <1>6, <2>1 DEF WaitsFor, Loops
    <2>3. QED  BY <1>10, <2>2
<1>12. \A b \in Nat : Owns(x, b) => Fresh(b)
    <2>1. x.nxt + 1 = n + 3
        BY <1>6
    <2>2. QED  BY <1>6, <1>10, <1>11, <2>1 DEF Owns, Loops
<1>13. Distinct(x)
    BY <1>6 DEF Distinct, Loops
<1>14. blocks'[x.begin].placed
    BY <1>1, <1>6, <1>9, LoopMade
<1>15. /\ x.kind \in Loops /\ x.kind # "if" /\ x.kind # "func"
       /\ loop_stack' = Append(loop_stack, <<x.nxt, x.end>>)
       /\ x.nxt \in Block' /\ x.end \in Block'
    <2>1. n + 2 \in 1 .. n + 4 /\ n + 4 \in 1 .. n + 4
        BY <1>2
    <2>2. x.kind \in Loops /\ x.kind # "if" /\ x.kind # "func"
        BY <1>6 DEF Loops
    <2>3. QED  BY <1>2, <1>6, <1>7, <1>9, <2>1, <2>2 DEF Next2, Next4
<1>16. QED  BY <1>1, <1>6, <1>7, <1>9, <1>11, <1>12, <1>13, <1>14, <1>15, PushKeeps

\* IfStmt keeps the invariant.
LEMMA IfStmtKeeps ==
    ASSUME FlowInv, NEW hasElse \in BOOLEAN, NEW val \in BOOLEAN, MayYield(hasElse, val),
           IfStmt(hasElse, val)
    PROVE  FlowInv'
<1> USE DEF IfStmt, Statement, Marked
<1>1. open # <<>>
    OBVIOUS
<1>2. PICK x : x = [Construct("if", "cond") EXCEPT !.has = hasElse, !.val = val]
    OBVIOUS
<1>3. /\ x \in OpenT /\ x.kind = "if" /\ x.phase = "cond" /\ x.has = hasElse /\ x.val = val
    BY <1>2 DEF OpenT, Construct, Rets
<1>4. /\ builders' = builders /\ open' = Append(Noted(FALSE), x) /\ blocks' = blocks
      /\ lives' = lives /\ lax' = lax /\ loop_stack' = loop_stack
    BY <1>1, <1>2
<1> HIDE DEF IfStmt, Statement, Marked
<1>5. Shaped /\ blocks \in Seq(BlockT)
    BY Shapes DEF FlowInv, Typed
<1>6. \A b \in Nat : ~ Fresh(b)
    BY <1>4, <1>5 DEF Fresh, Shaped
<1>7. PICK t : t \in TermT
    BY TermIs
<1>8. Writes(0, t, 0)
    <2>1. \A b \in Block : b # 0
        BY <1>5 DEF Shaped
    <2>2. Len(blocks) <= Len(blocks')
        BY <1>4, <1>5 DEF Shaped
    <2>3. QED  BY <1>4, <1>6, <2>1, <2>2 DEF Writes
<1>9. \A b \in Nat : ~ WaitsFor(x, b) /\ ~ Owns(x, b)
    BY <1>3 DEF WaitsFor, Owns, Loops
<1>10. Distinct(x)
    BY <1>3 DEF Distinct, Loops
<1>11. x.kind \notin Loops /\ x.kind # "func" /\ x.kind # "for" /\ (x.val => x.has)
    BY <1>3 DEF Loops, MayYield
<1>12. blocks' \in Seq(BlockT)
    BY <1>4, <1>5
<1>13. QED  BY <1>1, <1>3, <1>4, <1>6, <1>8, <1>9, <1>10, <1>11, <1>12, PushKeeps
\* The block a jump makes.
LEMMA JumpMakes ==
    ASSUME FlowInv, open # <<>>, NEW t \in TermT, t.to \subseteq Block, NEW q \in Nat,
           blocks' = Append(Terminate(blocks, Here, t), never)
    PROVE  /\ blocks' \in Seq(BlockT) /\ Len(blocks') = Len(blocks) + 1 /\ Writes(Here, t, q)
           /\ blocks'[Len(blocks) + 1] = InFn(TRUE)
           /\ \A b \in Nat : Fresh(b) =>
                 /\ blocks'[b].fn = Fn /\ blocks'[b].type = blocks[Here].type
<1>1. Typed /\ Shaped
    BY Shapes DEF FlowInv
<1>2. PICK n \in Nat : n = Len(blocks)
    BY <1>1 DEF Shaped
<1>3. PICK made : made = <<never>>
    OBVIOUS
<1>4. /\ made \in Seq(BlockT) /\ Len(made) = 1 /\ made[1] = InFn(TRUE)
      /\ OfFn(made)
    <2>1. InFn(TRUE) \in BlockT /\ made = <<InFn(TRUE)>>
        BY <1>3, LoopMade DEF never
    <2> DEFINE a == InFn(TRUE)
    <2> HIDE DEF a
    <2>2. a \in BlockT /\ made = <<a>>
        BY <2>1 DEF a
    <2>3. made \in Seq(BlockT) /\ Len(made) = 1 /\ made[1] = a /\ \A i \in 1 .. 1 : made[i] = a
        BY <2>2
    <2>4. QED  BY <2>3 DEF OfFn, a
<1>5. /\ Here \in Block /\ Here \in Nat /\ Here # 0
      /\ Block = 1 .. n
    BY <1>1, <1>2, HomeTop DEF Shaped
<1>6. blocks' = (IF Here = 0 THEN blocks ELSE Terminate(blocks, Here, t)) \o made
    <2>1. Terminate(blocks, Here, t) \in Seq(BlockT)
        BY <1>1, <1>2, <1>5, TerminateIs DEF Typed, EndsIn
    <2>2. never \in BlockT
        BY LoopMade DEF never
    <2>3. Append(Terminate(blocks, Here, t), never) = Terminate(blocks, Here, t) \o <<never>>
        BY <2>1, <2>2, AppendIsConcat
    <2>4. QED  BY <1>3, <1>5, <2>3
<1>7. t.to \subseteq 1 .. Len(blocks) + Len(made)
    BY <1>2, <1>4, <1>5
<1>8. /\ blocks' \in Seq(BlockT) /\ Len(blocks') = Len(blocks) + Len(made)
      /\ Writes(Here, t, q)
      /\ \A i \in 1 .. Len(made) : blocks'[Len(blocks) + i] = made[i]
      /\ \A b \in Nat : Fresh(b) =>
            /\ blocks'[b].fn = Fn /\ blocks'[b].type = blocks[Here].type
    <2>1. Makes(Here, t, q, made)
        BY <1>4, <1>5, <1>6, <1>7, MakesBlocks
    <2>2. QED  BY <2>1 DEF Makes
<1>9. 1 \in 1 .. Len(made)
    BY <1>4
<1>10. QED  BY <1>4, <1>8, <1>9

\* A jump ends the block, and what follows it has one of its own.
LEMMA JumpKeeps ==
    ASSUME FlowInv, open # <<>>, NEW t \in TermT, Jump(t), open' \in Seq(OpenT),
           Len(open') = Len(open), \A i \in 1 .. Len(open) : Alike(open[i], open'[i]),
           \A b \in t.to : \E j \in OpenLoops : Owns(open[j], b),
           ~ Lax(t) => \A b \in t.to : blocks[b].fn = Fn,
           ~ Lax(t) => t.ret \in {"no", IF blocks[Here].type = "void" THEN "none" ELSE "value"},
           t.test = "no"
    PROVE  FlowInv'
<1> USE DEF Jump, Statement
<1>1. Typed /\ Shaped
    BY Shapes DEF FlowInv
<1>2. PICK n, m \in Nat : n = Len(blocks) /\ m = Len(open)
    BY <1>1 DEF Shaped
<1>3. Here \in Block /\ Here \in Nat /\ Here # 0
    BY <1>1, HomeTop
<1>6. PICK q \in Nat : q = n + 1
    BY <1>2
<1>7. \A b \in t.to : b \in Block
    <2>1. \A j \in OpenLoops : j \in DOMAIN open
        BY DEF OpenLoops
    <2>2. t.to \subseteq Nat
        BY DEF TermT
    <2>3. QED  BY <2>1, <2>2 DEF FlowInv, OwnedFit
<1>8. blocks' = Append(Terminate(blocks, Here, t), never)
    OBVIOUS
<1>9. /\ builders' = WithLast(builders, q) /\ lives' = WithLast(lives, FALSE)
      /\ loop_stack' = loop_stack /\ lax' = IF Lax(t) THEN lax \cup {Here} ELSE lax
    BY <1>2, <1>6 DEF Next1
<1> HIDE DEF Jump, Statement
<1>10. /\ blocks' \in Seq(BlockT) /\ Len(blocks') = n + 1 /\ Writes(Here, t, q)
       /\ blocks'[n + 1] = InFn(TRUE)
       /\ \A b \in Nat : Fresh(b) =>
             /\ blocks'[b].fn = Fn /\ blocks'[b].type = blocks[Here].type
    <2>1. t.to \subseteq Block
        BY <1>7
    <2>2. blocks' = Append(Terminate(blocks, Here, t), never)
        BY <1>8
    <2>3. QED  BY <1>2, <1>6, <2>1, <2>2, JumpMakes
<1>11. \A b \in Nat : Fresh(b) <=> b = q
    <2>1. \A b \in Nat : Fresh(b) <=> b \in n + 1 .. n + 1
        BY <1>2, <1>10 DEF Fresh
    <2>2. QED  BY <1>2, <1>6, <2>1
<1>12. blocks'[q].placed /\ blocks'[q].phi = {} /\ q # 0
    <2>1. blocks'[q] = InFn(TRUE)
        BY <1>6, <1>10
    <2>2. InFn(TRUE).placed /\ InFn(TRUE).phi = {}
        BY LoopMade
    <2>3. q # 0
        BY <1>2, <1>6
    <2>4. QED  BY <2>1, <2>2, <2>3
<1>13. Len(open') = m /\ Len(open) = m /\ m # m + 1 /\ \A i \in 1 .. m : Alike(open[i], open'[i])
    BY <1>2
<1>14. Keeps(m)
    BY <1>13 DEF Keeps
<1>15. Turns(q, m)
    BY <1>6, <1>11, <1>13 DEF Turns
<1>16. ~ FuncLast(m) /\ ~ FuncLast(m)' /\ ~ LoopLast(m) /\ ~ LoopLast(m)'
    BY <1>13 DEF FuncLast, LoopLast
<1>17. Typed'
    <2>1. builders' \in Seq(Nat) /\ lives' \in Seq(BOOLEAN) /\ Len(lives') = Len(lives)
        BY <1>9, Changed
    <2>2. QED  BY <1>1, <1>9, <1>10, <2>1 DEF Typed
<1>18. Len(lives') = Len(lives)
    BY <1>9, Changed
<1>19. Lawful(Here, t)
    <2>1. CASE Lax(t)
        BY <1>9, <2>1 DEF Lawful
    <2>2. CASE ~ Lax(t)
        <3>1. \A b \in t.to : blocks'[b].fn = Fn
            BY <1>7, <1>10, <2>2 DEF Writes
        <3>2. QED  BY <1>9, <2>2, <3>1 DEF Lawful, Fn
    <2>3. QED  BY <2>1, <2>2
<1>20. Aims(Here, t, m)
    BY DEF Aims, OpenLoops
<1>21. Joins(q, m)
    BY <1>12, <1>13 DEF Joins
<1>22. LoopsFit'
    <2>1. Len(blocks) <= Len(blocks')
        BY <1>10 DEF Writes
    <2>2. QED  BY <1>9, <1>14, <1>16, <1>17, <2>1, LoopsStep
<1>23. QED  BY <1>9, <1>10, <1>12, <1>14, <1>15, <1>16, <1>17, <1>18, <1>19, <1>20, <1>21, <1>22,
               MovedKeeps

\* The innermost loop is the last of loop_stack, and behind the last function its
\* blocks are in the function that is generated.
LEMMA InnermostLoop ==
    ASSUME FlowInv, get_loop_parent
    PROVE  /\ open # <<>> /\ loop_stack # <<>>
           /\ \E g \in OpenLoops :
                 /\ Last(loop_stack) = <<open[g].nxt, open[g].end>>
                 /\ Owns(open[g], open[g].nxt) /\ Owns(open[g], open[g].end)
                 /\ open[g].nxt \in Nat /\ open[g].end \in Nat
                 /\ OwnLoop # 0 => blocks[open[g].nxt].fn = Fn /\ blocks[open[g].end].fn = Fn
<1>1. Typed /\ Shaped
    BY Shapes DEF FlowInv
<1>2. PICK m \in Nat : m = Len(open) /\ DOMAIN open = 1 .. m
    BY <1>1 DEF Shaped
<1>3. OpenLoops # {} /\ OpenLoops \in SUBSET (1 .. m) /\ Funcs \in SUBSET (1 .. m) /\ m # 0
    BY <1>2 DEF get_loop_parent, OpenLoops, Funcs
<1>4. open # <<>>
    BY <1>1, <1>2, <1>3 DEF Shaped
<1>5. PICK g \in OpenLoops : \A j \in OpenLoops : j <= g
    BY <1>3, Greatest
<1>6. g \in 1 .. m /\ g \in Nat /\ g \in DOMAIN open
    BY <1>2, <1>3
<1>7. UpTo(OpenLoops, g) = Cardinality(OpenLoops)
    BY <1>3, <1>5, <1>6, CountAll
<1>8. /\ Len(loop_stack) = Cardinality(OpenLoops)
      /\ loop_stack[UpTo(OpenLoops, g)] = <<open[g].nxt, open[g].end>>
    BY DEF FlowInv, LoopsFit, LoopsMirrored, OpenLoops, UpTo
<1>9. Last(loop_stack) = <<open[g].nxt, open[g].end>>
    BY <1>7, <1>8 DEF Last
<1>10. loop_stack # <<>>
    <2>1. IsFiniteSet(OpenLoops)
        BY <1>3, CountTo
    <2>2. Cardinality(OpenLoops) # 0
        BY <1>3, <2>1, FS_EmptySet
    <2>3. QED  BY <1>1, <1>8, <2>2, SeqIs DEF Typed
<1>11. Owns(open[g], open[g].nxt) /\ Owns(open[g], open[g].end)
    BY DEF OpenLoops, Owns
<1>12. open[g].nxt \in Nat /\ open[g].end \in Nat
    BY <1>1, <1>6 DEF Shaped, OpenT
<1>13. ASSUME OwnLoop # 0 PROVE blocks[open[g].nxt].fn = Fn /\ blocks[open[g].end].fn = Fn
    <2>1. PICK i \in OwnLoops : TRUE
        BY <1>13 DEF OwnLoop
    <2>2. i \in OpenLoops /\ i \in 1 .. m /\ \A j \in i .. m : open[j].kind # "func"
        BY <1>2, <1>3, <2>1 DEF OwnLoops, OpenLoops
    <2>3. i <= g
        BY <1>5, <2>2
    <2>4. \A j \in Funcs : j <= g
        <3>1. \A j \in Funcs : j \in 1 .. m /\ open[j].kind = "func"
            BY <1>3 DEF Funcs
        <3>2. QED  BY <1>6, <2>2, <2>3, <3>1
    <2>5. UpTo(Funcs, g) = Cardinality(Funcs)
        BY <1>2, <1>3, <1>6, <2>4, CountAll
    <2>6. Home(g) = Here
        BY <1>4, <2>5, HomeTop DEF Home, FlowInv, LevelsFit
    <2>7. QED  BY <1>6, <1>11, <1>12, <2>6 DEF FlowInv, OwnedFit, Fn
<1>14. QED  BY <1>4, <1>9, <1>10, <1>11, <1>12, <1>13

\* What a jump notes of its loop is nothing the invariant depends on.
LEMMA TakenIs ==
    ASSUME FlowInv, open # <<>>, NEW isBreak \in BOOLEAN
    PROVE  /\ Taken(isBreak) \in Seq(OpenT)
           /\ Len(Taken(isBreak)) = Len(open)
           /\ \A i \in 1 .. Len(open) : Alike(open[i], Taken(isBreak)[i])
<1>1. PICK s : s = Noted(FALSE)
    OBVIOUS
<1>2. s \in Seq(OpenT) /\ Len(s) = Len(open) /\ \A i \in 1 .. Len(open) : Alike(open[i], s[i])
    BY <1>1, NotedIs DEF FlowInv
<1>3. Len(open) \in Nat /\ DOMAIN open = 1 .. Len(open)
    BY Shapes DEF FlowInv, Shaped
<1>4. CASE OwnLoop = 0 \/ ~ Live
    BY <1>1, <1>2, <1>4 DEF Taken
<1>5. CASE ~ (OwnLoop = 0 \/ ~ Live)
    <2>1. PICK k : k = OwnLoop
        OBVIOUS
    <2>2. k \in 1 .. Len(open)
        <3>1. OwnLoops # {} /\ OwnLoops \in SUBSET (1 .. Len(open))
            BY <1>3, <1>5 DEF OwnLoop, OwnLoops
        <3>2. \E i \in OwnLoops : \A j \in OwnLoops : j <= i
            BY <1>3, <3>1, Greatest
        <3>3. OwnLoop = CHOOSE i \in OwnLoops : \A j \in OwnLoops : j <= i
            BY <3>1 DEF OwnLoop
        <3>4. OwnLoop \in OwnLoops
            BY <3>2, <3>3
        <3>5. QED  BY <2>1, <3>1, <3>4
    <2>3. PICK y : y = IF isBreak THEN [s[k] EXCEPT !.brk = TRUE] ELSE [s[k] EXCEPT !.cont = TRUE]
        OBVIOUS
    <2>4. s[k] \in OpenT
        BY <1>2, <2>2, SeqIs
    <2>5. y \in OpenT /\ Alike(s[k], y)
        BY <2>3, <2>4 DEF OpenT, Alike
    <2>6. Taken(isBreak) = [s EXCEPT ![k] = y]
        BY <1>1, <1>5, <2>1, <2>3 DEF Taken
    <2>7. /\ [s EXCEPT ![k] = y] \in Seq(OpenT) /\ Len([s EXCEPT ![k] = y]) = Len(s)
          /\ \A i \in 1 .. Len(s) : [s EXCEPT ![k] = y][i] = IF i = k THEN y ELSE s[i]
        BY <1>2, <2>2, <2>5, ExceptSeq, LenProperties
    <2>8. ASSUME NEW i \in 1 .. Len(open) PROVE Alike(open[i], Taken(isBreak)[i])
        <3>1. Taken(isBreak)[i] = IF i = k THEN y ELSE s[i]
            BY <1>2, <2>6, <2>7
        <3>2. Alike(open[i], s[i])
            BY <1>2
        <3>3. CASE i = k
            BY <2>5, <3>1, <3>2, <3>3 DEF Alike
        <3>4. CASE i # k
            BY <3>1, <3>2, <3>4
        <3>5. QED  BY <3>3, <3>4
    <2>9. QED  BY <1>2, <2>6, <2>7, <2>8
<1>6. QED  BY <1>4, <1>5

\* Break and Continue keep the invariant.
LEMMA LeapKeeps == ASSUME FlowInv, Break \/ Continue PROVE FlowInv'
<1>1. get_loop_parent
    BY DEF Break, Continue
<1>2. PICK to, isBreak : /\ isBreak \in BOOLEAN
                         /\ to = (IF isBreak THEN BreakTo ELSE ContinueTo)
                         /\ Jump(Br(to)) /\ open' = Taken(isBreak)
    BY DEF Break, Continue
<1>3. open # <<>>
    BY <1>1, InnermostLoop
<1>4. PICK g \in OpenLoops :
          /\ Last(loop_stack) = <<open[g].nxt, open[g].end>>
          /\ Owns(open[g], open[g].nxt) /\ Owns(open[g], open[g].end)
          /\ open[g].nxt \in Nat /\ open[g].end \in Nat
          /\ OwnLoop # 0 => blocks[open[g].nxt].fn = Fn /\ blocks[open[g].end].fn = Fn
    BY <1>1, InnermostLoop
<1>5. to = open[g].nxt \/ to = open[g].end
    BY <1>2, <1>4 DEF BreakTo, ContinueTo
<1>6. to \in Nat /\ Owns(open[g], to) /\ (OwnLoop # 0 => blocks[to].fn = Fn)
    BY <1>4, <1>5
<1>7. PICK t \in TermT : t = Br(to) /\ t.to = {to} /\ t.ret = "no" /\ t.test = "no"
    BY <1>6, TermIs
<1>8. \A b \in t.to : \E j \in OpenLoops : Owns(open[j], b)
    BY <1>6, <1>7
<1>9. ~ Lax(t) => \A b \in t.to : blocks[b].fn = Fn
    BY <1>6, <1>7 DEF Lax
<1>10. /\ open' \in Seq(OpenT) /\ Len(open') = Len(open)
       /\ \A i \in 1 .. Len(open) : Alike(open[i], open'[i])
    BY <1>2, <1>3, TakenIs
<1>11. Jump(t)
    BY <1>2, <1>7
<1>12. QED  BY <1>3, <1>7, <1>8, <1>9, <1>10, <1>11, JumpKeeps

\* The function around is that of the builder at work.
LEMMA FuncParentIs ==
    ASSUME FlowInv, open # <<>>
    PROVE  FuncParent.ret = blocks[Here].type /\ FuncParent.ret \in Rets
<1>1. Typed /\ Shaped
    BY Shapes DEF FlowInv
<1>2. PICK m \in Nat : m = Len(open) /\ DOMAIN open = 1 .. m
    BY <1>1 DEF Shaped
<1>3. Funcs \in SUBSET (1 .. m) /\ Funcs # {}
    <2>1. m # 0
        BY <1>1, <1>2 DEF Shaped
    <2>2. 1 \in Funcs
        BY <1>2, <2>1 DEF Funcs, FlowInv, LevelsFit
    <2>3. QED  BY <1>2, <2>2 DEF Funcs
<1>4. \E i \in Funcs : \A j \in Funcs : j <= i
    BY <1>3, Greatest
<1>5. PICK g : g = CHOOSE i \in Funcs : \A j \in Funcs : j <= i
    OBVIOUS
<1>6. g \in Funcs /\ \A j \in Funcs : j <= g
    BY <1>4, <1>5
<1>7. FuncParent = open[g]
    BY <1>5 DEF FuncParent, Funcs
<1>8. g \in Nat /\ g \in DOMAIN open
    BY <1>2, <1>3, <1>6
<1>9. UpTo(Funcs, g) = Cardinality(Funcs)
    BY <1>2, <1>3, <1>6, <1>8, CountAll
<1>10. Home(g) = Here
    BY <1>9, HomeTop DEF Home, FlowInv, LevelsFit
<1>11. blocks[Home(g)].type = open[g].ret
    BY <1>6 DEF FlowInv, OwnedFit
<1>12. open[g].ret \in Rets
    BY <1>1, <1>8 DEF Shaped, OpenT
<1>13. QED  BY <1>7, <1>10, <1>11, <1>12

\* Return keeps the invariant.
LEMMA ReturnKeeps == ASSUME FlowInv, NEW val \in Vals, Return(val) PROVE FlowInv'
<1>1. /\ open # <<>> /\ Jump(Ret(val)) /\ open' = Noted(TRUE)
      /\ val # "none" => (val = "void") = (FuncParent.ret = "void")
    BY DEF Return
<1>2. PICK t \in TermT : t = Ret(val) /\ t.to = {} /\ t.ret = val /\ t.test = "no"
    <2>1. PICK t : t = Ret(val)
        OBVIOUS
    <2>2. t \in TermT /\ t.to = {} /\ t.ret = val /\ t.test = "no"
        BY <2>1 DEF Ret, TermT, Vals
    <2>3. QED  BY <2>1, <2>2
<1>3. ~ Lax(t) => val # "void" /\ ~ (val = "none" /\ FuncParent.ret = "value")
    BY <1>2 DEF Lax
<1>4. FuncParent.ret = blocks[Here].type /\ FuncParent.ret \in {"void", "value"}
    BY <1>1, FuncParentIs DEF Rets
<1>5. val = "value" => FuncParent.ret # "void"
    BY <1>1
<1>6. val \in {"none", "void", "value"}
    BY DEF Vals
<1>7. ~ Lax(t) => t.ret \in {"no", IF blocks[Here].type = "void" THEN "none" ELSE "value"}
    BY <1>2, <1>3, <1>4, <1>5, <1>6
<1>8. /\ open' \in Seq(OpenT) /\ Len(open') = Len(open)
      /\ \A i \in 1 .. Len(open) : Alike(open[i], open'[i])
    BY <1>1, NotedIs DEF FlowInv
<1>9. Jump(t)
    BY <1>1, <1>2
<1>10. QED  BY <1>1, <1>2, <1>7, <1>8, <1>9, JumpKeeps
\* A function that arrives makes its entry block.
LEMMA EntryMade ==
    ASSUME FlowInv, NEW ret \in Rets, NEW t, NEW q \in Nat, q = Next1,
           blocks' = Append(blocks, NewBlock(q, ret, TRUE))
    PROVE  /\ blocks' \in Seq(BlockT) /\ Writes(0, t, q)
           /\ blocks'[q].placed /\ blocks'[q].phi = {} /\ blocks'[q].type = ret
           /\ \A b \in Nat : Fresh(b) <=> b = q
           /\ q # 0 /\ q \notin Block
<1>1. Typed /\ Shaped
    BY Shapes DEF FlowInv
<1>2. PICK n \in Nat : n = Len(blocks) /\ Block = 1 .. n /\ q = n + 1
    BY <1>1 DEF Shaped, Next1
<1>3. PICK x : /\ x \in BlockT /\ x = NewBlock(q, ret, TRUE) /\ x.fn = q /\ x.type = ret
               /\ x.placed /\ x.term = <<>> /\ x.phi = {}
    <2>1. PICK x : x = NewBlock(q, ret, TRUE)
        OBVIOUS
    <2>3. /\ NewBlock(q, ret, TRUE) \in BlockT
          /\ NewBlock(q, ret, TRUE).fn = q
          /\ NewBlock(q, ret, TRUE).type = ret
          /\ NewBlock(q, ret, TRUE).placed
          /\ NewBlock(q, ret, TRUE).term = <<>>
          /\ NewBlock(q, ret, TRUE).phi = {}
        <3>1. <<>> \in Seq(TermT)
            BY EmptySeq
        <3>2. QED  BY <3>1 DEF NewBlock, BlockT
    <2>4. QED  BY <2>1, <2>3
<1>4. /\ Append(blocks, x) \in Seq(BlockT) /\ Len(Append(blocks, x)) = Len(blocks) + 1
      /\ \A b \in 1 .. Len(blocks) : Append(blocks, x)[b] = blocks[b]
      /\ Append(blocks, x)[Len(blocks) + 1] = x
    <2>1. blocks \in Seq(BlockT) /\ x \in BlockT
        BY <1>1, <1>3 DEF Typed
    <2>2. QED  BY <2>1, AppendIs
<1>5. /\ blocks' \in Seq(BlockT) /\ Len(blocks') = n + 1
      /\ \A b \in 1 .. n : blocks'[b] = blocks[b]
      /\ blocks'[q] = x
    BY <1>2, <1>3, <1>4
<1>6. \A b \in Nat : Fresh(b) <=> b = q
    BY <1>2, <1>5 DEF Fresh
<1>7. Block' = 1 .. n + 1 /\ q \in Block'
    <2>1. Block' = 1 .. n + 1
        BY <1>5, SeqIs DEF Block
    <2>2. QED  BY <1>2, <2>1
<1>8. q # 0 /\ q \notin Block
    BY <1>2
<1>9. \A b \in Block : b # 0 /\ blocks'[b] = blocks[b]
    BY <1>2, <1>5
<1>10. Len(blocks) <= Len(blocks')
    BY <1>2, <1>5
<1>11. Writes(0, t, q)
    <2>1. \A b \in Nat : Fresh(b) =>
              /\ blocks'[b].term = <<>> /\ blocks'[b].phi = {}
              /\ blocks'[b].fn \in Block' /\ blocks'[blocks'[b].fn].fn = blocks'[b].fn
        <3> SUFFICES ASSUME NEW b \in Nat, Fresh(b)
                     PROVE  /\ blocks'[b].term = <<>> /\ blocks'[b].phi = {}
                            /\ blocks'[b].fn \in Block' /\ blocks'[blocks'[b].fn].fn = blocks'[b].fn
            OBVIOUS
        <3>1. blocks'[b] = x /\ blocks'[q] = x
            BY <1>5, <1>6
        <3>2. QED  BY <1>3, <1>7, <3>1
    <2>2. \A b \in Block :
              /\ blocks'[b].fn = blocks[b].fn /\ blocks'[b].type = blocks[b].type
              /\ blocks'[b].term = IF b = 0 THEN <<t>> ELSE blocks[b].term
              /\ blocks[b].placed => blocks'[b].placed
              /\ b # q => blocks'[b].phi = blocks[b].phi
        BY <1>9
    <2>3. QED  BY <1>10, <2>1, <2>2 DEF Writes
<1>12. QED  BY <1>3, <1>5, <1>6, <1>8, <1>11

\* A builder more, for a block that is new.
LEMMA BuilderCame ==
    ASSUME FlowInv, NEW q \in Nat, q # 0, q \notin Block, blocks'[q].placed,
           builders' = Append(builders, q)
    PROVE  /\ Shifts(0, q) /\ builders' \in Seq(Nat) /\ Len(builders') = Len(builders) + 1
           /\ builders'[Len(builders')] = q
           /\ \A k \in DOMAIN builders : k \in DOMAIN builders' => builders'[k] = builders[k]
<1>1. Typed /\ Shaped
    BY Shapes DEF FlowInv
<1>2. PICK n \in Nat : n = Len(builders) /\ DOMAIN builders = 1 .. n
    BY <1>1 DEF Shaped
<1>3. /\ Append(builders, q) \in Seq(Nat) /\ Len(Append(builders, q)) = Len(builders) + 1
      /\ \A k \in 1 .. Len(builders) : Append(builders, q)[k] = builders[k]
      /\ Append(builders, q)[Len(builders) + 1] = q
    BY <1>1, AppendIs DEF Typed
<1>4. /\ builders' \in Seq(Nat) /\ Len(builders') = n + 1
      /\ \A k \in 1 .. n : builders'[k] = builders[k]
      /\ builders'[n + 1] = q
    BY <1>2, <1>3
<1>5. DOMAIN builders' = 1 .. n + 1
    BY <1>4, SeqIs
<1>6. \A k \in 1 .. n : builders[k] \in Block /\ builders[k] # 0
    <2>1. \A k \in 1 .. n : builders[k] \in Block
        BY <1>2 DEF FlowInv, BuildersFit
    <2>2. \A b \in Block : b # 0
        BY <1>1 DEF Shaped
    <2>3. QED  BY <2>1, <2>2
<1>7. \A k \in 1 .. n + 1 : k \in 1 .. n \/ k = n + 1
    OBVIOUS
<1>8. \A k, l \in 1 .. n : builders[k] = builders[l] => k = l
    BY <1>2 DEF FlowInv, BuildersFit
<1>9. \A k, l \in DOMAIN builders' : builders'[k] = builders'[l] => k = l
    BY <1>4, <1>5, <1>6, <1>7, <1>8
<1>10. \A k \in 1 .. n : k \in 1 .. n + 1
    OBVIOUS
<1>11. n + 1 \in 1 .. n + 1
    OBVIOUS
<1>12. ASSUME NEW b \in Nat PROVE Current(b)' <=> Current(b) \/ b = q
    <2>1. Current(b)' <=> \E k \in 1 .. n + 1 : builders'[k] = b
        BY <1>5 DEF Current
    <2>2. Current(b) <=> \E k \in 1 .. n : builders[k] = b
        BY <1>2 DEF Current
    <2>3. QED  BY <1>4, <1>7, <1>10, <1>11, <2>1, <2>2
<1>13. \A b \in Nat : Current(b) => b # 0
    BY <1>2, <1>6 DEF Current
<1>14. Shifts(0, q)
    BY <1>9, <1>12, <1>13 DEF Shifts
<1>15. QED  BY <1>2, <1>4, <1>14

\* FuncDecl keeps the invariant.
LEMMA FuncDeclKeeps ==
    ASSUME FlowInv, NEW ret \in Rets, NEW method \in BOOLEAN, FuncDecl(ret, method)
    PROVE  FlowInv'
<1> USE DEF FuncDecl, Marked
<1>1. Typed /\ Shaped
    BY Shapes DEF FlowInv
<1>2. PICK m \in Nat : m = Len(open)
    BY <1>1 DEF Shaped
<1>3. PICK q \in Nat : q = Next1
    <2>1. Next1 \in Nat
        BY <1>1 DEF Shaped, Next1
    <2>2. QED  BY <2>1
<1>4. PICK x : x = [Construct("func", "body") EXCEPT !.ret = ret, !.method = method]
    OBVIOUS
<1>5. x \in OpenT /\ x.kind = "func" /\ x.ret = ret
    BY <1>4 DEF OpenT, Construct
<1>6. /\ blocks' = Append(blocks, NewBlock(q, ret, TRUE)) /\ builders' = Append(builders, q)
      /\ open' = (IF open = <<>> THEN <<x>> ELSE Append(Noted(FALSE), x))
      /\ lives' = Append(lives, TRUE) /\ loop_stack' = loop_stack /\ lax' = lax
    BY <1>3, <1>4
<1> HIDE DEF FuncDecl, Marked
<1>7. /\ open' \in Seq(OpenT) /\ Len(open') = m + 1 /\ open'[m + 1] = x
      /\ Keeps(m)
    <2>1. CASE open = <<>>
        <3>1. m = 0 /\ open' = <<x>>
            BY <1>1, <1>2, <1>6, <2>1 DEF Shaped
        <3>2. open' \in Seq(OpenT) /\ Len(open') = 1 /\ open'[1] = x
            BY <1>5, <3>1
        <3>3. Len(open) = 0
            BY <1>2, <3>1
        <3>4. \A i \in 1 .. m : FALSE
            BY <3>1
        <3>5. QED  BY <1>2, <3>1, <3>2, <3>3, <3>4 DEF Keeps
    <2>2. CASE open # <<>>
        <3>1. /\ open' \in Seq(OpenT) /\ Len(open') = Len(open) + 1
              /\ open'[Len(open) + 1] = x /\ Keeps(Len(open))
            BY <1>5, <1>6, <2>2, PushIs
        <3>2. Keeps(m)
            BY <1>2, <3>1
        <3>3. Len(open') = m + 1 /\ open'[m + 1] = x
            <4>1. Len(open) + 1 = m + 1
                BY <1>2, Zenon
            <4>2. QED  BY <3>1, <4>1, Zenon
        <3>4. QED  BY <3>1, <3>2, <3>3
    <2>3. QED  BY <2>1, <2>2
<1>8. Len(open) # m + 1
    BY <1>2
<1>9. PICK t : t \in TermT
    BY TermIs
<1>10. /\ blocks' \in Seq(BlockT) /\ Writes(0, t, q)
       /\ blocks'[q].placed /\ blocks'[q].phi = {} /\ blocks'[q].type = ret
       /\ \A b \in Nat : Fresh(b) <=> b = q
       /\ q # 0 /\ q \notin Block
    BY <1>3, <1>6, EntryMade
<1>11. /\ Shifts(0, q) /\ builders' \in Seq(Nat) /\ Len(builders') = Len(builders) + 1
       /\ builders'[Len(builders')] = q
       /\ \A k \in DOMAIN builders : k \in DOMAIN builders' => builders'[k] = builders[k]
    BY <1>3, <1>6, <1>10, BuilderCame
<1>12. lives' \in Seq(BOOLEAN) /\ Len(lives') = Len(lives) + 1
    <2>1. lives \in Seq(BOOLEAN)
        BY <1>1 DEF Typed
    <2>2. TRUE \in BOOLEAN
        OBVIOUS
    <2>3. Append(lives, TRUE) \in Seq(BOOLEAN) /\ Len(Append(lives, TRUE)) = Len(lives) + 1
        BY <2>1, <2>2, AppendIs
    <2>4. QED  BY <1>6, <2>3
<1>13. Typed' /\ Shaped'
    <2>1. Typed'
        BY <1>1, <1>6, <1>7, <1>10, <1>11, <1>12 DEF Typed
    <2>2. QED  BY <2>1, Shapes
<1>14. ~ FuncLast(m) /\ FuncLast(m)' /\ ~ LoopLast(m) /\ ~ LoopLast(m)'
    BY <1>5, <1>7, <1>8 DEF FuncLast, LoopLast, Loops
<1>15. Cardinality(Funcs') = Cardinality(Funcs) + 1
    <2>1. PICK F \in SUBSET (1 .. m) : Funcs = F /\ Funcs' = F \cup {m + 1}
        BY <1>1, <1>2, <1>7, <1>13, <1>14, Levels
    <2>2. Cardinality(F \cup {m + 1}) = Cardinality(F) + 1
        BY <1>2, <2>1, CountPush
    <2>3. QED  BY <2>1, <2>2
<1>16. Len(builders) = Cardinality(Funcs) /\ Len(lives) = Cardinality(Funcs)
    BY DEF FlowInv, LevelsFit
<1>17. /\ \A i \in 1 .. m : Home(i)' = Home(i) /\ Home(i) \in Block
       /\ m # 0 => open'[1].kind = "func"
       /\ Home(m + 1)' = builders'[Len(builders')]
    <2>1. Len(builders') = Cardinality(Funcs')
        BY <1>11, <1>15, <1>16
    <2>2. QED  BY <1>2, <1>7, <1>11, <1>13, <2>1, HomesStay
<1>18. Homes(m)
    <2>1. \A i \in 1 .. m : /\ blocks'[Home(i)'].fn = blocks[Home(i)].fn
                            /\ blocks'[Home(i)'].type = blocks[Home(i)].type
        BY <1>10, <1>17 DEF Writes
    <2>2. Home(m + 1)' = q
        BY <1>11, <1>17
    <2>3. \A b \in Nat : ~ Owns(open'[m + 1], b)
        BY <1>5, <1>7 DEF Owns, WaitsFor, Loops
    <2>4. blocks'[Home(m + 1)'].type = open'[m + 1].ret
        BY <1>5, <1>7, <1>10, <2>2
    <2>5. QED  BY <2>1, <2>3, <2>4 DEF Homes
<1>19. LevelsFit'
    <2>1. open'[1].kind = "func"
        <3>1. CASE m = 0
            BY <1>5, <1>7, <3>1
        <3>2. QED  BY <1>17, <3>1
    <2>2. QED  BY <1>11, <1>12, <1>15, <1>16, <2>1 DEF LevelsFit
<1>20. Turns(q, m)
    <2>1. \A b \in Nat : ~ Owns(x, b) /\ ~ WaitsFor(x, b)
        BY <1>5 DEF Owns, WaitsFor, Loops
    <2>2. Distinct(x) /\ x.kind # "for"
        BY <1>5 DEF Distinct, Loops
    <2>3. QED  BY <1>3, <1>7, <1>8, <1>10, <2>1, <2>2 DEF Turns
<1>21. Lawful(0, t) /\ Aims(0, t, m)
    BY <1>6 DEF Lawful, Aims
<1>22. Joins(q, m)
    BY <1>5, <1>7, <1>10 DEF Joins
<1>23. BlocksFit' /\ BuildersFit' /\ OwnedFit' /\ NoneLost'
    BY <1>2, <1>3, <1>7, <1>10, <1>11, <1>13, <1>18, <1>20, StepBlocks
<1>24. JumpsStay' /\ RetMatches' /\ TestsAreBool' /\ PhisFit'
    BY <1>2, <1>3, <1>7, <1>10, <1>11, <1>13, <1>20, <1>21, <1>22, StepEnds
<1>25. LoopsFit'
    <2>1. Len(blocks) <= Len(blocks')
        BY <1>10 DEF Writes
    <2>2. QED  BY <1>2, <1>6, <1>7, <1>13, <1>14, <2>1, LoopsStep
<1>26. QED  BY <1>13, <1>19, <1>23, <1>24, <1>25 DEF FlowInv
\* The code of a function ends in its builder's block.
LEMMA BuilderWent ==
    ASSUME FlowInv, open # <<>>, builders' = Front(builders)
    PROVE  /\ Shifts(Here, 0) /\ builders' \in Seq(Nat) /\ Len(builders') + 1 = Len(builders)
           /\ \A k \in DOMAIN builders : k \in DOMAIN builders' => builders'[k] = builders[k]
<1>1. Typed /\ Shaped
    BY Shapes DEF FlowInv
<1>2. PICK n \in Nat : n = Len(builders) /\ DOMAIN builders = 1 .. n
    BY <1>1 DEF Shaped
<1>3. /\ n \in DOMAIN builders /\ Here = builders[n] /\ Here # 0 /\ Current(Here) /\ n >= 1
    BY <1>2, HomeTop
<1>4. builders \in Seq(Nat) /\ builders # <<>>
    BY TopIs
<1>5. /\ Front(builders) \in Seq(Nat) /\ Len(Front(builders)) = Len(builders) - 1
      /\ \A i \in 1 .. Len(builders) - 1 : Front(builders)[i] = builders[i]
    BY <1>4, FrontIs
<1>6. PICK p \in Nat : n = p + 1
    <2>1. n - 1 \in Nat /\ n = (n - 1) + 1
        BY <1>2, <1>3
    <2>2. QED  BY <2>1
<1>7. builders' \in Seq(Nat) /\ Len(builders') = p /\ \A i \in 1 .. p : builders'[i] = builders[i]
    <2>1. Len(builders) - 1 = p
        BY <1>2, <1>6
    <2>2. QED  BY <1>5, <2>1
<1>8. DOMAIN builders' = 1 .. p
    BY <1>7, SeqIs
<1>9. \A k, l \in 1 .. n : builders[k] = builders[l] => k = l
    BY <1>2 DEF FlowInv, BuildersFit
<1>10. \A k : k \in 1 .. n <=> k \in 1 .. p \/ k = n
    BY <1>6
<1>11. n \notin 1 .. p
    BY <1>6
<1>12. \A k, l \in DOMAIN builders' : builders'[k] = builders'[l] => k = l
    BY <1>7, <1>8, <1>9, <1>10
<1>13. ASSUME NEW b \in Nat PROVE Current(b)' <=> Current(b) /\ b # Here
    <2>1. Current(b)' <=> \E k \in 1 .. p : builders'[k] = b
        BY <1>8 DEF Current
    <2>2. Current(b) <=> \E k \in 1 .. n : builders[k] = b
        BY <1>2 DEF Current
    <2>3. ASSUME Current(b)' PROVE Current(b) /\ b # Here
        <3>1. PICK k \in 1 .. p : builders'[k] = b
            BY <2>1, <2>3
        <3>2. builders[k] = b /\ k \in 1 .. n /\ k # n
            BY <1>7, <1>10, <1>11, <3>1
        <3>3. n \in 1 .. n
            BY <1>10
        <3>4. b # builders[n]
            BY <1>9, <3>2, <3>3
        <3>5. QED  BY <1>3, <2>2, <3>2, <3>4
    <2>4. ASSUME Current(b), b # Here PROVE Current(b)'
        <3>1. PICK k \in 1 .. n : builders[k] = b
            BY <2>2, <2>4
        <3>2. k # n
            BY <1>3, <2>4, <3>1
        <3>3. k \in 1 .. p /\ builders'[k] = b
            BY <1>7, <1>10, <3>1, <3>2
        <3>4. QED  BY <2>1, <3>3
    <2>5. QED  BY <2>3, <2>4
<1>14. Shifts(Here, 0)
    BY <1>3, <1>12, <1>13 DEF Shifts
<1>15. \A k \in DOMAIN builders : k \in DOMAIN builders' => builders'[k] = builders[k]
    BY <1>7, <1>8
<1>16. QED  BY <1>2, <1>6, <1>7, <1>14, <1>15

\* What a function ends in.
LEMMA TailIs ==
    ASSUME FlowInv, open # <<>>, Top.kind = "func", NEW value
    PROVE  /\ TailRet(value) \in TermT /\ TailRet(value).to = {} /\ TailRet(value).test = "no"
           /\ ~ IsUnconverted(value) =>
                 TailRet(value).ret = IF blocks[Here].type = "void" THEN "none" ELSE "value"
<1>1. Top = open[Len(open)] /\ Len(open) \in DOMAIN open /\ Home(Len(open)) = Here
    BY HomeTop
<1>2. Top.ret = blocks[Here].type
    BY <1>1 DEF FlowInv, OwnedFit, Funcs
<1>3. PICK r : r = TailRet(value)
    OBVIOUS
<1>4. CASE IsUnconverted(value)
    <2>1. r = [to |-> {}, test |-> "no", ret |-> "other"]
        BY <1>3, <1>4 DEF TailRet, Ret
    <2>2. r \in TermT /\ r.to = {} /\ r.test = "no"
        BY <2>1 DEF TermT
    <2>3. QED  BY <1>3, <1>4, <2>2
<1>5. CASE ~ IsUnconverted(value)
    <2>1. PICK v : v = (IF blocks[Here].type = "void" THEN "none" ELSE "value")
        OBVIOUS
    <2>2. v \in {"none", "value"}
        BY <2>1
    <2>3. r = [to |-> {}, test |-> "no", ret |-> v]
        BY <1>2, <1>3, <1>5, <2>1 DEF TailRet, DefaultRet, Ret
    <2>4. r \in TermT /\ r.to = {} /\ r.test = "no" /\ r.ret = v
        BY <2>2, <2>3 DEF TermT
    <2>5. QED  BY <1>3, <2>1, <2>4
<1>6. QED  BY <1>4, <1>5

\* A step that leaves the code alone.
LEMMA SameKeeps ==
    ASSUME FlowInv, UNCHANGED <<blocks, builders, open, loop_stack, lives, lax>>
    PROVE  FlowInv'
<1>1. /\ blocks' = blocks /\ builders' = builders /\ open' = open
      /\ loop_stack' = loop_stack /\ lives' = lives /\ lax' = lax
    OBVIOUS
<1>2. Block' = Block /\ \A b : Successors(b)' = Successors(b)
    BY <1>1 DEF Block, Successors
<1>3. \A b : Predecessors(b)' = Predecessors(b)
    BY <1>2 DEF Predecessors
<1>4. Funcs' = Funcs /\ \A i : Home(i)' = Home(i)
    <2>1. Funcs' = Funcs
        BY <1>1 DEF Funcs
    <2>2. QED  BY <1>1, <2>1 DEF Home
<1>5. \A b : (Current(b)' <=> Current(b)) /\ (Awaited(b)' <=> Awaited(b))
    BY <1>1 DEF Current, Awaited
<1>6. Typed'
    BY <1>1 DEF FlowInv, Typed
<1>7. BlocksFit' /\ BuildersFit' /\ LevelsFit'
    BY <1>1, <1>2, <1>4 DEF FlowInv, BlocksFit, BuildersFit, LevelsFit
<1>8. NoneLost'
    BY <1>1, <1>2, <1>5 DEF FlowInv, NoneLost
<1>9. OwnedFit'
    <2>1. /\ \A i \in DOMAIN open' : \A b \in Nat : Owns(open'[i], b) =>
                /\ b \in Block'
                /\ blocks'[b].fn = blocks'[Home(i)'].fn
                /\ blocks'[b].type = blocks'[Home(i)'].type
                /\ blocks'[b].phi = {}
          /\ \A i \in Funcs' : blocks'[Home(i)'].type = open'[i].ret
        BY <1>1, <1>2, <1>4 DEF FlowInv, OwnedFit
    <2>2. \A i \in DOMAIN open' : \A b \in Nat : WaitsFor(open'[i], b) =>
              blocks'[b].term = <<>> /\ ~ Current(b)'
        BY <1>1, <1>5 DEF FlowInv, OwnedFit
    <2>3. /\ \A i, j \in DOMAIN open' : \A b \in Nat :
                Owns(open'[i], b) /\ Owns(open'[j], b) => i = j
          /\ \A i \in DOMAIN open' : Distinct(open'[i])
          /\ \A i \in DOMAIN open' : open'[i].kind = "for" /\ open'[i].phase = "init" =>
                blocks'[open'[i].begin].placed
        BY <1>1 DEF FlowInv, OwnedFit
    <2>4. QED  BY <2>1, <2>2, <2>3 DEF OwnedFit
<1>10. PhisFit'
    BY <1>1, <1>2, <1>3 DEF FlowInv, PhisFit, PhisMatch
<1>11. LoopsFit'
    BY <1>1, <1>2, Zenon DEF FlowInv, LoopsFit, LoopsMirrored
<1>12. JumpsStay' /\ RetMatches' /\ TestsAreBool'
    BY <1>1, <1>2 DEF FlowInv, JumpsStay, RetMatches, TestsAreBool
<1>13. QED  BY <1>6, <1>7, <1>8, <1>9, <1>10, <1>11, <1>12 DEF FlowInv

\* FuncEnd keeps the invariant.
LEMMA FuncEndKeeps == ASSUME FlowInv, NEW value, FuncEnd(value) PROVE FlowInv'
<1>1. CASE ConvertFails(value)
    BY <1>1, SameKeeps DEF FuncEnd
<1>2. CASE ~ ConvertFails(value)
    <2> USE DEF FuncEnd
    <2>1. /\ open # <<>> /\ Top.kind = "func"
          /\ blocks' = Terminate(blocks, Here, TailRet(value))
          /\ builders' = Front(builders) /\ open' = Front(open) /\ lives' = Front(lives)
          /\ lax' = (IF IsUnconverted(value) THEN lax \cup {Here} ELSE lax)
          /\ loop_stack' = loop_stack
        BY <1>2 DEF OuterBuilder
    <2> HIDE DEF FuncEnd
    <2>2. Typed /\ Shaped
        BY Shapes DEF FlowInv
    <2>3. PICK m \in Nat : Len(open) = m + 1 /\ Top = open[m + 1]
        BY <2>1, TopIs
    <2>4. PICK t \in TermT :
              /\ t = TailRet(value) /\ t.to = {} /\ t.test = "no"
              /\ ~ IsUnconverted(value) =>
                    t.ret = IF blocks[Here].type = "void" THEN "none" ELSE "value"
        BY <2>1, TailIs
    <2>5. /\ Here \in Block /\ Here \in Nat /\ Here # 0 /\ Here \in 1 .. Len(blocks)
          /\ blocks[Here].term = <<>>
        BY <2>1, <2>2, HomeTop DEF Shaped
    <2>6. /\ blocks' \in Seq(BlockT) /\ Len(blocks') = Len(blocks)
          /\ \A b \in 1 .. Len(blocks) :
                 /\ blocks'[b].fn = blocks[b].fn
                 /\ blocks'[b].type = blocks[b].type
                 /\ blocks'[b].placed = blocks[b].placed
                 /\ blocks'[b].phi = blocks[b].phi
                 /\ b # Here => blocks'[b].term = blocks[b].term
          /\ blocks'[Here].term = <<t>>
        <3>1. blocks' = Terminate(blocks, Here, t) /\ blocks \in Seq(BlockT)
            BY <2>1, <2>2, <2>4 DEF Typed
        <3>2. EndsIn(blocks, blocks', Here, t)
            BY <2>4, <2>5, <3>1, TerminateIs
        <3>3. Append(<<>>, t) = <<t>>
            OBVIOUS
        <3>4. QED  BY <2>5, <3>1, <3>2, <3>3 DEF EndsIn
    <2>7. \A b \in Nat : ~ Fresh(b)
        BY <2>2, <2>6 DEF Fresh, Shaped
    <2>8. Writes(Here, t, 0)
        <3>1. \A b \in Block : b \in 1 .. Len(blocks)
            BY <2>2 DEF Shaped
        <3>2. Len(blocks) <= Len(blocks')
            BY <2>2, <2>6 DEF Shaped
        <3>3. \A b \in Block :
                  /\ blocks'[b].fn = blocks[b].fn /\ blocks'[b].type = blocks[b].type
                  /\ blocks'[b].term = IF b = Here THEN <<t>> ELSE blocks[b].term
                  /\ blocks[b].placed => blocks'[b].placed
                  /\ b # 0 => blocks'[b].phi = blocks[b].phi
            BY <2>6, <3>1
        <3>4. QED  BY <2>4, <2>7, <3>2, <3>3 DEF Writes
    <2>9. /\ Shifts(Here, 0) /\ builders' \in Seq(Nat) /\ Len(builders') + 1 = Len(builders)
          /\ \A k \in DOMAIN builders : k \in DOMAIN builders' => builders'[k] = builders[k]
        BY <2>1, BuilderWent
    <2>10. lives' \in Seq(BOOLEAN) /\ Len(lives') = Len(lives) - 1
        <3>1. lives \in Seq(BOOLEAN) /\ lives # <<>>
            BY <2>1, TopIs
        <3>2. QED  BY <2>1, <3>1, FrontIs
    <2>11. /\ open' \in Seq(OpenT) /\ Len(open') = m
           /\ \A i \in 1 .. m : open'[i] = open[i]
        <3>1. /\ Front(open) \in Seq(OpenT) /\ Len(Front(open)) = Len(open) - 1
              /\ \A i \in 1 .. Len(open) - 1 : Front(open)[i] = open[i]
            BY <2>1, Changed
        <3>2. Len(open) - 1 = m
            BY <2>3
        <3>3. QED  BY <2>1, <3>1, <3>2
    <2>12. Keeps(m)
        BY <2>3, <2>11, KeepsBelow
    <2>13. Typed' /\ Shaped'
        <3>1. Typed'
            BY <2>1, <2>2, <2>6, <2>9, <2>10, <2>11 DEF Typed
        <3>2. QED  BY <3>1, Shapes
    <2>14. Len(open') # m + 1
        BY <2>3, <2>11
    <2>15. FuncLast(m) /\ ~ FuncLast(m)' /\ ~ LoopLast(m) /\ ~ LoopLast(m)'
        BY <2>1, <2>3, <2>14 DEF FuncLast, LoopLast, Loops
    <2>16. Cardinality(Funcs') + 1 = Cardinality(Funcs)
        <3>1. PICK F \in SUBSET (1 .. m) : Funcs = F \cup {m + 1} /\ Funcs' = F
            BY <2>2, <2>3, <2>12, <2>13, <2>15, Levels
        <3>2. Cardinality(F \cup {m + 1}) = Cardinality(F) + 1
            BY <2>3, <3>1, CountPush
        <3>3. QED  BY <3>1, <3>2
    <2>17. /\ Len(builders) = Cardinality(Funcs) /\ Len(lives) = Cardinality(Funcs)
           /\ Len(builders') = Cardinality(Funcs') /\ Len(lives') = Cardinality(Funcs')
        <3>1. Len(builders) = Cardinality(Funcs) /\ Len(lives) = Cardinality(Funcs)
            BY DEF FlowInv, LevelsFit
        <3>2. Cardinality(Funcs') \in Nat
            <4>1. Funcs' \in SUBSET (1 .. m)
                BY <2>11, <2>13 DEF Funcs, Shaped
            <4>2. QED  BY <2>3, <4>1, CountTo
        <3>3. Len(builders') \in Nat /\ Len(lives') \in Nat /\ Len(lives) \in Nat
            BY <2>2, <2>13 DEF Shaped
        <3>4. QED  BY <2>9, <2>10, <2>16, <3>1, <3>2, <3>3
    <2>18. /\ \A i \in 1 .. m : Home(i)' = Home(i) /\ Home(i) \in Block
           /\ m # 0 => open'[1].kind = "func"
        BY <2>3, <2>9, <2>12, <2>13, <2>17, HomesStay
    <2>19. Homes(m)
        BY <2>8, <2>14, <2>18 DEF Homes, Writes
    <2>20. LevelsFit'
        <3>1. open' # <<>> => m # 0
            BY <2>11, <2>13 DEF Shaped
        <3>2. QED  BY <2>17, <2>18, <3>1 DEF LevelsFit
    <2>21. Turns(0, m)
        <3>1. \A b \in Nat : ~ WaitsFor(open[m + 1], b)
            BY <2>1, <2>3 DEF WaitsFor, Loops
        <3>2. QED  BY <2>7, <2>14, <3>1 DEF Turns
    <2>22. Lawful(Here, t)
        BY <2>1, <2>4 DEF Lawful
    <2>23. Aims(Here, t, m) /\ Joins(0, m)
        BY <2>4, <2>14 DEF Aims, Joins
    <2>24. BlocksFit' /\ BuildersFit' /\ OwnedFit' /\ NoneLost'
        BY <2>3, <2>5, <2>8, <2>9, <2>12, <2>13, <2>19, <2>21, StepBlocks
    <2>25. JumpsStay' /\ RetMatches' /\ TestsAreBool' /\ PhisFit'
        BY <2>3, <2>5, <2>8, <2>9, <2>12, <2>13, <2>21, <2>22, <2>23, StepEnds
    <2>26. LoopsFit'
        <3>1. Len(blocks) <= Len(blocks')
            BY <2>8 DEF Writes
        <3>2. QED  BY <2>1, <2>3, <2>12, <2>13, <2>15, <3>1, LoopsStep
    <2>27. QED  BY <2>13, <2>20, <2>24, <2>25, <2>26 DEF FlowInv
<1>3. QED  BY <1>1, <1>2

-----------------------------------------------------------------------------
(* The invariant, and what follows from it. *)

\* Nothing is generated at first.
LEMMA InitFlow == Init => FlowInv
<1> SUFFICES ASSUME Init PROVE FlowInv
    OBVIOUS
<1>1. /\ blocks = <<>> /\ builders = <<>> /\ open = <<>> /\ loop_stack = <<>> /\ lives = <<>>
    BY DEF Init
<1>2. Typed
    BY <1>1 DEF Typed
<1>3. Block = {} /\ DOMAIN builders = {} /\ DOMAIN open = {} /\ DOMAIN loop_stack = {}
    BY <1>1 DEF Block
<1>4. Len(builders) = 0 /\ Len(lives) = 0 /\ Len(loop_stack) = 0
    BY <1>1
<1>5. Funcs = {} /\ {i \in DOMAIN open : open[i].kind \in Loops} = {}
    BY <1>3 DEF Funcs
<1>6. Cardinality({}) = 0
    BY FS_EmptySet
<1>7. BlocksFit /\ BuildersFit /\ NoneLost
    BY <1>3 DEF BlocksFit, BuildersFit, NoneLost
<1>8. LevelsFit
    BY <1>1, <1>4, <1>5, <1>6 DEF LevelsFit
<1>9. OwnedFit
    BY <1>3, <1>5 DEF OwnedFit
<1>10. PhisFit
    BY <1>3 DEF PhisFit, PhisMatch
<1>11. LoopsFit
    BY <1>3, <1>4, <1>5, <1>6 DEF LoopsFit, LoopsMirrored
<1>12. JumpsStay /\ RetMatches /\ TestsAreBool
    BY <1>3 DEF JumpsStay, RetMatches, TestsAreBool
<1>13. QED  BY <1>2, <1>7, <1>8, <1>9, <1>10, <1>11, <1>12 DEF FlowInv

\* Every step keeps the invariant.
LEMMA StepFlow == FlowInv /\ [Next]_vars => FlowInv'
<1> SUFFICES ASSUME FlowInv, [Next]_vars PROVE FlowInv'
    OBVIOUS
<1>1. ASSUME NEW r \in Rets, NEW method \in BOOLEAN, FuncDecl(r, method) PROVE FlowInv'
    BY <1>1, FuncDeclKeeps
<1>2. ASSUME NEW v \in Vals \cup {"other"}, FuncEnd(v) PROVE FlowInv'
    BY <1>2, FuncEndKeeps
<1>3. ASSUME NEW e \in BOOLEAN, NEW v \in BOOLEAN, MayYield(e, v), IfStmt(e, v) PROVE FlowInv'
    BY <1>3, IfStmtKeeps
<1>4. ASSUME IfThen \/ IfElse \/ IfEnd PROVE FlowInv'
    BY <1>4, IfThenKeeps, IfElseKeeps, IfEndKeeps
<1>5. ASSUME WhileStmt \/ WhileCond \/ WhileEnd PROVE FlowInv'
    BY <1>5, WhileStmtKeeps, WhileCondKeeps, WhileEndKeeps
<1>6. ASSUME NEW c \in BOOLEAN, ForStmt(c) PROVE FlowInv'
    BY <1>6, ForStmtKeeps
<1>7. ASSUME ForBody \/ ForStep \/ ForCond PROVE FlowInv'
    BY <1>7, ForBodyKeeps, ForStepKeeps, ForCondKeeps
<1>8. ASSUME NEW test \in Tests, ForEnd(test) PROVE FlowInv'
    BY <1>8, ForEndKeeps
<1>9. ASSUME Break \/ Continue PROVE FlowInv'
    BY <1>9, LeapKeeps
<1>10. ASSUME NEW v \in Vals, Return(v) PROVE FlowInv'
    BY <1>10, ReturnKeeps
<1>11. ASSUME UNCHANGED vars PROVE FlowInv'
    BY <1>11, SameKeeps DEF vars
<1>12. QED
    BY <1>1, <1>2, <1>3, <1>4, <1>5, <1>6, <1>7, <1>8, <1>9, <1>10, <1>11 DEF Next, Done

\* The invariant holds in every run.
LEMMA FlowHolds == Spec => []FlowInv
    BY InitFlow, StepFlow, PTL DEF Spec
\* Every construct stands in an open function.
LEMMA HomeIn ==
    ASSUME FlowInv, NEW i \in DOMAIN open
    PROVE  \E k \in DOMAIN builders : Home(i) = builders[k]
<1>1. Shaped
    BY Shapes DEF FlowInv
<1>2. PICK m \in Nat : m = Len(open) /\ DOMAIN open = 1 .. m
    BY <1>1 DEF Shaped
<1>3. PICK F \in SUBSET (1 .. m) : F = Funcs /\ 1 \in F
    <2>1. open # <<>> /\ 1 \in 1 .. m
        BY <1>1, <1>2 DEF Shaped
    <2>2. open[1].kind = "func"
        BY <2>1 DEF FlowInv, LevelsFit
    <2>3. 1 \in Funcs /\ Funcs \in SUBSET (1 .. m)
        BY <1>2, <2>1, <2>2 DEF Funcs
    <2>4. QED  BY <2>3
<1>4. PICK u : u = UpTo(F, i)
    OBVIOUS
<1>5. /\ Cardinality(F) \in Nat
      /\ \A j \in 1 .. m : UpTo(F, j) \in Nat /\ UpTo(F, j) <= Cardinality(F)
      /\ 1 \in F => \A j \in 1 .. m : UpTo(F, j) >= 1
    <2>1. CountsAs(F, F, m)
        BY <1>2, <1>3, Counts
    <2>2. QED  BY <2>1 DEF CountsAs
<1>6. u \in Nat /\ u <= Cardinality(F) /\ u >= 1
    BY <1>2, <1>3, <1>4, <1>5
<1>7. Len(builders) = Cardinality(F)
    BY <1>3 DEF FlowInv, LevelsFit
<1>8. u \in DOMAIN builders
    BY <1>1, <1>6, <1>7 DEF Shaped
<1>9. Home(i) = builders[u]
    BY <1>3, <1>4 DEF Home
<1>10. QED  BY <1>8, <1>9

\* What the invariant says of the names of blocks.
LEMMA NamesFit == FlowInv => FlowOK
<1> SUFFICES ASSUME FlowInv PROVE FlowOK
    OBVIOUS
<1>1. \A b \in Block : blocks[b].fn \in Entries /\ Successors(b) \subseteq Block
    BY DEF FlowInv, BlocksFit, Entries
<1>2. \A b \in Block : blocks[b].phi \subseteq Block
    BY DEF FlowInv, PhisFit, PhisMatch, Predecessors
<1>3. \A i \in DOMAIN builders : builders[i] \in Block
    BY DEF FlowInv, BuildersFit
<1>4. /\ Len(lives) = Len(builders)
      /\ Len(builders) = Cardinality({i \in DOMAIN open : open[i].kind = "func"})
    BY DEF FlowInv, LevelsFit, Funcs
<1>5. \A i \in DOMAIN loop_stack : loop_stack[i][1] \in Block /\ loop_stack[i][2] \in Block
    BY DEF FlowInv, LoopsFit
<1>6. QED  BY <1>1, <1>2, <1>3, <1>4, <1>5 DEF FlowOK

\* A block that is loose or open is in a function that is still generated.
LEMMA WholeFits == FlowInv => FunctionsWhole
<1> SUFFICES ASSUME FlowInv PROVE FunctionsWhole
    OBVIOUS
<1>1. Shaped
    BY Shapes DEF FlowInv
<1>2. \A i \in DOMAIN builders : blocks[builders[i]].term = <<>> /\ blocks[builders[i]].placed
    BY DEF FlowInv, BuildersFit
<1>3. ASSUME NEW b \in Block
      PROVE  /\ Len(blocks[b].term) <= 1
             /\ blocks[b].fn \in Closed => blocks[b].placed /\ Len(blocks[b].term) = 1
    <2>1. Len(blocks[b].term) <= 1
        BY DEF FlowInv, BlocksFit
    <2>2. Len(blocks[b].term) \in Nat /\ (blocks[b].term = <<>> <=> Len(blocks[b].term) = 0)
        <3>1. blocks[b].term \in Seq(TermT)
            BY <1>1 DEF Shaped, BlockT
        <3>2. QED  BY <3>1, SeqIs
    <2>3. b \in Nat
        BY <1>1 DEF Shaped
    <2>4. ASSUME blocks[b].fn \in Closed PROVE ~ Current(b) /\ ~ Awaited(b)
        <3>1. \A k \in DOMAIN builders : blocks[builders[k]].fn # blocks[b].fn
            BY <2>4 DEF Closed
        <3>2. ~ Current(b)
            BY <3>1 DEF Current
        <3>3. ASSUME Awaited(b) PROVE FALSE
            <4>1. PICK i \in DOMAIN open : WaitsFor(open[i], b)
                BY <3>3 DEF Awaited
            <4>2. blocks[b].fn = blocks[Home(i)].fn
                BY <2>3, <4>1 DEF FlowInv, OwnedFit, Owns
            <4>3. PICK k \in DOMAIN builders : Home(i) = builders[k]
                BY <4>1, HomeIn
            <4>4. QED  BY <3>1, <4>2, <4>3
        <3>4. QED  BY <3>2, <3>3
    <2>5. ASSUME blocks[b].fn \in Closed PROVE blocks[b].placed /\ blocks[b].term # <<>>
        BY <2>4, <2>5 DEF FlowInv, NoneLost
    <2>6. ASSUME blocks[b].fn \in Closed PROVE Len(blocks[b].term) = 1
        <3>1. Len(blocks[b].term) # 0
            BY <2>2, <2>5, <2>6
        <3>2. PICK l \in Nat : l = Len(blocks[b].term)
            BY <2>2
        <3>3. l <= 1 /\ l # 0
            BY <2>1, <3>1, <3>2
        <3>4. \A i \in Nat : i <= 1 /\ i # 0 => i = 1
            OBVIOUS
        <3>5. l \in Nat
            BY <3>2
        <3>6. l = 1
            BY <3>3, <3>4, <3>5, Zenon
        <3>7. QED  BY <3>2, <3>6
    <2>7. QED  BY <2>1, <2>5, <2>6
<1>4. QED  BY <1>2, <1>3 DEF FunctionsWhole

\* What is generated would pass LLVM's verifier: for programs of any length and
\* any nesting of functions, ifs and loops, no code stands behind a terminator,
\* the blocks of a finished function are in it and end once, branches lead to
\* blocks of their function, each phi names exactly the blocks that branch to
\* its own, and returns and tests have their types - but for the blocks that end
\* in what gen_convert, get_loop_parent or the checker let through.
THEOREM CodeVerifiesHolds == Spec => []CodeVerifies
<1>1. FlowInv => CodeVerifies
    BY NamesFit, WholeFits DEF FlowInv, PhisFit, CodeVerifies
<1>2. QED  BY <1>1, FlowHolds, PTL

\* loop_stack mirrors the loops around the place that is generated, however
\* functions are nested in loops: loop_env_guard pushes and pops in pairs.
THEOREM LoopsMirroredHolds == Spec => []LoopsMirrored
<1>1. FlowInv => LoopsMirrored
    BY DEF FlowInv, LoopsFit
<1>2. QED  BY <1>1, FlowHolds, PTL
=============================================================================
