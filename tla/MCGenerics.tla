----------------------------- MODULE MCGenerics -----------------------------
(* Programs of two generics and a few plain structs. *)
EXTENDS Generics

Leaf(kind, name) == [kind |-> kind, name |-> name]

P      == Leaf("param", "")
I32    == Leaf("prim", "int")
Nil    == Leaf("prim", "void")
Dyn    == Leaf("prim", "trait")
Star   == Leaf("ptr", "")
Box    == Leaf("generic", "Box")
List   == Leaf("generic", "List")
S1     == Leaf("plain", "s1")
S2     == Leaf("plain", "s2")

M(name, chain) == [name |-> name, type |-> chain]

One(chains) == {<<M("a", c)>> : c \in chains}

\* Two structs are called S, as in two functions.
Names == [s1 |-> "S", s2 |-> "S", u |-> "U"]

\* What List is declared with: itself by value and by pointer, with its own
\* argument, another one and ever longer ones, and a plain struct.
Lists ==
    One({<<P>>, <<P, List, Star>>, <<I32, List, Star>>, <<P, Star, List, Star>>, <<P, List, Box>>})
    \cup {<<M("a", c), M("b", <<P>>)>> : c \in {<<P, List, Star>>, <<I32, List, Star>>, <<S1, Box>>}}

Listed ==
    { [Box |-> <<M("a", <<P>>)>>, List |-> l, s1 |-> s, s2 |-> r, u |-> v] :
        l \in Lists,
        s \in One({<<I32>>, <<S1, Box>>, <<Nil>>, <<Dyn>>}),
        r \in One({<<I32>>}) \cup {<<M("a", <<I32>>), M("a", <<I32>>)>>},
        v \in One({<<I32, Star, List>>, <<S2, List>>}) \cup
              {<<M("a", c), M("b", <<S2, Box>>)>> : c \in {<<S1, Box>>, <<I32, Box>>}} }
=============================================================================
