------------------------------ MODULE Literals ------------------------------
(***************************************************************************)
(* Strings and characters: what the lexer lets pass as one (src/lex/lex.l) *)
(* and what parse_string and parse_char read in it (src/literal.cpp).      *)
(*                                                                         *)
(* A character is "quote", "apostrophe", "backslash", a "letter" that has  *)
(* an escape sequence, or any "other"; "control" is what such a letter     *)
(* stands for.  A literal is given by its units, the parts between the     *)
(* quotes that the pattern of the lexer matches, of one or two characters. *)
(***************************************************************************)
EXTENDS Naturals, Sequences, SequencesExt

Chars == {"quote", "apostrophe", "backslash", "letter", "other"}

\* The patterns STRING and CHAR; CHAR has one unit.
UnitsOf(delimiter) ==
    {<<c>> : c \in Chars \ {delimiter, "backslash"}}
    \cup {<<"backslash", c>> : c \in {delimiter, "backslash", "letter"}}

StringUnits == UnitsOf("quote")
CharUnits   == UnitsOf("apostrophe")

\* What is between the quotes, character by character.
Text(units) == FlattenSeq(units)

Throws == "invalid_argument"

\* The cases of the two switches.
Escaped(delimiter, c) ==
    CASE c = "letter"                  -> "control"
      [] c \in {"backslash", delimiter} -> c
      [] OTHER                         -> Throws

\* The loop of parse_string.  A backslash before any other character stays, and
\* the character is read again.
parse_string(text) ==
    LET from[i \in 1 .. Len(text) + 1] ==
            IF i > Len(text) THEN <<>>
            ELSE IF text[i] # "backslash" THEN <<text[i]>> \o from[i + 1]
            ELSE IF i = Len(text) THEN <<Throws>>
            ELSE LET e == Escaped("quote", text[i + 1]) IN
                 IF e # Throws THEN <<e>> \o from[i + 2] ELSE <<text[i]>> \o from[i + 1]
    IN from[1]

parse_char(text) ==
    IF text = <<>> THEN Throws
    ELSE IF text[1] = "backslash"
         THEN IF Len(text) = 2 THEN Escaped("apostrophe", text[2]) ELSE Throws
         ELSE IF Len(text) = 1 THEN text[1] ELSE Throws

\* What a unit stands for.
Meaning(unit) ==
    IF unit = <<"backslash", "letter">> THEN "control" ELSE unit[Len(unit)]

\* The lexer and the two functions agree on where a character ends and what it
\* is: every literal that passes the one has a value by the other, with one
\* character for each unit.
StringRead(units) == parse_string(Text(units)) = [i \in DOMAIN units |-> Meaning(units[i])]
CharRead(unit)    == parse_char(unit) = Meaning(unit)

\* Evaluated by TLC: strings of up to MaxUnits units, and all characters.
MaxUnits == 4

ASSUME LiteralsRead ==
    /\ \A n \in 0 .. MaxUnits : \A units \in [1 .. n -> StringUnits] : StringRead(units)
    /\ \A unit \in CharUnits : CharRead(unit)
=============================================================================
