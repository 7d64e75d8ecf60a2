------------------------------- MODULE Driver -------------------------------
(***************************************************************************)
(* The driver (src/main.cpp): one compilation after the other, on the same *)
(* output path.  A compilation collects the errors of its phases, reports  *)
(* them in order, or generates, writes and links.  What the phases find in *)
(* a program is chosen here; what the driver makes of it is its code.      *)
(*                                                                         *)
(* Compilations are numbered, and so is what they leave in the files.      *)
(***************************************************************************)
EXTENDS Naturals, Sequences, FiniteSets

CONSTANTS
    Tokens,     \* the spans of the program's tokens
    NLines,     \* the lines of the program's text
    MaxRuns,    \* bound: compilations
    MaxErrors   \* bound: errors of a compilation

Span == [line_st : Nat, line_ed : Nat, col_l : Nat, col_r : Nat]

ASSUME DriverAssumption ==
    /\ Tokens \subseteq Span
    /\ NLines \in Nat /\ MaxRuns \in Nat /\ MaxErrors \in Nat

\* make_token: a token is given one line, that of its first character.
ASSUME TokenAssumption ==
    \A t \in Tokens : t.line_st = t.line_ed /\ t.col_l <= t.col_r /\ t.line_ed < NLines

VARIABLES
    pc,        \* where main is
    run,       \* the number of the compilation
    opt,       \* ArgParser
    raw,       \* raw_code: how many lines were read
    errors,    \* errors: the list of error.cpp
    todo,      \* err: main's copy of it, without what has been listed
    listed,    \* what was listed on cerr, in this order
    stdout,    \* where stdout leads: "terminal", "out" or "closed"
    out,       \* the output file: what is in it, and of which compilation
    obj,       \* the object file: of which compilation, 0 if there is none
    said,      \* something was said on the terminal
    \* For the properties only:
    faulty,    \* compilations that found an error
    overrun,   \* a line was listed that raw_code does not have
    lost       \* what went wrong outside of the program: files that could not be
               \* opened, lines that were not read, errors of a process that died

files == <<out, obj>>
vars  == <<pc, run, opt, raw, errors, todo, listed, stdout, out, obj, said, faulty, overrun, lost>>

-----------------------------------------------------------------------------
(* Locator *)

Locator == [line_st |-> 0, line_ed |-> 0, col_l |-> 0, col_r |-> 0]

\* Mutant of Less: by lines only.
LessLine(l1, l2) == l1.line_st < l2.line_st

\* operator <
Less(l1, l2) == IF l1.line_st = l2.line_st THEN l1.col_l < l2.col_l ELSE l1.line_st < l2.line_st

has_value(loc) == loc.line_st > 0 \/ loc.col_r > 0
is_empty(loc)  == loc = Locator

EndsBefore(l1, l2) == l1.line_ed < l2.line_ed \/ (l1.line_ed = l2.line_ed /\ l1.col_r < l2.col_r)

locator_merge(l1, l2) ==
    LET first == IF Less(l2, l1) THEN l2 ELSE l1
        last  == IF EndsBefore(l1, l2) THEN l2 ELSE l1 IN
    [line_st |-> first.line_st, col_l |-> first.col_l,
     line_ed |-> last.line_ed,  col_r |-> last.col_r]

\* Locator::merge
Merged(loc, other) == IF is_empty(loc) THEN other
                      ELSE IF is_empty(other) THEN loc
                      ELSE locator_merge(loc, other)

\* The locations of nodes: append_loc for each of their tokens.
NodeLoc(t, u) == Merged(Merged(Locator, t), u)

\* The place right behind a span, where the search for the next token begins.
Behind(loc) == [line_st |-> loc.line_ed, line_ed |-> loc.line_ed,
                col_l |-> loc.col_r + 1, col_r |-> loc.col_r]

get_next_locator(loc) ==
    LET later == {t \in Tokens : ~ Less(t, Behind(loc))} IN
    IF later = {} THEN Behind(loc)
    ELSE CHOOSE t \in later : \A u \in later : ~ Less(u, t)

\* next_loc asks CurrentCursor, any token here, for a span that seems empty.
next_loc(loc) == IF is_empty(loc) THEN Tokens ELSE {get_next_locator(loc)}

NodeLocs   == {NodeLoc(t, u) : t, u \in Tokens}
SyntaxLocs == Tokens \cup UNION {next_loc(loc) : loc \in NodeLocs}

-----------------------------------------------------------------------------
(* error.cpp *)

\* append_error and the forty append_..._error around it, and the warning, which
\* is an entry of the same list.
AppendError(kind, loc) ==
    /\ Len(errors) < MaxErrors
    /\ errors' = Append(errors, [kind |-> kind, loc |-> loc])
    /\ faulty' = faulty \cup {run}

\* What is printed on stdout: it may be the output file.
Prints(what) ==
    /\ out' = IF stdout = "out" THEN out \cup {<<what, run>>} ELSE out
    /\ said' = (said \/ stdout = "terminal")

NothingPrinted == UNCHANGED <<out, said>>

At(where)   == pc = where /\ UNCHANGED <<run, opt>>
Goes(where) == pc' = where

-----------------------------------------------------------------------------
(* main *)

Options == [type : {"ir", "asm", "obj"}, to : BOOLEAN, tree : BOOLEAN, quiet : BOOLEAN]

\* main starts: a process has its own lists, the files are as they were left.
Start ==
    /\ pc = "idle"
    /\ run < MaxRuns
    /\ run' = run + 1
    /\ \E o \in Options : opt' = o
    /\ Goes("open")
    /\ raw' = 0 /\ errors' = <<>> /\ todo' = <<>> /\ listed' = <<>>
    /\ stdout' = "terminal" /\ said' = FALSE /\ overrun' = FALSE /\ lost' = {}
    /\ UNCHANGED <<out, obj, faulty>>

OpenFails ==
    /\ At("open") /\ Goes("done")
    /\ Prints("message")
    /\ lost' = lost \cup {"input"}
    /\ UNCHANGED <<raw, errors, todo, listed, stdout, obj, faulty, overrun>>

\* read_raw_code
RawLines == NLines

\* fgetc answers with a char: a byte 0xFF in the text is taken for its end.  The
\* lexer reads the file again and goes on.
Read(cut) ==
    /\ At("open") /\ Goes("parse")
    /\ raw' = IF cut < RawLines THEN cut ELSE RawLines
    /\ lost' = IF cut < NLines THEN lost \cup {"lines"} ELSE lost
    /\ UNCHANGED <<errors, todo, listed, stdout, out, obj, said, faulty, overrun>>

SyntaxError ==
    /\ At("parse") /\ UNCHANGED pc
    /\ \E loc \in SyntaxLocs : AppendError("syntax", loc)
    /\ UNCHANGED <<raw, todo, listed, stdout, out, obj, said, overrun, lost>>

\* Mutant of Truncated: the output file is opened to append.
TruncatedNot == out

\* freopen(..., "w", stdout)
Truncated == {}

\* The output file is opened before anything is known about the program, and
\* whether it could be is not asked.
Redirect(opens) ==
    /\ At("parse") /\ Goes("check")
    /\ LET tree == IF opt.tree THEN {<<"tree", run>>} ELSE {} IN
       CASE ~ opt.to          -> /\ opens
                                 /\ said' = (said \/ opt.tree)
                                 /\ UNCHANGED <<stdout, out, lost>>
         [] opt.to /\ opens   -> /\ stdout' = "out"
                                 /\ out' = Truncated \cup tree
                                 /\ UNCHANGED <<said, lost>>
         [] opt.to /\ ~ opens -> /\ stdout' = "closed"
                                 /\ lost' = lost \cup {"output"}
                                 /\ UNCHANGED <<said, out>>
    /\ UNCHANGED <<raw, errors, todo, listed, obj, faulty, overrun>>

\* append_prim_shadowed_warning is called where a name is declared.
Findings == {"semantic", "warning"}

\* build_sym_table
SemanticError(kind) ==
    /\ At("check") /\ UNCHANGED pc
    /\ \E loc \in NodeLocs \cup {Locator} : AppendError(kind, loc)
    /\ UNCHANGED <<raw, todo, listed, stdout, out, obj, said, overrun, lost>>

\* The checker is not in the try block: an exception of it, or a failed
\* assertion anywhere, ends the process, and the errors are lost.
Aborts ==
    /\ pc \in {"check", "gen"} /\ UNCHANGED <<run, opt>> /\ Goes("done")
    /\ said' = TRUE
    /\ lost' = lost \cup {"errors"}
    /\ UNCHANGED <<raw, errors, todo, listed, stdout, out, obj, faulty, overrun>>

\* Mutant of Errors: the list as it was before the checker, err_flag.
ErrorsOfParser == SelectSeq(errors, LAMBDA e : e.kind = "syntax")

\* auto err = get_error_list()
Errors == errors

\* Errors and warnings alike keep the generator from running.
IsRefused(err) == Len(err) > 0

Checked ==
    /\ At("check")
    /\ todo' = Errors
    /\ Goes(IF IsRefused(Errors) THEN "report" ELSE "gen")
    /\ IF opt.tree THEN Prints("tree") ELSE NothingPrinted
    /\ UNCHANGED <<raw, errors, listed, stdout, obj, faulty, overrun, lost>>

Without(s, i) == [k \in 1 .. Len(s) - 1 |-> IF k < i THEN s[k] ELSE s[k + 1]]

\* std::sort: the next to be listed is one that none of the others is less than.
Foremost(i) == \A j \in DOMAIN todo : ~ Less(todo[j].loc, todo[i].loc)

\* The heading goes to cerr, the lines of the program go to stdout.
Report ==
    /\ At("report")
    /\ \E i \in DOMAIN todo :
          /\ Foremost(i)
          /\ listed' = Append(listed, todo[i])
          /\ todo' = Without(todo, i)
          /\ overrun' = (overrun \/ (has_value(todo[i].loc) /\ todo[i].loc.line_ed >= raw))
          /\ out' = IF stdout = "out" /\ has_value(todo[i].loc) THEN out \cup {<<"lines", run>>} ELSE out
    /\ Goes(IF Len(todo) = 1 THEN "done" ELSE "report")
    /\ said' = TRUE
    /\ UNCHANGED <<raw, errors, stdout, obj, faulty, lost>>

\* gen_module throws, also where there is no main: the message goes to stdout.
GenFails ==
    /\ At("gen") /\ Goes("done")
    /\ Prints("message")
    /\ UNCHANGED <<raw, errors, todo, listed, stdout, obj, faulty, overrun, lost>>

Generated ==
    /\ At("gen") /\ Goes("write")
    /\ UNCHANGED <<raw, errors, todo, listed, stdout, out, obj, said, faulty, overrun, lost>>

\* write_llvm_ir
WriteIR ==
    /\ At("write") /\ opt.type = "ir" /\ Goes("done")
    /\ Prints("code")
    /\ UNCHANGED <<raw, errors, todo, listed, stdout, obj, faulty, overrun, lost>>

\* write_llvm_file opens the file that stdout writes to, and empties it.
WriteAsm(opens) ==
    /\ At("write") /\ opt.type = "asm" /\ Goes("done")
    /\ opens => opt.to
    /\ IF opens THEN out' = {<<"code", run>>} /\ UNCHANGED said ELSE Prints("message")
    /\ lost' = IF opens THEN lost ELSE lost \cup {"output"}
    /\ UNCHANGED <<raw, errors, todo, listed, stdout, obj, faulty, overrun>>

\* Without an output path the object is ".o", another file.  main goes on to the
\* linker in any case.
WriteObj(opens) ==
    /\ At("write") /\ opt.type = "obj" /\ Goes("link")
    /\ obj' = IF opens /\ opt.to THEN run ELSE obj
    /\ lost' = IF opens THEN lost ELSE lost \cup {"object"}
    /\ IF opens THEN NothingPrinted ELSE Prints("message")
    /\ UNCHANGED <<raw, errors, todo, listed, stdout, faulty, overrun>>

\* write_llvm_file fails behind the opened file: it throws, and main says so on
\* stdout, or the process dies.  What was begun is no code, and no object.
WriteFails(dies) ==
    /\ At("write") /\ opt.type # "ir" /\ Goes("done")
    /\ opt.type = "asm" => opt.to
    /\ LET begun   == IF opt.type = "asm" THEN Truncated ELSE out
           message == IF stdout = "out" /\ ~ dies THEN {<<"message", run>>} ELSE {} IN
       out' = begun \cup message
    /\ obj' = IF opt.type = "obj" /\ opt.to THEN 0 ELSE obj
    /\ said' = (said \/ dies \/ stdout = "terminal")
    /\ UNCHANGED <<raw, errors, todo, listed, stdout, faulty, overrun, lost>>

\* system("clang-11 ..."): it links what is there, in place of the output file,
\* or says on the terminal why not.
Link(works) ==
    /\ At("link") /\ Goes("done")
    /\ works => opt.to /\ obj # 0
    /\ out' = IF works THEN {<<"code", obj>>} ELSE out
    /\ said' = (said \/ ~ works)
    /\ UNCHANGED <<raw, errors, todo, listed, stdout, obj, faulty, overrun, lost>>

\* The process ends; the next compilation may come.
Exit ==
    /\ At("done") /\ Goes("idle")
    /\ UNCHANGED <<raw, errors, todo, listed, stdout, out, obj, said, faulty, overrun, lost>>

-----------------------------------------------------------------------------

Init ==
    /\ pc = "idle" /\ run = 0
    /\ opt = [type |-> "obj", to |-> FALSE, tree |-> FALSE, quiet |-> FALSE]
    /\ raw = 0 /\ errors = <<>> /\ todo = <<>> /\ listed = <<>>
    /\ stdout = "terminal" /\ out = {} /\ obj = 0 /\ said = FALSE
    /\ faulty = {} /\ overrun = FALSE /\ lost = {}

\* What main does by itself once it has started.
Step ==
    \/ OpenFails \/ \E cut \in 0 .. NLines : Read(cut)
    \/ SyntaxError \/ \E opens \in BOOLEAN : Redirect(opens)
    \/ \E kind \in Findings : SemanticError(kind)
    \/ Aborts \/ Checked \/ Report
    \/ GenFails \/ Generated
    \/ WriteIR \/ \E opens \in BOOLEAN : WriteAsm(opens) \/ WriteObj(opens)
    \/ \E dies \in BOOLEAN : WriteFails(dies)
    \/ \E works \in BOOLEAN : Link(works)
    \/ Exit

Finished == pc = "idle" /\ run = MaxRuns /\ UNCHANGED vars

Next == Start \/ Step \/ Finished

\* main does not wait for anybody.
Spec == Init /\ [][Next]_vars /\ WF_vars(Step)

-----------------------------------------------------------------------------
(* Properties. *)

\* The driver implements Compilation: whatever fails in a compilation, it ends,
\* and what the output file has of code comes from one compilation that found
\* no error.  None with an error, or only a warning, goes on to make code, nor
\* is code made later of an object file that it left.
Made == {c[2] : c \in {m \in out : m[1] = "code"}}

Promise == INSTANCE Compilation WITH
               MaxJobs <- MaxRuns, busy <- pc # "idle", job <- run,
               refused <- faulty, product <- Made

Compiles == Promise!Spec

\* Type invariant: files hold what some compilation so far has written.
DriverOK ==
    /\ run \in 0 .. MaxRuns /\ obj \in 0 .. run /\ faulty \subseteq 1 .. run
    /\ out \subseteq {"message", "tree", "lines", "code"} \X (1 .. run)
    /\ stdout \in {"terminal", "out", "closed"}
    /\ raw \in 0 .. NLines
    /\ pc = "report" => todo # <<>>

\* When a compilation is over its output file has nothing of an earlier one: not
\* its code, also not through the object file.  It keeps the earlier content if
\* the source or the file itself could not be opened, and gets the earlier code
\* if the object file could not.
OutputFresh ==
    pc = "done" /\ opt.to /\ lost \cap {"input", "output", "object"} = {} =>
        \A c \in out : c[2] = run

\* A compilation does not fail without a word: there is new code, or something
\* on the terminal, or the message in place of the code.  Of a file that could
\* not be opened nobody hears.
Explained ==
    pc = "done" /\ lost \cap {"output", "object"} = {} =>
        said \/ \E what \in {"code", "message"} : <<what, run>> \in out

\* What a user finds after a compilation is of that compilation, and says how it
\* went, but for files that could not be opened.
OutcomeTold == DriverOK /\ OutputFresh /\ Explained

\* Reading order.
Precedes(l1, l2) == \/ l1.line_st < l2.line_st
                    \/ l1.line_st = l2.line_st /\ l1.col_l < l2.col_l

\* All errors found are listed, each as often as it was found, in the order of
\* the text, unless the process died before.
ListedInOrder ==
    pc = "done" /\ "errors" \notin lost =>
        /\ \A i, j \in DOMAIN listed : i < j => ~ Precedes(listed[j].loc, listed[i].loc)
        /\ \A e \in {errors[i] : i \in DOMAIN errors} :
              Cardinality({i \in DOMAIN listed : listed[i] = e})
                = Cardinality({i \in DOMAIN errors : errors[i] = e})

\* The lines that are listed with an error are lines that were read, unless a
\* byte 0xFF hid them.
LinesWereRead == overrun => "lines" \in lost

\* The location of a node covers its tokens.  A token of one character at the
\* very beginning looks like none.
Covers(loc, t) == ~ Precedes(t, loc) /\ ~ EndsBefore(loc, t)

LocationCovers ==
    pc = "check" => \A t, u \in {v \in Tokens : ~ is_empty(v)} :
        Covers(NodeLoc(t, u), t) /\ Covers(NodeLoc(t, u), u)

\* Errors are shown where they are: the whole of what a node stands for, in
\* lines that were read, all of them, in the order of the text.
ErrorsShown == ListedInOrder /\ LinesWereRead /\ LocationCovers
=============================================================================
