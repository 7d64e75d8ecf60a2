--------------------------- MODULE Driver_proofs ---------------------------
(***************************************************************************)
(* The driver implements the safety part of Compilation, for any program   *)
(* and any number of compilations: each step of main is a step of the      *)
(* abstract compiler or none at all.  That compilations end is liveness,   *)
(* and checked by TLC.                                                     *)
(*                                                                         *)
(* The inductive invariant follows the list of errors through main: it is  *)
(* empty exactly if this compilation found none, up to the one test that   *)
(* decides about the generator, so that behind the test the compilation is *)
(* not faulty, and neither is what made the object file.                   *)
(*                                                                         *)
(* Upon it rests a second one, Told, for what a user finds afterwards.     *)
(***************************************************************************)
EXTENDS Driver, SequenceLemmas, FiniteSetTheorems

Before == {"open", "parse", "check"}
After == {"gen", "write", "link"}

\* The files have code of compilations that found no error.
FilesOK ==
    /\ run \in Nat
    /\ pc # "idle" => run # 0
    /\ faulty \subseteq 1 .. run
    /\ obj \in 0 .. run /\ obj \notin faulty
    /\ Made \subseteq (1 .. run) \ faulty

\* Up to the test nothing is made, and the list tells whether there are errors.
ListOK ==
    /\ IsSeq(errors)
    /\ pc \in Before => /\ Len(errors) > 0 <=> run \in faulty
                        /\ run \notin Made /\ obj # run
    /\ pc \in {"gen", "write"} => run \notin Made
    /\ pc \in After => run \notin faulty

\* What is printed to the output file is printed to one that was emptied.
StdoutOK ==
    /\ pc \in {"open", "parse"} => stdout = "terminal"
    /\ pc \in {"check", "report", "gen", "write"} /\ stdout = "out" => Made = {}

IInv == FilesOK /\ ListOK /\ StdoutOK

-----------------------------------------------------------------------------

\* The code that is in a file.
CodeOf(f) == {c[2] : c \in {m \in f : m[1] = "code"}}

\* What it means that there is code of a compilation.
LEMMA CodeMember ==
    ASSUME NEW f, NEW r
    PROVE  r \in CodeOf(f) <=> \E m \in f : m[1] = "code" /\ m[2] = r
  BY DEF CodeOf

\* Only code counts among what is in a file.
LEMMA CodeAdded ==
    ASSUME NEW f, NEW what, NEW r
    PROVE  CodeOf(f \cup {<<what, r>>}) =
           IF what = "code" THEN CodeOf(f) \cup {r} ELSE CodeOf(f)
<1> DEFINE g == f \cup {<<what, r>>}
<1>1. \A x : x \in CodeOf(g) <=> \E m \in g : m[1] = "code" /\ m[2] = x
    BY CodeMember
<1>2. \A x : x \in CodeOf(f) <=> \E m \in f : m[1] = "code" /\ m[2] = x
    BY CodeMember
<1>3. <<what, r>>[1] = what /\ <<what, r>>[2] = r
    OBVIOUS
<1>4. \A x : x \in CodeOf(g) <=> x \in CodeOf(f) \/ (what = "code" /\ x = r)
    BY <1>1, <1>2, <1>3, Zenon DEF g
<1> HIDE DEF g
<1>5. CodeOf(g) = IF what = "code" THEN CodeOf(f) \cup {r} ELSE CodeOf(f)
    BY <1>4
<1>6. QED  BY <1>5 DEF g

\* A file with nothing, and with one mark.
LEMMA CodeAlone ==
    ASSUME NEW r
    PROVE  CodeOf({}) = {} /\ CodeOf({<<"code", r>>}) = {r}
<1>1. CodeOf({}) = {}
    BY DEF CodeOf
<1>2. CodeOf({} \cup {<<"code", r>>}) = {} \cup {r}
    <2>1. PICK e : e = {}
        OBVIOUS
    <2>2. PICK what : what = "code"
        OBVIOUS
    <2>3. CodeOf(e \cup {<<what, r>>}) = CodeOf(e) \cup {r}
        BY <2>2, CodeAdded, Zenon
    <2>4. QED  BY <1>1, <2>1, <2>2, <2>3
<1>3. {} \cup {<<"code", r>>} = {<<"code", r>>} /\ {} \cup {r} = {r}
    OBVIOUS
<1>4. QED  BY <1>1, <1>2, <1>3

\* What is not code leaves the code as it is.
LEMMA PrintsNoCode ==
    ASSUME NEW what, what # "code", Prints(what)
    PROVE  Made' = Made
<1>1. CodeOf(out') = CodeOf(out)
    BY CodeAdded DEF Prints
<1>2. QED  BY <1>1 DEF CodeOf, Made

\* A file that is not written keeps its code.
LEMMA NothingMade ==
    ASSUME UNCHANGED out
    PROVE  Made' = Made
  BY DEF Made

-----------------------------------------------------------------------------
(* The initial state, and the steps. *)

\* The invariant holds before the first compilation, and so does Compilation's.
LEMMA InitFollows == Init => IInv /\ Promise!Init
<1> SUFFICES ASSUME Init PROVE IInv /\ Promise!Init
    OBVIOUS
<1>1. Made = {}
    BY CodeAlone DEF Init, Made, CodeOf
<1>2. IsSeq(errors)
    BY SeqIsSeq, EmptySeq DEF Init
<1>3. IInv
    BY <1>1, <1>2 DEF Init, IInv, FilesOK, ListOK, StdoutOK, Before, After
<1>4. Promise!Init
    BY <1>1 DEF Init, Promise!Init
<1>5. QED  BY <1>3, <1>4

\* A step that keeps the abstract state, and one that Compilation has.
Stays   == UNCHANGED <<pc # "idle", run, faulty, Made>>
Follows == IInv' /\ (Promise!Next \/ Stays)

\* A compilation begins.
LEMMA StartFollows == IInv /\ Start => Follows
<1> SUFFICES ASSUME IInv, Start PROVE Follows
    OBVIOUS
<1>1. Made' = Made
    BY NothingMade DEF Start
<1>2. IsSeq(errors') /\ Len(errors') = 0
    BY SeqIsSeq, EmptySeq DEF Start
<1>3. IInv'
    BY <1>1, <1>2 DEF IInv, FilesOK, ListOK, StdoutOK, Start, Goes, Before, After
<1>4. Promise!Call
    BY <1>1 DEF Start, Goes, Promise!Call
<1>5. QED  BY <1>3, <1>4 DEF Follows, Promise!Next

\* main's own steps that leave the output file's code and the errors alone.
LEMMA QuietFollows ==
    IInv /\ (OpenFails \/ (\E cut \in 0 .. NLines : Read(cut)) \/ Aborts \/ GenFails \/ Generated
             \/ \E opens \in BOOLEAN : WriteObj(opens))
    => Follows
<1> SUFFICES ASSUME IInv,
                    OpenFails \/ (\E cut \in 0 .. NLines : Read(cut)) \/ Aborts \/ GenFails
                    \/ Generated \/ \E opens \in BOOLEAN : WriteObj(opens)
             PROVE  Follows
    OBVIOUS
<1> USE DEF IInv, FilesOK, ListOK, StdoutOK, At, Goes, Before, After, Follows, Stays
<1>1. CASE OpenFails
  <2>1. Made' = Made
    BY <1>1, PrintsNoCode DEF OpenFails
  <2>2. QED  BY <1>1, <2>1 DEF OpenFails
<1>2. CASE \E cut \in 0 .. NLines : Read(cut)
  <2>1. Made' = Made
    BY <1>2, NothingMade DEF Read
  <2>2. QED  BY <1>2, <2>1 DEF Read
<1>3. CASE Aborts
  <2>1. Made' = Made
    BY <1>3, NothingMade DEF Aborts
  <2>2. QED  BY <1>3, <2>1 DEF Aborts
<1>4. CASE GenFails
  <2>1. Made' = Made
    BY <1>4, PrintsNoCode DEF GenFails
  <2>2. QED  BY <1>4, <2>1 DEF GenFails
<1>5. CASE Generated
  <2>1. Made' = Made
    BY <1>5, NothingMade DEF Generated
  <2>2. QED  BY <1>5, <2>1 DEF Generated
<1>6. CASE \E opens \in BOOLEAN : WriteObj(opens)
  <2>1. PICK opens \in BOOLEAN : WriteObj(opens)
    BY <1>6
  <2>2. Made' = Made
    BY <2>1, PrintsNoCode, NothingMade DEF WriteObj, NothingPrinted
  <2>3. QED  BY <2>1, <2>2 DEF WriteObj
<1>7. QED  BY <1>1, <1>2, <1>3, <1>4, <1>5, <1>6

\* An error is found before anything is made.
LEMMA ErrorFollows ==
    ASSUME IInv, NEW kind, NEW loc, AppendError(kind, loc),
           pc \in {"parse", "check"}, UNCHANGED <<pc, run, obj, out, stdout>>
    PROVE  Follows
<1>1. Made' = Made
    BY NothingMade
<1>2. IsSeq(errors') /\ Len(errors') > 0
    BY AppendShape, SeqShape DEF AppendError, IInv, ListOK
<1>3. run \in 1 .. run
    BY DEF IInv, FilesOK, ListOK, Before, AppendError
<1>4. Promise!Refuse
    BY <1>1 DEF IInv, ListOK, Before, AppendError, Promise!Refuse
<1>5. IInv'
    BY <1>1, <1>2, <1>3 DEF IInv, FilesOK, ListOK, StdoutOK, Before, After, AppendError
<1>6. QED  BY <1>4, <1>5 DEF Follows, Promise!Next

\* The output file is opened, or is not.
LEMMA RedirectFollows ==
    ASSUME IInv, NEW opens \in BOOLEAN, Redirect(opens)
    PROVE  Follows
<1> USE DEF IInv, FilesOK, ListOK, StdoutOK, At, Goes, Before, After
<1>1. CASE UNCHANGED <<stdout, out>>
  <2>1. Made' = Made
    BY <1>1, NothingMade
  <2>2. QED  BY <1>1, <2>1 DEF Redirect, Follows, Stays
<1>2. CASE stdout' = "closed" /\ UNCHANGED out
  <2>1. Made' = Made
    BY <1>2, NothingMade
  <2>2. QED  BY <1>2, <2>1 DEF Redirect, Follows, Stays
<1>3. CASE opt.to /\ opens
  <2>1. out' = {} \/ out' = {<<"tree", run>>}
    BY <1>3 DEF Redirect, Truncated
  <2>2. CodeOf({<<"tree", run>>}) = {}
    <3>1. CodeOf({} \cup {<<"tree", run>>}) = CodeOf({})
      BY CodeAdded
    <3>2. {} \cup {<<"tree", run>>} = {<<"tree", run>>}
      OBVIOUS
    <3>3. QED  BY <3>1, <3>2, CodeAlone
  <2>3. Made' = CodeOf(out')
    BY DEF Made, CodeOf
  <2>4. Made' = {}
    BY <2>1, <2>2, <2>3, CodeAlone
  <2>5. IInv'
    BY <1>3, <2>4 DEF Redirect
  <2>6. Promise!Clear
    BY <1>3, <2>4 DEF Redirect, Promise!Clear
  <2>7. QED  BY <2>5, <2>6 DEF Follows, Promise!Next
<1>4. QED  BY <1>1, <1>2, <1>3 DEF Redirect

\* The one test: with errors it reports, without it goes on.
LEMMA CheckedFollows == IInv /\ Checked => Follows
<1> SUFFICES ASSUME IInv, Checked PROVE Follows
    OBVIOUS
<1>1. Made' = Made
    BY PrintsNoCode, NothingMade DEF Checked, NothingPrinted
<1>2. Len(errors) \in Nat
    BY SeqShape DEF IInv, ListOK
<1>3. QED
    BY <1>1, <1>2 DEF Checked, Errors, IsRefused, IInv, FilesOK, ListOK, StdoutOK, At, Goes,
                      Before, After, Follows, Stays

\* A report writes lines of the program, no code.
LEMMA ReportFollows == IInv /\ Report => Follows
<1> SUFFICES ASSUME IInv, Report PROVE Follows
    OBVIOUS
<1>1. out' = out \/ out' = out \cup {<<"lines", run>>}
    BY DEF Report
<1>2. Made' = CodeOf(out') /\ Made = CodeOf(out)
    BY DEF Made, CodeOf
<1>3. CodeOf(out \cup {<<"lines", run>>}) = CodeOf(out)
    BY CodeAdded
<1>4. Made' = Made
    BY <1>1, <1>2, <1>3
<1>5. pc' \in {"report", "done"}
    BY DEF Report, Goes
<1>6. QED
    BY <1>4, <1>5 DEF Report, IInv, FilesOK, ListOK, StdoutOK, At, Before, After, Follows, Stays

-----------------------------------------------------------------------------
(* Code is made. *)

\* Code of compilation made, which found no error, fills the output file.
LEMMA MakeFollows ==
    ASSUME IInv, NEW made, made \in (1 .. run) \ faulty, Made' = {made}, pc \in After, pc' = "done",
           UNCHANGED <<run, faulty, obj, errors, stdout>>
    PROVE  Follows
<1>1. IInv'
    BY DEF IInv, FilesOK, ListOK, StdoutOK, Before, After
<1>2. Promise!Make(made)
    BY DEF IInv, ListOK, After, Promise!Make
<1>3. QED  BY <1>1, <1>2 DEF IInv, FilesOK, Follows, Promise!Next

\* A compilation that writes is one without an error.
LEMMA Numbered == IInv /\ pc \in After => run \in (1 .. run) \ faulty
  BY DEF IInv, FilesOK, ListOK, After

\* The code is printed, or written to the output file.
LEMMA WriteFollows ==
    IInv /\ (WriteIR \/ \E opens \in BOOLEAN : WriteAsm(opens)) => Follows
<1> SUFFICES ASSUME IInv, WriteIR \/ \E opens \in BOOLEAN : WriteAsm(opens) PROVE Follows
    OBVIOUS
<1>1. /\ pc = "write" /\ pc' = "done"
      /\ UNCHANGED <<run, faulty, obj, errors, stdout>>
    BY DEF WriteIR, WriteAsm, At, Goes
<1>2. Made' = CodeOf(out') /\ Made = CodeOf(out)
    BY DEF Made, CodeOf
<1>3. CASE Made' = Made
  <2>1. QED
    BY <1>1, <1>3 DEF IInv, FilesOK, ListOK, StdoutOK, Before, After, Follows, Stays
<1>4. CASE WriteIR /\ stdout = "out"
  <2>1. Made' = Made \cup {run}
    BY <1>2, <1>4, CodeAdded DEF WriteIR, Prints
  <2>2. Made' = {run}
    BY <1>1, <1>4, <2>1 DEF IInv, StdoutOK
  <2>3. QED  BY <1>1, <2>2, MakeFollows, Numbered DEF After
<1>5. CASE WriteIR /\ stdout # "out"
  <2>1. QED  BY <1>3, <1>5, NothingMade DEF WriteIR, Prints
<1>6. CASE \E opens \in BOOLEAN : WriteAsm(opens)
  <2>1. PICK opens \in BOOLEAN : WriteAsm(opens)
    BY <1>6
  <2>2. CASE opens
    <3>1. Made' = {run}
      BY <1>2, <2>1, <2>2, CodeAlone DEF WriteAsm
    <3>2. QED  BY <1>1, <3>1, MakeFollows, Numbered DEF After
  <2>3. CASE ~ opens
    <3>1. Made' = Made
      BY <2>1, <2>3, PrintsNoCode DEF WriteAsm
    <3>2. QED  BY <1>3, <3>1
  <2>4. QED  BY <2>1, <2>2, <2>3
<1>7. QED  BY <1>4, <1>5, <1>6

\* What write_llvm_file has begun is no code: of the output file nothing is left,
\* or nothing is changed.
LEMMA WriteFailsFollows ==
    ASSUME IInv, NEW dies \in BOOLEAN, WriteFails(dies)
    PROVE  Follows
<1>1. /\ pc = "write" /\ pc' = "done"
      /\ UNCHANGED <<run, faulty, errors, stdout>>
      /\ obj' = 0 \/ obj' = obj
    BY DEF WriteFails, At, Goes
<1>2. PICK begun : /\ begun = {} \/ begun = out
                   /\ out' = begun \/ out' = begun \cup {<<"message", run>>}
    BY DEF WriteFails, Truncated
<1>3. CodeOf(begun \cup {<<"message", run>>}) = CodeOf(begun)
    BY CodeAdded
<1>4. Made' = CodeOf(out') /\ Made = CodeOf(out)
    BY DEF Made, CodeOf
<1>5. Made' = CodeOf(begun)
    BY <1>2, <1>3, <1>4
<1>6. Made' = {} \/ Made' = Made
    BY <1>2, <1>4, <1>5, CodeAlone
<1>7. IInv'
  <2>1. 0 \notin faulty /\ 0 \in 0 .. run
    BY DEF IInv, FilesOK
  <2>2. FilesOK'
    BY <1>1, <1>6, <2>1 DEF IInv, FilesOK
  <2>3. ListOK' /\ StdoutOK'
    BY <1>1 DEF IInv, ListOK, StdoutOK, Before, After
  <2>4. QED  BY <2>2, <2>3 DEF IInv
<1>8. CASE Made' = {}
  <2>1. Promise!Clear
    BY <1>1, <1>8 DEF IInv, ListOK, Promise!Clear
  <2>2. QED  BY <1>7, <2>1 DEF Follows, Promise!Next
<1>9. CASE Made' = Made
    BY <1>1, <1>7, <1>9 DEF Follows, Stays
<1>10. QED  BY <1>6, <1>8, <1>9

\* The linker makes a program of what the object file holds, or none.
LEMMA LinkFollows ==
    ASSUME IInv, NEW works \in BOOLEAN, Link(works)
    PROVE  Follows
<1>1. /\ pc = "link" /\ pc' = "done"
      /\ UNCHANGED <<run, faulty, obj, errors, stdout>>
    BY DEF Link, At, Goes
<1>2. CASE works
  <2>1. Made' = {obj}
    BY <1>2, CodeAlone DEF Link, Made, CodeOf
  <2>2. obj \in (1 .. run) \ faulty
    BY <1>2 DEF Link, IInv, FilesOK
  <2>3. QED  BY <1>1, <2>1, <2>2, MakeFollows DEF After
<1>3. CASE ~ works
  <2>1. Made' = Made
    BY <1>3, NothingMade DEF Link
  <2>2. QED
    BY <1>1, <2>1 DEF IInv, FilesOK, ListOK, StdoutOK, Before, After, Follows, Stays
<1>4. QED  BY <1>2, <1>3

\* The process ends.
LEMMA ExitFollows == IInv /\ Exit => Follows
<1> SUFFICES ASSUME IInv, Exit PROVE Follows
    OBVIOUS
<1>1. Made' = Made
    BY NothingMade DEF Exit
<1>2. IInv'
    BY <1>1 DEF Exit, At, Goes, IInv, FilesOK, ListOK, StdoutOK, Before, After
<1>3. Promise!End
    BY <1>1 DEF Exit, At, Goes, Promise!End
<1>4. QED  BY <1>2, <1>3 DEF Follows, Promise!Next

\* What changes nothing.
LEMMA StutterFollows == IInv /\ UNCHANGED vars => Follows
<1> SUFFICES ASSUME IInv, UNCHANGED vars PROVE Follows
    OBVIOUS
<1>1. Made' = Made
    BY NothingMade DEF vars
<1>2. QED
    BY <1>1 DEF vars, IInv, FilesOK, ListOK, StdoutOK, Before, After, Follows, Stays

-----------------------------------------------------------------------------

\* Every step of main keeps the invariant and follows Compilation.
LEMMA NextFollows == IInv /\ [Next]_vars => Follows
<1> SUFFICES ASSUME IInv, Next \/ UNCHANGED vars PROVE Follows
    OBVIOUS
<1>1. CASE Step
  <2>1. CASE SyntaxError
    <3>1. PICK loc \in SyntaxLocs : AppendError("syntax", loc)
      BY <2>1 DEF SyntaxError
    <3>2. QED  BY <2>1, <3>1, ErrorFollows DEF SyntaxError, At
  <2>2. CASE \E kind \in Findings : SemanticError(kind)
    <3>1. PICK kind \in Findings : SemanticError(kind)
      BY <2>2
    <3>2. PICK loc \in NodeLocs \cup {Locator} : AppendError(kind, loc)
      BY <3>1 DEF SemanticError
    <3>3. QED  BY <3>1, <3>2, ErrorFollows DEF SemanticError, At
  <2>3. QED
    BY <1>1, <2>1, <2>2, QuietFollows, RedirectFollows, CheckedFollows, ReportFollows,
       WriteFollows, WriteFailsFollows, LinkFollows, ExitFollows DEF Step
<1>2. CASE Start
    BY <1>2, StartFollows
<1>3. CASE Finished \/ UNCHANGED vars
    BY <1>3, StutterFollows DEF Finished
<1>4. QED  BY <1>1, <1>2, <1>3 DEF Next

\* The invariant holds in every state of the driver.
THEOREM IInvHolds == Spec => []IInv
<1>1. IInv /\ [Next]_vars => IInv'
    BY NextFollows DEF Follows
<1>2. QED  BY <1>1, InitFollows, PTL DEF Spec

\* The driver implements the safety of Compilation: the output file has code of
\* one compilation that found no error, or none, whatever fails and however
\* many compilations follow each other (main in src/main.cpp).
THEOREM Implements == Spec => Promise!Safety
<1>1. IInv /\ [Next]_vars => [Promise!Next]_(Promise!vars)
    BY NextFollows DEF Follows, Stays, Promise!vars
<1>2. QED
    BY <1>1, InitFollows, IInvHolds, PTL DEF Spec, Promise!Safety
-----------------------------------------------------------------------------
(* The outcome of a compilation.  What makes OutcomeTold inductive: from   *)
(* the moment the output file is opened it holds nothing old, or the       *)
(* failure is known; the object file is of this compilation when the       *)
(* linker is run, or it could not be written; a closed stdout has a reason *)
(* and the list of errors is a sequence as it is worked off.               *)

Late == {"check", "report", "gen", "write", "link", "done"}

Fresh == pc \in Late /\ opt.to /\ lost \cap {"input", "output", "object"} = {} =>
             \A c \in out : c[2] = run

Linked == pc = "link" /\ opt.to /\ "object" \notin lost => obj = run

StdoutKnown == /\ stdout = "closed" => "output" \in lost
               /\ pc = "open" => stdout = "terminal"

Told == DriverOK /\ Fresh /\ Linked /\ StdoutKnown /\ Explained /\ (pc = "report" => IsSeq(todo))

\* What is printed is of this compilation, and is seen if stdout leads anywhere.
LEMMA PrintedNow ==
    ASSUME NEW what \in {"message", "tree", "lines", "code"}, Prints(what), UNCHANGED run,
           IInv, pc # "idle", DriverOK
    PROVE  /\ out' \subseteq {"message", "tree", "lines", "code"} \X (1 .. run)
           /\ (\A c \in out : c[2] = run) => \A c \in out' : c[2] = run
           /\ stdout = "terminal" => said'
           /\ stdout = "out" => <<what, run>> \in out'
           /\ said => said'
<1> DEFINE marks == {"message", "tree", "lines", "code"}
<1>1. run \in 1 .. run
    BY DEF IInv, FilesOK
<1>2. out \subseteq marks \X (1 .. run)
    BY DEF DriverOK
<1>3. out' = out \/ out' = out \cup {<<what, run>>}
    BY DEF Prints
<1>4. out' \subseteq marks \X (1 .. run)
    BY <1>1, <1>2, <1>3
<1>5. (\A c \in out : c[2] = run) => \A c \in out' : c[2] = run
    BY <1>3
<1>6. stdout = "out" => <<what, run>> \in out'
    BY DEF Prints
<1>7. (stdout = "terminal" => said') /\ (said => said')
    BY DEF Prints
<1>8. QED  BY <1>4, <1>5, <1>6, <1>7

\* One of the errors is taken off the list.
LEMMA WithoutShape ==
    ASSUME NEW s, IsSeq(s), NEW i, Len(s) > 1
    PROVE  IsSeq(Without(s, i)) /\ Without(s, i) # <<>>
<1> DEFINE r == Without(s, i)
           n == Len(s) - 1
<1>0. Len(s) \in Nat
    BY SeqShape
<1>1. n \in Nat /\ n # 0
  <2>1. \A m \in Nat : m > 1 => m - 1 \in Nat /\ m - 1 # 0
    OBVIOUS
  <2>2. QED  BY <1>0, <2>1, Zenon
<1>2. r = [k \in 1 .. n |-> r[k]]
    BY DEF Without
<1> HIDE DEF r, n
<1>3. IsSeq(r) /\ Len(r) = n
    BY <1>1, <1>2, FunctionShape
<1>4. r # <<>>
    BY <1>1, <1>3, SeqShape
<1>5. QED  BY <1>3, <1>4 DEF r

\* Before the first compilation there is nothing to tell.
LEMMA InitTold == Init => Told
  BY DriverAssumption DEF Init, Told, DriverOK, Fresh, Linked, StdoutKnown, Explained, Late

\* A compilation begins, and knows of no failure.
LEMMA StartTold == IInv /\ Told /\ Start => Told'
  BY DriverAssumption DEF IInv, FilesOK, Start, Goes, Told, DriverOK, Fresh, Linked, StdoutKnown, Explained, Late

\* The source is opened and read, or not.
LEMMA OpenTold ==
    IInv /\ Told /\ (OpenFails \/ \E cut \in 0 .. NLines : Read(cut)) => Told'
<1> SUFFICES ASSUME IInv, Told, OpenFails \/ \E cut \in 0 .. NLines : Read(cut) PROVE Told'
    OBVIOUS
<1> USE DEF Told, DriverOK, Fresh, Linked, StdoutKnown, Explained, Late, At, Goes
<1>1. CASE OpenFails
  <2>1. /\ out' \subseteq {"message", "tree", "lines", "code"} \X (1 .. run)
        /\ said'
    BY <1>1, PrintedNow DEF OpenFails
  <2>2. QED  BY <1>1, <2>1 DEF OpenFails
<1>2. CASE \E cut \in 0 .. NLines : Read(cut)
  <2>1. PICK cut \in 0 .. NLines : Read(cut)
    BY <1>2
  <2>2. raw' \in 0 .. NLines
    BY <2>1, DriverAssumption DEF Read, RawLines
  <2>3. QED  BY <2>1, <2>2 DEF Read
<1>3. QED  BY <1>1, <1>2

\* The output file is opened, or not.
LEMMA RedirectTold ==
    ASSUME IInv, Told, NEW opens \in BOOLEAN, Redirect(opens)
    PROVE  Told'
<1> USE DEF Told, DriverOK, Fresh, Linked, StdoutKnown, Explained, Late, At, Goes
<1>1. run \in 1 .. run
    BY DEF IInv, FilesOK, Redirect
<1>2. CASE ~ opt.to
    BY <1>2 DEF Redirect
<1>3. CASE opt.to /\ opens
  <2>1. \A c \in out' : c = <<"tree", run>>
    BY <1>3 DEF Redirect, Truncated
  <2>2. \A c \in out' : c[2] = run /\ c \in {"message", "tree", "lines", "code"} \X (1 .. run)
    BY <1>1, <2>1
  <2>3. QED  BY <1>3, <2>2 DEF Redirect
<1>4. CASE opt.to /\ ~ opens
    BY <1>4 DEF Redirect
<1>5. QED  BY <1>2, <1>3, <1>4

\* The phases find errors, or the process dies in one.
LEMMA PhaseTold ==
    IInv /\ Told /\ (SyntaxError \/ (\E kind \in Findings : SemanticError(kind)) \/ Aborts \/ Generated)
    => Told'
<1> SUFFICES ASSUME IInv, Told,
                    SyntaxError \/ (\E kind \in Findings : SemanticError(kind)) \/ Aborts \/ Generated
             PROVE  Told'
    OBVIOUS
<1>1. run \in 1 .. run
    BY DEF IInv, FilesOK, SyntaxError, SemanticError, Aborts, Generated, At
<1>2. UNCHANGED faulty \/ faulty' = faulty \cup {run}
    BY DEF SyntaxError, SemanticError, AppendError, Aborts, Generated
<1>3. faulty' \subseteq 1 .. run
    BY <1>1, <1>2 DEF IInv, FilesOK
<1>4. QED
    BY <1>3 DEF Told, DriverOK, Fresh, Linked, StdoutKnown, Explained, Late, At, Goes,
                SyntaxError, SemanticError, Aborts, Generated

\* The one test.
LEMMA CheckedTold == IInv /\ Told /\ Checked => Told'
<1> SUFFICES ASSUME IInv, Told, Checked PROVE Told'
    OBVIOUS
<1>1. /\ out' \subseteq {"message", "tree", "lines", "code"} \X (1 .. run)
      /\ (\A c \in out : c[2] = run) => \A c \in out' : c[2] = run
  <2>1. CASE NothingPrinted
      BY <2>1 DEF NothingPrinted, Told, DriverOK
  <2>2. CASE Prints("tree")
      BY <2>2, PrintedNow DEF Checked, At, Told
  <2>3. QED  BY <2>1, <2>2 DEF Checked
<1>2. pc' = "report" => IsSeq(todo') /\ todo' # <<>>
  <2>1. IsSeq(errors)
      BY DEF IInv, ListOK
  <2>2. Len(errors) > 0 => errors # <<>>
      BY <2>1, SeqShape
  <2>3. QED  BY <2>1, <2>2 DEF Checked, Goes, Errors, IsRefused
<1>3. pc' \in {"report", "gen"} /\ pc = "check"
    BY DEF Checked, Goes, At
<1>4. QED
    BY <1>1, <1>2, <1>3
    DEF Told, DriverOK, Fresh, Linked, StdoutKnown, Explained, Late, At, Checked

\* An error is listed, one after the other.
LEMMA ReportTold == IInv /\ Told /\ Report => Told'
<1> SUFFICES ASSUME IInv, Told, Report PROVE Told'
    OBVIOUS
<1>1. run \in 1 .. run
    BY DEF IInv, FilesOK, Report, At
<1>2. out' = out \/ out' = out \cup {<<"lines", run>>}
    BY DEF Report
<1>3. /\ out' \subseteq {"message", "tree", "lines", "code"} \X (1 .. run)
      /\ (\A c \in out : c[2] = run) => \A c \in out' : c[2] = run
    BY <1>1, <1>2 DEF Told, DriverOK
<1>4. pc' = "report" => IsSeq(todo') /\ todo' # <<>>
  <2>1. SUFFICES ASSUME pc' = "report" PROVE IsSeq(todo') /\ todo' # <<>>
      OBVIOUS
  <2>2. IsSeq(todo) /\ todo # <<>> /\ Len(todo) # 1
      BY <2>1 DEF Told, DriverOK, Report, Goes, At
  <2>3. Len(todo) \in Nat /\ Len(todo) # 0
      BY <2>2, SeqShape
  <2>4. PICK i \in DOMAIN todo : todo' = Without(todo, i)
      BY DEF Report
  <2>5. Len(todo) > 1
      BY <2>2, <2>3
  <2>6. QED  BY <2>2, <2>4, <2>5, WithoutShape
<1>5. pc' \in {"report", "done"} /\ pc = "report" /\ said'
    BY DEF Report, Goes, At
<1>6. QED
    BY <1>3, <1>4, <1>5
    DEF Told, DriverOK, Fresh, Linked, StdoutKnown, Explained, Late, At, Report

\* The generator fails, or its code is printed.
LEMMA PrintTold == IInv /\ Told /\ (GenFails \/ WriteIR) => Told'
<1> SUFFICES ASSUME IInv, Told, NEW what \in {"message", "code"}, Prints(what),
                    pc \in Late, pc # "done", pc' = "done",
                    UNCHANGED <<run, opt, raw, errors, todo, listed, stdout, obj, faulty, overrun, lost>>
             PROVE  Told'
    BY DEF GenFails, WriteIR, At, Goes, Late
<1>1. /\ out' \subseteq {"message", "tree", "lines", "code"} \X (1 .. run)
      /\ (\A c \in out : c[2] = run) => \A c \in out' : c[2] = run
      /\ stdout = "terminal" => said'
      /\ stdout = "out" => <<what, run>> \in out'
    BY PrintedNow DEF Told, Late
<1>2. QED
    BY <1>1 DEF Told, DriverOK, Fresh, Linked, StdoutKnown, Explained, Late

\* The code is written to a file of its own.
LEMMA WriteTold ==
    ASSUME IInv, Told, NEW opens \in BOOLEAN, WriteAsm(opens) \/ WriteObj(opens)
    PROVE  Told'
<1> USE DEF Told, DriverOK, Fresh, Linked, StdoutKnown, Explained, Late, At, Goes
<1>1. run \in 1 .. run
    BY DEF IInv, FilesOK, WriteAsm, WriteObj
<1>2. CASE WriteAsm(opens) /\ opens
  <2>1. \A c \in out' : c[2] = run /\ c \in {"message", "tree", "lines", "code"} \X (1 .. run)
    BY <1>1, <1>2 DEF WriteAsm
  <2>2. <<"code", run>> \in out'
    BY <1>2 DEF WriteAsm
  <2>3. QED  BY <1>2, <2>1, <2>2 DEF WriteAsm
<1>3. CASE WriteAsm(opens) /\ ~ opens
  <2>1. out' \subseteq {"message", "tree", "lines", "code"} \X (1 .. run)
    BY <1>3, PrintedNow DEF WriteAsm
  <2>2. QED  BY <1>3, <2>1 DEF WriteAsm
<1>4. CASE WriteObj(opens) /\ opens
  <2>1. UNCHANGED out /\ obj' \in 0 .. run
    BY <1>1, <1>4 DEF WriteObj, NothingPrinted
  <2>2. QED  BY <1>4, <2>1 DEF WriteObj
<1>5. CASE WriteObj(opens) /\ ~ opens
  <2>1. out' \subseteq {"message", "tree", "lines", "code"} \X (1 .. run)
    BY <1>5, PrintedNow DEF WriteObj
  <2>2. QED  BY <1>5, <2>1 DEF WriteObj
<1>6. QED  BY <1>2, <1>3, <1>4, <1>5

\* Writing fails, and the message takes the place of the code, or is seen.
LEMMA WriteFailsTold ==
    ASSUME IInv, Told, NEW dies \in BOOLEAN, WriteFails(dies)
    PROVE  Told'
<1>1. run \in 1 .. run
    BY DEF IInv, FilesOK, WriteFails, At
<1>2. PICK begun : /\ begun = {} \/ begun = out
                   /\ out' = begun \/ out' = begun \cup {<<"message", run>>}
    BY DEF WriteFails, Truncated
<1>3. begun \subseteq {"message", "tree", "lines", "code"} \X (1 .. run)
    BY <1>2 DEF Told, DriverOK
<1>4. out' \subseteq {"message", "tree", "lines", "code"} \X (1 .. run)
    BY <1>1, <1>2, <1>3
<1>5. (\A c \in out : c[2] = run) => \A c \in out' : c[2] = run
    BY <1>2
<1>6. said' \/ <<"message", run>> \in out' \/ "output" \in lost
    BY DEF WriteFails, Told, DriverOK, StdoutKnown
<1>7. /\ pc = "write" /\ pc' = "done" /\ (obj' = 0 \/ obj' = obj)
      /\ UNCHANGED <<run, opt, raw, todo, stdout, faulty, lost>>
    BY DEF WriteFails, At, Goes
<1>8. QED
    BY <1>4, <1>5, <1>6, <1>7 DEF IInv, FilesOK, Told, DriverOK, Fresh, Linked, StdoutKnown, Explained, Late

\* The linker is run, and works or says why not.
LEMMA LinkTold ==
    ASSUME IInv, Told, NEW works \in BOOLEAN, Link(works)
    PROVE  Told'
<1> USE DEF Told, DriverOK, Fresh, Linked, StdoutKnown, Explained, Late, At, Goes
<1>1. CASE works
  <2>1. out' = {<<"code", obj>>} /\ obj \in 1 .. run /\ opt.to
    BY <1>1 DEF Link, IInv, FilesOK
  <2>2. out' \subseteq {"message", "tree", "lines", "code"} \X (1 .. run)
    BY <2>1
  <2>3. "object" \notin lost => obj = run
    BY <2>1 DEF Link
  <2>4. QED  BY <1>1, <2>1, <2>2, <2>3 DEF Link
<1>2. CASE ~ works
    BY <1>2 DEF Link
<1>3. QED  BY <1>1, <1>2

\* Every step of the driver.
LEMMA NextTold == IInv /\ Told /\ [Next]_vars => Told'
<1> SUFFICES ASSUME IInv, Told, Next \/ UNCHANGED vars PROVE Told'
    OBVIOUS
<1>1. CASE Step
  <2>1. CASE Exit
      BY <2>1 DEF Exit, At, Goes, Told, DriverOK, Fresh, Linked, StdoutKnown, Explained, Late
  <2>2. QED
      BY <1>1, <2>1, OpenTold, RedirectTold, PhaseTold, CheckedTold, ReportTold, PrintTold,
         WriteTold, WriteFailsTold, LinkTold DEF Step
<1>2. CASE Start
    BY <1>2, StartTold
<1>3. CASE Finished \/ UNCHANGED vars
  <2>1. UNCHANGED vars
      BY <1>3 DEF Finished
  <2>2. DriverOK'
      BY <2>1 DEF vars, Told, DriverOK
  <2>3. Fresh' /\ Linked'
      BY <2>1 DEF vars, Told, Fresh, Linked, Late
  <2>4. StdoutKnown' /\ Explained'
      BY <2>1 DEF vars, Told, StdoutKnown, Explained
  <2>5. QED
      BY <2>1, <2>2, <2>3, <2>4 DEF vars, Told
<1>4. QED  BY <1>1, <1>2, <1>3 DEF Next

\* After a compilation the output file has nothing of an earlier one, and the
\* user was told how it went, whatever the options and whatever fails, but for
\* files that could not be opened (main in src/main.cpp).
THEOREM OutcomeIsTold == Spec => []OutcomeTold
<1>1. Told => OutcomeTold
    BY DEF Told, DriverOK, Fresh, OutcomeTold, OutputFresh, Explained, Late
<1>2. QED  BY <1>1, InitTold, NextTold, IInvHolds, PTL DEF Spec
-----------------------------------------------------------------------------
(* The errors that are shown.  First the locations: where an error may be  *)
(* is in the text, and of some places in the text one comes first.         *)

\* A place that is shown with its lines is in the text.
InText(loc) == loc \in Span /\ (has_value(loc) => loc.line_ed < NLines)

\* Of some spans one comes before all others, or begins where they begin.
LEMMA FirstSpan ==
    ASSUME NEW S \in SUBSET Span, S # {}
    PROVE  \E t \in S : \A u \in S : ~ Less(u, t)
<1> DEFINE lines == {t.line_st : t \in S}
<1>1. lines \subseteq Nat /\ lines # {}
    BY DEF Span
<1> HIDE DEF lines
<1>2. PICK l \in lines : \A k \in lines : l <= k
    BY <1>1, LeastNumber
<1> DEFINE starts == {t.col_l : t \in {v \in S : v.line_st = l}}
<1>3. starts \subseteq Nat /\ starts # {}
    BY DEF Span, lines
<1> HIDE DEF starts
<1>4. PICK c \in starts : \A k \in starts : c <= k
    BY <1>3, LeastNumber
<1>5. PICK t \in S : t.line_st = l /\ t.col_l = c
    BY DEF starts
<1>6. ASSUME NEW u \in S PROVE ~ Less(u, t)
  <2>1. l <= u.line_st
    BY <1>2 DEF lines
  <2>2. u.line_st = l => c <= u.col_l
    BY <1>4 DEF starts
  <2>3. QED  BY <1>5, <2>1, <2>2 DEF Less, Span
<1>7. QED  BY <1>6

\* The place of a node is in the text.
LEMMA NodeInText ==
    ASSUME NEW loc \in NodeLocs
    PROVE  loc \in Span /\ loc.line_ed < NLines
<1>1. PICK t \in Tokens, u \in Tokens : loc = NodeLoc(t, u)
    BY DEF NodeLocs
<1>2. /\ t \in Span /\ t.line_ed < NLines
      /\ u \in Span /\ u.line_ed < NLines
    BY DriverAssumption, TokenAssumption
<1>3. Merged(Locator, t) = t
    BY DEF Merged, is_empty
<1>4. loc = t \/ loc = u \/ loc = locator_merge(t, u)
    BY <1>1, <1>3 DEF NodeLoc, Merged
<1>5. locator_merge(t, u) \in Span /\ locator_merge(t, u).line_ed < NLines
    BY <1>2 DEF locator_merge, Span
<1>6. QED  BY <1>2, <1>4, <1>5

\* So is the place behind it, and the token that follows.
LEMMA NextInText ==
    ASSUME NEW loc \in NodeLocs, NEW next \in next_loc(loc)
    PROVE  next \in Span /\ next.line_ed < NLines
<1>1. \A t \in Tokens : t \in Span /\ t.line_ed < NLines
    BY DriverAssumption, TokenAssumption
<1>2. CASE is_empty(loc)
    BY <1>1, <1>2 DEF next_loc
<1>3. CASE ~ is_empty(loc)
  <2> DEFINE later == {t \in Tokens : ~ Less(t, Behind(loc))}
  <2>1. next = get_next_locator(loc)
    BY <1>3 DEF next_loc
  <2>2. CASE later = {}
    <3>1. next = Behind(loc)
      BY <2>1, <2>2 DEF get_next_locator
    <3>2. QED  BY <3>1, NodeInText DEF Behind, Span
  <2>3. CASE later # {}
    <3>1. \E t \in later : \A u \in later : ~ Less(u, t)
      BY <1>1, <2>3, FirstSpan
    <3>2. next \in later
      BY <2>1, <2>3, <3>1 DEF get_next_locator
    <3>3. QED  BY <1>1, <3>2
  <2>4. QED  BY <2>2, <2>3
<1>4. QED  BY <1>2, <1>3

\* Where an error may be.
LEMMA ErrorInText ==
    ASSUME NEW loc \in SyntaxLocs \cup NodeLocs \cup {Locator}
    PROVE  InText(loc)
<1>1. CASE loc \in Tokens
    BY <1>1, DriverAssumption, TokenAssumption DEF InText
<1>2. CASE loc \in NodeLocs
    BY <1>2, NodeInText DEF InText
<1>3. CASE loc = Locator
    BY <1>3 DEF InText, Locator, Span, has_value
<1>4. CASE loc \in UNION {next_loc(n) : n \in NodeLocs}
  <2>1. PICK n \in NodeLocs : loc \in next_loc(n)
    BY <1>4
  <2>2. QED  BY <2>1, NextInText DEF InText
<1>5. QED  BY <1>1, <1>2, <1>3, <1>4 DEF SyntaxLocs

\* The place of a node covers its tokens.
LEMMA NodeCovers == LocationCovers
<1> SUFFICES ASSUME NEW t \in Tokens, NEW u \in Tokens, ~ is_empty(t), ~ is_empty(u)
             PROVE  Covers(NodeLoc(t, u), t) /\ Covers(NodeLoc(t, u), u)
    BY DEF LocationCovers
<1>1. t \in Span /\ u \in Span
    BY DriverAssumption
<1>2. NodeLoc(t, u) = locator_merge(t, u)
    BY DEF NodeLoc, Merged, is_empty
<1>3. QED
    BY <1>1, <1>2 DEF locator_merge, Covers, Precedes, EndsBefore, Less, Span
-----------------------------------------------------------------------------
(* Then the lists.  What is counted of an error in errors is counted in    *)
(* what was listed and what is still to be listed; what was listed is in   *)
(* order, and nothing in it comes behind what is still to be listed.       *)

Count(s, e) == Cardinality({i \in DOMAIN s : s[i] = e})

InOrder(s) == \A i, j \in DOMAIN s : i < j => ~ Less(s[j].loc, s[i].loc)
Ahead(s, r) == \A i \in DOMAIN s : \A j \in DOMAIN r : ~ Less(r[j].loc, s[i].loc)
Located(s) == IsSeq(s) /\ \A i \in DOMAIN s : InText(s[i].loc)

Listing == {"report", "gen", "write", "link", "done"}

ListsFit ==
    /\ Located(errors) /\ Located(todo) /\ Located(listed)
    /\ pc = "open" => errors = <<>>
    /\ pc \in Before => todo = <<>> /\ listed = <<>>
    /\ pc \in Listing /\ "errors" \notin lost =>
          /\ \A e : Count(listed, e) + Count(todo, e) = Count(errors, e)
          /\ InOrder(listed) /\ Ahead(listed, todo)
          /\ pc # "report" => todo = <<>>

LinesFit ==
    /\ pc \in {"parse", "check", "report"} /\ "lines" \notin lost => raw = NLines
    /\ overrun => "lines" \in lost

\* Some of the positions of a list.
LEMMA PositionsFinite ==
    ASSUME NEW s, IsSeq(s), NEW e
    PROVE  IsFiniteSet({i \in DOMAIN s : s[i] = e}) /\ Count(s, e) \in Nat
<1> DEFINE P == {i \in DOMAIN s : s[i] = e}
<1>1. Len(s) \in Nat /\ DOMAIN s = 1 .. Len(s)
    BY SeqShape
<1>2. IsFiniteSet(DOMAIN s)
    BY <1>1, FS_Interval
<1>3. IsFiniteSet(P)
    BY <1>2, FS_Subset
<1>4. Cardinality(P) \in Nat
    BY <1>3, FS_CardinalityType
<1>5. QED  BY <1>3, <1>4 DEF Count

\* Nothing is counted in an empty list.
LEMMA CountNone == \A e : Count(<<>>, e) = 0
<1> SUFFICES ASSUME NEW e PROVE Count(<<>>, e) = 0
    OBVIOUS
<1>1. {i \in DOMAIN <<>> : <<>>[i] = e} = {}
    OBVIOUS
<1>2. QED  BY <1>1, FS_EmptySet DEF Count

\* What is added at the end of a list is counted.
LEMMA CountAppended ==
    ASSUME NEW s, IsSeq(s), NEW x, NEW e
    PROVE  Count(Append(s, x), e) = IF x = e THEN Count(s, e) + 1 ELSE Count(s, e)
<1> DEFINE r == Append(s, x)
           P == {i \in DOMAIN s : s[i] = e}
           Q == {i \in DOMAIN r : r[i] = e}
<1>1. Len(s) \in Nat /\ DOMAIN s = 1 .. Len(s)
    BY SeqShape
<1>2. IsSeq(r) /\ Len(r) = Len(s) + 1 /\ (\A i \in 1 .. Len(s) : r[i] = s[i]) /\ r[Len(s) + 1] = x
    BY AppendShape
<1>3. DOMAIN r = 1 .. Len(r)
    BY <1>2, SeqShape
<1> HIDE DEF r
<1> DEFINE n == Len(s)
<1>4. /\ n \in Nat /\ DOMAIN s = 1 .. n /\ DOMAIN r = 1 .. n + 1
      /\ (\A i \in 1 .. n : r[i] = s[i]) /\ r[n + 1] = x
    BY <1>1, <1>2, <1>3
<1> HIDE DEF n
<1>5. Q = IF x = e THEN P \cup {n + 1} ELSE P
    BY <1>4
<1>6. n + 1 \notin P
    BY <1>4
<1>7. IsFiniteSet(P)
    BY PositionsFinite
<1> HIDE DEF P, Q
<1>8. Cardinality(Q) = IF x = e THEN Cardinality(P) + 1 ELSE Cardinality(P)
    BY <1>5, <1>6, <1>7, FS_AddElement
<1>9. QED  BY <1>8 DEF Count, P, Q, r

\* What is left of a list when one of it is taken out.
LEMMA WithoutIs ==
    ASSUME NEW s, IsSeq(s), NEW i \in DOMAIN s
    PROVE  /\ IsSeq(Without(s, i))
           /\ DOMAIN Without(s, i) = 1 .. Len(s) - 1
           /\ \A k \in 1 .. Len(s) - 1 : Without(s, i)[k] = IF k < i THEN s[k] ELSE s[k + 1]
<1> DEFINE r == Without(s, i)
<1>1. Len(s) \in Nat /\ i \in 1 .. Len(s)
    BY SeqShape
<1>2. PICK n \in Nat : n = Len(s) - 1
  <2>1. \A m \in Nat : \A k \in 1 .. m : \E n \in Nat : n = m - 1
    OBVIOUS
  <2>2. QED  BY <1>1, <2>1, Zenon
<1>3. r = [k \in 1 .. n |-> r[k]]
    BY <1>2 DEF Without
<1>4. DOMAIN r = 1 .. n /\ \A k \in 1 .. n : r[k] = IF k < i THEN s[k] ELSE s[k + 1]
    BY <1>2 DEF Without
<1> HIDE DEF r
<1>5. IsSeq(r)
    BY <1>3, FunctionShape
<1>6. QED  BY <1>2, <1>4, <1>5 DEF r

\* It is counted once less.
LEMMA CountWithout ==
    ASSUME NEW s, IsSeq(s), NEW i \in DOMAIN s, NEW e
    PROVE  Count(s, e) = IF s[i] = e THEN Count(Without(s, i), e) + 1 ELSE Count(Without(s, i), e)
<1> DEFINE r == Without(s, i)
           P == {k \in DOMAIN s : s[k] = e}
           Q == {k \in DOMAIN r : r[k] = e}
           R == P \ {i}
<1>1. Len(s) \in Nat /\ DOMAIN s = 1 .. Len(s) /\ i \in 1 .. Len(s)
    BY SeqShape
<1>2. PICK n \in Nat : n = Len(s) - 1
  <2>1. \A m \in Nat : \A k \in 1 .. m : \E n \in Nat : n = m - 1
    OBVIOUS
  <2>2. QED  BY <1>1, <2>1, Zenon
<1>3. /\ DOMAIN s = 1 .. n + 1 /\ i \in 1 .. n + 1 /\ DOMAIN r = 1 .. n
      /\ \A k \in 1 .. n : r[k] = IF k < i THEN s[k] ELSE s[k + 1]
    BY <1>1, <1>2, WithoutIs
<1>4. IsFiniteSet(P) /\ IsSeq(r)
    BY PositionsFinite, WithoutIs
<1> HIDE DEF r
<1>5. IsFiniteSet(Q)
    BY <1>4, PositionsFinite
<1> DEFINE f == [k \in Q |-> IF k < i THEN k ELSE k + 1]
<1>6. f \in [Q -> R]
    BY <1>3
<1>7. \A a, b \in Q : f[a] = f[b] => a = b
    BY <1>3
<1>8. \A k \in R : \E a \in Q : f[a] = k
  <2> SUFFICES ASSUME NEW k \in R PROVE \E a \in Q : f[a] = k
      OBVIOUS
  <2>1. CASE k < i
    <3>1. k \in Q
      BY <1>3, <2>1
    <3>2. f[k] = k
      BY <2>1, <3>1
    <3>3. QED  BY <3>1, <3>2
  <2>2. CASE k > i
    <3>1. k - 1 \in Q
      BY <1>3, <2>2
    <3>2. f[k - 1] = k
      BY <1>3, <2>2, <3>1
    <3>3. QED  BY <3>1, <3>2
  <2>3. QED  BY <1>3, <2>1, <2>2
<1>9. f \in Bijection(Q, R)
  <2> HIDE DEF f, Q, R
  <2>1. f \in Injection(Q, R) /\ f \in Surjection(Q, R)
    BY <1>6, <1>7, <1>8 DEF Injection, IsInjective, Surjection
  <2>2. QED  BY <2>1 DEF Bijection
<1>10. ExistsBijection(Q, R)
    BY <1>9 DEF ExistsBijection
<1>11. Cardinality(R) = Cardinality(Q)
    BY <1>5, <1>10, FS_Bijection
<1>12. Cardinality(R) = IF i \in P THEN Cardinality(P) - 1 ELSE Cardinality(P)
    BY <1>4, FS_RemoveElement
<1>13. i \in P <=> s[i] = e
    OBVIOUS
<1>14. Cardinality(P) \in Nat /\ Cardinality(Q) \in Nat
    BY <1>4, <1>5, FS_CardinalityType
<1> HIDE DEF P, Q, R
<1>15. Cardinality(P) = IF s[i] = e THEN Cardinality(Q) + 1 ELSE Cardinality(Q)
    BY <1>11, <1>12, <1>13, <1>14
<1>16. QED  BY <1>15 DEF Count, P, Q, r

\* The empty list.
LEMMA NoneIsSeq == IsSeq(<<>>) /\ DOMAIN <<>> = {}
<1>1. IsSeq(<<>>)
    BY SeqIsSeq, EmptySeq
<1>2. DOMAIN <<>> = {}
    OBVIOUS
<1>3. QED  BY <1>1, <1>2

\* Before the first compilation nothing is listed.
LEMMA InitShown == Init => ListsFit /\ LinesFit
<1>1. IsSeq(<<>>) /\ DOMAIN <<>> = {}
    BY NoneIsSeq
<1>2. QED
    BY <1>1 DEF Init, ListsFit, LinesFit, Located, Before, Listing

\* A compilation begins with empty lists.
LEMMA StartShown == Start => ListsFit' /\ LinesFit'
<1>1. IsSeq(<<>>) /\ DOMAIN <<>> = {}
    BY NoneIsSeq
<1>2. QED
    BY <1>1 DEF Start, Goes, ListsFit, LinesFit, Located, Before, Listing

\* An error is found.
LEMMA ErrorShown ==
    ASSUME ListsFit, LinesFit, NEW kind, NEW loc \in SyntaxLocs \cup NodeLocs \cup {Locator},
           AppendError(kind, loc), pc \in {"parse", "check"},
           UNCHANGED <<pc, raw, todo, listed, overrun, lost>>
    PROVE  ListsFit' /\ LinesFit'
<1>1. PICK x : x = [kind |-> kind, loc |-> loc]
    OBVIOUS
<1>2. errors' = Append(errors, x) /\ InText(x.loc)
    BY <1>1, ErrorInText DEF AppendError
<1>3. IsSeq(errors) /\ \A i \in DOMAIN errors : InText(errors[i].loc)
    BY DEF ListsFit, Located
<1>4. /\ IsSeq(errors') /\ Len(errors') = Len(errors) + 1
      /\ (\A i \in 1 .. Len(errors) : errors'[i] = errors[i]) /\ errors'[Len(errors) + 1] = x
    BY <1>2, <1>3, AppendShape
<1>5. Len(errors) \in Nat /\ DOMAIN errors = 1 .. Len(errors) /\ DOMAIN errors' = 1 .. Len(errors')
    BY <1>3, <1>4, SeqShape
<1>6. \A i \in DOMAIN errors' : InText(errors'[i].loc)
    BY <1>2, <1>3, <1>4, <1>5
<1>7. Located(errors')
    BY <1>4, <1>6 DEF Located
<1>8. QED
    BY <1>7 DEF ListsFit, LinesFit, Before, Listing

\* The test: all errors are to be listed.
LEMMA CheckedShown == ListsFit /\ LinesFit /\ Checked => ListsFit' /\ LinesFit'
<1> SUFFICES ASSUME ListsFit, LinesFit, Checked PROVE ListsFit' /\ LinesFit'
    OBVIOUS
<1>1. /\ todo' = errors /\ errors' = errors /\ listed' = listed /\ listed = <<>>
      /\ pc = "check" /\ pc' \in {"report", "gen"}
      /\ pc' = "gen" => ~ (Len(errors) > 0)
      /\ UNCHANGED <<raw, overrun, lost>>
    BY DEF Checked, At, Goes, Errors, IsRefused, ListsFit, Before
<1>2. Located(errors) /\ Located(todo) /\ Located(listed)
    BY DEF ListsFit
<1>3. pc' = "gen" => errors = <<>>
  <2>1. Len(errors) \in Nat /\ (errors = <<>> <=> Len(errors) = 0)
      BY <1>2, SeqShape DEF Located
  <2>2. QED  BY <1>1, <2>1
<1>4. \A e : Count(<<>>, e) + Count(errors, e) = Count(errors, e)
  <2>1. \A e : Count(errors, e) \in Nat
      BY <1>2, PositionsFinite DEF Located
  <2>2. QED  BY <2>1, CountNone
<1>5. InOrder(<<>>) /\ Ahead(<<>>, errors)
    BY DEF InOrder, Ahead
<1>6. ListsFit'
    BY <1>1, <1>2, <1>3, <1>4, <1>5 DEF ListsFit, Before, Listing
<1>7. LinesFit'
    BY <1>1 DEF LinesFit
<1>8. QED  BY <1>6, <1>7

\* The foremost of the errors is listed.
LEMMA ReportListsFit == ListsFit /\ Report => ListsFit'
<1> SUFFICES ASSUME ListsFit, Report PROVE ListsFit'
    OBVIOUS
<1>1. PICK i \in DOMAIN todo : /\ Foremost(i)
                               /\ listed' = Append(listed, todo[i]) /\ todo' = Without(todo, i)
    BY DEF Report
<1>2. PICK x : x = todo[i]
    OBVIOUS
<1>3. /\ IsSeq(errors) /\ IsSeq(todo) /\ IsSeq(listed)
      /\ \A k \in DOMAIN todo : InText(todo[k].loc)
      /\ \A k \in DOMAIN listed : InText(listed[k].loc)
    BY DEF ListsFit, Located
<1>4. /\ pc = "report" /\ pc' \in {"report", "done"} /\ (pc' = "done" => Len(todo) = 1)
      /\ UNCHANGED <<errors, lost>>
    BY DEF Report, At, Goes
<1>5. PICK m \in Nat : m = Len(listed)
    BY <1>3, SeqShape
<1>6. /\ IsSeq(listed') /\ DOMAIN listed = 1 .. m /\ DOMAIN listed' = 1 .. m + 1
      /\ (\A k \in 1 .. m : listed'[k] = listed[k]) /\ listed'[m + 1] = x
  <2>1. /\ IsSeq(listed') /\ Len(listed') = m + 1
        /\ (\A k \in 1 .. m : listed'[k] = listed[k]) /\ listed'[m + 1] = x
      BY <1>1, <1>2, <1>3, <1>5, AppendShape
  <2>2. DOMAIN listed = 1 .. m /\ DOMAIN listed' = 1 .. m + 1
      BY <1>3, <1>5, <2>1, SeqShape
  <2>3. QED  BY <2>1, <2>2
<1>7. /\ IsSeq(todo') /\ DOMAIN todo' = 1 .. Len(todo) - 1
      /\ \A k \in DOMAIN todo' : \E j \in DOMAIN todo : todo'[k] = todo[j]
  <2>1. /\ IsSeq(todo') /\ DOMAIN todo' = 1 .. Len(todo) - 1
        /\ \A k \in 1 .. Len(todo) - 1 : todo'[k] = IF k < i THEN todo[k] ELSE todo[k + 1]
      BY <1>1, <1>3, WithoutIs
  <2>2. Len(todo) \in Nat /\ DOMAIN todo = 1 .. Len(todo)
      BY <1>3, SeqShape
  <2>3. \A n \in Nat : \A k \in 1 .. n - 1 : k \in 1 .. n /\ k + 1 \in 1 .. n
      OBVIOUS
  <2>4. \A k \in 1 .. Len(todo) - 1 : k \in DOMAIN todo /\ k + 1 \in DOMAIN todo
      BY <2>2, <2>3
  <2>5. QED  BY <2>1, <2>4
<1>8. Located(todo')
    BY <1>3, <1>7 DEF Located
<1>9. Located(listed')
    BY <1>2, <1>3, <1>5, <1>6 DEF Located
<1>10. pc' = "done" => todo' = <<>>
  <2>1. SUFFICES ASSUME Len(todo) = 1 PROVE todo' = <<>>
      BY <1>4
  <2>2. DOMAIN todo' = {}
      BY <1>7, <2>1
  <2>3. Len(todo') \in Nat /\ DOMAIN todo' = 1 .. Len(todo') /\ (todo' = <<>> <=> Len(todo') = 0)
      BY <1>7, SeqShape
  <2>4. QED  BY <2>2, <2>3
<1>11. ASSUME "errors" \notin lost
       PROVE  /\ \A e : Count(listed', e) + Count(todo', e) = Count(errors, e)
              /\ InOrder(listed') /\ Ahead(listed', todo')
  <2>1. /\ \A e : Count(listed, e) + Count(todo, e) = Count(errors, e)
        /\ InOrder(listed) /\ Ahead(listed, todo)
      BY <1>4, <1>11 DEF ListsFit, Listing
  <2>2. ASSUME NEW e PROVE Count(listed', e) + Count(todo', e) = Count(errors, e)
    <3>1. Count(listed', e) = IF x = e THEN Count(listed, e) + 1 ELSE Count(listed, e)
      BY <1>1, <1>2, <1>3, CountAppended
    <3>2. Count(todo, e) = IF x = e THEN Count(todo', e) + 1 ELSE Count(todo', e)
      BY <1>1, <1>2, <1>3, CountWithout
    <3>3. Count(listed, e) \in Nat /\ Count(todo', e) \in Nat
      BY <1>3, <1>7, PositionsFinite
    <3>4. Count(listed, e) + Count(todo, e) = Count(errors, e)
      BY <2>1
    <3>5. QED  BY <3>1, <3>2, <3>3, <3>4
  <2>3. InOrder(listed')
    <3>1. \A k \in DOMAIN listed : ~ Less(x.loc, listed[k].loc)
      BY <1>1, <1>2, <2>1 DEF Ahead
    <3>2. ASSUME NEW j \in DOMAIN listed', NEW k \in DOMAIN listed', j < k
          PROVE  ~ Less(listed'[k].loc, listed'[j].loc)
      <4>1. CASE k = m + 1
        <5>1. j \in 1 .. m
          BY <1>5, <1>6, <3>2, <4>1
        <5>2. QED  BY <1>6, <3>1, <4>1, <5>1
      <4>2. CASE k # m + 1
        <5>1. j \in 1 .. m /\ k \in 1 .. m
          BY <1>5, <1>6, <3>2, <4>2
        <5>2. QED  BY <1>6, <2>1, <3>2, <5>1 DEF InOrder
      <4>3. QED  BY <4>1, <4>2
    <3>3. QED  BY <3>2 DEF InOrder
  <2>4. Ahead(listed', todo')
    <3>1. ASSUME NEW j \in DOMAIN todo PROVE \A k \in DOMAIN listed' : ~ Less(todo[j].loc, listed'[k].loc)
      <4>1. ~ Less(todo[j].loc, x.loc)
        BY <1>1, <1>2 DEF Foremost
      <4>2. \A k \in 1 .. m : ~ Less(todo[j].loc, listed[k].loc)
        BY <1>6, <2>1 DEF Ahead
      <4>3. \A k \in 1 .. m + 1 : k = m + 1 \/ k \in 1 .. m
        BY <1>5
      <4>4. QED  BY <1>6, <4>1, <4>2, <4>3
    <3>2. QED  BY <1>7, <3>1 DEF Ahead
  <2>5. QED  BY <2>2, <2>3, <2>4
<1>12. QED
    BY <1>4, <1>8, <1>9, <1>10, <1>11 DEF ListsFit, Before, Listing

\* Its lines were read.
LEMMA ReportLinesFit == ListsFit /\ LinesFit /\ Report => LinesFit'
<1> SUFFICES ASSUME ListsFit, LinesFit, Report PROVE LinesFit'
    OBVIOUS
<1>1. PICK i \in DOMAIN todo :
          overrun' = (overrun \/ (has_value(todo[i].loc) /\ todo[i].loc.line_ed >= raw))
    BY DEF Report
<1>2. InText(todo[i].loc)
    BY DEF ListsFit, Located
<1>3. pc = "report" /\ pc' \in {"report", "done"} /\ UNCHANGED <<raw, lost>>
    BY DEF Report, At, Goes
<1>4. "lines" \notin lost => ~ (has_value(todo[i].loc) /\ todo[i].loc.line_ed >= raw)
  <2>1. SUFFICES ASSUME "lines" \notin lost, has_value(todo[i].loc), todo[i].loc.line_ed >= raw
                 PROVE  FALSE
      OBVIOUS
  <2>2. raw = NLines /\ todo[i].loc.line_ed < NLines /\ todo[i].loc.line_ed \in Nat
      BY <1>2, <1>3, <2>1 DEF LinesFit, InText, Span
  <2>3. QED  BY <2>1, <2>2, DriverAssumption
<1>5. QED
    BY <1>1, <1>3, <1>4 DEF LinesFit

\* The other steps leave the lists alone.
LEMMA QuietShown ==
    ASSUME ListsFit, LinesFit,
           \/ OpenFails \/ (\E cut \in 0 .. NLines : Read(cut)) \/ Aborts \/ GenFails \/ Generated
           \/ WriteIR \/ (\E opens \in BOOLEAN : Redirect(opens) \/ WriteAsm(opens) \/ WriteObj(opens))
           \/ (\E dies \in BOOLEAN : WriteFails(dies))
           \/ (\E works \in BOOLEAN : Link(works)) \/ Exit \/ UNCHANGED vars
    PROVE  ListsFit' /\ LinesFit'
<1>1. UNCHANGED <<errors, todo, listed, overrun>>
    BY DEF OpenFails, Read, Aborts, GenFails, Generated, WriteIR, Redirect, WriteAsm, WriteObj,
           WriteFails, Link, Exit, vars
<1>2. /\ "errors" \notin lost' => "errors" \notin lost
      /\ "lines" \notin lost' => "lines" \notin lost
      /\ lost \subseteq lost'
    BY DEF OpenFails, Read, Aborts, GenFails, Generated, WriteIR, Redirect, WriteAsm, WriteObj,
           WriteFails, Link, Exit, vars
<1>3. \/ pc' = pc
      \/ pc = "open" /\ pc' \in {"parse", "done"}
      \/ pc = "parse" /\ pc' = "check"
      \/ pc \in Listing \ {"report"} /\ pc' \in (Listing \ {"report"}) \cup {"idle"}
      \/ pc' = "done" /\ "errors" \in lost'
    BY DEF OpenFails, Read, Aborts, GenFails, Generated, WriteIR, Redirect, WriteAsm, WriteObj,
           WriteFails, Link, Exit, vars, At, Goes, Listing
<1>4. pc' \in {"parse", "check", "report"} /\ "lines" \notin lost' => raw' = NLines
    BY DriverAssumption DEF OpenFails, Read, Aborts, GenFails, Generated, WriteIR, Redirect, WriteAsm, WriteObj,
           WriteFails, Link, Exit, vars, At, Goes, LinesFit, RawLines
<1>5. LinesFit'
    BY <1>1, <1>2, <1>4 DEF LinesFit
<1>6. pc = "open" => /\ \A e : Count(listed, e) + Count(todo, e) = Count(errors, e)
                     /\ InOrder(listed) /\ Ahead(listed, todo) /\ todo = <<>>
    BY CountNone DEF ListsFit, Before, InOrder, Ahead
<1>7. ListsFit'
    BY <1>1, <1>2, <1>3, <1>6 DEF ListsFit, Before, Listing
<1>8. QED  BY <1>5, <1>7

\* Every step of the driver.
LEMMA NextShown == ListsFit /\ LinesFit /\ [Next]_vars => ListsFit' /\ LinesFit'
<1> SUFFICES ASSUME ListsFit, LinesFit, Next \/ UNCHANGED vars PROVE ListsFit' /\ LinesFit'
    OBVIOUS
<1>1. CASE SyntaxError
  <2>1. PICK loc \in SyntaxLocs : AppendError("syntax", loc)
      BY <1>1 DEF SyntaxError
  <2>2. QED  BY <1>1, <2>1, ErrorShown DEF SyntaxError, At
<1>2. CASE \E kind \in Findings : SemanticError(kind)
  <2>1. PICK kind \in Findings : SemanticError(kind)
      BY <1>2
  <2>2. PICK loc \in NodeLocs \cup {Locator} : AppendError(kind, loc)
      BY <2>1 DEF SemanticError
  <2>3. QED  BY <2>1, <2>2, ErrorShown DEF SemanticError, At
<1>3. CASE Start
    BY <1>3, StartShown
<1>4. CASE Checked
    BY <1>4, CheckedShown
<1>5. CASE Report
    BY <1>5, ReportListsFit, ReportLinesFit
<1>6. QED
    BY <1>1, <1>2, <1>3, <1>4, <1>5, QuietShown DEF Next, Step, Finished

\* All errors found are listed, each as often as it was found and in the order
\* of the text, with lines that were read, and the place of a node covers its
\* tokens, whatever the program and its errors (main in src/main.cpp, context.cpp).
THEOREM ErrorsShownHolds == Spec => []ErrorsShown
<1>1. ListsFit => ListedInOrder
  <2> SUFFICES ASSUME ListsFit, pc = "done", "errors" \notin lost
               PROVE  /\ \A i, j \in DOMAIN listed : i < j => ~ Precedes(listed[j].loc, listed[i].loc)
                      /\ \A e \in {errors[i] : i \in DOMAIN errors} :
                            Cardinality({i \in DOMAIN listed : listed[i] = e})
                              = Cardinality({i \in DOMAIN errors : errors[i] = e})
      BY DEF ListedInOrder
  <2>1. /\ \A e : Count(listed, e) + Count(todo, e) = Count(errors, e)
        /\ InOrder(listed) /\ todo = <<>> /\ IsSeq(listed)
        /\ \A i \in DOMAIN listed : listed[i].loc \in Span
      BY DEF ListsFit, Listing, Located, InText
  <2>2. ASSUME NEW e PROVE Count(listed, e) = Count(errors, e)
    <3>1. Count(todo, e) = 0 /\ Count(listed, e) \in Nat
      BY <2>1, CountNone, PositionsFinite
    <3>2. QED  BY <2>1, <3>1
  <2>3. ASSUME NEW l1 \in Span, NEW l2 \in Span, ~ Less(l1, l2) PROVE ~ Precedes(l1, l2)
      BY <2>3 DEF Span, Less, Precedes
  <2>4. \A i, j \in DOMAIN listed : i < j => ~ Precedes(listed[j].loc, listed[i].loc)
      BY <2>1, <2>3 DEF InOrder
  <2>5. QED  BY <2>2, <2>4 DEF Count
<1>2. LinesFit => LinesWereRead
    BY DEF LinesFit, LinesWereRead
<1>3. ListsFit /\ LinesFit => ErrorsShown
    BY <1>1, <1>2, NodeCovers DEF ErrorsShown
<1>4. QED  BY <1>3, InitShown, NextShown, PTL DEF Spec
=============================================================================
