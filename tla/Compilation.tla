---------------------------- MODULE Compilation ----------------------------
(***************************************************************************)
(* What a user counts on in a compiler that is called again and again with *)
(* the same output file: each call ends, the file has code of one call or  *)
(* none, and never code of a program that was found wrong, since a call    *)
(* that finds an error makes no code and none is made of it later.         *)
(*                                                                         *)
(* The module Driver implements this specification.                        *)
(***************************************************************************)
EXTENDS Naturals

CONSTANT MaxJobs    \* bound: how often the compiler is called

VARIABLES
    busy,       \* the compiler is running
    job,        \* the number of the call
    refused,    \* calls that found an error in their program
    product     \* the calls whose code is in the output file

vars == <<busy, job, refused, product>>

Init == busy = FALSE /\ job = 0 /\ refused = {} /\ product = {}

Call ==
    /\ ~ busy /\ job < MaxJobs
    /\ busy' = TRUE
    /\ job' = job + 1
    /\ UNCHANGED <<refused, product>>

\* An error is found before anything is made.
Refuse ==
    /\ busy /\ job \notin product
    /\ refused' = refused \cup {job}
    /\ UNCHANGED <<busy, job, product>>

\* The output file is opened, whatever becomes of it.
Clear ==
    /\ busy /\ job \notin product
    /\ product' = {}
    /\ UNCHANGED <<busy, job, refused>>

\* Code is made of this call's program, or of what a call before it has left.
Make(made) ==
    /\ busy /\ job \notin refused
    /\ made \in (1 .. job) \ refused
    /\ product' = {made}
    /\ UNCHANGED <<busy, job, refused>>

End ==
    /\ busy
    /\ busy' = FALSE
    /\ UNCHANGED <<job, refused, product>>

Next == Call \/ Refuse \/ Clear \/ (\E made \in 1 .. job : Make(made)) \/ End

\* What never happens, and what must happen besides.
Safety == Init /\ [][Next]_vars

Spec == Safety /\ WF_vars(End)
=============================================================================
