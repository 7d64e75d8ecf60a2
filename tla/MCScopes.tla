------------------------------ MODULE MCScopes ------------------------------
(* Functions of at most two parameters. *)
EXTENDS Scopes

Of(x, type) == [name |-> x, type |-> type]

ParamLists ==
    { <<>>, <<Of("x", "known")>>, <<Of("y", "error")>>,
      <<Of("x", "known"), Of("x", "known")>>, <<Of("y", "error"), Of("x", "known")>> }
=============================================================================
