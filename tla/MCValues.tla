------------------------------ MODULE MCValues ------------------------------
(***************************************************************************)
(* Three globals: a float with an initialiser, another one that is            *)
(* initialised with the first, and a vector.  The parameters of the handler   *)
(* and of a function, and locals, have the names of globals.                  *)
(***************************************************************************)
EXTENDS Values

CONSTANTS f, v, h

Global(name, static, init) == [name |-> name, static |-> static, init |-> init]
Nothing == [kind |-> "none"]

MCGlobals ==
  << Global(f, "float", [kind |-> "literal", type |-> "float"]),
     Global(v, "vector", Nothing),
     Global(h, "float", [kind |-> "name", name |-> f]) >>

MCFunctions ==
  {[params |-> <<[name |-> h, static |-> "float"]>>, returns |-> "float"],
   [params |-> <<[name |-> v, static |-> "rotation"]>>, returns |-> "void"]}
MCHandlers == {[params |-> <<[name |-> h, static |-> "integer"]>>, returns |-> "void"]}
MCLiterals == {"string"}
MCDeclared == {"rotation"}

=============================================================================
