------------------------------ MODULE Scoping ------------------------------
(***************************************************************************)
(* Variables as a reader of a script understands them: a call has scopes in  *)
(* scopes, each with its own variables; a name means the variable of the     *)
(* innermost scope that has one, or else the global; a function sees no       *)
(* variable of its caller.                                                   *)
(***************************************************************************)
EXTENDS Integers, Sequences, SequencesExt

CONSTANTS
  Names,    \* what variables are called
  Global    \* the names of globals

VARIABLES
  store,  \* of each global its contents
  calls,  \* of each call its scopes, of each scope its variables: functions from names to contents
  starting  \* the globals are given their first contents
vars == <<store, calls, starting>>

Scopes == Last(calls)
Depth == Len(Scopes)
Inmost == Last(Scopes)

Init == DOMAIN store = Global /\ calls = <<>> /\ starting = (Global # {})

\* A new call has one scope, with its parameters.
Enter ==
  /\ Len(calls') = Len(calls) + 1
  /\ Front(calls') = calls
  /\ Len(Last(calls')) = 1
  /\ UNCHANGED <<store, starting>>

Leave == calls # <<>> /\ calls' = Front(calls) /\ UNCHANGED <<store, starting>>

\* Something happens in the call that goes on, and nowhere else.
Within ==
  /\ calls # <<>>
  /\ Len(calls') = Len(calls)
  /\ Front(calls') = Front(calls)
  /\ UNCHANGED <<store, starting>>

Open == Within /\ Scopes' = Append(Scopes, << >>)
Close == Within /\ Depth > 1 /\ Scopes' = Front(Scopes)

\* A second declaration of a name in one scope takes the place of the first.
Declare ==
  /\ Within
  /\ Depth' = Depth
  /\ Front(Scopes') = Front(Scopes)
  /\ \E name \in Names :
       /\ DOMAIN Inmost' = DOMAIN Inmost \cup {name}
       /\ \A other \in DOMAIN Inmost \ {name} : Inmost'[other] = Inmost[other]

Sees(name, d) == name \in DOMAIN Scopes[d] /\ \A e \in (d + 1) .. Depth : name \notin DOMAIN Scopes[e]

SetLocal ==
  /\ Within
  /\ Depth' = Depth
  /\ \E name \in Names, d \in 1 .. Depth :
       Sees(name, d) /\ Scopes' = [Scopes EXCEPT ![d][name] = Scopes'[d][name]]

OnlyChanges(name) == store' = [store EXCEPT ![name] = store'[name]] /\ UNCHANGED calls

SetGlobal ==
  /\ \E name \in Global : OnlyChanges(name) /\ (calls # <<>> => \A d \in 1 .. Depth : ~Sees(name, d))
  /\ UNCHANGED starting

\* The globals are given their first contents, and once more after a reset.
Initialise == starting /\ \E name \in Global : OnlyChanges(name)
Clear == starting' = TRUE /\ UNCHANGED calls /\ DOMAIN store' = Global /\ \A a, b \in Global : store'[a] = store'[b]

\* Evaluating what does not write a variable is no step.
Next ==
  /\ vars' # vars
  /\ Enter \/ Leave \/ Open \/ Close \/ Declare \/ SetLocal \/ SetGlobal \/ Initialise \/ Clear
Spec == Init /\ [][Next]_vars

=============================================================================
