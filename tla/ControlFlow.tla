---------------------------- MODULE ControlFlow ----------------------------
(***************************************************************************)
(* What running an LSL program means: where control may go.                *)
(*                                                                         *)
(* No flags and no unwinding here: each handler or function being run is   *)
(* at one point of its text, a statement or one of the expressions of a    *)
(* statement, and a step takes it to a point that may follow in the text.  *)
(* A jump goes to its label, a return to the end of the function.          *)
(***************************************************************************)
EXTENDS Syntax

VARIABLES
  stack,    \* the points of the handler and of the functions it is in
  pending,  \* a change of state has been asked for
  worn      \* a loop of the running function has been cut off

vars == <<prog, stack, pending, worn>>

NoParent == 0
End == <<NoParent, "end">>
Expressions == {"eval", "init", "post"}

\* The statement that n is part of.
Parent(n) ==
  LET around == {m \in Statements : \E k \in DOMAIN Kids(m) : Kids(m)[k] = n}
  IN IF around = {} THEN NoParent ELSE CHOOSE m \in around : TRUE

\* Where control goes: "into" statement n, and "past" it once it is complete.
PlaceIn(p, m) == CHOOSE k \in DOMAIN Kids(p) : Kids(p)[k] = m
Way(to) ==
  LET way[x \in {"into", "past"} \X Statements] ==
        LET m == x[2]
            p == Parent(m)
        IN IF x[1] = "into"
           THEN CASE Kind(m) = "block" ->
                       way[IF Kids(m) = <<>> THEN <<"past", m>> ELSE <<"into", Kids(m)[1]>>]
                  [] Kind(m) = "do" -> way[<<"into", Kids(m)[1]>>]
                  [] Kind(m) = "for" -> <<m, "init">>
                  [] OTHER -> <<m, "eval">>
           ELSE IF p = NoParent THEN End
                ELSE CASE Kind(p) = "block" ->
                            way[IF PlaceIn(p, m) = Len(Kids(p)) THEN <<"past", p>>
                                ELSE <<"into", Kids(p)[PlaceIn(p, m) + 1]>>]
                       [] Kind(p) = "for" -> <<p, "post">>
                       [] Kind(p) = "if" -> way[<<"past", p>>]
                       [] OTHER -> <<p, "eval">>
  IN way[to]

Into(n) == Way(<<"into", n>>)
Past(n) == Way(<<"past", n>>)

\* The statements around n, itself included.
Around(n) ==
  LET around[m \in Statements] ==
        {m} \cup IF Parent(m) = NoParent THEN {} ELSE around[Parent(m)]
  IN around[n]

\* A jump looks for its label in the blocks around it, the innermost first, and
\* goes to the first of that name; a label anywhere else is out of its reach, and
\* the function ends.
Labels(b, name) == {k \in DOMAIN Kids(b) : Kind(Kids(b)[k]) = "label" /\ Name(Kids(b)[k]) = name}
Homes(n) == {b \in Around(n) : Kind(b) = "block" /\ Labels(b, Name(n)) # {}}
Target(n) ==
  IF Homes(n) = {} THEN End
  ELSE LET home == CHOOSE b \in Homes(n) : Homes(n) \subseteq Around(b)
           first == CHOOSE k \in Labels(home, Name(n)) : \A j \in Labels(home, Name(n)) : k <= j
       IN Past(Kids(home)[first])

\* From the expression that statement n is about, and from any point.
Onwards(n) ==
  CASE Kind(n) = "if" ->
         {Into(Kids(n)[k]) : k \in DOMAIN Kids(n)} \cup (IF Len(Kids(n)) = 1 THEN {Past(n)} ELSE {})
    [] Kind(n) \in Loops -> {Into(Kids(n)[1]), Past(n)}
    [] Kind(n) = "return" -> {End}
    [] Kind(n) = "jump" -> {Target(n)}
    [] OTHER -> {Past(n)}
Successors(pt) ==
  CASE pt[2] = "enter" -> {Into(pt[1])}
    [] pt[2] \in {"init", "post"} -> {<<pt[1], "eval">>}
    [] OTHER -> Onwards(pt[1])

\* A loop that is cut off is left for what comes after it.
Beyond(pt) == {Past(n) : n \in {m \in Around(pt[1]) : Kind(m) \in Loops}}

Here == stack[Len(stack)]
Ahead == Successors(Here) \cup (IF worn THEN Beyond(Here) ELSE {})

AsksForState(pt) == Kind(pt[1]) = "state" /\ Name(pt[1]) \in prog.states

----------------------------------------------------------------------------
Init ==
  /\ prog \in Programs
  /\ stack = <<>>
  /\ pending = FALSE
  /\ worn = FALSE

Handle ==
  /\ stack = <<>>
  /\ \E h \in prog.handlers : stack' = <<<<h, "enter">>>>
  /\ pending' \in {FALSE, pending}
  /\ UNCHANGED <<prog, worn>>

Advance ==
  /\ stack # <<>>
  /\ \E pt \in Ahead \ {End} :
       /\ stack' = [stack EXCEPT ![Len(stack)] = pt]
       /\ pending' = (pending \/ AsksForState(pt))
  /\ worn' = FALSE
  /\ UNCHANGED prog

Call ==
  /\ stack # <<>>
  /\ Here[2] \in Expressions
  /\ \E f \in prog.funcs : stack' = Append(stack, <<f, "enter">>)
  /\ UNCHANGED <<prog, pending, worn>>

\* A function ends where its text does, or early once a state is pending.
Leave ==
  /\ stack # <<>>
  /\ End \in Ahead \/ pending
  /\ stack' = SubSeq(stack, 1, Len(stack) - 1)
  /\ worn' = FALSE
  /\ UNCHANGED <<prog, pending>>

CutOff ==
  /\ stack # <<>>
  /\ Beyond(Here) # {}
  /\ worn' = TRUE
  /\ UNCHANGED <<prog, stack, pending>>

Next == Handle \/ Advance \/ Call \/ Leave \/ CutOff

Spec == Init /\ [][Next]_vars

=============================================================================
