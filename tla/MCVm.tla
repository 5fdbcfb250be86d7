-------------------------------- MODULE MCVm --------------------------------
(***************************************************************************)
(* Programs for TLC.  Conditions have any value, so one program that can   *)
(* branch to every way of leaving a construct stands for many.             *)
(***************************************************************************)
EXTENDS Vm

CONSTANTS L, M, X, Y

Tree(kind, name, kids) == <<[kind |-> kind, kids |-> kids, name |-> name]>>
Shift(t, d) ==
  [k \in DOMAIN t |-> [t[k] EXCEPT !.kids = [j \in DOMAIN t[k].kids |-> t[k].kids[j] + d]]]

\* A statement and the statements it is made of, one after the other.
Leaf(kind) == Tree(kind, NoName, <<>>)
Named(kind, name) == Tree(kind, name, <<>>)
One(kind, t) == Tree(kind, NoName, <<2>>) \o Shift(t, 1)
Two(kind, t, u) ==
  Tree(kind, NoName, <<2, 2 + Len(t)>>) \o Shift(t, 1) \o Shift(u, 1 + Len(t))
Three(t, u, v) ==
  Tree("block", NoName, <<2, 2 + Len(t), 2 + Len(t) + Len(u)>>)
    \o Shift(t, 1) \o Shift(u, 1 + Len(t)) \o Shift(v, 1 + Len(t) + Len(u))

Either(t, u) == Two("if", t, u)
Maybe(t) == One("if", t)
Block(t, u) == Two("block", t, u)

ProgramOf(handler, func) ==
  [tree |-> handler \o Shift(func, Len(handler)),
   names |-> {L, M, X, Y}, states |-> {X},
   handlers |-> {1}, funcs |-> {1 + Len(handler)}]

\* The ways to leave a construct: by a return, by a jump to a label before the
\* loops, in the body of the outer loop or nowhere around, by a state change.
Exits == {Leaf("return"), Named("jump", L), Named("jump", M), Named("state", X)}

\* Two loops, one in the other, left from before and from inside the inner one.
\* The function that any of their expressions may call can change the state.
TwoLoops(outer, inner, t, u) ==
  ProgramOf(
    Three(Named("label", L),
          One(outer, Three(Maybe(t), One(inner, Block(Leaf("decl"), Maybe(u))), Named("label", M))),
          Leaf("expr")),
    Block(Maybe(Named("state", X)), Leaf("empty")))

\* The function jumps, to a label out of its reach too, and loops; the handler
\* asks for a state the script does not have.
JumpingFunction(loop) ==
  ProgramOf(
    Three(Named("state", Y), Block(Leaf("decl"), Leaf("decl")), Named("label", L)),
    Three(One(loop, Either(Named("jump", L), Named("jump", M))), Named("label", M), Leaf("return")))

MCPrograms ==
  {TwoLoops(outer, inner, t, u) : outer \in Loops, inner \in Loops, t \in Exits, u \in Exits}
    \cup {JumpingFunction(loop) : loop \in Loops}

=============================================================================
