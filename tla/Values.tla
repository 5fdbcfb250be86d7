------------------------------- MODULE Values -------------------------------
(***************************************************************************)
(* The values of a script: what vm_eval makes of its operands, and what     *)
(* it writes to locals and globals.                                         *)
(*                                                                         *)
(* A value is the type its tag says.  Beside each value that a variable or   *)
(* an expression has stands its static type, which the compiler gave it and  *)
(* the interpreter does not look at.  The operands that C functions hold     *)
(* while they evaluate others are the stack "temps" of the frame.            *)
(***************************************************************************)
EXTENDS Integers, FiniteSets, Sequences, SequencesExt

CONSTANTS
  Names,       \* identifiers
  Globals,     \* the globals in their order: name, static type, initialiser
  Functions,   \* the functions: parameters, type returned or "void"
  Handlers,    \* the event handlers, likewise
  Literals,    \* the types of the literals in the program
  Declared,    \* the types of its local variables
  MaxValues,   \* bound: operands waiting and locals, of all frames, when one more comes
  MaxDepth,    \* bound: scopes in scopes
  MaxFrames    \* bound: calls in calls

Types == {"integer", "float", "string", "key", "vector", "rotation", "list"}
Tags == Types \cup {"void"}
Number == {"integer", "float"}
Text == {"string", "key"}

Assignable(from, to) == from = to \/ <<from, to>> = <<"integer", "float">> \/ {from, to} = Text

Parameters == [name : Names, static : Types]
Signatures == [params : Seq(Parameters), returns : Tags]
\* What a global is initialised to: nothing, a literal, or another global.
Initialisers == [kind : {"none"}] \cup [kind : {"literal"}, type : Types] \cup [kind : {"name"}, name : Names]

ASSUME ValuesAssumption ==
  /\ Globals \in Seq([name : Names, static : Types, init : Initialisers])
  /\ Functions \subseteq Signatures
  /\ Handlers \subseteq Signatures
  /\ Literals \subseteq Types
  /\ Declared \subseteq Types
  \* The compiler lets a global be initialised to what may be assigned to it.
  /\ \A k \in DOMAIN Globals :
       LET g == Globals[k]
       IN  /\ g.init.kind = "literal" => Assignable(g.init.type, g.static)
           /\ g.init.kind = "name" =>
                \E j \in DOMAIN Globals :
                  /\ Globals[j].name = g.init.name /\ Assignable(Globals[j].static, g.static)
                  /\ \A i \in 1 .. (j - 1) : Globals[i].name # g.init.name
  /\ {MaxValues, MaxDepth, MaxFrames} \subseteq Nat

VARIABLES
  globals,   \* globals of Script
  next,      \* the global that is being initialised; after the last one, none
  resetting, \* it is llResetScript that initialises them
  stack,     \* the frames, innermost last
  crashed    \* a null pointer was written to
vars == <<globals, next, resetting, stack, crashed>>

----------------------------------------------------------------------------
(* Types of operations *)

Coerce_none(v, to) == v
\* coerce
Coerce(v, to) ==
  IF <<v, to>> = <<"integer", "float">> \/ {v, to} = Text THEN to ELSE v

Operators == {"+", "-", "*", "/", "%", "bits", "compare"}
Arithmetic == {"+", "-", "*", "/"}
Wider(l, r) == IF "float" \in {l, r} THEN "float" ELSE "integer"

\* What the compiler says of a binary operation; "void" if it refuses it.
Static(op, l, r) ==
  CASE op \in Arithmetic /\ {l, r} \subseteq Number -> Wider(l, r)
    [] op \in {"%", "bits"} /\ l = "integer" /\ r = "integer" -> "integer"
    [] op = "compare" /\ (l = r \/ {l, r} \subseteq Number \/ {l, r} \subseteq Text) -> "integer"
    [] op = "+" /\ l \in Text /\ r \in Text -> "string"
    [] op = "+" /\ "list" \in {l, r} -> "list"
    [] op \in {"+", "-"} /\ l = r /\ l \in {"vector", "rotation"} -> l
    [] op = "*" /\ l = "vector" /\ r = "vector" -> "float"
    [] op = "*" /\ "vector" \in {l, r} /\ {l, r} \cap Number # {} -> "vector"
    [] op = "*" /\ r = "rotation" /\ l \in {"vector", "rotation"} -> l
    [] op = "/" /\ l = "vector" /\ r \in Number -> "vector"
    [] op = "%" /\ l = "vector" /\ r = "vector" -> "vector"
    [] OTHER -> "void"

Result_right(op, l, r) ==
  CASE op = "+" /\ l \in Text /\ r \in Text -> "string"
    [] op = "+" /\ "list" \in {l, r} -> "list"
    [] op \in {"+", "-"} /\ l = r /\ l \in {"vector", "rotation"} -> l
    [] op = "*" /\ l = "vector" /\ r = "vector" -> "float"
    [] op = "*" /\ "vector" \in {l, r} /\ {l, r} \cap Number # {} -> "vector"
    [] op = "*" /\ r = "rotation" /\ l \in {"vector", "rotation"} -> r
    [] op = "/" /\ l = "vector" /\ r \in Number -> "vector"
    [] op \in Arithmetic /\ {l, r} \subseteq Number -> Wider(l, r)
    [] op = "%" /\ l = "vector" /\ r = "vector" -> "vector"
    [] op = "%" /\ {l, r} # {"vector"} -> "integer"
    [] op \in {"bits", "compare"} -> "integer"
    [] OTHER -> "void"
\* eval_binary, the divisor not being zero
Result(op, l, r) ==
  CASE op = "+" /\ l \in Text /\ r \in Text -> "string"
    [] op = "+" /\ "list" \in {l, r} -> "list"
    [] op \in {"+", "-"} /\ l = r /\ l \in {"vector", "rotation"} -> l
    [] op = "*" /\ l = "vector" /\ r = "vector" -> "float"
    [] op = "*" /\ "vector" \in {l, r} /\ {l, r} \cap Number # {} -> "vector"
    [] op = "*" /\ r = "rotation" /\ l \in {"vector", "rotation"} -> l
    [] op = "/" /\ l = "vector" /\ r \in Number -> "vector"
    [] op \in Arithmetic /\ {l, r} \subseteq Number -> Wider(l, r)
    [] op = "%" /\ l = "vector" /\ r = "vector" -> "vector"
    [] op = "%" /\ {l, r} # {"vector"} -> "integer"
    [] op \in {"bits", "compare"} -> "integer"
    [] OTHER -> "void"

\* do_cast
Castable(from, to) ==
  \/ from = to \/ to \in {"string", "list"}
  \/ from \in Number \cup {"string"} /\ to \in Number
  \/ from = "string" /\ to \in {"key", "vector", "rotation"}

----------------------------------------------------------------------------
(* Names *)

Named(list, name) == {k \in DOMAIN list : list[k].name = name}

Find_first(locs, name) == IF Named(locs, name) = {} THEN 0 ELSE Min(Named(locs, name))
\* frame_find: the last local with the name; 0 if there is none
Find(locs, name) == Max({0} \cup Named(locs, name))
\* the first global with the name
FindGlobal(name) == IF Named(Globals, name) = {} THEN 0 ELSE Min(Named(Globals, name))

Top == stack[Len(stack)]
Locs == IF stack = <<>> THEN <<>> ELSE Top.locs

\* A cell is where a name leads: a local of the frame, or a global.
Cells ==
  {[where |-> "local", at |-> k] : k \in DOMAIN Locs} \cup {[where |-> "global", at |-> k] : k \in DOMAIN Globals}
Resolved(name) ==
  IF Find(Locs, name) > 0 THEN {[where |-> "local", at |-> Find(Locs, name)]}
  ELSE IF FindGlobal(name) > 0 THEN {[where |-> "global", at |-> FindGlobal(name)]}
  ELSE {}
StaticOf(cell) == IF cell.where = "local" THEN Locs[cell.at].static ELSE Globals[cell.at].static
TagOf(cell) == IF cell.where = "local" THEN Locs[cell.at].type ELSE globals[cell.at]

----------------------------------------------------------------------------
(* Operands *)

Ready == next > Len(Globals) /\ ~crashed
Evaluating == Ready /\ stack # <<>>
Value(static, type) == [static |-> static, type |-> type]
Temps == Top.temps
Holding(n) == Evaluating /\ Len(Temps) >= n
Last1 == Temps[Len(Temps)]
Last2 == Temps[Len(Temps) - 1]
Dropped(n) == SubSeq(Temps, 1, Len(Temps) - n)
InTop(frame) == stack' = [stack EXCEPT ![Len(stack)] = frame]

\* The last n operands are used up, and v is the result.
Yield(n, v) ==
  /\ InTop([Top EXCEPT !.temps = Append(Dropped(n), v)])
  /\ UNCHANGED <<globals, next, resetting, crashed>>
\* The same, with a tag written to a cell.
Write(cell, tag, n, v) ==
  /\ \/ cell.where = "local"
        /\ InTop([Top EXCEPT !.temps = Append(Dropped(n), v), !.locs[cell.at].type = tag])
        /\ UNCHANGED globals
     \/ cell.where = "global"
        /\ InTop([Top EXCEPT !.temps = Append(Dropped(n), v)])
        /\ globals' = [globals EXCEPT ![cell.at] = tag]
  /\ UNCHANGED <<next, resetting, crashed>>
Held == FoldSeq(LAMBDA frame, n : n + Len(frame.temps) + Len(frame.locs), 0, stack)
Room == Evaluating /\ Held < MaxValues

Literal == Room /\ \E t \in Literals : Yield(0, Value(t, t))

\* A variable, also with ++ or -- before or after it: these leave its tag.
ReadName ==
  /\ Room
  /\ \E name \in Names : \E cell \in Resolved(name) : Yield(0, Value(StaticOf(cell), TagOf(cell)))

\* A built-in function that there is none of; the others return what they say.
UnknownCall == Room /\ \E t \in Declared : Yield(0, Value(t, "void"))

Binary ==
  /\ Holding(2)
  /\ \E op \in Operators :
       LET static == Static(op, Last2.static, Last1.static)
       IN  static # "void" /\ Yield(2, Value(static, Result(op, Last2.type, Last1.type)))

\* An integer divided by the integer zero is the float zero.
DivideByZero ==
  /\ Holding(2)
  /\ {Last1.static, Last2.static} \subseteq Number
  /\ Last1.type = "integer" /\ Last2.type = "integer"
  /\ Yield(2, Value(Wider(Last2.static, Last1.static), "float"))

\* !, ~, and && and || with the right operand or without.  (- and + leave the tag.)
Truth == Holding(1) /\ Yield(1, Value("integer", "integer"))

Cast ==
  /\ Holding(1)
  /\ \E t \in Declared : Castable(Last1.static, t) /\ Yield(1, Value(t, t))

\* x, y, z and s of a vector or rotation
Member ==
  /\ Holding(1)
  /\ Last1.static \in {"vector", "rotation"}
  /\ Yield(1, Value("float", "float"))

\* The value of an expression is not used, or has gone into a list, a vector, an
\* argument or a condition.
Discard ==
  /\ Holding(1)
  /\ InTop([Top EXCEPT !.temps = Dropped(1)])
  /\ UNCHANGED <<globals, next, resetting, crashed>>

----------------------------------------------------------------------------
(* Writing *)

Assign ==
  /\ Holding(1)
  /\ \E name \in Names : \E cell \in Resolved(name) :
       LET tag == Coerce(Last1.type, TagOf(cell))
       IN  Assignable(Last1.static, StaticOf(cell)) /\ Write(cell, tag, 1, Value(StaticOf(cell), tag))

\* +=, -=, *=, /=, %=
Compound ==
  /\ Holding(1)
  /\ \E name \in Names, op \in Arithmetic \cup {"%"} : \E cell \in Resolved(name) :
       LET tag == Coerce(Result(op, TagOf(cell), Last1.type), TagOf(cell))
       IN  /\ Assignable(Static(op, StaticOf(cell), Last1.static), StaticOf(cell))
           /\ Write(cell, tag, 1, Value(StaticOf(cell), tag))

CompoundByZero ==
  /\ Holding(1)
  /\ \E name \in Names : \E cell \in Resolved(name) :
       /\ Assignable(Static("/", StaticOf(cell), Last1.static), StaticOf(cell))
       /\ Last1.type = "integer" /\ TagOf(cell) = "integer"
       /\ Write(cell, "float", 1, Value(StaticOf(cell), "float"))

Structured == {"vector", "rotation"}

\* A part of a variable: there is no cell, but the value that it is part of.
PartOf(cell) == StaticOf(cell) \in Structured
\* The tag of what is assigned to a part, and returned.
PartTag(cell, tag) == IF TagOf(cell) \in Structured THEN Coerce(tag, "float") ELSE tag

AssignMember ==
  /\ Holding(1)
  /\ Assignable(Last1.static, "float")
  /\ \E name \in Names : \E cell \in Resolved(name) :
       PartOf(cell) /\ Yield(1, Value("float", PartTag(cell, Last1.type)))

\* Of the parts, only those of a vector are read by +=.
CompoundMember ==
  /\ Holding(1)
  /\ Last1.static \in Number
  /\ \E name \in Names, op \in Arithmetic : \E cell \in Resolved(name) :
       /\ PartOf(cell)
       /\ LET old == IF TagOf(cell) = "vector" THEN "float" ELSE "void"
          IN  Yield(1, Value("float", PartTag(cell, Result(op, old, Last1.type))))

\* ++v.x and --v.x write through the cell that there is not, unless v is a vector.
IncrementMember ==
  /\ Room
  /\ \E name \in Names : \E cell \in Resolved(name) :
       /\ PartOf(cell)
       /\ \/ TagOf(cell) = "vector" /\ Yield(0, Value("float", "float"))
          \/ TagOf(cell) # "vector" /\ crashed' = TRUE /\ UNCHANGED <<globals, next, resetting, stack>>

\* v.x++ and v.x-- change nothing and are the integer zero.
PostfixMember ==
  /\ Room
  /\ \E name \in Names : \E cell \in Resolved(name) : PartOf(cell) /\ Yield(0, Value("float", "integer"))

----------------------------------------------------------------------------
(* Statements and calls *)

Local(name, static, type, depth) == [name |-> name, static |-> static, type |-> type, depth |-> depth]
NewFrame(f, locs) == [fun |-> f, depth |-> 0, locs |-> locs, temps |-> <<>>]
Statement == Evaluating /\ Temps = <<>>

\* S_DECL.  A value that is void counts as none.
Declare ==
  /\ Evaluating
  /\ Held - Len(Temps) < MaxValues
  /\ \E name \in Names, t \in Declared :
       LET Define(tag) == InTop([Top EXCEPT !.temps = <<>>, !.locs = Append(@, Local(name, t, tag, Top.depth))])
       IN  \/ Temps = <<>> /\ Define(t)
           \/ /\ Len(Temps) = 1
              /\ Assignable(Last1.static, t)
              /\ Define(IF Last1.type = "void" THEN t ELSE Coerce(Last1.type, t))
  /\ UNCHANGED <<globals, next, resetting, crashed>>

\* frame_enter
OpenScope ==
  /\ Statement
  /\ Top.depth < MaxDepth
  /\ InTop([Top EXCEPT !.depth = @ + 1])
  /\ UNCHANGED <<globals, next, resetting, crashed>>

\* The locals that frame_leave keeps: up to the last one that is not deeper.
Kept(locs, depth) == SubSeq(locs, 1, Max({0} \cup {k \in DOMAIN locs : locs[k].depth <= depth}))

CloseScope ==
  /\ Statement
  /\ Top.depth > 0
  /\ InTop([Top EXCEPT !.depth = @ - 1, !.locs = Kept(@, Top.depth - 1)])
  /\ UNCHANGED <<globals, next, resetting, crashed>>

\* Parameters are locals of scope 0.
Bind(params, values) ==
  [k \in DOMAIN params |->
     Local(params[k].name, params[k].static, Coerce(values[k].type, params[k].static), 0)]

\* vm_dispatch
Dispatch ==
  /\ Ready
  /\ stack = <<>>
  /\ \E h \in Handlers :
       stack' = <<NewFrame(h, Bind(h.params, [k \in DOMAIN h.params |-> Value(h.params[k].static, h.params[k].static)]))>>
  /\ UNCHANGED <<globals, next, resetting, crashed>>

HandlerEnds ==
  /\ Statement
  /\ Len(stack) = 1
  /\ stack' = <<>>
  /\ UNCHANGED <<globals, next, resetting, crashed>>

\* run_user_func
Call ==
  /\ Evaluating
  /\ Len(stack) < MaxFrames
  /\ \E f \in Functions :
       LET n == Len(f.params)
           args == SubSeq(Temps, Len(Temps) - n + 1, Len(Temps))
       IN  /\ n <= Len(Temps) /\ Held - n < MaxValues
           /\ \A k \in 1 .. n : Assignable(args[k].static, f.params[k].static)
           /\ stack' = Append([stack EXCEPT ![Len(stack)].temps = Dropped(n)], NewFrame(f, Bind(f.params, args)))
  /\ UNCHANGED <<globals, next, resetting, crashed>>

\* The caller goes on, with a value unless it is a call for nothing.
BackWith(values) ==
  /\ stack' = [Front(stack) EXCEPT ![Len(stack) - 1].temps = @ \o values]
  /\ UNCHANGED <<globals, next, resetting, crashed>>

\* S_RETURN.  The value is returned as it is.
Return ==
  /\ Evaluating
  /\ Len(stack) > 1 /\ Len(Temps) = 1
  /\ Top.fun.returns # "void" /\ Assignable(Last1.static, Top.fun.returns)
  /\ BackWith(<<Value(Top.fun.returns, Last1.type)>>)

FunctionEnds ==
  /\ Statement
  /\ Len(stack) > 1 /\ Top.fun.returns = "void"
  /\ BackWith(<<>>)

\* A change of state leaves a function before it returns.
CutShort ==
  /\ Statement
  /\ Len(stack) > 1 /\ Top.fun.returns # "void"
  /\ BackWith(<<Value(Top.fun.returns, "void")>>)

----------------------------------------------------------------------------
(* Globals *)

\* init_script, and llResetScript in the midst of a handler, one global at a time.
Init ==
  /\ globals = [k \in DOMAIN Globals |-> "void"]
  /\ next = 1 /\ resetting = FALSE
  /\ stack = <<>> /\ crashed = FALSE

InitGlobal ==
  /\ next <= Len(Globals)
  /\ LET g == Globals[next]
         Becomes(tag) == globals' = [globals EXCEPT ![next] = tag]
     IN  \/ g.init.kind = "none" /\ Becomes(IF resetting THEN "void" ELSE g.static)
         \/ g.init.kind = "literal" /\ Becomes(g.init.type)
         \/ g.init.kind = "name" /\ \E cell \in Resolved(g.init.name) : Becomes(TagOf(cell))
  /\ next' = next + 1
  /\ resetting' = (resetting /\ next < Len(Globals))
  /\ UNCHANGED <<stack, crashed>>

Reset ==
  /\ Room
  /\ globals' = [k \in DOMAIN Globals |-> "void"]
  /\ next' = 1 /\ resetting' = (Globals # <<>>)
  /\ UNCHANGED <<stack, crashed>>

----------------------------------------------------------------------------
Evaluate ==
  \/ Literal \/ ReadName \/ UnknownCall \/ Binary \/ DivideByZero \/ Truth \/ Cast \/ Member \/ Discard
  \/ Assign \/ Compound \/ CompoundByZero
  \/ AssignMember \/ CompoundMember \/ IncrementMember \/ PostfixMember
Execute ==
  \/ Declare \/ OpenScope \/ CloseScope
  \/ Dispatch \/ HandlerEnds \/ Call \/ Return \/ FunctionEnds \/ CutShort
Next == Evaluate \/ Execute \/ InitGlobal \/ Reset

Spec == Init /\ [][Next]_vars

----------------------------------------------------------------------------
(* What it promises *)

Operand == [static : Types, type : Tags]
LocalBinding == [name : Names, static : Types, type : Tags, depth : 0 .. MaxDepth]
Frame ==
  [fun : Functions \cup Handlers, depth : 0 .. MaxDepth, locs : Seq(LocalBinding), temps : Seq(Operand)]

\* Every variable has its type; no scope is deeper than the one that is open.
TypeOK ==
  /\ globals \in [DOMAIN Globals -> Tags]
  /\ next \in 1 .. (Len(Globals) + 1)
  /\ resetting \in BOOLEAN /\ crashed \in BOOLEAN
  /\ stack \in Seq(Frame)
  /\ \A k \in DOMAIN stack : \A j \in DOMAIN stack[k].locs : stack[k].locs[j].depth <= stack[k].depth

\* All values that there are: of globals, locals and operands.
Typed(v) == v.type = v.static
AllTyped ==
  /\ \A k \in DOMAIN Globals : globals[k] = Globals[k].static
  /\ \A k \in DOMAIN stack :
       /\ \A j \in DOMAIN stack[k].locs : Typed(stack[k].locs[j])
       /\ \A j \in DOMAIN stack[k].temps : Typed(stack[k].temps[j])

\* The operations that give a value another type than the compiler did.
Leaks ==
  \/ DivideByZero \/ CompoundByZero
  \/ PostfixMember
  \/ CompoundMember \/ IncrementMember
  \/ UnknownCall \/ CutShort \/ Reset
  \/ Return /\ Last1.type # Top.fun.returns

\* As long as the tags of all values are their static types, whatever a script does
\* leaves them so (and reads nothing through a null pointer), but for the leaks.
TypesHold == [][AllTyped => Leaks \/ (AllTyped' /\ ~crashed')]_vars

Kind(static) ==
  IF static \in Text THEN Text ELSE IF static \in {"list", "rotation"} THEN {static} ELSE Number \cup {"vector"}
OfItsKind(v) == v.type \in Kind(v.static) \cup {"void"}
AllOfTheirKind ==
  /\ \A k \in DOMAIN Globals : globals[k] \in Kind(Globals[k].static) \cup {"void"}
  /\ \A k \in DOMAIN stack :
       /\ \A j \in DOMAIN stack[k].locs : OfItsKind(stack[k].locs[j])
       /\ \A j \in DOMAIN stack[k].temps : OfItsKind(stack[k].temps[j])

\* The initialiser of a global that llResetScript evaluates reads a local that has
\* the name of the global it means.
Misread ==
  /\ InitGlobal
  /\ Globals[next].init.kind = "name"
  /\ Find(Locs, Globals[next].init.name) > 0

\* What has lost its type is still of its kind: lists are lists, texts are texts,
\* rotations are rotations, or void.  Only numbers and vectors may get mixed up.
KindsHold == [][AllOfTheirKind => Misread \/ AllOfTheirKind']_vars

\* Of each call the scopes, of each scope the variables, of each variable the tag:
\* the last declaration of a name at a depth is the variable of that scope.
Variables(locs, d) ==
  LET there == {k \in DOMAIN locs : locs[k].depth = d}
      last(name) == Max({k \in there : locs[k].name = name})
  IN  [name \in {locs[k].name : k \in there} |-> locs[last(name)].type]
ScopesOf(frame) == [d \in 1 .. (frame.depth + 1) |-> Variables(frame.locs, d - 1)]

Scoped == INSTANCE Scoping WITH
  Global <- {Globals[k].name : k \in DOMAIN Globals},
  store <- [name \in {Globals[k].name : k \in DOMAIN Globals} |-> globals[FindGlobal(name)]],
  calls <- [k \in DOMAIN stack |-> ScopesOf(stack[k])],
  starting <- next <= Len(Globals)

\* The one list of locals, with the depths that frame_define writes and frame_leave
\* cuts at, makes names mean what nested scopes make them mean.
ScopingSpec == Scoped!Spec

\* "Re-initialise globals & state", llResetScript: when a reset has ended the globals
\* are what init_script made them.
FirstTag == [k \in DOMAIN Globals |-> IF Globals[k].init.kind = "literal" THEN Globals[k].init.type ELSE Globals[k].static]
ResetRestores ==
  [][resetting /\ ~resetting' => \A k \in DOMAIN Globals : Globals[k].init.kind = "name" \/ globals'[k] = FirstTag[k]]_vars

=============================================================================
