---------------------------- MODULE ValuesProofs ----------------------------
(***************************************************************************)
(* Proofs about Values, for every program: its types, what becomes of the  *)
(* types of values, and that its names are those of nested scopes.         *)
(*                                                                         *)
(* The theorems about types say that the values that there are stay within *)
(* a set G of pairs of a static type and a tag.  That a step keeps them    *)
(* there is shown once, for any G that the operations do not lead out of;  *)
(* then come the sets: all pairs, the pairs of one kind, the pairs of      *)
(* equals.  The theorem about scopes rests on the order of the locals that *)
(* is part of all three.                                                   *)
(***************************************************************************)
EXTENDS Values, Induction, SequenceTheorems, TLAPS

\* Locals lie in the order of the scopes that they belong to.
Ordered(fr) ==
  /\ \A j \in DOMAIN fr.locs : fr.locs[j].depth <= fr.depth
  /\ \A j, k \in DOMAIN fr.locs : j <= k => fr.locs[j].depth <= fr.locs[k].depth

Pair(l) == Value(l.static, l.type)
Holds(fr, G) ==
  /\ \A j \in DOMAIN fr.locs : Pair(fr.locs[j]) \in G
  /\ \A j \in DOMAIN fr.temps : fr.temps[j] \in G
Fine(fr, G) == fr \in Frame /\ Ordered(fr) /\ Holds(fr, G)

StackIn(G) == stack \in Seq(Frame) /\ \A k \in DOMAIN stack : Fine(stack[k], G)
GlobalsIn(G) ==
  globals \in [DOMAIN Globals -> Tags] /\ \A k \in DOMAIN Globals : Value(Globals[k].static, globals[k]) \in G

\* A global whose turn has not come is void.
Rest ==
  /\ next \in 1 .. (Len(Globals) + 1)
  /\ resetting \in BOOLEAN /\ crashed \in BOOLEAN
  /\ \A k \in DOMAIN Globals : k >= next => globals[k] = "void"

Inv(G) == StackIn(G) /\ GlobalsIn(G) /\ Rest

\* What the operations make of values that are in G is in G.
Closed(G) ==
  /\ \A t \in Types : Value(t, t) \in G
  /\ \A l, r \in G, op \in Operators :
       Static(op, l.static, r.static) # "void" =>
         Value(Static(op, l.static, r.static), Result(op, l.type, r.type)) \in G
  /\ \A a \in G, t \in Types :
       Assignable(a.static, t) => Value(t, Coerce(a.type, t)) \in G
  /\ \A a, c \in G : Assignable(a.static, c.static) => Value(c.static, Coerce(a.type, c.type)) \in G
  /\ \A a, c \in G : c.static \in Structured /\ Assignable(a.static, "float") =>
       Value("float", IF c.type \in Structured THEN Coerce(a.type, "float") ELSE a.type) \in G
\* The same of the operations that are leaks.
Tolerant(G) ==
  /\ Value("float", "integer") \in G
  /\ \A t \in Number \cup {"vector"} : Value(t, "float") \in G
  /\ \A t \in Types : Value(t, "void") \in G
  /\ \A a \in G, t \in Types : Assignable(a.static, t) => Value(t, a.type) \in G
  /\ \A a, c \in G, op \in Arithmetic : a.static \in Number /\ c.static \in Structured =>
       LET old == IF c.type = "vector" THEN "float" ELSE "void"
           tag == Result(op, old, a.type)
       IN  Value("float", IF c.type \in Structured THEN Coerce(tag, "float") ELSE tag) \in G

----------------------------------------------------------------------------
(* Names *)

LEMMA FoundIsThere ==
  ASSUME NEW S, NEW locs \in Seq(S), NEW name
  PROVE  Find(locs, name) \in 0 .. Len(locs)
<1> DEFINE T == {0} \cup Named(locs, name)
<1>1. Len(locs) \in Nat /\ T \in SUBSET (0 .. Len(locs)) /\ T # {}  BY DEF Named
<1> HIDE DEF T
<1>2. Max(T) \in T  BY <1>1, MaxIsGreatest
<1> QED  BY <1>1, <1>2 DEF Find, T

LEMMA GlobalFoundIsThere ==
  ASSUME NEW name
  PROVE  /\ FindGlobal(name) \in 0 .. Len(Globals)
         /\ FindGlobal(name) > 0 =>
              /\ Globals[FindGlobal(name)].name = name
              /\ \A k \in DOMAIN Globals : Globals[k].name = name => FindGlobal(name) <= k
         /\ FindGlobal(name) = 0 => \A k \in DOMAIN Globals : Globals[k].name # name
<1>1. Named(Globals, name) \subseteq Nat /\ Named(Globals, name) \subseteq 1 .. Len(Globals)
  BY ValuesAssumption DEF Named
<1>2. CASE Named(Globals, name) = {}  BY <1>2, ValuesAssumption DEF FindGlobal, Named
<1>3. CASE Named(Globals, name) # {}
  <2>1. FindGlobal(name) = Min(Named(Globals, name))  BY <1>3 DEF FindGlobal
  <2>2. FindGlobal(name) \in Named(Globals, name) /\ \A k \in Named(Globals, name) : FindGlobal(name) <= k
    BY <2>1, <1>1, <1>3, MinIsLeast
  <2>3. FindGlobal(name) \in 1 .. Len(Globals)  BY <2>2, <1>1
  <2> QED  BY <2>2, <2>3 DEF Named
<1> QED  BY <1>2, <1>3

\* A name leads to a value that there is.
LEMMA CellIsThere ==
  ASSUME NEW G, G \subseteq Operand, Inv(G), NEW name, NEW cell \in Resolved(name)
  PROVE  /\ cell \in Cells
         /\ Value(StaticOf(cell), TagOf(cell)) \in G
<1>1. CASE Find(Locs, name) > 0
  <2>1. cell = [where |-> "local", at |-> Find(Locs, name)]  BY <1>1 DEF Resolved
  <2>2. stack # <<>>
    <3> SUFFICES ASSUME stack = <<>> PROVE FALSE  OBVIOUS
    <3>1. Locs = <<>> /\ <<>> \in Seq({}) /\ Len(<<>>) = 0  BY DEF Locs
    <3>2. Find(<<>>, name) \in 0 .. 0  BY <3>1, FoundIsThere
    <3> QED  BY <3>1, <3>2, <1>1
  <2>3. Locs = Top.locs /\ Top \in Frame /\ Holds(Top, G)
    BY <2>2 DEF Locs, Top, Inv, StackIn, Fine
  <2>4. Find(Locs, name) \in DOMAIN Locs  BY <1>1, <2>3, FoundIsThere DEF Frame
  <2> QED  BY <2>1, <2>3, <2>4 DEF Cells, Holds, Pair, StaticOf, TagOf
<1>2. CASE ~(Find(Locs, name) > 0)
  <2>1. FindGlobal(name) > 0 /\ cell = [where |-> "global", at |-> FindGlobal(name)]  BY <1>2 DEF Resolved
  <2>2. FindGlobal(name) \in DOMAIN Globals  BY <2>1, GlobalFoundIsThere, ValuesAssumption
  <2> QED  BY <2>1, <2>2 DEF Cells, StaticOf, TagOf, Inv, GlobalsIn
<1> QED  BY <1>1, <1>2

----------------------------------------------------------------------------
(* Frames *)

LEMMA TopIsFine ==
  ASSUME NEW G, StackIn(G), stack # <<>>
  PROVE  /\ Len(stack) \in DOMAIN stack /\ Len(stack) >= 1
         /\ Top \in Frame /\ Ordered(Top) /\ Holds(Top, G)
         /\ Temps \in Seq(Operand) /\ Top.locs \in Seq(LocalBinding) /\ Top.depth \in 0 .. MaxDepth
<1>1. Len(stack) \in DOMAIN stack /\ Len(stack) >= 1  BY DEF StackIn
<1> QED  BY <1>1 DEF StackIn, Fine, Top, Temps, Frame

\* The operands that are left when n of them are used up, and one more.
LEMMA Fewer ==
  ASSUME NEW S, NEW q \in Seq(S), NEW n \in 0 .. Len(q)
  PROVE  /\ SubSeq(q, 1, Len(q) - n) \in Seq(S)
         /\ Len(SubSeq(q, 1, Len(q) - n)) = Len(q) - n
         /\ \A j \in 1 .. (Len(q) - n) : SubSeq(q, 1, Len(q) - n)[j] = q[j]
OBVIOUS

LEMMA DroppedHold ==
  ASSUME NEW G, StackIn(G), stack # <<>>, NEW n \in 0 .. Len(Temps)
  PROVE  Dropped(n) \in Seq(Operand) /\ \A j \in DOMAIN Dropped(n) : Dropped(n)[j] \in G
<1>1. Temps \in Seq(Operand) /\ \A j \in DOMAIN Temps : Temps[j] \in G
  BY TopIsFine DEF Holds, Temps
<1>2. /\ Dropped(n) \in Seq(Operand) /\ Len(Dropped(n)) = Len(Temps) - n
      /\ \A j \in 1 .. (Len(Temps) - n) : Dropped(n)[j] = Temps[j]
  BY <1>1, Fewer DEF Dropped
<1>3. DOMAIN Dropped(n) = 1 .. (Len(Temps) - n) /\ DOMAIN Temps = 1 .. Len(Temps)  BY <1>1, <1>2
<1>4. 1 .. (Len(Temps) - n) \subseteq 1 .. Len(Temps)  BY <1>1
<1> QED  BY <1>1, <1>2, <1>3, <1>4

LEMMA Appended ==
  ASSUME NEW S, NEW G, NEW q \in Seq(S), NEW v \in S, v \in G, \A j \in DOMAIN q : q[j] \in G
  PROVE  Append(q, v) \in Seq(S) /\ \A j \in DOMAIN Append(q, v) : Append(q, v)[j] \in G
OBVIOUS

\* Whatever is done to the innermost frame, if it stays fine then so does the stack.
LEMMA TopReplaced ==
  ASSUME NEW G, StackIn(G), stack # <<>>, NEW fr, Fine(fr, G), InTop(fr)
  PROVE  StackIn(G)'
<1>1. Len(stack) \in DOMAIN stack /\ stack \in Seq(Frame)  BY TopIsFine DEF StackIn
<1>2. stack' = [stack EXCEPT ![Len(stack)] = fr]  BY DEF InTop
<1>3. fr \in Frame  BY DEF Fine
<1>4. stack' \in Seq(Frame) /\ DOMAIN stack' = DOMAIN stack  BY <1>1, <1>2, <1>3
<1>5. \A k \in DOMAIN stack : Fine(stack'[k], G)  BY <1>1, <1>2 DEF StackIn
<1> QED  BY <1>4, <1>5 DEF StackIn

\* A frame of which only the operands are others.
LEMMA NewTemps ==
  ASSUME NEW G, StackIn(G), stack # <<>>,
         NEW q \in Seq(Operand), \A j \in DOMAIN q : q[j] \in G
  PROVE  Fine([Top EXCEPT !.temps = q], G)
<1> DEFINE fr == [Top EXCEPT !.temps = q]
<1>1. Top \in Frame /\ Ordered(Top) /\ Holds(Top, G)  BY TopIsFine
<1>2. fr \in Frame /\ fr.locs = Top.locs /\ fr.depth = Top.depth /\ fr.temps = q  BY <1>1 DEF Frame
<1> HIDE DEF fr
<1>3. Ordered(fr) /\ Holds(fr, G)  BY <1>1, <1>2 DEF Ordered, Holds
<1> QED  BY <1>2, <1>3 DEF Fine, fr

LEMMA RestKept ==
  ASSUME NEW G, GlobalsIn(G), Rest, UNCHANGED <<globals, next, resetting>>, crashed' \in BOOLEAN
  PROVE  GlobalsIn(G)' /\ Rest'
BY DEF GlobalsIn, Rest

LEMMA YieldKeeps ==
  ASSUME NEW G, G \subseteq Operand, Inv(G), Evaluating,
         NEW n \in 0 .. Len(Temps), NEW v \in G, Yield(n, v)
  PROVE  Inv(G)'
<1>1. stack # <<>> /\ StackIn(G)  BY DEF Evaluating, Inv
<1>2. Dropped(n) \in Seq(Operand) /\ \A j \in DOMAIN Dropped(n) : Dropped(n)[j] \in G  BY <1>1, DroppedHold
<1>3. /\ Append(Dropped(n), v) \in Seq(Operand)
      /\ \A j \in DOMAIN Append(Dropped(n), v) : Append(Dropped(n), v)[j] \in G
  BY <1>2, Appended
<1>4. Fine([Top EXCEPT !.temps = Append(Dropped(n), v)], G)  BY <1>1, <1>3, NewTemps
<1>5. StackIn(G)'  BY <1>1, <1>4, TopReplaced DEF Yield
<1>6. GlobalsIn(G)' /\ Rest'  BY RestKept DEF Yield, Inv, Rest
<1> QED  BY <1>5, <1>6 DEF Inv

LEMMA WriteKeeps ==
  ASSUME NEW G, G \subseteq Operand, Inv(G), Evaluating,
         NEW n \in 0 .. Len(Temps), NEW v \in G, NEW name, NEW cell \in Resolved(name),
         NEW tag \in Tags, Value(StaticOf(cell), tag) \in G, Write(cell, tag, n, v)
  PROVE  Inv(G)'
<1>1. stack # <<>> /\ StackIn(G)  BY DEF Evaluating, Inv
<1>2. cell \in Cells  BY CellIsThere
<1> DEFINE q == Append(Dropped(n), v)
<1>3. q \in Seq(Operand) /\ \A j \in DOMAIN q : q[j] \in G  BY <1>1, DroppedHold, Appended
<1> HIDE DEF q
<1>4. CASE cell.where = "local"
  <2>1. cell.at \in DOMAIN Locs /\ Locs = Top.locs  BY <1>1, <1>2, <1>4 DEF Cells, Locs
  <2> DEFINE fr == [Top EXCEPT !.temps = q, !.locs[cell.at].type = tag]
  <2>2. InTop(fr) /\ UNCHANGED <<globals, next, resetting, crashed>>  BY <1>4 DEF Write, q
  <2>3. Top \in Frame /\ Ordered(Top) /\ Holds(Top, G) /\ Top.locs \in Seq(LocalBinding)  BY <1>1, TopIsFine
  <2>4. /\ fr \in [fun : Functions \cup Handlers, depth : 0 .. MaxDepth, locs : {fr.locs}, temps : Seq(Operand)]
        /\ fr.depth = Top.depth /\ fr.temps = q /\ fr.locs = [Top.locs EXCEPT ![cell.at].type = tag]
    BY <2>3, <1>3 DEF Frame
  <2>5. fr.locs \in Seq(LocalBinding) /\ DOMAIN fr.locs = DOMAIN Top.locs
    <3> DEFINE x == [Top.locs[cell.at] EXCEPT !.type = tag]
    <3>0. Top.locs[cell.at] \in LocalBinding  BY <2>1, <2>3
    <3>1. x \in LocalBinding  BY <3>0 DEF LocalBinding
    <3>2. fr.locs = [Top.locs EXCEPT ![cell.at] = x]  BY <2>4
    <3> HIDE DEF x, fr
    <3> QED  BY <2>1, <2>3, <3>1, <3>2
  <2>6. \A j \in DOMAIN Top.locs : /\ fr.locs[j].depth = Top.locs[j].depth
                                   /\ fr.locs[j].static = Top.locs[j].static
                                   /\ fr.locs[j].type = IF j = cell.at THEN tag ELSE Top.locs[j].type
    <3> SUFFICES ASSUME NEW j \in DOMAIN Top.locs
                 PROVE  /\ fr.locs[j].depth = Top.locs[j].depth
                        /\ fr.locs[j].static = Top.locs[j].static
                        /\ fr.locs[j].type = IF j = cell.at THEN tag ELSE Top.locs[j].type
      OBVIOUS
    <3>1. Top.locs[j] \in LocalBinding  BY <2>3
    <3>2. fr.locs[j] = IF j = cell.at THEN [Top.locs[j] EXCEPT !.type = tag] ELSE Top.locs[j]
      BY <2>1, <2>3, <2>4
    <3> HIDE DEF fr
    <3> QED  BY <3>1, <3>2 DEF LocalBinding
  <2>7. fr \in Frame  BY <2>4, <2>5 DEF Frame
  <2> HIDE DEF fr
  <2>8. Ordered(fr)  BY <2>3, <2>4, <2>5, <2>6 DEF Ordered
  <2>9. StaticOf(cell) = Top.locs[cell.at].static  BY <1>4, <2>1 DEF StaticOf
  <2>10. Holds(fr, G)  BY <2>3, <2>4, <2>5, <2>6, <2>9, <1>3 DEF Holds, Pair, Value
  <2>11. StackIn(G)'  BY <1>1, <2>2, <2>7, <2>8, <2>10, TopReplaced DEF Fine
  <2>12. GlobalsIn(G)' /\ Rest'  BY <2>2, RestKept DEF Inv, Rest
  <2> QED  BY <2>11, <2>12 DEF Inv
<1>5. CASE cell.where = "global"
  <2>1. cell.at \in DOMAIN Globals  BY <1>2, <1>5 DEF Cells
  <2>2. InTop([Top EXCEPT !.temps = q]) /\ globals' = [globals EXCEPT ![cell.at] = tag]
        /\ UNCHANGED <<next, resetting, crashed>>
    BY <1>5 DEF Write, q
  <2>3. StackIn(G)'  BY <1>1, <1>3, <2>2, NewTemps, TopReplaced
  <2>4. GlobalsIn(G)'  BY <2>1, <2>2, <1>5 DEF Inv, GlobalsIn, StaticOf
  <2>5. next > Len(Globals)  BY DEF Evaluating, Ready
  <2>6. Rest'  BY <2>2, <2>5, ValuesAssumption DEF Inv, Rest
  <2> QED  BY <2>3, <2>4, <2>6 DEF Inv
<1> QED  BY <1>2, <1>4, <1>5 DEF Cells

----------------------------------------------------------------------------
(* Evaluation *)

LEMMA LastOperands ==
  ASSUME NEW G, G \subseteq Operand, Inv(G), NEW n \in 1 .. 2, Holding(n)
  PROVE  /\ Evaluating /\ 1 \in 0 .. Len(Temps) /\ n \in 0 .. Len(Temps)
         /\ Last1 \in G /\ Last1 \in Operand
         /\ n = 2 => Last2 \in G /\ Last2 \in Operand
<1>1. StackIn(G) /\ stack # <<>> /\ Evaluating /\ Len(Temps) >= n  BY DEF Holding, Evaluating, Inv
<1>2. Temps \in Seq(Operand) /\ \A j \in DOMAIN Temps : Temps[j] \in G  BY <1>1, TopIsFine DEF Holds, Temps
<1>3. Len(Temps) \in DOMAIN Temps /\ (n = 2 => (Len(Temps) - 1) \in DOMAIN Temps)  BY <1>1, <1>2
<1> QED  BY <1>1, <1>2, <1>3 DEF Last1, Last2

LEMMA RoomHere ==
  ASSUME NEW G, Inv(G), Room
  PROVE  Evaluating /\ 0 \in 0 .. Len(Temps)
<1>1. StackIn(G) /\ stack # <<>> /\ Evaluating  BY DEF Room, Evaluating, Inv
<1> QED  BY <1>1, TopIsFine

LEMMA Tagged ==
  ASSUME NEW v \in Operand, NEW t
  PROVE  Coerce(v.type, t) \in Tags \cup {t}
BY DEF Coerce, Operand

\* The operations that the compiler and the interpreter see alike.
LEMMA SoundStep ==
  ASSUME NEW G, G \subseteq Operand, Closed(G), Inv(G),
         Literal \/ ReadName \/ Binary \/ Truth \/ Cast \/ Member \/ Discard \/ Assign \/ Compound \/ AssignMember
  PROVE  Inv(G)'
<1>1. CASE Literal
  <2>1. PICK t \in Literals : Yield(0, Value(t, t))  BY <1>1 DEF Literal
  <2>2. Value(t, t) \in G  BY ValuesAssumption DEF Closed
  <2> QED  BY <1>1, <2>1, <2>2, RoomHere, YieldKeeps DEF Literal
<1>2. CASE ReadName
  <2>1a. PICK name \in Names : \E cell \in Resolved(name) : Yield(0, Value(StaticOf(cell), TagOf(cell)))
    BY <1>2 DEF ReadName
  <2>1. PICK cell \in Resolved(name) : Yield(0, Value(StaticOf(cell), TagOf(cell)))
    BY <2>1a
  <2> QED  BY <1>2, <2>1, CellIsThere, RoomHere, YieldKeeps DEF ReadName
<1>3. CASE Binary
  <2>1. PICK op \in Operators :
          /\ Static(op, Last2.static, Last1.static) # "void"
          /\ Yield(2, Value(Static(op, Last2.static, Last1.static), Result(op, Last2.type, Last1.type)))
    BY <1>3 DEF Binary
  <2>2. Holding(2)  BY <1>3 DEF Binary
  <2>3. Last1 \in G /\ Last2 \in G /\ Evaluating /\ 2 \in 0 .. Len(Temps)  BY <2>2, LastOperands
  <2> QED  BY <2>1, <2>3, YieldKeeps DEF Closed
<1>4. CASE Truth
  <2>1. Evaluating /\ 1 \in 0 .. Len(Temps)  BY <1>4, LastOperands DEF Truth
  <2>2. Value("integer", "integer") \in G  BY DEF Closed, Types
  <2> QED  BY <1>4, <2>1, <2>2, YieldKeeps DEF Truth
<1>5. CASE Cast
  <2>1. Evaluating /\ 1 \in 0 .. Len(Temps)  BY <1>5, LastOperands DEF Cast
  <2>2. PICK t \in Declared : Yield(1, Value(t, t))  BY <1>5 DEF Cast
  <2>3. Value(t, t) \in G  BY ValuesAssumption DEF Closed
  <2> QED  BY <2>1, <2>2, <2>3, YieldKeeps
<1>6. CASE Member
  <2>1. Evaluating /\ 1 \in 0 .. Len(Temps)  BY <1>6, LastOperands DEF Member
  <2>2. Value("float", "float") \in G  BY DEF Closed, Types
  <2> QED  BY <1>6, <2>1, <2>2, YieldKeeps DEF Member
<1>7. CASE Discard
  <2>1. Evaluating /\ 1 \in 0 .. Len(Temps) /\ StackIn(G) /\ stack # <<>>
    BY <1>7, LastOperands DEF Discard, Evaluating, Inv
  <2>2. StackIn(G)'  BY <1>7, <2>1, DroppedHold, NewTemps, TopReplaced DEF Discard
  <2>3. GlobalsIn(G)' /\ Rest'  BY <1>7, RestKept DEF Discard, Inv, Rest
  <2> QED  BY <2>2, <2>3 DEF Inv
<1>8. CASE Assign
  <2>1. Evaluating /\ 1 \in 0 .. Len(Temps) /\ Last1 \in G /\ Last1 \in Operand  BY <1>8, LastOperands DEF Assign
  <2>2a. PICK name \in Names : \E cell \in Resolved(name) :
          /\ Assignable(Last1.static, StaticOf(cell))
          /\ Write(cell, Coerce(Last1.type, TagOf(cell)), 1,
                   Value(StaticOf(cell), Coerce(Last1.type, TagOf(cell))))
    BY <1>8 DEF Assign
  <2>2. PICK cell \in Resolved(name) :
          /\ Assignable(Last1.static, StaticOf(cell))
          /\ Write(cell, Coerce(Last1.type, TagOf(cell)), 1,
                   Value(StaticOf(cell), Coerce(Last1.type, TagOf(cell))))
    BY <2>2a
  <2> DEFINE c == Value(StaticOf(cell), TagOf(cell))
  <2>3. c \in G /\ c.static = StaticOf(cell) /\ c.type = TagOf(cell) /\ TagOf(cell) \in Tags
    BY CellIsThere DEF Value, Operand
  <2>4. Value(c.static, Coerce(Last1.type, c.type)) \in G  BY <2>1, <2>2, <2>3 DEF Closed
  <2>5. Coerce(Last1.type, TagOf(cell)) \in Tags  BY <2>1, <2>3, Tagged
  <2> QED  BY <2>1, <2>2, <2>3, <2>4, <2>5, WriteKeeps
<1>9. CASE Compound
  <2>1. Evaluating /\ 1 \in 0 .. Len(Temps) /\ Last1 \in G /\ Last1 \in Operand  BY <1>9, LastOperands DEF Compound
  <2>2a. PICK name \in Names, op \in Arithmetic \cup {"%"} : \E cell \in Resolved(name) :
          /\ Assignable(Static(op, StaticOf(cell), Last1.static), StaticOf(cell))
          /\ Write(cell, Coerce(Result(op, TagOf(cell), Last1.type), TagOf(cell)), 1,
                   Value(StaticOf(cell), Coerce(Result(op, TagOf(cell), Last1.type), TagOf(cell))))
    BY <1>9 DEF Compound
  <2>2. PICK cell \in Resolved(name) :
          /\ Assignable(Static(op, StaticOf(cell), Last1.static), StaticOf(cell))
          /\ Write(cell, Coerce(Result(op, TagOf(cell), Last1.type), TagOf(cell)), 1,
                   Value(StaticOf(cell), Coerce(Result(op, TagOf(cell), Last1.type), TagOf(cell))))
    BY <2>2a
  <2> DEFINE c == Value(StaticOf(cell), TagOf(cell))
             r == Value(Static(op, c.static, Last1.static), Result(op, c.type, Last1.type))
  <2>3. c \in G /\ c.static = StaticOf(cell) /\ c.type = TagOf(cell) /\ TagOf(cell) \in Tags /\ c.static \in Types
    BY CellIsThere DEF Value, Operand
  <2>4. r.static = Static(op, c.static, Last1.static) /\ r.type = Result(op, c.type, Last1.type)  BY DEF Value
  <2>5. r.static # "void"  BY <2>2, <2>3, <2>4 DEF Assignable, Types, Text
  <2> HIDE DEF c
  <2>6. r \in G  BY <2>1, <2>3, <2>4, <2>5 DEF Closed, Operators, Arithmetic
  <2> HIDE DEF r
  <2>7. Value(c.static, Coerce(r.type, c.type)) \in G  BY <2>2, <2>3, <2>4, <2>6 DEF Closed
  <2>8. Coerce(r.type, TagOf(cell)) \in Tags  BY <2>3, <2>6, Tagged
  <2> QED  BY <2>1, <2>2, <2>3, <2>4, <2>7, <2>8, WriteKeeps
<1>10. CASE AssignMember
  <2>1. Evaluating /\ 1 \in 0 .. Len(Temps) /\ Last1 \in G  BY <1>10, LastOperands DEF AssignMember
  <2>2a. PICK name \in Names : \E cell \in Resolved(name) :
          PartOf(cell) /\ Yield(1, Value("float", PartTag(cell, Last1.type)))
    BY <1>10 DEF AssignMember
  <2>2. PICK cell \in Resolved(name) :
          PartOf(cell) /\ Yield(1, Value("float", PartTag(cell, Last1.type)))
    BY <2>2a
  <2>3. Assignable(Last1.static, "float")  BY <1>10 DEF AssignMember
  <2> DEFINE c == Value(StaticOf(cell), TagOf(cell))
  <2>4. c \in G /\ c.static = StaticOf(cell) /\ c.type = TagOf(cell)  BY CellIsThere DEF Value
  <2>5. Value("float", PartTag(cell, Last1.type)) \in G
    BY <2>1, <2>2, <2>3, <2>4 DEF Closed, PartOf, PartTag
  <2> QED  BY <2>1, <2>2, <2>5, YieldKeeps
<1> QED  BY <1>1, <1>2, <1>3, <1>4, <1>5, <1>6, <1>7, <1>8, <1>9, <1>10

\* The others, for sets that allow what they do.
LEMMA LeakingStep ==
  ASSUME NEW G, G \subseteq Operand, Tolerant(G), Inv(G),
         DivideByZero \/ CompoundByZero \/ UnknownCall \/ CompoundMember \/ IncrementMember \/ PostfixMember
  PROVE  Inv(G)'
<1>1. CASE DivideByZero
  <2>1. Evaluating /\ 2 \in 0 .. Len(Temps)  BY <1>1, LastOperands DEF DivideByZero
  <2>2. Wider(Last2.static, Last1.static) \in Number  BY DEF Wider, Number
  <2>3. Value(Wider(Last2.static, Last1.static), "float") \in G  BY <2>2 DEF Tolerant
  <2> QED  BY <1>1, <2>1, <2>3, YieldKeeps DEF DivideByZero
<1>2. CASE CompoundByZero
  <2>1. Evaluating /\ 1 \in 0 .. Len(Temps)  BY <1>2, LastOperands DEF CompoundByZero
  <2>2a. PICK name \in Names : \E cell \in Resolved(name) :
          /\ Assignable(Static("/", StaticOf(cell), Last1.static), StaticOf(cell))
          /\ Write(cell, "float", 1, Value(StaticOf(cell), "float"))
    BY <1>2 DEF CompoundByZero
  <2>2. PICK cell \in Resolved(name) :
          /\ Assignable(Static("/", StaticOf(cell), Last1.static), StaticOf(cell))
          /\ Write(cell, "float", 1, Value(StaticOf(cell), "float"))
    BY <2>2a
  <2> DEFINE c == Value(StaticOf(cell), TagOf(cell))
  <2>3. c \in Operand /\ c.static = StaticOf(cell)  BY CellIsThere DEF Value
  <2>4. StaticOf(cell) \in Types  BY <2>3 DEF Operand
  <2>5. StaticOf(cell) \in Number \cup {"vector"}
    BY <2>2, <2>4 DEF Assignable, Static, Types, Number, Text, Arithmetic, Wider
  <2>6. Value(StaticOf(cell), "float") \in G /\ "float" \in Tags  BY <2>5 DEF Tolerant, Tags, Types
  <2> QED  BY <2>1, <2>2, <2>6, WriteKeeps
<1>3. CASE UnknownCall
  <2>1. PICK t \in Declared : Yield(0, Value(t, "void"))  BY <1>3 DEF UnknownCall
  <2>2. Value(t, "void") \in G  BY ValuesAssumption DEF Tolerant
  <2> QED  BY <1>3, <2>1, <2>2, RoomHere, YieldKeeps DEF UnknownCall
<1>4. CASE CompoundMember
  <2>1. Evaluating /\ 1 \in 0 .. Len(Temps) /\ Last1 \in G /\ Last1.static \in Number
    BY <1>4, LastOperands DEF CompoundMember
  <2> DEFINE Old(cell) == IF TagOf(cell) = "vector" THEN "float" ELSE "void"
  <2>2a. PICK name \in Names, op \in Arithmetic : \E cell \in Resolved(name) :
          PartOf(cell) /\ Yield(1, Value("float", PartTag(cell, Result(op, Old(cell), Last1.type))))
    BY <1>4 DEF CompoundMember
  <2>2. PICK cell \in Resolved(name) :
          PartOf(cell) /\ Yield(1, Value("float", PartTag(cell, Result(op, Old(cell), Last1.type))))
    BY <2>2a
  <2> DEFINE c == Value(StaticOf(cell), TagOf(cell))
  <2>3. c \in G /\ c.static = StaticOf(cell) /\ c.type = TagOf(cell)  BY CellIsThere DEF Value
  <2> HIDE DEF c
  <2>4. Value("float", PartTag(cell, Result(op, Old(cell), Last1.type))) \in G
    BY <2>1, <2>2, <2>3 DEF Tolerant, PartOf, PartTag
  <2> HIDE DEF Old
  <2> QED  BY <2>1, <2>2, <2>4, YieldKeeps
<1>5. CASE IncrementMember
  <2>1. CASE Yield(0, Value("float", "float"))
    <3>1. Value("float", "float") \in G  BY DEF Tolerant, Number
    <3> QED  BY <1>5, <2>1, <3>1, RoomHere, YieldKeeps DEF IncrementMember
  <2>2. CASE crashed' = TRUE /\ UNCHANGED <<globals, next, resetting, stack>>
    <3>1. GlobalsIn(G)' /\ Rest'  BY <2>2, RestKept DEF Inv
    <3>2. StackIn(G)'  BY <2>2 DEF Inv, StackIn
    <3> QED  BY <3>1, <3>2 DEF Inv
  <2> QED  BY <1>5, <2>1, <2>2 DEF IncrementMember
<1>6. CASE PostfixMember
  <2>1. Yield(0, Value("float", "integer"))  BY <1>6 DEF PostfixMember
  <2>2. Value("float", "integer") \in G  BY DEF Tolerant
  <2> QED  BY <1>6, <2>1, <2>2, RoomHere, YieldKeeps DEF PostfixMember
<1> QED  BY <1>1, <1>2, <1>3, <1>4, <1>5, <1>6

----------------------------------------------------------------------------
(* Statements *)

LEMMA DeclareKeeps ==
  ASSUME NEW G, G \subseteq Operand, Closed(G), Inv(G), Declare
  PROVE  Inv(G)'
<1>1. StackIn(G) /\ stack # <<>> /\ Evaluating  BY DEF Declare, Evaluating, Inv
<1>2. /\ Top \in Frame /\ Ordered(Top) /\ Holds(Top, G)
      /\ Temps \in Seq(Operand) /\ Top.locs \in Seq(LocalBinding) /\ Top.depth \in 0 .. MaxDepth
  BY <1>1, TopIsFine
<1> DEFINE With(l) == [Top EXCEPT !.temps = <<>>, !.locs = Append(@, l)]
<1>3. \E name \in Names, t \in Declared, tag \in Tags :
        InTop(With(Local(name, t, tag, Top.depth))) /\ Value(t, tag) \in G
  <2>1. PICK name \in Names, t \in Declared :
          LET Define(tag) == InTop(With(Local(name, t, tag, Top.depth)))
          IN  \/ Temps = <<>> /\ Define(t)
              \/ /\ Len(Temps) = 1
                 /\ Assignable(Last1.static, t)
                 /\ Define(IF Last1.type = "void" THEN t ELSE Coerce(Last1.type, t))
    BY DEF Declare
  <2>2. Value(t, t) \in G /\ t \in Types /\ t \in Tags  BY ValuesAssumption DEF Closed, Tags
  <2>3. CASE Temps = <<>> /\ InTop(With(Local(name, t, t, Top.depth)))  BY <2>2, <2>3
  <2>4. CASE /\ Len(Temps) = 1 /\ Assignable(Last1.static, t)
             /\ InTop(With(Local(name, t, IF Last1.type = "void" THEN t ELSE Coerce(Last1.type, t), Top.depth)))
    <3>1. Holding(1)  BY <1>1, <2>4 DEF Holding
    <3>2. Last1 \in G /\ Last1 \in Operand  BY <3>1, LastOperands
    <3>3. Value(t, Coerce(Last1.type, t)) \in G  BY <2>2, <2>4, <3>2 DEF Closed
    <3>4. Coerce(Last1.type, t) \in Tags  BY <2>2, <3>2, Tagged
    <3> QED  BY <2>2, <2>4, <3>3, <3>4
  <2> QED  BY <2>1, <2>3, <2>4
<1>4. PICK name \in Names, t \in Declared, tag \in Tags :
        InTop(With(Local(name, t, tag, Top.depth))) /\ Value(t, tag) \in G
  BY <1>3
<1> DEFINE l == Local(name, t, tag, Top.depth)
           fr == With(l)
<1>5. l \in LocalBinding /\ l.depth = Top.depth /\ Pair(l) \in G
  BY <1>2, <1>4, ValuesAssumption DEF Local, LocalBinding, Pair, Value
<1> HIDE DEF l
<1> DEFINE q == Append(Top.locs, l)
           n == Len(Top.locs)
<1>6a. /\ n \in Nat /\ DOMAIN Top.locs = 1 .. n
       /\ q \in Seq(LocalBinding) /\ DOMAIN q = 1 .. (n + 1) /\ q[n + 1] = l
       /\ \A j \in 1 .. n : q[j] = Top.locs[j]
  BY <1>2, <1>5
<1>6b. <<>> \in Seq(Operand)  OBVIOUS
<1> HIDE DEF q, n
<1>6. fr.locs = q /\ fr.temps = <<>> /\ fr.depth = Top.depth /\ fr \in Frame
  BY <1>2, <1>6a, <1>6b DEF Frame, q
<1> HIDE DEF fr, With
<1>7. Ordered(fr)
  <2>1. \A j \in 1 .. n : Top.locs[j] \in LocalBinding  BY <1>2, <1>6a
  <2>2. \A j \in 1 .. n : Top.locs[j].depth \in 0 .. MaxDepth /\ Top.locs[j].depth <= Top.depth
    <3>1. \A j \in 1 .. n : Top.locs[j].depth \in 0 .. MaxDepth  BY <2>1 DEF LocalBinding
    <3> QED  BY <3>1, <1>2, <1>6a DEF Ordered
  <2>3. Top.depth \in Int  BY <1>2, ValuesAssumption
  <2>4. \A j, k \in 1 .. n : j <= k => q[j].depth <= q[k].depth  BY <1>2, <1>6a DEF Ordered
  <2>5. q[n + 1].depth = Top.depth  BY <1>5, <1>6a
  <2>6. \A j \in 1 .. (n + 1) : j \in 1 .. n \/ j = n + 1  BY <1>6a
  <2>7. \A j \in 1 .. (n + 1) : q[j].depth <= Top.depth  BY <1>6a, <2>2, <2>3, <2>5, <2>6
  <2>8. \A j, k \in 1 .. (n + 1) : j <= k => q[j].depth <= q[k].depth
    <3> SUFFICES ASSUME NEW j \in 1 .. (n + 1), NEW k \in 1 .. (n + 1), j <= k PROVE q[j].depth <= q[k].depth
      OBVIOUS
    <3>1. CASE k = n + 1  BY <3>1, <2>5, <2>7
    <3>2. CASE k # n + 1
      <4>1. j \in 1 .. n /\ k \in 1 .. n  BY <3>2, <1>6a
      <4> QED  BY <4>1, <2>4
    <3> QED  BY <3>1, <3>2
  <2> QED  BY <1>6, <1>6a, <2>7, <2>8 DEF Ordered
<1>8. Holds(fr, G)
  <2>1. \A j \in 1 .. (n + 1) : j \in 1 .. n \/ j = n + 1  BY <1>6a
  <2>2. \A j \in 1 .. (n + 1) : Pair(q[j]) \in G  BY <1>2, <1>5, <1>6a, <2>1 DEF Holds
  <2> QED  BY <1>6, <1>6a, <2>2 DEF Holds
<1>9. StackIn(G)'  BY <1>1, <1>4, <1>6, <1>7, <1>8, TopReplaced DEF Fine, fr, l
<1>10. GlobalsIn(G)' /\ Rest'  BY RestKept DEF Declare, Inv, Rest
<1> QED  BY <1>9, <1>10 DEF Inv

LEMMA OpenKeeps ==
  ASSUME NEW G, Inv(G), OpenScope
  PROVE  Inv(G)'
<1>1. StackIn(G) /\ stack # <<>>  BY DEF OpenScope, Statement, Evaluating, Inv
<1>2. Top \in Frame /\ Ordered(Top) /\ Holds(Top, G) /\ Top.depth \in 0 .. MaxDepth  BY <1>1, TopIsFine
<1> DEFINE fr == [Top EXCEPT !.depth = @ + 1]
<1>3. MaxDepth \in Nat /\ Top.depth < MaxDepth /\ Top.depth + 1 \in 0 .. MaxDepth
  BY <1>2, ValuesAssumption DEF OpenScope
<1>4. fr \in Frame /\ fr.depth = Top.depth + 1 /\ fr.locs = Top.locs /\ fr.temps = Top.temps  BY <1>2, <1>3 DEF Frame
<1>5. \A j \in DOMAIN Top.locs : Top.locs[j].depth \in 0 .. MaxDepth
  <2>1. \A j \in DOMAIN Top.locs : Top.locs[j] \in LocalBinding  BY <1>1, TopIsFine
  <2> QED  BY <2>1 DEF LocalBinding
<1> HIDE DEF fr
<1>6. Ordered(fr)  BY <1>2, <1>3, <1>4, <1>5 DEF Ordered
<1>7. Holds(fr, G)  BY <1>2, <1>4 DEF Holds
<1>8. StackIn(G)'  BY <1>1, <1>4, <1>6, <1>7, TopReplaced DEF OpenScope, Fine, fr
<1>9. GlobalsIn(G)' /\ Rest'  BY RestKept DEF OpenScope, Inv, Rest
<1> QED  BY <1>8, <1>9 DEF Inv

\* The locals that are kept are a prefix, none of it deeper than the scope that is left.
LEMMA KeptLocals ==
  ASSUME NEW locs \in Seq(LocalBinding), NEW d \in Nat,
         \A j, k \in DOMAIN locs : j <= k => locs[j].depth <= locs[k].depth
  PROVE  /\ Kept(locs, d) \in Seq(LocalBinding) /\ Len(Kept(locs, d)) \in 0 .. Len(locs)
         /\ \A j \in 1 .. Len(Kept(locs, d)) : Kept(locs, d)[j] = locs[j] /\ locs[j].depth <= d
         /\ \A j \in DOMAIN locs : locs[j].depth <= d => j \in 1 .. Len(Kept(locs, d))
<1> DEFINE shallow == {0} \cup {k \in DOMAIN locs : locs[k].depth <= d}
           m == Max(shallow)
<1>1. shallow \subseteq 0 .. Len(locs) /\ shallow # {} /\ Len(locs) \in Nat  OBVIOUS
<1>2. m \in shallow /\ \A j \in shallow : j <= m
  <2> HIDE DEF shallow
  <2> QED  BY <1>1, MaxIsGreatest
<1>3. m \in 0 .. Len(locs)  BY <1>1, <1>2
<1>7. \A j \in DOMAIN locs : locs[j].depth <= d => j \in 1 .. m
  <2> SUFFICES ASSUME NEW j \in DOMAIN locs, locs[j].depth <= d PROVE j \in 1 .. m  OBVIOUS
  <2>1. j \in shallow /\ j >= 1  OBVIOUS
  <2> QED  BY <1>1, <1>2, <1>3, <2>1
<1>4. Kept(locs, d) = SubSeq(locs, 1, m)  BY DEF Kept
<1>5. \A j \in 1 .. m : locs[j].depth <= d
  <2> SUFFICES ASSUME NEW j \in 1 .. m PROVE locs[j].depth <= d  OBVIOUS
  <2>1. m \in DOMAIN locs /\ locs[m].depth <= d  BY <1>2, <1>3
  <2>2. j \in DOMAIN locs /\ j <= m  BY <1>3
  <2>3. locs[j] \in LocalBinding /\ locs[m] \in LocalBinding  BY <2>1, <2>2
  <2>4. locs[j].depth \in Int /\ locs[m].depth \in Int  BY <2>3, ValuesAssumption DEF LocalBinding
  <2>5. locs[j].depth <= locs[m].depth  BY <2>1, <2>2
  <2> QED  BY <2>1, <2>4, <2>5
<1> HIDE DEF m, shallow
<1>6. /\ SubSeq(locs, 1, m) \in Seq(LocalBinding) /\ Len(SubSeq(locs, 1, m)) = m
      /\ \A j \in 1 .. m : SubSeq(locs, 1, m)[j] = locs[j]
  BY <1>3
<1> QED  BY <1>3, <1>4, <1>5, <1>6, <1>7

LEMMA CloseKeeps ==
  ASSUME NEW G, Inv(G), CloseScope
  PROVE  Inv(G)'
<1>1. StackIn(G) /\ stack # <<>>  BY DEF CloseScope, Statement, Evaluating, Inv
<1>2. /\ Top \in Frame /\ Ordered(Top) /\ Holds(Top, G)
      /\ Top.locs \in Seq(LocalBinding) /\ Top.depth \in 0 .. MaxDepth
  BY <1>1, TopIsFine
<1> DEFINE d == Top.depth - 1
           kept == Kept(Top.locs, d)
           fr == [Top EXCEPT !.depth = @ - 1, !.locs = Kept(@, Top.depth - 1)]
<1>3. d \in 0 .. MaxDepth /\ d \in Nat  BY <1>2, ValuesAssumption DEF CloseScope
<1>4. /\ kept \in Seq(LocalBinding) /\ Len(kept) \in 0 .. Len(Top.locs)
      /\ \A j \in 1 .. Len(kept) : kept[j] = Top.locs[j] /\ Top.locs[j].depth <= d
  BY <1>2, <1>3, KeptLocals DEF Ordered
<1> HIDE DEF kept
<1>5. fr \in Frame /\ fr.depth = d /\ fr.locs = kept /\ fr.temps = Top.temps  BY <1>2, <1>3, <1>4 DEF Frame, kept
<1> HIDE DEF fr
<1>6. Ordered(fr)  BY SMTT(30), <1>2, <1>4, <1>5 DEF Ordered
<1>7. Holds(fr, G)  BY <1>2, <1>4, <1>5 DEF Holds
<1>8. StackIn(G)'  BY <1>1, <1>5, <1>6, <1>7, TopReplaced DEF CloseScope, Fine, fr
<1>9. GlobalsIn(G)' /\ Rest'  BY RestKept DEF CloseScope, Inv, Rest
<1> QED  BY <1>8, <1>9 DEF Inv

----------------------------------------------------------------------------
(* Calls *)

\* A call begins with its parameters, and no operands.
LEMMA NewFrameIsFine ==
  ASSUME NEW G, NEW f \in Functions \cup Handlers, NEW values,
         \A k \in DOMAIN f.params :
           LET tag == Coerce(values[k].type, f.params[k].static)
           IN  tag \in Tags /\ Value(f.params[k].static, tag) \in G
  PROVE  Fine(NewFrame(f, Bind(f.params, values)), G)
<1> DEFINE locs == Bind(f.params, values)
           fr == NewFrame(f, locs)
<1>1. f \in Signatures /\ f.params \in Seq(Parameters) /\ MaxDepth \in Nat
  BY ValuesAssumption DEF Signatures
<1>2. \A k \in DOMAIN f.params : f.params[k] \in Parameters  BY <1>1
<1>3. \A k \in DOMAIN f.params :
        locs[k] = Local(f.params[k].name, f.params[k].static, Coerce(values[k].type, f.params[k].static), 0)
  BY DEF Bind
<1>4. DOMAIN locs = DOMAIN f.params /\ locs = [k \in 1 .. Len(f.params) |-> locs[k]]  BY <1>1 DEF Bind
<1> HIDE DEF locs
<1>5. \A k \in DOMAIN f.params : locs[k] \in LocalBinding /\ locs[k].depth = 0 /\ Pair(locs[k]) \in G
  <2> SUFFICES ASSUME NEW k \in DOMAIN f.params
               PROVE  locs[k] \in LocalBinding /\ locs[k].depth = 0 /\ Pair(locs[k]) \in G
    OBVIOUS
  <2> DEFINE p == f.params[k]
             tag == Coerce(values[k].type, p.static)
  <2>1. p.name \in Names /\ p.static \in Types /\ tag \in Tags /\ Value(p.static, tag) \in G
    BY <1>2 DEF Parameters
  <2>2. locs[k] = Local(p.name, p.static, tag, 0)  BY <1>3
  <2>3. 0 \in 0 .. MaxDepth  BY <1>1
  <2> HIDE DEF p, tag
  <2> QED  BY <2>1, <2>2, <2>3 DEF Local, LocalBinding, Pair, Value
<1>6. locs \in Seq(LocalBinding)
  <2>1. Len(f.params) \in Nat /\ DOMAIN f.params = 1 .. Len(f.params)  BY <1>1
  <2> QED  BY <2>1, <1>4, <1>5
<1>7. <<>> \in Seq(Operand) /\ DOMAIN <<>> = {}  OBVIOUS
<1>8. fr \in Frame /\ fr.locs = locs /\ fr.depth = 0 /\ fr.temps = <<>>  BY <1>1, <1>6, <1>7 DEF NewFrame, Frame
<1> HIDE DEF fr
<1>9. Ordered(fr)
  <2>1. \A k \in DOMAIN locs : locs[k].depth = 0  BY <1>4, <1>5
  <2> QED  BY <1>8, <2>1 DEF Ordered
<1>10. Holds(fr, G)  BY <1>4, <1>5, <1>7, <1>8 DEF Holds
<1> QED  BY <1>8, <1>9, <1>10 DEF Fine, fr, locs

\* One frame more.
LEMMA Pushed ==
  ASSUME NEW G, NEW s \in Seq(Frame), \A k \in DOMAIN s : Fine(s[k], G), NEW fr, Fine(fr, G),
         stack' = Append(s, fr)
  PROVE  StackIn(G)'
<1>1. fr \in Frame  BY DEF Fine
<1>2. Append(s, fr) \in Seq(Frame) /\ DOMAIN Append(s, fr) = 1 .. (Len(s) + 1) /\ DOMAIN s = 1 .. Len(s)
  BY <1>1
<1>3. \A k \in 1 .. (Len(s) + 1) : Append(s, fr)[k] = IF k = Len(s) + 1 THEN fr ELSE s[k]  BY <1>1
<1>4. Len(s) \in Nat  OBVIOUS
<1>5. \A k \in 1 .. (Len(s) + 1) : k # Len(s) + 1 => k \in 1 .. Len(s)  BY <1>4
<1> QED  BY <1>2, <1>3, <1>5 DEF StackIn

LEMMA DispatchKeeps ==
  ASSUME NEW G, Closed(G), Inv(G), Dispatch
  PROVE  Inv(G)'
<1> DEFINE Given(h) == [k \in DOMAIN h.params |-> Value(h.params[k].static, h.params[k].static)]
<1>1. PICK h \in Handlers : stack' = <<NewFrame(h, Bind(h.params, Given(h)))>>  BY DEF Dispatch
<1>2. h.params \in Seq(Parameters)  BY ValuesAssumption DEF Signatures
<1>3. \A k \in DOMAIN h.params : h.params[k].static \in Types
  <2>1. \A k \in DOMAIN h.params : h.params[k] \in Parameters  BY <1>2
  <2> QED  BY <2>1 DEF Parameters
<1>4. \A k \in DOMAIN h.params : Given(h)[k].type = h.params[k].static  BY DEF Value
<1>5. \A t \in Types : Coerce(t, t) = t /\ t \in Tags  BY DEF Coerce, Types, Text, Tags
<1> HIDE DEF Given
<1>6. Fine(NewFrame(h, Bind(h.params, Given(h))), G)
  BY <1>3, <1>4, <1>5, NewFrameIsFine DEF Closed
<1>7. <<>> \in Seq(Frame) /\ DOMAIN <<>> = {}  OBVIOUS
<1>8. stack' = Append(<<>>, NewFrame(h, Bind(h.params, Given(h))))  BY <1>1
<1>9. StackIn(G)'  BY <1>6, <1>7, <1>8, Pushed
<1>10. GlobalsIn(G)' /\ Rest'  BY RestKept DEF Dispatch, Inv, Rest
<1> QED  BY <1>9, <1>10 DEF Inv

LEMMA HandlerEndsKeeps ==
  ASSUME NEW G, Inv(G), HandlerEnds
  PROVE  Inv(G)'
<1>1. stack' \in Seq(Frame) /\ DOMAIN stack' = {}  BY DEF HandlerEnds
<1>2. StackIn(G)'  BY <1>1 DEF StackIn
<1>3. GlobalsIn(G)' /\ Rest'  BY RestKept DEF HandlerEnds, Inv, Rest
<1> QED  BY <1>2, <1>3 DEF Inv

\* The arguments are the last operands.
LEMMA LastOnes ==
  ASSUME NEW S, NEW q \in Seq(S), NEW n \in 0 .. Len(q)
  PROVE  \A k \in 1 .. n : /\ SubSeq(q, Len(q) - n + 1, Len(q))[k] = q[Len(q) - n + k]
                           /\ Len(q) - n + k \in DOMAIN q
<1> SUFFICES ASSUME NEW k \in 1 .. n
             PROVE  /\ SubSeq(q, Len(q) - n + 1, Len(q))[k] = q[Len(q) - n + k]
                    /\ Len(q) - n + k \in DOMAIN q
  OBVIOUS
<1>1. Len(q) \in Nat /\ n \in Nat /\ n <= Len(q)  OBVIOUS
<1>2. Len(q) - n + k \in 1 .. Len(q) /\ DOMAIN q = 1 .. Len(q)  BY <1>1
<1>3. k \in 1 .. (Len(q) - (Len(q) - n + 1) + 1) /\ (Len(q) - n + 1) + k - 1 = Len(q) - n + k  BY <1>1
<1>4. \A a, b \in Int : \A i \in 1 .. (b - a + 1) : SubSeq(q, a, b)[i] = q[a + i - 1]  OBVIOUS
<1>5. SubSeq(q, Len(q) - n + 1, Len(q))[k] = q[(Len(q) - n + 1) + k - 1]  BY <1>1, <1>3, <1>4
<1> QED  BY <1>2, <1>3, <1>5

LEMMA CallKeeps ==
  ASSUME NEW G, G \subseteq Operand, Closed(G), Inv(G), Call
  PROVE  Inv(G)'
<1>1. StackIn(G) /\ stack # <<>>  BY DEF Call, Evaluating, Inv
<1>2. Temps \in Seq(Operand) /\ \A j \in DOMAIN Temps : Temps[j] \in G  BY <1>1, TopIsFine DEF Holds, Temps
<1> DEFINE Args(f) == SubSeq(Temps, Len(Temps) - Len(f.params) + 1, Len(Temps))
<1>3. PICK f \in Functions :
        /\ Len(f.params) <= Len(Temps)
        /\ \A k \in 1 .. Len(f.params) : Assignable(Args(f)[k].static, f.params[k].static)
        /\ stack' = Append([stack EXCEPT ![Len(stack)].temps = Dropped(Len(f.params))],
                           NewFrame(f, Bind(f.params, Args(f))))
  BY DEF Call
<1>4. f.params \in Seq(Parameters)  BY ValuesAssumption DEF Signatures
<1>5. Len(f.params) \in Nat /\ DOMAIN f.params = 1 .. Len(f.params) /\ Len(f.params) \in 0 .. Len(Temps)
  BY <1>2, <1>3, <1>4
<1>6. \A k \in 1 .. Len(f.params) : Args(f)[k] \in G
  <2>1. \A k \in 1 .. Len(f.params) : /\ Args(f)[k] = Temps[Len(Temps) - Len(f.params) + k]
                                      /\ Len(Temps) - Len(f.params) + k \in DOMAIN Temps
    BY <1>2, <1>5, LastOnes
  <2> QED  BY <1>2, <2>1
<1> HIDE DEF Args
<1>7. \A k \in DOMAIN f.params : f.params[k].static \in Types
  <2>1. \A k \in DOMAIN f.params : f.params[k] \in Parameters  BY <1>4
  <2> QED  BY <2>1 DEF Parameters
<1>8. \A k \in DOMAIN f.params :
        LET tag == Coerce(Args(f)[k].type, f.params[k].static)
        IN  tag \in Tags /\ Value(f.params[k].static, tag) \in G
  <2> SUFFICES ASSUME NEW k \in DOMAIN f.params
               PROVE  LET tag == Coerce(Args(f)[k].type, f.params[k].static)
                      IN  tag \in Tags /\ Value(f.params[k].static, tag) \in G
    OBVIOUS
  <2>1. Args(f)[k] \in G /\ Args(f)[k] \in Operand /\ f.params[k].static \in Types  BY <1>5, <1>6, <1>7
  <2>2. Assignable(Args(f)[k].static, f.params[k].static)  BY <1>3, <1>5
  <2>3. Coerce(Args(f)[k].type, f.params[k].static) \in Tags  BY <2>1, Tagged DEF Tags
  <2> QED  BY <2>1, <2>2, <2>3 DEF Closed
<1>9. Fine(NewFrame(f, Bind(f.params, Args(f))), G)  BY <1>8, NewFrameIsFine
<1> DEFINE s == [stack EXCEPT ![Len(stack)].temps = Dropped(Len(f.params))]
           fr == [Top EXCEPT !.temps = Dropped(Len(f.params))]
<1>10. Fine(fr, G)  BY <1>1, <1>5, DroppedHold, NewTemps
<1>11. s = [stack EXCEPT ![Len(stack)] = fr]  BY <1>1, TopIsFine DEF Top
<1>12. Len(stack) \in DOMAIN stack /\ stack \in Seq(Frame) /\ fr \in Frame  BY <1>1, <1>10, TopIsFine DEF StackIn, Fine
<1> HIDE DEF fr, s
<1>13. s \in Seq(Frame) /\ DOMAIN s = DOMAIN stack  BY <1>11, <1>12
<1>14. \A k \in DOMAIN s : Fine(s[k], G)  BY <1>1, <1>10, <1>11, <1>12, <1>13 DEF StackIn
<1>15. stack' = Append(s, NewFrame(f, Bind(f.params, Args(f))))  BY <1>3 DEF s
<1>16. StackIn(G)'  BY <1>9, <1>13, <1>14, <1>15, Pushed
<1>17. GlobalsIn(G)' /\ Rest'  BY RestKept DEF Call, Inv, Rest
<1> QED  BY <1>16, <1>17 DEF Inv

LEMMA Joined ==
  ASSUME NEW S, NEW G, NEW q \in Seq(S), NEW r \in Seq(S),
         \A j \in DOMAIN q : q[j] \in G, \A j \in DOMAIN r : r[j] \in G
  PROVE  q \o r \in Seq(S) /\ \A j \in DOMAIN (q \o r) : (q \o r)[j] \in G
OBVIOUS

\* The caller's operands are what they were, with the values that it is given.
LEMMA BackKeeps ==
  ASSUME NEW G, Inv(G), Len(stack) > 1,
         NEW values \in Seq(Operand), \A j \in DOMAIN values : values[j] \in G, BackWith(values)
  PROVE  Inv(G)'
<1> DEFINE n == Len(stack) - 1
           s == Front(stack)
           old == stack[n]
           q == old.temps \o values
           fr == [old EXCEPT !.temps = q]
<1>1. stack \in Seq(Frame) /\ Len(stack) \in Nat /\ n \in 1 .. n /\ n \in Nat /\ n \in DOMAIN stack
  BY DEF Inv, StackIn
<1>2. /\ s \in Seq(Frame) /\ DOMAIN s = 1 .. n /\ \A k \in 1 .. n : s[k] = stack[k] /\ k \in DOMAIN stack
  BY <1>1 DEF Front
<1>3. old \in Frame /\ Ordered(old) /\ Holds(old, G)  BY <1>1 DEF Inv, StackIn, Fine
<1>4. old.temps \in Seq(Operand)  BY <1>3 DEF Frame
<1>5. q \in Seq(Operand) /\ \A j \in DOMAIN q : q[j] \in G
  <2>1. \A j \in DOMAIN old.temps : old.temps[j] \in G  BY <1>3 DEF Holds
  <2> QED  BY <1>4, <2>1, Joined
<1> HIDE DEF q
<1>6. fr \in Frame /\ fr.locs = old.locs /\ fr.depth = old.depth /\ fr.temps = q  BY <1>3, <1>5 DEF Frame
<1>7. stack' = [s EXCEPT ![n] = fr]
  <2>1. stack' = [s EXCEPT ![n].temps = @ \o values]  BY DEF BackWith
  <2>2. s[n] = old  BY <1>1, <1>2
  <2> QED  BY <2>1, <2>2 DEF q
<1> HIDE DEF fr, s
<1>8. Fine(fr, G)  BY <1>3, <1>5, <1>6 DEF Fine, Ordered, Holds
<1>9. stack' \in Seq(Frame) /\ DOMAIN stack' = 1 .. n  BY <1>1, <1>2, <1>6, <1>7
<1>10. \A k \in 1 .. n : Fine(stack'[k], G)  BY <1>2, <1>7, <1>8 DEF Inv, StackIn
<1>11. StackIn(G)'  BY <1>9, <1>10 DEF StackIn
<1>12. GlobalsIn(G)' /\ Rest'  BY RestKept DEF BackWith, Inv, Rest
<1> QED  BY <1>11, <1>12 DEF Inv

LEMMA ReturnKeeps ==
  ASSUME NEW G, G \subseteq Operand, Inv(G), Return, Value(Top.fun.returns, Last1.type) \in G
  PROVE  Inv(G)'
<1> DEFINE v == Value(Top.fun.returns, Last1.type)
<1>1. v \in G /\ v \in Operand  OBVIOUS
<1> HIDE DEF v
<1>2. <<v>> \in Seq(Operand) /\ \A j \in DOMAIN <<v>> : <<v>>[j] \in G  BY <1>1
<1>3. BackWith(<<v>>) /\ Len(stack) > 1  BY DEF Return, v
<1> QED  BY <1>2, <1>3, BackKeeps

LEMMA FunctionEndsKeeps ==
  ASSUME NEW G, Inv(G), FunctionEnds
  PROVE  Inv(G)'
<1>1. <<>> \in Seq(Operand) /\ DOMAIN <<>> = {}  OBVIOUS
<1> QED  BY <1>1, BackKeeps DEF FunctionEnds

\* What a function returns is a type, unless it is nothing.
LEMMA TopReturns ==
  ASSUME NEW G, Inv(G), Evaluating, Top.fun.returns # "void"
  PROVE  Top.fun.returns \in Types
<1>1. Top \in Frame  BY TopIsFine DEF Inv, Evaluating
<1>2. Top.fun \in Signatures  BY <1>1, ValuesAssumption DEF Frame
<1> QED  BY <1>2 DEF Signatures, Tags

LEMMA CutShortKeeps ==
  ASSUME NEW G, G \subseteq Operand, Tolerant(G), Inv(G), CutShort
  PROVE  Inv(G)'
<1> DEFINE v == Value(Top.fun.returns, "void")
<1>1. Top.fun.returns \in Types  BY TopReturns DEF CutShort, Statement
<1>2. v \in G /\ v \in Operand  BY <1>1 DEF Tolerant
<1> HIDE DEF v
<1>3. <<v>> \in Seq(Operand) /\ \A j \in DOMAIN <<v>> : <<v>>[j] \in G  BY <1>2
<1>4. BackWith(<<v>>) /\ Len(stack) > 1  BY DEF CutShort, v
<1> QED  BY <1>3, <1>4, BackKeeps

----------------------------------------------------------------------------
(* Globals *)

LEMMA GlobalsTyped ==
  \A k \in DOMAIN Globals : Globals[k].static \in Types /\ Globals[k].init \in Initialisers
<1> DEFINE Entries == [name : Names, static : Types, init : Initialisers]
<1>1. Globals \in Seq(Entries)  BY ValuesAssumption
<1>2. \A e \in Entries : e.static \in Types /\ e.init \in Initialisers  OBVIOUS
<1> HIDE DEF Entries
<1> QED  BY <1>1, <1>2

LEMMA InitGlobalKeeps ==
  ASSUME NEW G, G \subseteq Operand, Closed(G), Tolerant(G), Inv(G), InitGlobal, ~Misread \/ G = Operand
  PROVE  Inv(G)'
<1> DEFINE g == Globals[next]
<1>1. /\ Globals \in Seq([name : Names, static : Types, init : Initialisers])
      /\ next \in 1 .. Len(Globals) /\ DOMAIN Globals = 1 .. Len(Globals) /\ Len(Globals) \in Nat
  BY ValuesAssumption DEF InitGlobal, Inv, Rest
<1>2. g.static \in Types /\ g.init \in Initialisers  BY <1>1, GlobalsTyped
<1>3. \E tag \in Tags : globals' = [globals EXCEPT ![next] = tag] /\ Value(g.static, tag) \in G
  <2>1. CASE g.init.kind = "none" /\ globals' = [globals EXCEPT ![next] = IF resetting THEN "void" ELSE g.static]
    BY <1>2, <2>1 DEF Closed, Tolerant, Tags
  <2>2. CASE g.init.kind = "literal" /\ globals' = [globals EXCEPT ![next] = g.init.type]
    <3>1. g.init.type \in Types  BY <1>2, <2>2 DEF Initialisers
    <3>2. Assignable(g.init.type, g.static)  BY <1>1, <2>2, ValuesAssumption
    <3> DEFINE a == Value(g.init.type, g.init.type)
    <3>3. a \in G /\ a.static = g.init.type /\ a.type = g.init.type  BY <3>1 DEF Closed, Value
    <3>4. Value(g.static, g.init.type) \in G  BY <1>2, <3>2, <3>3 DEF Tolerant
    <3> QED  BY <2>2, <3>1, <3>4 DEF Tags
  <2>3. CASE /\ g.init.kind = "name"
             /\ \E cell \in Resolved(g.init.name) : globals' = [globals EXCEPT ![next] = TagOf(cell)]
    <3>1. PICK cell \in Resolved(g.init.name) : globals' = [globals EXCEPT ![next] = TagOf(cell)]  BY <2>3
    <3> DEFINE c == Value(StaticOf(cell), TagOf(cell))
    <3>2. c \in G /\ c.static = StaticOf(cell) /\ c.type = TagOf(cell)  BY CellIsThere DEF Value
    <3>3. TagOf(cell) \in Tags  BY <3>2 DEF Operand
    <3>4. CASE G = Operand
      <4>1. Value(g.static, TagOf(cell)) \in Operand  BY <1>2, <3>3 DEF Operand, Value
      <4> QED  BY <3>1, <3>3, <3>4, <4>1
    <3>5. CASE ~Misread
      <4>1. ~(Find(Locs, g.init.name) > 0)  BY <2>3, <3>5 DEF Misread
      <4>2. FindGlobal(g.init.name) > 0 /\ cell = [where |-> "global", at |-> FindGlobal(g.init.name)]
        BY <4>1 DEF Resolved
      <4>3. PICK j \in DOMAIN Globals :
              /\ Globals[j].name = g.init.name /\ Assignable(Globals[j].static, g.static)
              /\ \A i \in 1 .. (j - 1) : Globals[i].name # g.init.name
        BY <1>1, <2>3, ValuesAssumption
      <4>4. FindGlobal(g.init.name) = j
        <5>1. FindGlobal(g.init.name) \in 1 .. Len(Globals) /\ FindGlobal(g.init.name) <= j
          BY <1>1, <4>2, <4>3, GlobalFoundIsThere
        <5>2. Globals[FindGlobal(g.init.name)].name = g.init.name  BY <4>2, GlobalFoundIsThere
        <5> QED  BY <1>1, <4>3, <5>1, <5>2
      <4>5. StaticOf(cell) = Globals[j].static  BY <4>2, <4>4 DEF StaticOf
      <4>6. Value(g.static, TagOf(cell)) \in G  BY <1>2, <3>2, <4>3, <4>5 DEF Tolerant
      <4> QED  BY <3>1, <3>3, <4>6
    <3> QED  BY <3>4, <3>5
  <2> QED  BY <2>1, <2>2, <2>3 DEF InitGlobal
<1>4. PICK tag \in Tags : globals' = [globals EXCEPT ![next] = tag] /\ Value(g.static, tag) \in G  BY <1>3
<1>5. globals \in [DOMAIN Globals -> Tags] /\ next \in DOMAIN Globals  BY <1>1 DEF Inv, GlobalsIn
<1>6. GlobalsIn(G)'  BY <1>4, <1>5 DEF Inv, GlobalsIn
<1>7. next' = next + 1 /\ resetting' = (resetting /\ next < Len(Globals)) /\ UNCHANGED <<stack, crashed>>
  BY DEF InitGlobal
<1>8. \A k \in DOMAIN Globals : k >= next + 1 => globals'[k] = "void"
  BY <1>1, <1>4, <1>5 DEF Inv, Rest
<1>9. Rest'
  <2>1. resetting' \in BOOLEAN /\ crashed' \in BOOLEAN  BY <1>7 DEF Inv, Rest
  <2>2. next' \in 1 .. (Len(Globals) + 1)  BY <1>1, <1>7
  <2> QED  BY <1>7, <1>8, <2>1, <2>2 DEF Rest
<1>10. StackIn(G)'  BY <1>7 DEF Inv, StackIn
<1> QED  BY <1>6, <1>9, <1>10 DEF Inv

LEMMA ResetKeeps ==
  ASSUME NEW G, Tolerant(G), Inv(G), Reset
  PROVE  Inv(G)'
<1>1. StackIn(G)'  BY DEF Reset, Inv, StackIn
<1>2. \A k \in DOMAIN Globals : Globals[k].static \in Types  BY GlobalsTyped
<1>3. globals' = [k \in DOMAIN Globals |-> "void"]  BY DEF Reset
<1>4. GlobalsIn(G)'  BY <1>2, <1>3 DEF Tolerant, GlobalsIn, Tags
<1>5. Len(Globals) \in Nat  BY ValuesAssumption
<1>6. Rest'  BY <1>3, <1>5 DEF Reset, Inv, Rest
<1> QED  BY <1>1, <1>4, <1>6 DEF Inv

----------------------------------------------------------------------------
(* Any step *)

\* For a set that nothing leads out of, what a whole step does.
LEMMA TolerantStep ==
  ASSUME NEW G, G \subseteq Operand, Closed(G), Tolerant(G), Inv(G), [Next]_vars,
         G = Operand \/ ~Misread
  PROVE  Inv(G)'
<1>1. CASE Literal \/ ReadName \/ Binary \/ Truth \/ Cast \/ Member \/ Discard \/ Assign \/ Compound \/ AssignMember
  BY <1>1, SoundStep
<1>2. CASE \/ DivideByZero \/ CompoundByZero \/ UnknownCall
           \/ CompoundMember \/ IncrementMember \/ PostfixMember
  BY <1>2, LeakingStep
<1>3. CASE Declare \/ OpenScope \/ CloseScope \/ Dispatch \/ HandlerEnds \/ Call \/ FunctionEnds
  BY <1>3, DeclareKeeps, OpenKeeps, CloseKeeps, DispatchKeeps, HandlerEndsKeeps, CallKeeps, FunctionEndsKeeps
<1>4. CASE Return
  <2>1. Evaluating /\ Top.fun.returns # "void" /\ Assignable(Last1.static, Top.fun.returns) /\ Holding(1)
    <3>1. Len(Temps) = 1 => Len(Temps) >= 1  OBVIOUS
    <3> QED  BY <1>4, <3>1 DEF Return, Holding
  <2>2. Last1 \in G  BY <2>1, LastOperands
  <2>3. Top.fun.returns \in Types  BY <2>1, TopReturns
  <2>4. Value(Top.fun.returns, Last1.type) \in G  BY <2>1, <2>2, <2>3 DEF Tolerant
  <2> QED  BY <1>4, <2>4, ReturnKeeps
<1>5. CASE CutShort \/ InitGlobal \/ Reset  BY <1>5, CutShortKeeps, InitGlobalKeeps, ResetKeeps
<1>6. CASE UNCHANGED vars
  BY <1>6 DEF vars, Inv, StackIn, GlobalsIn, Rest
<1> QED  BY <1>1, <1>2, <1>3, <1>4, <1>5, <1>6 DEF Next, Evaluate, Execute

----------------------------------------------------------------------------
(* All pairs of a static type and a tag *)

LEMMA AnyIsValue ==
  ASSUME NEW t \in Types, NEW tag \in Tags
  PROVE  Value(t, tag) \in Operand
BY DEF Value, Operand

LEMMA StaticIsType ==
  ASSUME NEW op, NEW l \in Types, NEW r \in Types, Static(op, l, r) # "void"
  PROVE  Static(op, l, r) \in Types
BY DEF Static, Wider, Types

LEMMA ResultIsTag ==
  ASSUME NEW op, NEW l \in Tags, NEW r \in Tags
  PROVE  Result(op, l, r) \in Tags
BY DEF Result, Wider, Tags, Types

LEMMA CoerceIsTag ==
  ASSUME NEW l \in Tags, NEW r \in Tags
  PROVE  Coerce(l, r) \in Tags
BY DEF Coerce

LEMMA AllClosed == Closed(Operand) /\ Tolerant(Operand)
<1>1. \A v \in Operand : v.static \in Types /\ v.type \in Tags  BY DEF Operand
<1>2. /\ Types \subseteq Tags /\ "void" \in Tags /\ Number \cup {"vector"} \subseteq Types
      /\ {"integer", "float"} \subseteq Types
  BY DEF Tags, Types, Number
<1>3. Closed(Operand)  BY <1>1, <1>2, AnyIsValue, StaticIsType, ResultIsTag, CoerceIsTag DEF Closed
<1>4. Tolerant(Operand)  BY <1>1, <1>2, AnyIsValue, ResultIsTag, CoerceIsTag DEF Tolerant
<1> QED  BY <1>3, <1>4

LEMMA TypesInvariant == Spec => []Inv(Operand)
<1>1. Init => Inv(Operand)
  <2> SUFFICES ASSUME Init PROVE Inv(Operand)  OBVIOUS
  <2>1. StackIn(Operand)
    <3>1. stack \in Seq(Frame) /\ DOMAIN stack = {}  BY DEF Init
    <3> QED  BY <3>1 DEF StackIn
  <2>2. "void" \in Tags /\ Len(Globals) \in Nat  BY ValuesAssumption DEF Tags
  <2>3. GlobalsIn(Operand)  BY <2>2, GlobalsTyped, AnyIsValue DEF Init, GlobalsIn
  <2>4. Rest
    <3>1. next = 1 /\ resetting = FALSE /\ crashed = FALSE /\ \A k \in DOMAIN Globals : globals[k] = "void"
      BY DEF Init
    <3>2. 1 \in 1 .. (Len(Globals) + 1)  BY <2>2
    <3> QED  BY <3>1, <3>2 DEF Rest
  <2> QED  BY <2>1, <2>3, <2>4 DEF Inv
<1>2. Inv(Operand) /\ [Next]_vars => Inv(Operand)'
  BY AllClosed, TolerantStep
<1> QED  BY <1>1, <1>2, PTL DEF Spec

\* Every variable has its type, and no scope is deeper than the one that is open: locals
\* in the order of their scopes are what frame_leave relies on when it cuts the list.
THEOREM TypeCorrect == Spec => []TypeOK
<1>1. Inv(Operand) => TypeOK
  BY DEF Inv, StackIn, GlobalsIn, Rest, Fine, Ordered, TypeOK
<1> QED  BY <1>1, TypesInvariant, PTL

----------------------------------------------------------------------------
(* The pairs of one kind *)

OfKind == {v \in Operand : OfItsKind(v)}

\* Operands of their kinds give a value of the kind that the compiler says, operator by operator.
LEMMA KindlyTags ==
  ASSUME NEW op \in Operators, NEW s \in Types, NEW t \in Types, Static(op, s, t) # "void",
         NEW l, l \in Kind(s) \cup {"void"}, NEW r, r \in Kind(t) \cup {"void"}
  PROVE  Result(op, l, r) \in Kind(Static(op, s, t)) \cup {"void"}
<1>1. CASE op = "+"
  BY <1>1 DEF Kind, Result, Static, Wider, Arithmetic, Number, Text, Types
<1>2. CASE op = "-"
  BY <1>2 DEF Kind, Result, Static, Wider, Arithmetic, Number, Text, Types
<1>3. CASE op = "*"
  BY <1>3 DEF Kind, Result, Static, Wider, Arithmetic, Number, Text, Types
<1>4. CASE op = "/"
  BY <1>4 DEF Kind, Result, Static, Wider, Arithmetic, Number, Text, Types
<1>5. CASE op = "%"
  BY <1>5 DEF Kind, Result, Static, Wider, Arithmetic, Number, Text, Types
<1>6. CASE op = "bits"
  BY <1>6 DEF Kind, Result, Static, Wider, Arithmetic, Number, Text, Types
<1>7. CASE op = "compare"
  BY <1>7 DEF Kind, Result, Static, Wider, Arithmetic, Number, Text, Types
<1> QED
  BY <1>1, <1>2, <1>3, <1>4, <1>5, <1>6, <1>7 DEF Operators

LEMMA KindlyResult ==
  ASSUME NEW l \in OfKind, NEW r \in OfKind, NEW op \in Operators, Static(op, l.static, r.static) # "void"
  PROVE  Result(op, l.type, r.type) \in Kind(Static(op, l.static, r.static)) \cup {"void"}
<1>1. /\ l.static \in Types /\ l.type \in Kind(l.static) \cup {"void"}
      /\ r.static \in Types /\ r.type \in Kind(r.static) \cup {"void"}
  BY DEF OfKind, OfItsKind, Operand
<1> QED
  BY <1>1, KindlyTags

LEMMA KindsClosed == Closed(OfKind) /\ Tolerant(OfKind)
<1>0. \A t, tag : Value(t, tag).static = t /\ Value(t, tag).type = tag  BY DEF Value
<1>1. \A t \in Types, tag \in Tags : tag \in Kind(t) \cup {"void"} => Value(t, tag) \in OfKind
  BY <1>0, AnyIsValue DEF OfKind, OfItsKind
<1>2. \A v \in OfKind : v.static \in Types /\ v.type \in Tags /\ v.type \in Kind(v.static) \cup {"void"}
  BY DEF OfKind, OfItsKind, Operand
<1>3. Closed(OfKind)
  <2>1. \A t \in Types : Value(t, t) \in OfKind  BY <1>1 DEF Kind, Types, Tags, Text, Number
  <2>2. \A l, r \in OfKind, op \in Operators :
          Static(op, l.static, r.static) # "void" =>
            Value(Static(op, l.static, r.static), Result(op, l.type, r.type)) \in OfKind
    BY <1>1, <1>2, KindlyResult, StaticIsType, ResultIsTag
  <2>3. \A a \in OfKind, t \in Types : Assignable(a.static, t) => Value(t, Coerce(a.type, t)) \in OfKind
    <3> SUFFICES ASSUME NEW a \in OfKind, NEW t \in Types, Assignable(a.static, t)
                 PROVE  Coerce(a.type, t) \in Tags /\ Coerce(a.type, t) \in Kind(t) \cup {"void"}
      BY <1>1
    <3> QED  BY <1>2 DEF Assignable, Coerce, Kind, Types, Tags, Text, Number
  <2>4. \A a, c \in OfKind : Assignable(a.static, c.static) => Value(c.static, Coerce(a.type, c.type)) \in OfKind
    <3> SUFFICES ASSUME NEW a \in OfKind, NEW c \in OfKind, Assignable(a.static, c.static)
                 PROVE  Coerce(a.type, c.type) \in Tags /\ Coerce(a.type, c.type) \in Kind(c.static) \cup {"void"}
      BY <1>1, <1>2
    <3> QED  BY <1>2 DEF Assignable, Coerce, Kind, Types, Tags, Text, Number
  <2>5. \A a, c \in OfKind : c.static \in Structured /\ Assignable(a.static, "float") =>
          Value("float", IF c.type \in Structured THEN Coerce(a.type, "float") ELSE a.type) \in OfKind
    <3> SUFFICES ASSUME NEW a \in OfKind, NEW c \in OfKind, Assignable(a.static, "float")
                 PROVE  LET tag == IF c.type \in Structured THEN Coerce(a.type, "float") ELSE a.type
                        IN  Value("float", tag) \in OfKind
      OBVIOUS
    <3>1. Value("float", Coerce(a.type, "float")) \in OfKind  BY <2>3 DEF Types
    <3>2. Value("float", a.type) \in OfKind
      <4>1. a.type \in Kind("float") \cup {"void"} /\ a.type \in Tags  BY <1>2 DEF Assignable, Kind, Text, Number
      <4> QED  BY <1>1, <4>1 DEF Types
    <3> QED  BY <3>1, <3>2
  <2> QED  BY <2>1, <2>2, <2>3, <2>4, <2>5 DEF Closed
<1>4. Tolerant(OfKind)
  <2>1. Value("float", "integer") \in OfKind  BY <1>1 DEF Kind, Types, Tags, Text, Number
  <2>2. \A t \in Number \cup {"vector"} : Value(t, "float") \in OfKind
    BY <1>1 DEF Kind, Types, Tags, Text, Number
  <2>3. \A t \in Types : Value(t, "void") \in OfKind  BY <1>1 DEF Tags
  <2>4. \A a \in OfKind, t \in Types : Assignable(a.static, t) => Value(t, a.type) \in OfKind
    <3> SUFFICES ASSUME NEW a \in OfKind, NEW t \in Types, Assignable(a.static, t)
                 PROVE  a.type \in Kind(t) \cup {"void"}
      BY <1>1, <1>2
    <3> QED  BY <1>2 DEF Assignable, Kind, Types, Text, Number
  <2>5. \A a, c \in OfKind, op \in Arithmetic : a.static \in Number /\ c.static \in Structured =>
          LET old == IF c.type = "vector" THEN "float" ELSE "void"
              tag == Result(op, old, a.type)
          IN  Value("float", IF c.type \in Structured THEN Coerce(tag, "float") ELSE tag) \in OfKind
    <3> SUFFICES ASSUME NEW a \in OfKind, NEW op \in Arithmetic, a.static \in Number, NEW old \in {"float", "void"}
                 PROVE  LET tag == Result(op, old, a.type)
                        IN  Value("float", tag) \in OfKind /\ Value("float", Coerce(tag, "float")) \in OfKind
      OBVIOUS
    <3>1. a.type \in Number \cup {"vector", "void"}  BY <1>2 DEF Kind, Number, Text
    <3>2. Result(op, old, a.type) \in Number \cup {"vector", "void"}
      BY <3>1 DEF Result, Wider, Arithmetic, Number, Text
    <3>3. \A tag \in Number \cup {"vector", "void"} :
            Value("float", tag) \in OfKind /\ Value("float", Coerce(tag, "float")) \in OfKind
      BY <1>1 DEF Coerce, Kind, Number, Text, Tags, Types
    <3> QED  BY <3>2, <3>3
  <2> QED  BY <2>1, <2>2, <2>3, <2>4, <2>5 DEF Tolerant
<1> QED  BY <1>3, <1>4

LEMMA OfTheirKind == Inv(Operand) => (AllOfTheirKind <=> Inv(OfKind))
<1> SUFFICES ASSUME Inv(Operand) PROVE AllOfTheirKind <=> Inv(OfKind)  OBVIOUS
<1>1. \A k \in DOMAIN Globals :
        Value(Globals[k].static, globals[k]) \in OfKind <=> globals[k] \in Kind(Globals[k].static) \cup {"void"}
  BY DEF Inv, GlobalsIn, OfKind, OfItsKind, Value
<1>2. \A k \in DOMAIN stack : \A j \in DOMAIN stack[k].locs :
        Pair(stack[k].locs[j]) \in OfKind <=> OfItsKind(stack[k].locs[j])
  BY DEF Inv, StackIn, Fine, Holds, Pair, OfKind, OfItsKind, Value
<1>3. \A k \in DOMAIN stack : \A j \in DOMAIN stack[k].temps :
        stack[k].temps[j] \in OfKind <=> OfItsKind(stack[k].temps[j])
  BY DEF Inv, StackIn, Fine, Holds, OfKind
<1> QED  BY <1>1, <1>2, <1>3 DEF AllOfTheirKind, Inv, StackIn, GlobalsIn, Fine, Holds

\* Whatever a script does, lists stay lists, texts texts and rotations rotations, or
\* turn void: eval_binary, coerce and the leaks mix up numbers and vectors at most.
\* The exception is a global initialiser that llResetScript evaluates in a frame.
THEOREM KindsCorrect == Spec => KindsHold
<1>1. Inv(Operand) /\ [Next]_vars => Inv(Operand)'
  BY AllClosed, TolerantStep
<1>2. (Inv(Operand) => (AllOfTheirKind <=> Inv(OfKind)))'  BY OfTheirKind, PTL
<1>3. Inv(Operand) /\ [Next]_vars => [AllOfTheirKind => Misread \/ AllOfTheirKind']_vars
  <2> SUFFICES ASSUME Inv(Operand), [Next]_vars, AllOfTheirKind, ~Misread
               PROVE  AllOfTheirKind'
    OBVIOUS
  <2>1. Inv(OfKind)  BY OfTheirKind
  <2>2. OfKind \subseteq Operand  BY DEF OfKind
  <2>3. Inv(OfKind)'  BY <2>1, <2>2, KindsClosed, TolerantStep
  <2> QED  BY <2>3, <1>1, <1>2
<1> QED  BY <1>3, TypesInvariant, PTL DEF Spec, KindsHold

----------------------------------------------------------------------------
(* The pairs of equals *)

Alike == {v \in Operand : v.type = v.static}

LEMMA AlikeResult ==
  ASSUME NEW op \in Operators, NEW l \in Types, NEW r \in Types, Static(op, l, r) # "void"
  PROVE  Result(op, l, r) = Static(op, l, r)
<1>1. CASE op = "bits"  BY <1>1 DEF Result, Static, Arithmetic, Number, Text, Types
<1>7. CASE op = "compare"  BY <1>7 DEF Result, Static, Arithmetic, Number, Text, Types
<1>6. CASE op = "%"  BY <1>6 DEF Result, Static, Arithmetic, Number, Text, Types
<1>2. CASE op = "+"  BY <1>2 DEF Result, Static, Wider, Arithmetic, Number, Text, Types
<1>3. CASE op = "-"  BY <1>3 DEF Result, Static, Wider, Arithmetic, Number, Text, Types
<1>4. CASE op = "*"  BY <1>4 DEF Result, Static, Wider, Arithmetic, Number, Text, Types
<1>5. CASE op = "/"  BY <1>5 DEF Result, Static, Wider, Arithmetic, Number, Text, Types
<1> QED  BY <1>1, <1>2, <1>3, <1>4, <1>5, <1>6, <1>7 DEF Operators

LEMMA AlikeClosed == Closed(Alike)
<1>0. \A t, tag : Value(t, tag).static = t /\ Value(t, tag).type = tag  BY DEF Value
<1>1. \A t \in Types : Value(t, t) \in Alike  BY <1>0, AnyIsValue DEF Alike, Tags
<1>2. \A v \in Alike : v.static \in Types /\ v.type = v.static  BY DEF Alike, Operand
<1>3. \A l, r \in Alike, op \in Operators :
        Static(op, l.static, r.static) # "void" =>
          Value(Static(op, l.static, r.static), Result(op, l.type, r.type)) \in Alike
  BY <1>1, <1>2, AlikeResult, StaticIsType
<1>4. \A s, t \in Types : Assignable(s, t) => Coerce(s, t) = t  BY DEF Assignable, Coerce, Text, Types
<1>5. \A a \in Alike, t \in Types : Assignable(a.static, t) => Value(t, Coerce(a.type, t)) \in Alike
  BY <1>1, <1>2, <1>4
<1>6. \A a, c \in Alike : Assignable(a.static, c.static) => Value(c.static, Coerce(a.type, c.type)) \in Alike
  BY <1>1, <1>2, <1>4
<1>7. \A a, c \in Alike : c.static \in Structured /\ Assignable(a.static, "float") =>
        Value("float", IF c.type \in Structured THEN Coerce(a.type, "float") ELSE a.type) \in Alike
  <2>1. Value("float", "float") \in Alike /\ "float" \in Types  BY <1>1 DEF Types
  <2> QED  BY <1>2, <1>4, <2>1
<1> QED  BY <1>1, <1>3, <1>5, <1>6, <1>7 DEF Closed

LEMMA TypedIsAlike == Inv(Operand) => (AllTyped <=> Inv(Alike))
<1> SUFFICES ASSUME Inv(Operand) PROVE AllTyped <=> Inv(Alike)  OBVIOUS
<1>1. \A k \in DOMAIN Globals : Value(Globals[k].static, globals[k]) \in Alike <=> globals[k] = Globals[k].static
  BY DEF Inv, GlobalsIn, Alike, Value
<1>2. \A k \in DOMAIN stack : \A j \in DOMAIN stack[k].locs :
        Pair(stack[k].locs[j]) \in Alike <=> Typed(stack[k].locs[j])
  BY DEF Inv, StackIn, Fine, Holds, Pair, Alike, Typed, Value
<1>3. \A k \in DOMAIN stack : \A j \in DOMAIN stack[k].temps :
        stack[k].temps[j] \in Alike <=> Typed(stack[k].temps[j])
  BY DEF Inv, StackIn, Fine, Holds, Alike, Typed
<1> QED  BY <1>1, <1>2, <1>3 DEF AllTyped, Inv, StackIn, GlobalsIn, Fine, Holds

\* While all values have their types no global is waiting to be initialised.
LEMMA NoneWaits ==
  ASSUME Inv(Alike)
  PROVE  ~InitGlobal
<1> SUFFICES ASSUME InitGlobal PROVE FALSE  OBVIOUS
<1>1. next \in DOMAIN Globals  BY ValuesAssumption DEF InitGlobal, Inv, Rest
<1>2. globals[next] = "void" /\ Value(Globals[next].static, globals[next]) \in Alike
  BY <1>1 DEF Inv, Rest, GlobalsIn
<1>3. Globals[next].static = "void"  BY <1>2 DEF Alike, Value
<1> QED  BY <1>1, <1>3, GlobalsTyped DEF Types

\* Until a leak every value has the type that the compiler gave it, and no null pointer
\* is written to: what eval_binary computes, what coerce converts and what S_DECL fills
\* in agree with the compiler's types for every program.
THEOREM TypesCorrect == Spec => TypesHold
<1>1. Inv(Operand) /\ [Next]_vars => Inv(Operand)'
  BY AllClosed, TolerantStep
<1>2. (Inv(Operand) => (AllTyped <=> Inv(Alike)))'  BY TypedIsAlike, PTL
<1>3. Inv(Operand) /\ [Next]_vars => [AllTyped => Leaks \/ (AllTyped' /\ ~crashed')]_vars
  <2> SUFFICES ASSUME Inv(Operand), Next, AllTyped, ~Leaks
               PROVE  AllTyped' /\ ~crashed'
    OBVIOUS
  <2>1. Inv(Alike) /\ Alike \subseteq Operand  BY TypedIsAlike DEF Alike
  <2>2. ~InitGlobal  BY <2>1, NoneWaits
  <2>3. CASE Literal \/ ReadName \/ Binary \/ Truth \/ Cast \/ Member \/ Discard \/ Assign \/ Compound \/ AssignMember
    <3>1. Inv(Alike)'  BY <2>1, <2>3, AlikeClosed, SoundStep
    <3>2. ~crashed'
      BY <2>3 DEF Literal, ReadName, Binary, Truth, Cast, Member, Discard, Assign, Compound, AssignMember,
                  Room, Holding, Evaluating, Ready, Yield, Write
    <3> QED  BY <1>1, <1>2, <3>1, <3>2
  <2>4. CASE Declare \/ OpenScope \/ CloseScope \/ Dispatch \/ HandlerEnds \/ Call \/ FunctionEnds
    <3>1. Inv(Alike)'
      BY <2>1, <2>4, AlikeClosed,
         DeclareKeeps, OpenKeeps, CloseKeeps, DispatchKeeps, HandlerEndsKeeps, CallKeeps, FunctionEndsKeeps
    <3>2. ~crashed'
      BY <2>4 DEF Declare, OpenScope, CloseScope, Dispatch, HandlerEnds, Call, FunctionEnds,
                  Statement, Evaluating, Ready, BackWith
    <3> QED  BY <1>1, <1>2, <3>1, <3>2
  <2>5. CASE Return
    <3>1. Evaluating /\ Top.fun.returns # "void" /\ Last1.type = Top.fun.returns  BY <2>5 DEF Return, Leaks
    <3>2. Top.fun.returns \in Types  BY <2>1, <3>1, TopReturns
    <3>3. Value(Top.fun.returns, Last1.type) \in Alike  BY <3>1, <3>2, AlikeClosed DEF Closed
    <3>4. Inv(Alike)'  BY <2>1, <2>5, <3>3, ReturnKeeps
    <3>5. ~crashed'  BY <2>5 DEF Return, Evaluating, Ready, BackWith
    <3> QED  BY <1>1, <1>2, <3>4, <3>5
  <2> QED  BY <2>2, <2>3, <2>4, <2>5 DEF Next, Evaluate, Execute, Leaks
<1> QED  BY <1>3, TypesInvariant, PTL DEF Spec, TypesHold

----------------------------------------------------------------------------
(* Scopes: what Scoping sees of a frame *)

Contents == UNION {[D -> Tags] : D \in SUBSET Names}
NamesAt(locs, d) == {locs[k].name : k \in {j \in DOMAIN locs : locs[j].depth = d}}
\* The last local of a name at a depth.
LastAt(locs, d, name, k) ==
  /\ k \in DOMAIN locs /\ locs[k].depth = d /\ locs[k].name = name
  /\ \A j \in DOMAIN locs : locs[j].depth = d /\ locs[j].name = name => j <= k

LEMMA LastIsThere ==
  ASSUME NEW locs \in Seq(LocalBinding), NEW d, NEW name \in NamesAt(locs, d)
  PROVE  LastAt(locs, d, name, Max({k \in {j \in DOMAIN locs : locs[j].depth = d} : locs[k].name = name}))
<1> DEFINE of == {k \in {j \in DOMAIN locs : locs[j].depth = d} : locs[k].name = name}
<1>1. DOMAIN locs = 1 .. Len(locs) /\ Len(locs) \in Nat
  BY LenProperties
<1>2. of \in SUBSET (0 .. Len(locs)) /\ of # {}
  BY <1>1 DEF NamesAt
<1>3. \A k : k \in of <=> k \in DOMAIN locs /\ locs[k].depth = d /\ locs[k].name = name
  OBVIOUS
<1> HIDE DEF of
<1>4. Max(of) \in of /\ \A n \in of : n <= Max(of)
  BY <1>1, <1>2, MaxIsGreatest
<1>5. LastAt(locs, d, name, Max(of))
  BY <1>3, <1>4 DEF LastAt
<1> QED
  BY <1>5 DEF of

LEMMA VariablesAre ==
  ASSUME NEW locs \in Seq(LocalBinding), NEW d
  PROVE  /\ Variables(locs, d) = [name \in NamesAt(locs, d) |-> Variables(locs, d)[name]]
         /\ Variables(locs, d) \in Contents
         /\ \A name \in NamesAt(locs, d) : \E k : LastAt(locs, d, name, k)
         /\ \A name, k : LastAt(locs, d, name, k) =>
              name \in NamesAt(locs, d) /\ Variables(locs, d)[name] = locs[k].type
<1> DEFINE there == {k \in DOMAIN locs : locs[k].depth = d}
           last(name) == Max({k \in there : locs[k].name = name})
<1>1. DOMAIN locs \subseteq Int /\ \A k \in DOMAIN locs : locs[k].name \in Names /\ locs[k].type \in Tags
  <2>1. DOMAIN locs = 1 .. Len(locs) /\ Len(locs) \in Nat
    BY LenProperties
  <2>2. \A k \in DOMAIN locs : locs[k] \in LocalBinding
    BY <2>1, ElementOfSeq
  <2> QED
    BY <2>1, <2>2 DEF LocalBinding
<1>2. Variables(locs, d) = [name \in NamesAt(locs, d) |-> locs[last(name)].type]
  BY DEF Variables, NamesAt
<1>3. \A name \in NamesAt(locs, d) : LastAt(locs, d, name, last(name))
  BY LastIsThere
<1> HIDE DEF last
<1>4. NamesAt(locs, d) \in SUBSET Names
  BY <1>1 DEF NamesAt
<1>5. \A name \in NamesAt(locs, d) : locs[last(name)].type \in Tags
  BY <1>1, <1>3 DEF LastAt
<1>6. Variables(locs, d) \in [NamesAt(locs, d) -> Tags]
  BY <1>2, <1>5
<1>7. ASSUME NEW name, NEW k, LastAt(locs, d, name, k)
      PROVE  name \in NamesAt(locs, d) /\ Variables(locs, d)[name] = locs[k].type
  <2>1. name \in NamesAt(locs, d)
    BY <1>7 DEF LastAt, NamesAt
  <2>2. last(name) <= k /\ k <= last(name) /\ k \in Int /\ last(name) \in Int
    BY <1>1, <1>3, <1>7, <2>1 DEF LastAt
  <2>3. last(name) = k
    BY <2>2
  <2> QED
    BY <1>2, <2>1, <2>3
<1> QED
  BY <1>2, <1>3, <1>4, <1>6, <1>7 DEF Contents

\* Two lists that have the same locals, at the same places, at a depth.
LEMMA SameAtDepth ==
  ASSUME NEW locs \in Seq(LocalBinding), NEW more \in Seq(LocalBinding), NEW d,
         \A k : k \in DOMAIN locs /\ locs[k].depth = d <=> k \in DOMAIN more /\ more[k].depth = d,
         \A k \in DOMAIN locs : locs[k].depth = d =>
           locs[k].name = more[k].name /\ locs[k].type = more[k].type
  PROVE  Variables(locs, d) = Variables(more, d)
<1>1. NamesAt(locs, d) = NamesAt(more, d)
  BY DEF NamesAt
<1>2. \A name, k : LastAt(locs, d, name, k) => LastAt(more, d, name, k) /\ locs[k].type = more[k].type
  BY DEF LastAt
<1>3. \A name \in NamesAt(locs, d) : Variables(locs, d)[name] = Variables(more, d)[name]
  <2> TAKE name \in NamesAt(locs, d)
  <2>1. PICK k : LastAt(locs, d, name, k)
    BY VariablesAre
  <2>2. LastAt(more, d, name, k) /\ locs[k].type = more[k].type
    BY <1>2, <2>1
  <2> QED
    BY <2>1, <2>2, VariablesAre
<1>4. /\ Variables(locs, d) = [name \in NamesAt(locs, d) |-> Variables(locs, d)[name]]
      /\ Variables(more, d) = [name \in NamesAt(more, d) |-> Variables(more, d)[name]]
  BY VariablesAre
<1> QED
  BY <1>1, <1>3, <1>4

LEMMA IsSequence ==
  ASSUME NEW n \in Nat, NEW S, NEW f, f = [k \in 1 .. n |-> f[k]], \A k \in 1 .. n : f[k] \in S
  PROVE  f \in Seq(S) /\ Len(f) = n /\ DOMAIN f = 1 .. n
<1>1. f \in [1 .. n -> S]
  OBVIOUS
<1>2. f \in Seq(S)
  BY <1>1, SeqDef
<1>3. DOMAIN f = 1 .. n /\ DOMAIN f = 1 .. Len(f) /\ Len(f) \in Nat
  BY <1>1, <1>2, LenProperties
<1> QED
  BY <1>2, <1>3

LEMMA FrontOf ==
  ASSUME NEW S, NEW q \in Seq(S), Len(q) > 0
  PROVE  /\ Front(q) \in Seq(S) /\ Len(Front(q)) = Len(q) - 1
         /\ \A k \in 1 .. (Len(q) - 1) : Front(q)[k] = q[k]
<1>1. Len(q) \in Nat /\ 1 \in 0 .. Len(q)
  BY LenProperties
<1> QED
  BY <1>1, Fewer DEF Front

LEMMA ScopesAre ==
  ASSUME NEW fr \in Frame
  PROVE  /\ ScopesOf(fr) \in Seq(Contents) /\ Len(ScopesOf(fr)) = fr.depth + 1
         /\ DOMAIN ScopesOf(fr) = 1 .. (fr.depth + 1) /\ fr.depth \in Nat
         /\ \A d \in 1 .. (fr.depth + 1) : ScopesOf(fr)[d] = Variables(fr.locs, d - 1)
<1>1. fr.depth \in Nat /\ fr.locs \in Seq(LocalBinding)
  BY ValuesAssumption DEF Frame
<1>2. \A d \in 1 .. (fr.depth + 1) : Variables(fr.locs, d - 1) \in Contents
  BY <1>1, VariablesAre
<1> DEFINE f == ScopesOf(fr)
           n == fr.depth + 1
<1>3. f = [d \in 1 .. n |-> Variables(fr.locs, d - 1)] /\ n \in Nat
  BY <1>1 DEF ScopesOf
<1> HIDE DEF f, n
<1>4. /\ f = [d \in 1 .. n |-> f[d]] /\ \A d \in 1 .. n : f[d] = Variables(fr.locs, d - 1)
  BY <1>3
<1>5. \A d \in 1 .. n : f[d] \in Contents
  BY <1>2, <1>4 DEF n
<1>6. f \in Seq(Contents) /\ Len(f) = n /\ DOMAIN f = 1 .. n
  BY <1>3, <1>4, <1>5, IsSequence
<1> QED
  BY <1>1, <1>4, <1>6 DEF f, n

\* S_DECL: the innermost scope gets a variable, or another one in its place.
LEMMA DeclaredScopes ==
  ASSUME NEW fr \in Frame, NEW later \in Frame, NEW l \in LocalBinding,
         l.depth = fr.depth, later.depth = fr.depth, later.locs = Append(fr.locs, l)
  PROVE  /\ \A d \in 1 .. fr.depth : ScopesOf(later)[d] = ScopesOf(fr)[d]
         /\ LET old == ScopesOf(fr)[fr.depth + 1]
                new == ScopesOf(later)[fr.depth + 1]
            IN  DOMAIN new = DOMAIN old \cup {l.name} /\ \A n \in DOMAIN old \ {l.name} : new[n] = old[n]
<1> DEFINE locs == fr.locs
           more == later.locs
           top == fr.depth
<1>1. locs \in Seq(LocalBinding) /\ more \in Seq(LocalBinding) /\ top \in Nat
  BY ValuesAssumption DEF Frame
<1>2. /\ DOMAIN locs = 1 .. Len(locs) /\ Len(locs) \in Nat
      /\ DOMAIN more = 1 .. (Len(locs) + 1) /\ more[Len(locs) + 1] = l
      /\ \A k \in 1 .. Len(locs) : more[k] = locs[k]
  BY <1>1, AppendProperties, LenProperties
<1> HIDE DEF locs, more
<1>3. \A k : k \in DOMAIN more <=> k \in DOMAIN locs \/ k = Len(locs) + 1
  BY <1>2
<1>4. ASSUME NEW d, d # top PROVE Variables(more, d) = Variables(locs, d)
  <2>1. \A k : k \in DOMAIN locs /\ locs[k].depth = d <=> k \in DOMAIN more /\ more[k].depth = d
    BY <1>2, <1>3, <1>4
  <2>2. \A k \in DOMAIN locs : locs[k].depth = d => locs[k].name = more[k].name /\ locs[k].type = more[k].type
    BY <1>2
  <2> QED
    BY <1>1, <2>1, <2>2, SameAtDepth
<1>5. NamesAt(more, top) = NamesAt(locs, top) \cup {l.name}
  BY <1>2, <1>3 DEF NamesAt
<1>6. ASSUME NEW n \in NamesAt(locs, top), n # l.name
      PROVE  Variables(more, top)[n] = Variables(locs, top)[n]
  <2>1. PICK k : LastAt(locs, top, n, k)
    BY <1>1, VariablesAre
  <2>2. LastAt(more, top, n, k) /\ more[k].type = locs[k].type
    BY <1>2, <1>3, <1>6, <2>1 DEF LastAt
  <2> QED
    BY <1>1, <2>1, <2>2, VariablesAre
<1>7. /\ Variables(locs, top) = [n \in NamesAt(locs, top) |-> Variables(locs, top)[n]]
      /\ Variables(more, top) = [n \in NamesAt(more, top) |-> Variables(more, top)[n]]
  BY <1>1, VariablesAre
<1>8. DOMAIN Variables(locs, top) = NamesAt(locs, top) /\ DOMAIN Variables(more, top) = NamesAt(more, top)
  <2> DEFINE a == Variables(locs, top)
             b == Variables(more, top)
  <2>1. a = [n \in NamesAt(locs, top) |-> a[n]] /\ b = [n \in NamesAt(more, top) |-> b[n]]
    BY <1>7
  <2> HIDE DEF a, b
  <2>2. DOMAIN a = NamesAt(locs, top) /\ DOMAIN b = NamesAt(more, top)
    BY <2>1
  <2> QED
    BY <2>2 DEF a, b
<1>9. top + 1 \in 1 .. (top + 1) /\ (top + 1) - 1 = top
  <2>1. top \in Nat
    BY <1>1
  <2> QED
    BY <2>1
<1>10. ScopesOf(fr)[top + 1] = Variables(locs, top) /\ ScopesOf(later)[top + 1] = Variables(more, top)
  BY <1>9, ScopesAre DEF locs, more
<1>11. \A d \in 1 .. top : ScopesOf(later)[d] = ScopesOf(fr)[d]
  <2> TAKE d \in 1 .. top
  <2>1. d \in 1 .. (top + 1) /\ d - 1 # top
    BY <1>1
  <2>2. Variables(more, d - 1) = Variables(locs, d - 1)
    BY <1>4, <2>1
  <2> QED
    BY <2>1, <2>2, ScopesAre DEF locs, more
<1> QED
  BY <1>5, <1>6, <1>8, <1>10, <1>11

\* frame_enter: no local is deeper than the scope that was open.
LEMMA OpenedScopes ==
  ASSUME NEW fr \in Frame, NEW later \in Frame, Ordered(fr),
         later.depth = fr.depth + 1, later.locs = fr.locs
  PROVE  ScopesOf(later) = Append(ScopesOf(fr), << >>)
<1> DEFINE s == ScopesOf(fr)
           t == ScopesOf(later)
           top == fr.depth
<1>1. /\ s \in Seq(Contents) /\ Len(s) = top + 1 /\ top \in Nat
      /\ \A d \in 1 .. (top + 1) : s[d] = Variables(fr.locs, d - 1)
  BY ScopesAre
<1>2. /\ t \in Seq(Contents) /\ Len(t) = top + 2
      /\ \A d \in 1 .. (top + 2) : t[d] = Variables(fr.locs, d - 1)
  <2>1. (top + 1) + 1 = top + 2
    BY <1>1
  <2> QED
    BY <2>1, ScopesAre
<1>3. Variables(fr.locs, top + 1) = << >>
  <2>1. fr.locs \in Seq(LocalBinding)
    BY DEF Frame
  <2>2. NamesAt(fr.locs, top + 1) = {}
    <3>1. \A j \in DOMAIN fr.locs : fr.locs[j].depth \in Nat /\ fr.locs[j].depth <= top
      <4> TAKE j \in DOMAIN fr.locs
      <4>1. fr.locs[j] \in LocalBinding
        BY <2>1, LenProperties, ElementOfSeq
      <4> QED
        BY <4>1, ValuesAssumption DEF Ordered, LocalBinding
    <3>2. \A j \in DOMAIN fr.locs : fr.locs[j].depth # top + 1
      BY <1>1, <3>1
    <3> QED
      BY <3>2 DEF NamesAt
  <2> DEFINE v == Variables(fr.locs, top + 1)
  <2>3. v = [name \in NamesAt(fr.locs, top + 1) |-> v[name]]
    BY <2>1, VariablesAre
  <2> HIDE DEF v
  <2>4. v = [name \in {} |-> v[name]]
    BY <2>2, <2>3
  <2>5. v = [k \in 1 .. 0 |-> v[k]] /\ \A k \in 1 .. 0 : v[k] \in {}
    BY <2>4
  <2>6. v \in Seq({}) /\ Len(v) = 0
    BY <2>5, IsSequence
  <2> QED
    BY <2>6, EmptySeq DEF v
<1> HIDE DEF s, t
<1>4. << >> \in Contents /\ t[top + 2] = << >>
  <2>1. t[top + 2] = << >>
    BY <1>1, <1>2, <1>3
  <2>2. t[top + 2] \in Contents
    BY <1>1, <1>2, ElementOfSeq
  <2> QED
    BY <2>1, <2>2
<1>5. /\ Append(s, << >>) \in Seq(Contents) /\ Len(Append(s, << >>)) = top + 2
      /\ Append(s, << >>)[top + 2] = << >>
      /\ \A d \in 1 .. (top + 1) : Append(s, << >>)[d] = s[d]
  BY <1>1, <1>4, AppendProperties
<1>6. \A d \in 1 .. (top + 2) : t[d] = Append(s, << >>)[d]
  <2> TAKE d \in 1 .. (top + 2)
  <2>1. CASE d = top + 2
    BY <1>4, <1>5, <2>1
  <2>2. CASE d \in 1 .. (top + 1)
    BY <1>1, <1>2, <1>5, <2>2
  <2> QED
    BY <1>1, <2>1, <2>2
<1>7. t = Append(s, << >>)
  BY <1>2, <1>5, <1>6, SeqEqual
<1> QED
  BY <1>7 DEF s, t

\* frame_leave: what it cuts off are the locals of the scope that is left.
LEMMA ClosedScopes ==
  ASSUME NEW fr \in Frame, NEW later \in Frame, Ordered(fr), fr.depth > 0,
         later.depth = fr.depth - 1, later.locs = Kept(fr.locs, fr.depth - 1)
  PROVE  ScopesOf(later) = Front(ScopesOf(fr)) /\ Len(ScopesOf(fr)) > 1
<1> DEFINE s == ScopesOf(fr)
           t == ScopesOf(later)
           top == fr.depth
           locs == fr.locs
           more == later.locs
<1>1. /\ s \in Seq(Contents) /\ Len(s) = top + 1 /\ top \in Nat
      /\ \A d \in 1 .. (top + 1) : s[d] = Variables(locs, d - 1)
  BY ScopesAre
<1>2. /\ t \in Seq(Contents) /\ Len(t) = top
      /\ \A d \in 1 .. top : t[d] = Variables(more, d - 1)
  <2>1. (top - 1) + 1 = top
    BY <1>1
  <2> QED
    BY <2>1, ScopesAre
<1>3. locs \in Seq(LocalBinding) /\ more \in Seq(LocalBinding)
  BY DEF Frame
<1>4. /\ Len(more) \in 0 .. Len(locs)
      /\ \A j \in 1 .. Len(more) : more[j] = locs[j] /\ locs[j].depth <= top - 1
      /\ \A j \in DOMAIN locs : locs[j].depth <= top - 1 => j \in 1 .. Len(more)
  <2>1. top - 1 \in Nat /\ more = Kept(locs, top - 1)
    BY <1>1
  <2>2. \A j, k \in DOMAIN locs : j <= k => locs[j].depth <= locs[k].depth
    BY DEF Ordered
  <2> HIDE DEF locs, more, top
  <2> QED
    BY <1>3, <2>1, <2>2, KeptLocals
<1>5. DOMAIN locs = 1 .. Len(locs) /\ DOMAIN more = 1 .. Len(more) /\ Len(locs) \in Nat /\ Len(more) \in Nat
  BY <1>3, LenProperties
<1> HIDE DEF s, t, locs, more
<1>6. ASSUME NEW d \in 0 .. (top - 1) PROVE Variables(locs, d) = Variables(more, d)
  <2>1. d <= top - 1
    BY <1>1
  <2>2. \A k : k \in DOMAIN locs /\ locs[k].depth = d <=> k \in DOMAIN more /\ more[k].depth = d
    BY <1>4, <1>5, <2>1
  <2>3. \A k \in DOMAIN locs : locs[k].depth = d => locs[k].name = more[k].name /\ locs[k].type = more[k].type
    BY <1>4, <1>5, <2>1
  <2> QED
    BY <1>3, <2>2, <2>3, SameAtDepth
<1>7. \A d \in 1 .. top : t[d] = s[d]
  <2> TAKE d \in 1 .. top
  <2>1. d \in 1 .. (top + 1) /\ d - 1 \in 0 .. (top - 1)
    BY <1>1
  <2> QED
    BY <1>1, <1>2, <1>6, <2>1
<1>8. /\ Front(s) \in Seq(Contents) /\ Len(Front(s)) = top
      /\ \A d \in 1 .. top : Front(s)[d] = s[d]
  BY <1>1, FrontOf
<1>9. t = Front(s)
  BY <1>2, <1>7, <1>8, SeqEqual
<1> QED
  BY <1>1, <1>9 DEF s, t

LEMMA FoundIsLast ==
  ASSUME NEW S, NEW locs \in Seq(S), NEW name
  PROVE  /\ \A k \in DOMAIN locs : locs[k].name = name => k <= Find(locs, name) /\ Find(locs, name) > 0
         /\ Find(locs, name) > 0 => Find(locs, name) \in DOMAIN locs /\ locs[Find(locs, name)].name = name
<1> DEFINE T == {0} \cup Named(locs, name)
<1>1. DOMAIN locs = 1 .. Len(locs) /\ Len(locs) \in Nat
  BY LenProperties
<1>2. T \in SUBSET (0 .. Len(locs)) /\ T # {}
  BY <1>1 DEF Named
<1>3. \A k : k \in T <=> k = 0 \/ (k \in DOMAIN locs /\ locs[k].name = name)
  BY DEF Named
<1> HIDE DEF T
<1>4. Max(T) \in T /\ \A k \in T : k <= Max(T)
  BY <1>1, <1>2, MaxIsGreatest
<1>5. Find(locs, name) = Max(T)
  BY DEF Find, T
<1>6. \A k \in DOMAIN locs : locs[k].name = name => k <= Max(T) /\ Max(T) > 0
  <2> SUFFICES ASSUME NEW k \in DOMAIN locs, locs[k].name = name PROVE k <= Max(T) /\ Max(T) > 0
    OBVIOUS
  <2>1. k \in T /\ k >= 1 /\ Max(T) \in Nat
    BY <1>1, <1>2, <1>3, <1>4
  <2> QED
    BY <1>1, <1>4, <2>1
<1> QED
  BY <1>3, <1>4, <1>5, <1>6

LocalWritten(fr, later, name, tag) ==
  /\ Find(fr.locs, name) > 0
  /\ later.depth = fr.depth
  /\ later.locs = [fr.locs EXCEPT ![Find(fr.locs, name)].type = tag]
OneVariableSet(s, t, n, name) ==
  \E d \in 1 .. n :
    /\ name \in Names /\ name \in DOMAIN s[d]
    /\ \A e \in (d + 1) .. n : name \notin DOMAIN s[e]
    /\ t = [s EXCEPT ![d][name] = t[d][name]]

\* A local is written to: it is the variable of that name that the innermost scope has.
LEMMA WrittenScopes ==
  ASSUME NEW fr \in Frame, NEW later \in Frame, Ordered(fr), NEW name, NEW tag,
         LocalWritten(fr, later, name, tag)
  PROVE  OneVariableSet(ScopesOf(fr), ScopesOf(later), fr.depth + 1, name)
<1> DEFINE locs == fr.locs
           more == later.locs
           at == Find(locs, name)
           top == fr.depth
           d == locs[at].depth
           s == ScopesOf(fr)
           t == ScopesOf(later)
<1>0. at > 0 /\ later.depth = top /\ more = [locs EXCEPT ![at].type = tag]
  BY DEF LocalWritten
<1>1. locs \in Seq(LocalBinding) /\ more \in Seq(LocalBinding) /\ top \in Nat
  <2>1. top \in Nat
    BY ValuesAssumption DEF Frame
  <2>2. fr.locs \in Seq(LocalBinding)
    BY DEF Frame
  <2>3. later.locs \in Seq(LocalBinding)
    <3> HIDE DEF at, locs
    <3> QED
      BY DEF Frame
  <2> QED
    BY <2>1, <2>2, <2>3
<1>2. at \in DOMAIN locs /\ locs[at].name = name /\ \A k \in DOMAIN locs : locs[k].name = name => k <= at
  BY <1>0, <1>1, FoundIsLast
<1>3. DOMAIN locs = 1 .. Len(locs) /\ Len(locs) \in Nat /\ \A k \in DOMAIN locs : locs[k] \in LocalBinding
  BY <1>1, LenProperties, ElementOfSeq
<1>4. \A k \in DOMAIN locs : locs[k].depth \in Nat /\ locs[k].depth <= top /\ locs[k].name \in Names
  BY <1>3, ValuesAssumption DEF LocalBinding, Ordered
<1>5. \A j, k \in DOMAIN locs : j <= k => locs[j].depth <= locs[k].depth
  BY DEF Ordered
<1>6. DOMAIN more = DOMAIN locs
  BY <1>0
<1>7. \A k \in DOMAIN locs : /\ more[k].depth = locs[k].depth /\ more[k].name = locs[k].name
                             /\ k # at => more[k].type = locs[k].type
  <2> TAKE k \in DOMAIN locs
  <2>1. locs[k] \in LocalBinding
    BY <1>3
  <2>2. more[k] = IF k = at THEN [locs[k] EXCEPT !.type = tag] ELSE locs[k]
    BY <1>0
  <2> HIDE DEF more, at
  <2> QED
    BY <2>1, <2>2 DEF LocalBinding
<1>8. /\ s \in Seq(Contents) /\ Len(s) = top + 1
      /\ \A e \in 1 .. (top + 1) : s[e] = Variables(locs, e - 1)
  BY ScopesAre
<1>9. /\ t \in Seq(Contents) /\ Len(t) = top + 1
      /\ \A e \in 1 .. (top + 1) : t[e] = Variables(more, e - 1)
  BY <1>0, ScopesAre
<1> HIDE DEF locs, more, at, s, t
<1>10. d \in Nat /\ d <= top
  BY <1>2, <1>4
<1> HIDE DEF d
<1>11. d + 1 \in 1 .. (top + 1) /\ (d + 1) - 1 = d
  BY <1>1, <1>10
<1>12. ASSUME NEW e \in 0 .. top, e # d PROVE Variables(more, e) = Variables(locs, e)
  <2>1. \A k : k \in DOMAIN locs /\ locs[k].depth = e <=> k \in DOMAIN more /\ more[k].depth = e
    BY <1>6, <1>7
  <2>2. \A k \in DOMAIN locs : locs[k].depth = e => locs[k].name = more[k].name /\ locs[k].type = more[k].type
    BY <1>7, <1>12 DEF d
  <2> QED
    BY <1>1, <2>1, <2>2, SameAtDepth
<1>13. NamesAt(more, d) = NamesAt(locs, d)
  BY <1>6, <1>7 DEF NamesAt
<1>14. ASSUME NEW n \in NamesAt(locs, d), n # name PROVE Variables(more, d)[n] = Variables(locs, d)[n]
  <2>1. PICK k : LastAt(locs, d, n, k)
    BY <1>1, VariablesAre
  <2>2. k # at
    BY <1>2, <1>14, <2>1 DEF LastAt
  <2>3. LastAt(more, d, n, k) /\ more[k].type = locs[k].type
    BY <1>6, <1>7, <2>1, <2>2 DEF LastAt
  <2> QED
    BY <1>1, <2>1, <2>3, VariablesAre
<1>15. /\ s[d + 1] = [n \in NamesAt(locs, d) |-> s[d + 1][n]]
       /\ t[d + 1] = [n \in NamesAt(locs, d) |-> t[d + 1][n]]
       /\ \A n \in NamesAt(locs, d) : n # name => t[d + 1][n] = s[d + 1][n]
  <2>1. s[d + 1] = Variables(locs, d) /\ t[d + 1] = Variables(more, d)
    BY <1>8, <1>9, <1>11
  <2>2. /\ Variables(locs, d) = [n \in NamesAt(locs, d) |-> Variables(locs, d)[n]]
        /\ Variables(more, d) = [n \in NamesAt(more, d) |-> Variables(more, d)[n]]
    BY <1>1, VariablesAre
  <2> QED
    BY <1>13, <1>14, <2>1, <2>2
<1>16. name \in Names /\ name \in NamesAt(locs, d)
  BY <1>2, <1>4 DEF NamesAt, d
<1>17. ASSUME NEW e \in (d + 2) .. (top + 1) PROVE name \notin DOMAIN s[e]
  <2>1. e \in 1 .. (top + 1) /\ e - 1 > d
    BY <1>1, <1>10
  <2>2. s[e] = Variables(locs, e - 1)
    BY <1>8, <2>1
  <2> DEFINE v == Variables(locs, e - 1)
  <2>3. v = [n \in NamesAt(locs, e - 1) |-> v[n]]
    BY <1>1, VariablesAre
  <2>4. name \notin NamesAt(locs, e - 1)
    <3> SUFFICES ASSUME NEW k \in DOMAIN locs, locs[k].depth = e - 1, locs[k].name = name PROVE FALSE
      BY DEF NamesAt
    <3>1. locs[k].depth <= d
      BY <1>2, <1>5 DEF d
    <3> QED
      BY <1>10, <2>1, <3>1
  <2> HIDE DEF v
  <2> QED
    BY <2>2, <2>3, <2>4 DEF v
<1>18. t = [s EXCEPT ![d + 1] = [s[d + 1] EXCEPT ![name] = t[d + 1][name]]]
  <2> DEFINE x == [s[d + 1] EXCEPT ![name] = t[d + 1][name]]
  <2>1. x = t[d + 1]
    BY <1>15
  <2> HIDE DEF x
  <2>2. \A e \in 1 .. (top + 1) : e # d + 1 => t[e] = s[e]
    <3> SUFFICES ASSUME NEW e \in 1 .. (top + 1), e # d + 1 PROVE t[e] = s[e]
      OBVIOUS
    <3>1. e - 1 \in 0 .. top /\ e - 1 # d
      BY <1>1, <1>10
    <3> QED
      BY <1>8, <1>9, <1>12, <3>1
  <2>3. DOMAIN s = 1 .. (top + 1) /\ DOMAIN t = 1 .. (top + 1)
    BY <1>8, <1>9, LenProperties
  <2>4. s = [e \in 1 .. (top + 1) |-> s[e]] /\ t = [e \in 1 .. (top + 1) |-> t[e]]
    BY <1>8, <1>9, <2>3, LenProperties
  <2>5. t = [s EXCEPT ![d + 1] = x]
    BY <1>11, <2>1, <2>2, <2>3, <2>4
  <2> QED
    BY <2>5 DEF x
<1>19. /\ name \in DOMAIN s[d + 1]
       /\ \A e \in ((d + 1) + 1) .. (top + 1) : name \notin DOMAIN s[e]
       /\ t = [s EXCEPT ![d + 1][name] = t[d + 1][name]]
  <2>1. (d + 1) + 1 = d + 2
    BY <1>10
  <2>2. DOMAIN s[d + 1] = NamesAt(locs, d)
    <3> DEFINE v == s[d + 1]
    <3>1. v = [n \in NamesAt(locs, d) |-> v[n]]
      BY <1>15
    <3> HIDE DEF v
    <3>2. DOMAIN v = NamesAt(locs, d)
      BY <3>1
    <3> QED
      BY <3>2 DEF v
  <2> QED
    BY <1>16, <1>17, <1>18, <2>1, <2>2
<1> QED
  BY <1>11, <1>16, <1>19 DEF s, t, locs, OneVariableSet

----------------------------------------------------------------------------
(* The calls and the store of Scoping *)

GlobalNames == {Globals[k].name : k \in DOMAIN Globals}
Store == [name \in GlobalNames |-> globals[FindGlobal(name)]]
Calls == [k \in DOMAIN stack |-> ScopesOf(stack[k])]
Starting == next <= Len(Globals)

CallsFine ==
  stack \in Seq(Frame) =>
    /\ Calls \in Seq(Seq(Contents)) /\ Len(Calls) = Len(stack) /\ Len(stack) \in Nat
    /\ \A k \in 1 .. Len(stack) : Calls[k] = ScopesOf(stack[k]) /\ stack[k] \in Frame

LEMMA CallsAre == CallsFine
<1> SUFFICES ASSUME stack \in Seq(Frame)
             PROVE  /\ Calls \in Seq(Seq(Contents)) /\ Len(Calls) = Len(stack) /\ Len(stack) \in Nat
                    /\ \A k \in 1 .. Len(stack) : Calls[k] = ScopesOf(stack[k]) /\ stack[k] \in Frame
  BY DEF CallsFine
<1>1. Len(stack) \in Nat /\ DOMAIN stack = 1 .. Len(stack) /\ \A k \in 1 .. Len(stack) : stack[k] \in Frame
  BY LenProperties, ElementOfSeq
<1>2. Calls = [k \in 1 .. Len(stack) |-> ScopesOf(stack[k])]
  BY <1>1 DEF Calls
<1>3. \A k \in 1 .. Len(stack) : Calls[k] = ScopesOf(stack[k]) /\ Calls[k] \in Seq(Contents)
  BY <1>1, <1>2, ScopesAre
<1>4. Calls = [k \in 1 .. Len(stack) |-> Calls[k]]
  BY <1>2
<1>5. Calls \in Seq(Seq(Contents)) /\ Len(Calls) = Len(stack)
  <2> DEFINE n == Len(stack)
             S == Seq(Contents)
  <2>1. n \in Nat /\ Calls = [k \in 1 .. n |-> Calls[k]] /\ \A k \in 1 .. n : Calls[k] \in S
    BY <1>1, <1>3, <1>4
  <2> HIDE DEF n, S
  <2>2. Calls \in Seq(S) /\ Len(Calls) = n
    BY <2>1, IsSequence
  <2> QED
    BY <2>2 DEF n, S
<1> QED
  BY <1>1, <1>3, <1>5

LEMMA ScopedEnter ==
  Scoped!Enter <=> /\ Len(Calls') = Len(Calls) + 1 /\ Front(Calls') = Calls /\ Len(Last(Calls')) = 1
                   /\ UNCHANGED <<Store, Starting>>
BY DEF Scoped!Enter, Scoped!Front, Scoped!Last, Front, Last, Calls, Store, Starting, GlobalNames

LEMMA ScopedLeave ==
  Scoped!Leave <=> Calls # <<>> /\ Calls' = Front(Calls) /\ UNCHANGED <<Store, Starting>>
BY DEF Scoped!Leave, Scoped!Front, Front, Calls, Store, Starting, GlobalNames

LEMMA ScopedWithin ==
  Scoped!Within <=> /\ Calls # <<>> /\ Len(Calls') = Len(Calls) /\ Front(Calls') = Front(Calls)
                    /\ UNCHANGED <<Store, Starting>>
BY DEF Scoped!Within, Scoped!Front, Front, Calls, Store, Starting, GlobalNames

LEMMA ScopedNow ==
  /\ Scoped!Scopes = Last(Calls) /\ Scoped!Depth = Len(Last(Calls)) /\ Scoped!Inmost = Last(Last(Calls))
  /\ Scoped!Scopes' = Last(Calls') /\ Scoped!Depth' = Len(Last(Calls')) /\ Scoped!Inmost' = Last(Last(Calls'))
  /\ \A s : Scoped!Front(s) = Front(s)
BY DEF Scoped!Scopes, Scoped!Depth, Scoped!Inmost, Scoped!Last, Scoped!Front, Last, Front, Calls

LEMMA ScopedOpen ==
  Scoped!Open <=> Scoped!Within /\ Last(Calls') = Append(Last(Calls), << >>)
BY ScopedNow DEF Scoped!Open

LEMMA ScopedClose ==
  Scoped!Close <=> Scoped!Within /\ Len(Last(Calls)) > 1 /\ Last(Calls') = Front(Last(Calls))
BY ScopedNow DEF Scoped!Close

LEMMA ScopedDeclare ==
  Scoped!Declare <=>
    /\ Scoped!Within /\ Len(Last(Calls')) = Len(Last(Calls)) /\ Front(Last(Calls')) = Front(Last(Calls))
    /\ \E name \in Names :
         /\ DOMAIN Last(Last(Calls')) = DOMAIN Last(Last(Calls)) \cup {name}
         /\ \A other \in DOMAIN Last(Last(Calls)) \ {name} : Last(Last(Calls'))[other] = Last(Last(Calls))[other]
BY ScopedNow DEF Scoped!Declare

LEMMA ScopedSees ==
  ASSUME NEW name, NEW d
  PROVE  Scoped!Sees(name, d) <=>
           /\ name \in DOMAIN Last(Calls)[d]
           /\ \A e \in (d + 1) .. Len(Last(Calls)) : name \notin DOMAIN Last(Calls)[e]
BY ScopedNow DEF Scoped!Sees

LEMMA ScopedSetLocal ==
  Scoped!SetLocal <=>
    /\ Scoped!Within /\ Len(Last(Calls')) = Len(Last(Calls))
    /\ \E name \in Names, d \in 1 .. Len(Last(Calls)) :
         Scoped!Sees(name, d) /\ Last(Calls') = [Last(Calls) EXCEPT ![d][name] = Last(Calls')[d][name]]
BY ScopedNow DEF Scoped!SetLocal

LEMMA ScopedSetGlobal ==
  Scoped!SetGlobal <=>
    /\ \E name \in GlobalNames :
         /\ Store' = [Store EXCEPT ![name] = Store'[name]] /\ UNCHANGED Calls
         /\ Calls # <<>> => \A d \in 1 .. Len(Last(Calls)) : ~Scoped!Sees(name, d)
    /\ UNCHANGED Starting
BY ScopedNow DEF Scoped!SetGlobal, Scoped!OnlyChanges, Calls, Store, Starting, GlobalNames

LEMMA ScopedInitialise ==
  Scoped!Initialise <=>
    Starting /\ \E name \in GlobalNames : Store' = [Store EXCEPT ![name] = Store'[name]] /\ UNCHANGED Calls
BY DEF Scoped!Initialise, Scoped!OnlyChanges, Calls, Store, Starting, GlobalNames

LEMMA ScopedClear ==
  Scoped!Clear <=>
    /\ Starting' = TRUE /\ UNCHANGED Calls /\ DOMAIN Store' = GlobalNames
    /\ \A a, b \in GlobalNames : Store'[a] = Store'[b]
BY DEF Scoped!Clear, Calls, Store, Starting, GlobalNames

LEMMA ScopedStutter == UNCHANGED Scoped!vars <=> UNCHANGED <<Store, Calls, Starting>>
BY DEF Scoped!vars, Calls, Store, Starting, GlobalNames

LEMMA SameStore == UNCHANGED globals => UNCHANGED Store
BY DEF Store

LEMMA SameCalls == UNCHANGED stack => UNCHANGED Calls
BY DEF Calls

LEMMA SameStarting == UNCHANGED next => UNCHANGED Starting
BY DEF Starting

\* Something happens in the frame that runs, and nowhere else.
LEMMA TopChanged ==
  ASSUME StackIn(Operand), StackIn(Operand)', stack # <<>>, NEW fr, InTop(fr), UNCHANGED <<globals, next>>
  PROVE  /\ Scoped!Within /\ Calls # <<>>
         /\ Top \in Frame /\ Ordered(Top) /\ fr \in Frame
         /\ Last(Calls) = ScopesOf(Top) /\ Last(Calls') = ScopesOf(fr)
<1> DEFINE n == Len(stack)
<1>1. n \in 1 .. Len(stack) /\ n >= 1 /\ n \in Nat /\ stack \in Seq(Frame) /\ stack' \in Seq(Frame)
      /\ DOMAIN stack = 1 .. n /\ n \in 1 .. n
  BY TopIsFine DEF StackIn
<1>2. stack' = [stack EXCEPT ![n] = fr]
  BY DEF InTop
<1>3. Len(stack') = n /\ stack'[n] = fr /\ \A k \in 1 .. (n - 1) : stack'[k] = stack[k]
  <2>1. DOMAIN stack' = 1 .. n /\ DOMAIN stack' = 1 .. Len(stack') /\ Len(stack') \in Nat
    BY <1>1, <1>2, LenProperties
  <2>2. Len(stack') = n
    BY <1>1, <2>1
  <2> HIDE DEF n
  <2>3. n \in DOMAIN stack /\ \A k \in 1 .. (n - 1) : k \in DOMAIN stack /\ k # n
    BY <1>1
  <2> QED
    BY <1>2, <2>2, <2>3
<1> HIDE DEF n
<1>4. /\ Calls \in Seq(Seq(Contents)) /\ Len(Calls) = n
      /\ \A k \in 1 .. n : Calls[k] = ScopesOf(stack[k]) /\ stack[k] \in Frame
  BY <1>1, CallsAre DEF CallsFine, n
<1>5. /\ Calls' \in Seq(Seq(Contents)) /\ Len(Calls') = n
      /\ \A k \in 1 .. n : Calls'[k] = ScopesOf(stack'[k]) /\ stack'[k] \in Frame
  <2>1. CallsFine'
    BY CallsAre, PTL
  <2> QED
    BY <1>1, <1>3, <2>1 DEF CallsFine
<1>6. Front(Calls') = Front(Calls)
  <2>1. /\ Front(Calls) \in Seq(Seq(Contents)) /\ Len(Front(Calls)) = n - 1
        /\ \A k \in 1 .. (n - 1) : Front(Calls)[k] = Calls[k]
    <3> DEFINE S == Seq(Contents)
    <3>1. Calls \in Seq(S) /\ Len(Calls) > 0 /\ Len(Calls) - 1 = n - 1
      BY <1>1, <1>4
    <3> HIDE DEF S
    <3>2. /\ Front(Calls) \in Seq(S) /\ Len(Front(Calls)) = Len(Calls) - 1
          /\ \A k \in 1 .. (Len(Calls) - 1) : Front(Calls)[k] = Calls[k]
      BY <3>1, FrontOf
    <3> QED
      BY <3>1, <3>2 DEF S
  <2>2. /\ Front(Calls') \in Seq(Seq(Contents)) /\ Len(Front(Calls')) = n - 1
        /\ \A k \in 1 .. (n - 1) : Front(Calls')[k] = Calls'[k]
    <3> DEFINE S == Seq(Contents)
               c == Calls'
    <3>1. c \in Seq(S) /\ Len(c) > 0 /\ Len(c) - 1 = n - 1
      BY <1>1, <1>5
    <3> HIDE DEF S, c
    <3>2. /\ Front(c) \in Seq(S) /\ Len(Front(c)) = Len(c) - 1
          /\ \A k \in 1 .. (Len(c) - 1) : Front(c)[k] = c[k]
      BY <3>1, FrontOf
    <3> QED
      BY <3>1, <3>2 DEF S, c
  <2>3. \A k \in 1 .. (n - 1) : k \in 1 .. n
    BY <1>1
  <2>4. \A k \in 1 .. (n - 1) : Front(Calls')[k] = Front(Calls)[k]
    BY <1>3, <1>4, <1>5, <2>1, <2>2, <2>3
  <2> QED
    BY <2>1, <2>2, <2>4, SeqEqual
<1>7. Last(Calls) = ScopesOf(Top) /\ Last(Calls') = ScopesOf(fr) /\ fr \in Frame
  <2>1. n \in 1 .. n
    BY <1>1
  <2> QED
    BY <1>3, <1>4, <1>5, <2>1 DEF Last, Top, n
<1>8. Calls # <<>>
  BY <1>1, <1>4, EmptySeq
<1>9. Scoped!Within
  BY <1>4, <1>5, <1>6, <1>8, SameStore, SameStarting, ScopedWithin
<1> QED
  BY <1>7, <1>8, <1>9, TopIsFine

\* Only the operands change.
LEMMA TempsChanged ==
  ASSUME StackIn(Operand), StackIn(Operand)', stack # <<>>, NEW q, InTop([Top EXCEPT !.temps = q])
  PROVE  UNCHANGED Calls
<1> DEFINE fr == [Top EXCEPT !.temps = q]
           n == Len(stack)
<1>1. Top \in Frame /\ n \in 1 .. n /\ n >= 1 /\ n \in Nat /\ stack \in Seq(Frame) /\ DOMAIN stack = 1 .. n
  BY TopIsFine DEF StackIn
<1>2. fr.locs = Top.locs /\ fr.depth = Top.depth
  BY <1>1 DEF Frame
<1>3. ScopesOf(fr) = ScopesOf(Top)
  BY <1>2 DEF ScopesOf
<1>4. stack' = [stack EXCEPT ![n] = fr]
  BY DEF InTop
<1>5. Top = stack[n]
  BY DEF Top
<1> HIDE DEF fr, n
<1>6. DOMAIN stack' = DOMAIN stack /\ \A k \in DOMAIN stack : ScopesOf(stack'[k]) = ScopesOf(stack[k])
  <2>1. DOMAIN stack' = DOMAIN stack
    BY <1>4
  <2>2. \A k \in DOMAIN stack : stack'[k] = IF k = n THEN fr ELSE stack[k]
    BY <1>1, <1>4
  <2> QED
    BY <1>3, <1>5, <2>1, <2>2
<1> HIDE DEF ScopesOf
<1> QED
  BY <1>6 DEF Calls

LEMMA YieldIsNoStep ==
  ASSUME StackIn(Operand), StackIn(Operand)', Evaluating, NEW n, NEW v, Yield(n, v)
  PROVE  UNCHANGED Scoped!vars
<1>1. stack # <<>>
  BY DEF Evaluating
<1>2. UNCHANGED Calls
  BY <1>1, TempsChanged DEF Yield
<1>3. UNCHANGED <<Store, Starting>>
  BY SameStore, SameStarting DEF Yield
<1> QED
  BY <1>2, <1>3, ScopedStutter

LEMMA GlobalNamed ==
  ASSUME NEW name, FindGlobal(name) > 0
  PROVE  name \in GlobalNames /\ FindGlobal(name) \in DOMAIN Globals
<1>1. FindGlobal(name) \in DOMAIN Globals /\ Globals[FindGlobal(name)].name = name
  BY GlobalFoundIsThere, ValuesAssumption
<1> QED
  BY <1>1 DEF GlobalNames

LEMMA NamedGlobal ==
  ASSUME NEW name \in GlobalNames
  PROVE  FindGlobal(name) > 0 /\ FindGlobal(name) \in DOMAIN Globals /\ Globals[FindGlobal(name)].name = name
<1>1. PICK k \in DOMAIN Globals : Globals[k].name = name
  BY DEF GlobalNames
<1>2. FindGlobal(name) # 0 /\ FindGlobal(name) \in 0 .. Len(Globals) /\ Len(Globals) \in Nat
  BY <1>1, GlobalFoundIsThere, ValuesAssumption
<1>3. FindGlobal(name) > 0
  BY <1>2
<1>4. FindGlobal(name) \in DOMAIN Globals
  BY <1>3, GlobalNamed
<1> QED
  BY <1>3, <1>4, GlobalFoundIsThere

\* One global changes: what the store has under its name, if it is the first of that name.
LEMMA GlobalWritten ==
  ASSUME GlobalsIn(Operand), NEW k \in DOMAIN Globals, NEW tag, globals' = [globals EXCEPT ![k] = tag]
  PROVE  /\ Globals[k].name \in GlobalNames
         /\ Store' = [Store EXCEPT ![Globals[k].name] = Store'[Globals[k].name]]
<1>1. Globals[k].name \in GlobalNames
  BY DEF GlobalNames
<1>2. \A name \in GlobalNames : name # Globals[k].name => Store'[name] = Store[name]
  <2> SUFFICES ASSUME NEW name \in GlobalNames, name # Globals[k].name PROVE Store'[name] = Store[name]
    OBVIOUS
  <2>1. FindGlobal(name) \in DOMAIN Globals /\ FindGlobal(name) # k
    BY NamedGlobal
  <2>2. globals'[FindGlobal(name)] = globals[FindGlobal(name)]
    BY <2>1 DEF GlobalsIn
  <2> QED
    BY <2>2 DEF Store
<1>3. /\ Store = [name \in GlobalNames |-> Store[name]]
      /\ Store' = [name \in GlobalNames |-> Store'[name]]
  BY DEF Store
<1> QED
  BY <1>1, <1>2, <1>3

\* An assignment sets the variable that its name means, and no other.
LEMMA WriteSets ==
  ASSUME Inv(Operand), Inv(Operand)', Evaluating, NEW name \in Names, NEW cell \in Resolved(name),
         NEW tag, NEW n, NEW v, Write(cell, tag, n, v)
  PROVE  Scoped!SetLocal \/ Scoped!SetGlobal
<1>1. StackIn(Operand) /\ StackIn(Operand)' /\ GlobalsIn(Operand) /\ stack # <<>> /\ UNCHANGED next
  BY DEF Inv, Evaluating, Write
<1>2. Locs = Top.locs /\ Top \in Frame /\ Top.locs \in Seq(LocalBinding)
  BY <1>1, TopIsFine DEF Locs
<1> DEFINE q == Append(Dropped(n), v)
           at == Find(Top.locs, name)
<1>3. CASE at > 0
  <2>1. cell = [where |-> "local", at |-> at]
    BY <1>2, <1>3 DEF Resolved
  <2> DEFINE fr == [Top EXCEPT !.temps = q, !.locs[at].type = tag]
  <2>2. InTop(fr) /\ UNCHANGED <<globals, next>>
    BY <1>1, <2>1 DEF Write
  <2>3. fr.depth = Top.depth /\ fr.locs = [Top.locs EXCEPT ![at].type = tag]
    BY <1>2 DEF Frame
  <2> HIDE DEF fr
  <2>4. /\ Scoped!Within /\ Top \in Frame /\ Ordered(Top) /\ fr \in Frame
        /\ Last(Calls) = ScopesOf(Top) /\ Last(Calls') = ScopesOf(fr)
    BY <1>1, <2>2, TopChanged
  <2>5. PICK d \in 1 .. (Top.depth + 1) :
           /\ name \in Names /\ name \in DOMAIN ScopesOf(Top)[d]
           /\ \A e \in (d + 1) .. (Top.depth + 1) : name \notin DOMAIN ScopesOf(Top)[e]
           /\ ScopesOf(fr) = [ScopesOf(Top) EXCEPT ![d][name] = ScopesOf(fr)[d][name]]
    <3> DEFINE top == Top
    <3>1. top \in Frame /\ fr \in Frame /\ Ordered(top) /\ LocalWritten(top, fr, name, tag)
      BY <1>3, <2>3, <2>4 DEF LocalWritten
    <3> HIDE DEF top
    <3>2. OneVariableSet(ScopesOf(top), ScopesOf(fr), top.depth + 1, name)
      BY <3>1, WrittenScopes
    <3> QED
      BY <3>2 DEF top, OneVariableSet
  <2>6. Len(ScopesOf(Top)) = Top.depth + 1 /\ Len(ScopesOf(fr)) = Top.depth + 1
    BY <2>3, <2>4, ScopesAre
  <2>7. Scoped!Sees(name, d)
    BY <2>4, <2>5, <2>6, ScopedSees
  <2>8. d \in 1 .. Len(Last(Calls)) /\ Len(Last(Calls')) = Len(Last(Calls))
    BY <2>4, <2>6
  <2>9. Last(Calls') = [Last(Calls) EXCEPT ![d][name] = Last(Calls')[d][name]]
    BY <2>4, <2>5
  <2> HIDE DEF Scoped!Sees
  <2> QED
    BY <2>4, <2>7, <2>8, <2>9, ScopedSetLocal
<1>4. CASE ~(at > 0)
  <2>1. FindGlobal(name) > 0 /\ cell = [where |-> "global", at |-> FindGlobal(name)]
    BY <1>2, <1>4 DEF Resolved
  <2>2. InTop([Top EXCEPT !.temps = q]) /\ globals' = [globals EXCEPT ![FindGlobal(name)] = tag]
    BY <2>1 DEF Write
  <2>3. name \in GlobalNames /\ FindGlobal(name) \in DOMAIN Globals /\ Globals[FindGlobal(name)].name = name
    BY <2>1, GlobalNamed, GlobalFoundIsThere
  <2>4. Store' = [Store EXCEPT ![name] = Store'[name]]
    BY <1>1, <2>2, <2>3, GlobalWritten
  <2>5. UNCHANGED Calls
    BY <1>1, <2>2, TempsChanged
  <2>6. Last(Calls) = ScopesOf(Top)
    <3>1. Len(stack) \in 1 .. Len(stack) /\ stack \in Seq(Frame)
      BY <1>1, TopIsFine DEF StackIn
    <3> QED
      BY <3>1, CallsAre DEF CallsFine, Last, Top
  <2>7. ASSUME NEW d \in 1 .. Len(Last(Calls)) PROVE ~Scoped!Sees(name, d)
    <3>1. d \in 1 .. (Top.depth + 1) /\ Last(Calls)[d] = Variables(Top.locs, d - 1)
      BY <1>2, <2>6, <2>7, ScopesAre
    <3> DEFINE w == Variables(Top.locs, d - 1)
    <3>2. w = [x \in NamesAt(Top.locs, d - 1) |-> w[x]]
      BY <1>2, VariablesAre
    <3>3. name \notin NamesAt(Top.locs, d - 1)
      BY <1>2, <1>4, FoundIsLast DEF NamesAt
    <3> HIDE DEF w
    <3>4. name \notin DOMAIN w
      BY <3>2, <3>3
    <3> QED
      BY <3>1, <3>4, ScopedSees DEF w
  <2>8. UNCHANGED Starting
    BY <1>1, SameStarting
  <2> HIDE DEF Scoped!Sees
  <2> QED
    BY <2>3, <2>4, <2>5, <2>7, <2>8, ScopedSetGlobal
<1> QED
  BY <1>3, <1>4

LEMMA DeclareDeclares ==
  ASSUME Inv(Operand), Inv(Operand)', Declare
  PROVE  Scoped!Declare
<1>1. StackIn(Operand) /\ StackIn(Operand)' /\ stack # <<>> /\ UNCHANGED <<globals, next>>
  BY DEF Inv, Evaluating, Declare
<1>2. \E name \in Names, t \in Declared : \E tag :
        InTop([Top EXCEPT !.temps = <<>>, !.locs = Append(@, Local(name, t, tag, Top.depth))])
  BY DEF Declare
<1> PICK name \in Names, t \in Declared :
      \E tag : InTop([Top EXCEPT !.temps = <<>>, !.locs = Append(@, Local(name, t, tag, Top.depth))])
  BY <1>2
<1>20. PICK tag :
        InTop([Top EXCEPT !.temps = <<>>, !.locs = Append(@, Local(name, t, tag, Top.depth))])
  OBVIOUS
<1> DEFINE l == Local(name, t, tag, Top.depth)
           fr == [Top EXCEPT !.temps = <<>>, !.locs = Append(@, l)]
<1>3. fr.depth = Top.depth /\ fr.locs = Append(Top.locs, l)
  <2>1. Top \in Frame
    BY <1>1, TopIsFine
  <2> QED
    BY <2>1 DEF Frame
<1>4. l.name = name /\ l.depth = Top.depth
  BY DEF Local
<1> HIDE DEF l, fr
<1>5. InTop(fr)
  BY <1>20 DEF fr, l
<1>6. /\ Scoped!Within /\ Top \in Frame /\ fr \in Frame
      /\ Last(Calls) = ScopesOf(Top) /\ Last(Calls') = ScopesOf(fr)
  BY <1>1, <1>5, TopChanged
<1> DEFINE top == Top
           s == ScopesOf(top)
           u == ScopesOf(fr)
           n == top.depth
<1>7. l \in LocalBinding
  <2>1. Top.locs \in Seq(LocalBinding) /\ fr.locs \in Seq(LocalBinding)
    BY <1>6 DEF Frame
  <2>2. fr.locs[Len(fr.locs)] = l /\ Len(fr.locs) \in 1 .. Len(fr.locs)
    <3>1. Len(fr.locs) = Len(Top.locs) + 1 /\ Append(Top.locs, l)[Len(Top.locs) + 1] = l /\ Len(Top.locs) \in Nat
      BY <1>3, <2>1
    <3> QED
      BY <1>3, <3>1
  <2> QED
    BY <2>1, <2>2, ElementOfSeq
<1>8. top \in Frame /\ fr \in Frame /\ l.depth = top.depth /\ fr.depth = top.depth /\ fr.locs = Append(top.locs, l)
  BY <1>3, <1>4, <1>6
<1> HIDE DEF top
<1>9. /\ s \in Seq(Contents) /\ Len(s) = n + 1 /\ u \in Seq(Contents) /\ Len(u) = n + 1 /\ n \in Nat
  BY <1>8, ScopesAre
<1>10. /\ \A d \in 1 .. n : u[d] = s[d]
       /\ DOMAIN u[n + 1] = DOMAIN s[n + 1] \cup {name}
       /\ \A other \in DOMAIN s[n + 1] \ {name} : u[n + 1][other] = s[n + 1][other]
  BY <1>4, <1>7, <1>8, DeclaredScopes
<1>11. Last(Calls) = s /\ Last(Calls') = u
  BY <1>6 DEF top
<1> HIDE DEF s, u, n
<1>12. Front(u) = Front(s)
  <2>1. Len(s) > 0 /\ Len(u) > 0 /\ Len(s) - 1 = n /\ Len(u) - 1 = n
    BY <1>9
  <2>2. /\ Front(s) \in Seq(Contents) /\ Len(Front(s)) = n /\ \A d \in 1 .. n : Front(s)[d] = s[d]
    BY <1>9, <2>1, FrontOf
  <2>3. /\ Front(u) \in Seq(Contents) /\ Len(Front(u)) = n /\ \A d \in 1 .. n : Front(u)[d] = u[d]
    BY <1>9, <2>1, FrontOf
  <2> QED
    BY <1>10, <2>2, <2>3, SeqEqual
<1>13. Last(s) = s[n + 1] /\ Last(u) = u[n + 1]
  BY <1>9 DEF Last
<1> QED
  BY <1>6, <1>9, <1>10, <1>11, <1>12, <1>13, ScopedDeclare

LEMMA OpenScopeOpens ==
  ASSUME Inv(Operand), Inv(Operand)', OpenScope
  PROVE  Scoped!Open
<1>1. StackIn(Operand) /\ StackIn(Operand)' /\ stack # <<>> /\ UNCHANGED <<globals, next>>
  BY DEF Inv, Evaluating, Statement, OpenScope
<1> DEFINE top == Top
           fr == [top EXCEPT !.depth = @ + 1]
<1>2. InTop(fr)
  BY DEF OpenScope
<1>3. fr.depth = top.depth + 1 /\ fr.locs = top.locs
  <2>1. Top \in Frame
    BY <1>1, TopIsFine
  <2> QED
    BY <2>1 DEF Frame
<1> HIDE DEF fr
<1>4. /\ Scoped!Within /\ top \in Frame /\ Ordered(top) /\ fr \in Frame
      /\ Last(Calls) = ScopesOf(top) /\ Last(Calls') = ScopesOf(fr)
  BY <1>1, <1>2, TopChanged
<1> HIDE DEF top
<1>5. ScopesOf(fr) = Append(ScopesOf(top), << >>)
  BY <1>3, <1>4, OpenedScopes
<1> QED
  BY <1>4, <1>5, ScopedOpen

LEMMA CloseScopeCloses ==
  ASSUME Inv(Operand), Inv(Operand)', CloseScope
  PROVE  Scoped!Close
<1>1. StackIn(Operand) /\ StackIn(Operand)' /\ stack # <<>> /\ UNCHANGED <<globals, next>>
  BY DEF Inv, Evaluating, Statement, CloseScope
<1> DEFINE top == Top
           fr == [top EXCEPT !.depth = @ - 1, !.locs = Kept(@, top.depth - 1)]
<1>2. InTop(fr) /\ top.depth > 0
  BY DEF CloseScope
<1>3. fr.depth = top.depth - 1 /\ fr.locs = Kept(top.locs, top.depth - 1)
  <2>1. Top \in Frame
    BY <1>1, TopIsFine
  <2> QED
    BY <2>1 DEF Frame
<1> HIDE DEF fr
<1>4. /\ Scoped!Within /\ top \in Frame /\ Ordered(top) /\ fr \in Frame
      /\ Last(Calls) = ScopesOf(top) /\ Last(Calls') = ScopesOf(fr)
  BY <1>1, <1>2, TopChanged
<1>5. top.depth > 0
  BY <1>2
<1> HIDE DEF top
<1>6. ScopesOf(fr) = Front(ScopesOf(top)) /\ Len(ScopesOf(top)) > 1
  BY <1>3, <1>4, <1>5, ClosedScopes
<1> QED
  BY <1>4, <1>6, ScopedClose

\* A call puts one more frame, of one scope, on top of the others.
LEMMA CallEnters ==
  ASSUME Inv(Operand), Inv(Operand)', Dispatch \/ Call
  PROVE  Scoped!Enter
<1> DEFINE n == Len(stack)
<1>1. stack \in Seq(Frame) /\ stack' \in Seq(Frame) /\ n \in Nat /\ UNCHANGED <<globals, next>>
  BY LenProperties DEF Inv, StackIn, Dispatch, Call
<1>2. PICK f, locs :
        /\ Len(stack') = n + 1 /\ stack'[n + 1] = NewFrame(f, locs)
        /\ \A k \in 1 .. n : stack'[k].locs = stack[k].locs /\ stack'[k].depth = stack[k].depth
  <2>1. CASE Dispatch
    <3>1. PICK f, locs : stack' = <<NewFrame(f, locs)>>
      BY <2>1 DEF Dispatch
    <3>2. n = 0
      BY <2>1 DEF Dispatch
    <3> HIDE DEF n
    <3>3. Len(stack') = n + 1 /\ stack'[n + 1] = NewFrame(f, locs) /\ \A k \in 1 .. n : FALSE
      BY <3>1, <3>2
    <3> QED
      BY <3>3
  <2>2. CASE Call
    <3>1. PICK f, args, gone :
            stack' = Append([stack EXCEPT ![Len(stack)].temps = Dropped(gone)], NewFrame(f, Bind(f.params, args)))
      BY <2>2 DEF Call
    <3>2. stack # <<>>
      BY <2>2 DEF Call, Evaluating
    <3>3. Top \in Frame /\ n \in 1 .. n /\ DOMAIN stack = 1 .. n
      BY <1>1, <3>2, TopIsFine, LenProperties DEF Inv
    <3> DEFINE fr == [Top EXCEPT !.temps = Dropped(gone)]
               new == NewFrame(f, Bind(f.params, args))
               under == [stack EXCEPT ![n] = fr]
    <3>4. fr.locs = Top.locs /\ fr.depth = Top.depth /\ Top = stack[n]
      BY <3>3 DEF Frame, Top
    <3>5. stack' = Append(under, new)
      BY <3>1 DEF Top
    <3> HIDE DEF fr, new, n
    <3>6. /\ under = [k \in 1 .. n |-> under[k]]
          /\ \A k \in 1 .. n : under[k].locs = stack[k].locs /\ under[k].depth = stack[k].depth
      BY <3>3, <3>4
    <3> HIDE DEF under
    <3>7. under \in Seq({under[k] : k \in 1 .. n}) /\ Len(under) = n
      BY <1>1, <3>6, IsSequence
    <3> DEFINE S == {under[k] : k \in 1 .. n} \cup {new}
    <3>8. under \in Seq(S) /\ new \in S
      <4>1. {under[k] : k \in 1 .. n} \subseteq S /\ new \in S
        OBVIOUS
      <4> HIDE DEF S
      <4> QED
        BY <3>7, <4>1, SeqMonotonic
    <3> HIDE DEF S
    <3>9. Len(stack') = n + 1 /\ stack'[n + 1] = new /\ \A k \in 1 .. n : stack'[k] = under[k]
      BY <3>5, <3>7, <3>8, AppendProperties
    <3> QED
      BY <3>6, <3>9 DEF new
  <2> QED
    BY <2>1, <2>2
<1> HIDE DEF n
<1>3. /\ Calls \in Seq(Seq(Contents)) /\ Len(Calls) = n
      /\ \A k \in 1 .. n : Calls[k] = ScopesOf(stack[k])
  BY <1>1, CallsAre DEF CallsFine, n
<1>4. /\ Calls' \in Seq(Seq(Contents)) /\ Len(Calls') = n + 1
      /\ \A k \in 1 .. (n + 1) : Calls'[k] = ScopesOf(stack'[k]) /\ stack'[k] \in Frame
  <2>1. CallsFine'
    BY CallsAre, PTL
  <2> QED
    BY <1>1, <1>2, <2>1 DEF CallsFine
<1>5. Front(Calls') = Calls
  <2> DEFINE S == Seq(Contents)
             c == Calls'
  <2>1. c \in Seq(S) /\ Len(c) > 0 /\ Len(c) - 1 = n /\ Calls \in Seq(S)
    BY <1>1, <1>3, <1>4
  <2>2. \A k \in 1 .. n : c[k] = Calls[k]
    <3> TAKE k \in 1 .. n
    <3>1. k \in 1 .. (n + 1)
      BY <1>1
    <3>2. ScopesOf(stack'[k]) = ScopesOf(stack[k])
      BY <1>2 DEF ScopesOf
    <3> QED
      BY <1>3, <1>4, <3>1, <3>2
  <2> HIDE DEF S, c
  <2>3. /\ Front(c) \in Seq(S) /\ Len(Front(c)) = Len(c) - 1
        /\ \A k \in 1 .. (Len(c) - 1) : Front(c)[k] = c[k]
    BY <2>1, FrontOf
  <2>4. Front(c) = Calls
    BY <1>3, <2>1, <2>2, <2>3, SeqEqual
  <2> QED
    BY <2>4 DEF c
<1>6. Len(Last(Calls')) = 1
  <2>1. n + 1 \in 1 .. (n + 1)
    BY <1>1
  <2>2. Last(Calls') = ScopesOf(stack'[n + 1]) /\ stack'[n + 1] \in Frame
    BY <1>4, <2>1 DEF Last
  <2>3. stack'[n + 1].depth = 0
    BY <1>2 DEF NewFrame
  <2>4. Len(ScopesOf(stack'[n + 1])) = 0 + 1
    BY <2>2, <2>3, ScopesAre
  <2> QED
    BY <2>2, <2>4
<1>7. Len(Calls') = Len(Calls) + 1
  BY <1>3, <1>4
<1> QED
  BY <1>1, <1>5, <1>6, <1>7, SameStore, SameStarting, ScopedEnter

\* The frame on top goes, and the one below gets at most another operand.
LEMMA ReturnLeaves ==
  ASSUME Inv(Operand), Inv(Operand)', HandlerEnds \/ Return \/ FunctionEnds \/ CutShort
  PROVE  Scoped!Leave
<1> DEFINE n == Len(stack)
<1>1. stack \in Seq(Frame) /\ stack' \in Seq(Frame) /\ n \in Nat /\ UNCHANGED <<globals, next>>
  BY LenProperties DEF Inv, StackIn, HandlerEnds, Return, FunctionEnds, CutShort, BackWith
<1>2. /\ n >= 1 /\ Len(stack') = n - 1
      /\ \A k \in 1 .. (n - 1) : stack'[k].locs = stack[k].locs /\ stack'[k].depth = stack[k].depth
  <2>1. CASE HandlerEnds
    <3>1. n = 1 /\ stack' = <<>>
      BY <2>1 DEF HandlerEnds
    <3> HIDE DEF n
    <3> QED
      BY <3>1
  <2>2. CASE Return \/ FunctionEnds \/ CutShort
    <3>1. n > 1 /\ \E values : BackWith(values)
      BY <2>2 DEF Return, FunctionEnds, CutShort
    <3>2. PICK values : stack' = [Front(stack) EXCEPT ![n - 1].temps = @ \o values]
      BY <3>1 DEF BackWith
    <3>3. /\ Front(stack) \in Seq(Frame) /\ Len(Front(stack)) = n - 1
          /\ \A k \in 1 .. (n - 1) : Front(stack)[k] = stack[k]
      BY <1>1, <3>1, FrontOf
    <3> DEFINE q == Front(stack)
               fr == [q[n - 1] EXCEPT !.temps = @ \o values]
    <3> HIDE DEF n, q
    <3>4. DOMAIN q = 1 .. (n - 1) /\ n - 1 \in 1 .. (n - 1) /\ q[n - 1] \in Frame
      BY <1>1, <3>1, <3>3, LenProperties, ElementOfSeq DEF q
    <3>5. fr.locs = q[n - 1].locs /\ fr.depth = q[n - 1].depth
      BY <3>4 DEF Frame
    <3>6. stack' = [q EXCEPT ![n - 1] = fr]
      BY <3>2 DEF q
    <3> HIDE DEF fr
    <3>7. /\ DOMAIN stack' = 1 .. (n - 1)
          /\ \A k \in 1 .. (n - 1) : stack'[k] = IF k = n - 1 THEN fr ELSE q[k]
      BY <3>4, <3>6
    <3>8. Len(stack') = n - 1
      BY <1>1, <3>1, <3>7, LenProperties
    <3>9. \A k \in 1 .. (n - 1) : q[k] = stack[k]
      BY <3>3 DEF q
    <3> QED
      BY <3>1, <1>1, <3>5, <3>7, <3>8, <3>9
  <2> QED
    BY <2>1, <2>2
<1> HIDE DEF n
<1>3. /\ Calls \in Seq(Seq(Contents)) /\ Len(Calls) = n
      /\ \A k \in 1 .. n : Calls[k] = ScopesOf(stack[k])
  BY <1>1, CallsAre DEF CallsFine, n
<1>4. /\ Calls' \in Seq(Seq(Contents)) /\ Len(Calls') = n - 1
      /\ \A k \in 1 .. (n - 1) : Calls'[k] = ScopesOf(stack'[k])
  <2>1. CallsFine'
    BY CallsAre, PTL
  <2> QED
    BY <1>1, <1>2, <2>1 DEF CallsFine
<1>5. Calls' = Front(Calls)
  <2> DEFINE S == Seq(Contents)
             c == Calls'
  <2>1. Calls \in Seq(S) /\ Len(Calls) > 0 /\ Len(Calls) - 1 = n - 1 /\ c \in Seq(S) /\ Len(c) = n - 1
    BY <1>1, <1>2, <1>3, <1>4
  <2>2. \A k \in 1 .. (n - 1) : c[k] = Calls[k]
    <3> TAKE k \in 1 .. (n - 1)
    <3>1. k \in 1 .. n
      BY <1>1
    <3>2. ScopesOf(stack'[k]) = ScopesOf(stack[k])
      BY <1>2 DEF ScopesOf
    <3> QED
      BY <1>3, <1>4, <3>1, <3>2
  <2> HIDE DEF S, c
  <2>3. /\ Front(Calls) \in Seq(S) /\ Len(Front(Calls)) = Len(Calls) - 1
        /\ \A k \in 1 .. (Len(Calls) - 1) : Front(Calls)[k] = Calls[k]
    BY <2>1, FrontOf
  <2>4. c = Front(Calls)
    BY <2>1, <2>2, <2>3, SeqEqual
  <2> QED
    BY <2>4 DEF c
<1>6. Calls # <<>>
  BY <1>2, <1>3, EmptySeq
<1> QED
  BY <1>1, <1>5, <1>6, SameStore, SameStarting, ScopedLeave

LEMMA InitGlobalInitialises ==
  ASSUME Inv(Operand), InitGlobal
  PROVE  Scoped!Initialise
<1>1. next \in DOMAIN Globals /\ UNCHANGED stack /\ Starting
  BY ValuesAssumption DEF Inv, Rest, InitGlobal, Starting
<1>2. \E tag : globals' = [globals EXCEPT ![next] = tag]
  BY DEF InitGlobal
<1>3. Globals[next].name \in GlobalNames /\ Store' = [Store EXCEPT ![Globals[next].name] = Store'[Globals[next].name]]
  BY <1>1, <1>2, GlobalWritten DEF Inv
<1> QED
  BY <1>1, <1>3, SameCalls, ScopedInitialise

LEMMA ResetClears ==
  ASSUME Inv(Operand), Reset
  PROVE  Scoped!Clear \/ UNCHANGED Scoped!vars
<1>1. globals' = [k \in DOMAIN Globals |-> "void"] /\ next' = 1 /\ UNCHANGED Calls /\ Len(Globals) \in Nat
      /\ DOMAIN Globals = 1 .. Len(Globals)
  BY SameCalls, ValuesAssumption DEF Reset
<1>2. \A name \in GlobalNames : Store'[name] = "void"
  BY <1>1, NamedGlobal DEF Store
<1>3. DOMAIN Store' = GlobalNames
  BY DEF Store
<1>4. CASE Len(Globals) # 0
  <2>1. Starting' = TRUE
    BY <1>1, <1>4 DEF Starting
  <2> QED
    BY <1>1, <1>2, <1>3, <2>1, ScopedClear
<1>5. CASE Len(Globals) = 0
  <2>1. Starting = FALSE /\ Starting' = FALSE
    BY <1>1, <1>5 DEF Starting, Inv, Rest
  <2>2. GlobalNames = {}
    BY <1>1, <1>5 DEF GlobalNames
  <2>3. UNCHANGED Store
    BY <2>2 DEF Store
  <2> QED
    BY <1>1, <2>1, <2>3, ScopedStutter
<1> QED
  BY <1>4, <1>5

LEMMA ScopingStep ==
  ASSUME Inv(Operand), Inv(Operand)', [Next]_vars
  PROVE  [Scoped!Next]_(Scoped!vars)
<1>0. StackIn(Operand) /\ StackIn(Operand)'
  BY DEF Inv
<1>1. CASE Literal \/ ReadName \/ UnknownCall \/ Binary \/ DivideByZero \/ Truth \/ Cast \/ Member
  <2>1. Evaluating /\ \E n, v : Yield(n, v)
    BY <1>1 DEF Literal, ReadName, UnknownCall, Binary, DivideByZero, Truth, Cast, Member, Holding, Room
  <2> QED
    BY <1>0, <2>1, YieldIsNoStep
<1>2. CASE AssignMember \/ CompoundMember \/ PostfixMember
  <2>1. Evaluating /\ \E n, v : Yield(n, v)
    BY <1>2 DEF AssignMember, CompoundMember, PostfixMember, Holding, Room
  <2> QED
    BY <1>0, <2>1, YieldIsNoStep
<1>3. CASE IncrementMember
  <2>1. Evaluating /\ ((\E n, v : Yield(n, v)) \/ UNCHANGED <<globals, next, stack>>)
    BY <1>3 DEF IncrementMember, Room
  <2>2. UNCHANGED Scoped!vars
    BY <1>0, <2>1, YieldIsNoStep, SameStore, SameCalls, SameStarting, ScopedStutter
  <2> QED
    BY <2>2
<1>4. CASE Discard
  <2>1. stack # <<>> /\ InTop([Top EXCEPT !.temps = Dropped(1)]) /\ UNCHANGED <<globals, next>>
    BY <1>4 DEF Discard, Holding, Evaluating
  <2>2. UNCHANGED Scoped!vars
    BY <1>0, <2>1, TempsChanged, SameStore, SameStarting, ScopedStutter
  <2> QED
    BY <2>2
<1>5. CASE Assign \/ Compound \/ CompoundByZero
  <2>1. Evaluating /\ \E name \in Names : \E cell \in Resolved(name) : \E tag, n, v : Write(cell, tag, n, v)
    BY <1>5 DEF Assign, Compound, CompoundByZero, Holding
  <2>2. Scoped!SetLocal \/ Scoped!SetGlobal
    BY <2>1, WriteSets
  <2> QED
    BY <2>2 DEF Scoped!Next
<1>6. CASE Declare
  BY <1>6, DeclareDeclares DEF Scoped!Next
<1>7. CASE OpenScope
  BY <1>7, OpenScopeOpens DEF Scoped!Next
<1>8. CASE CloseScope
  BY <1>8, CloseScopeCloses DEF Scoped!Next
<1>9. CASE Dispatch \/ Call
  BY <1>9, CallEnters DEF Scoped!Next
<1>10. CASE HandlerEnds \/ Return \/ FunctionEnds \/ CutShort
  BY <1>10, ReturnLeaves DEF Scoped!Next
<1>11. CASE InitGlobal
  BY <1>11, InitGlobalInitialises DEF Scoped!Next
<1>12. CASE Reset
  BY <1>12, ResetClears DEF Scoped!Next
<1>13. CASE UNCHANGED vars
  BY <1>13, SameStore, SameCalls, SameStarting, ScopedStutter DEF vars
<1> QED
  BY <1>1, <1>2, <1>3, <1>4, <1>5, <1>6, <1>7, <1>8, <1>9, <1>10, <1>11, <1>12, <1>13
     DEF Next, Evaluate, Execute

LEMMA ScopingInit == Init => Scoped!Init
<1> SUFFICES ASSUME Init PROVE Scoped!Init
  OBVIOUS
<1>1. DOMAIN Store = GlobalNames
  BY DEF Store
<1>2. Calls = <<>>
  <2>1. stack \in Seq(Frame) /\ Len(stack) = 0
    BY DEF Init
  <2> QED
    BY <2>1, CallsAre, EmptySeq DEF CallsFine
<1>3. Starting = (GlobalNames # {})
  <2>1. Len(Globals) \in Nat /\ DOMAIN Globals = 1 .. Len(Globals) /\ next = 1
    BY ValuesAssumption DEF Init
  <2>2. CASE Len(Globals) = 0
    BY <2>1, <2>2 DEF Starting, GlobalNames
  <2>3. CASE Len(Globals) # 0
    <3>1. Globals[1].name \in GlobalNames
      BY <2>1, <2>3 DEF GlobalNames
    <3> QED
      BY <2>1, <2>3, <3>1 DEF Starting
  <2> QED
    BY <2>2, <2>3
<1> QED
  BY <1>1, <1>2, <1>3 DEF Scoped!Init, Store, Calls, Starting, GlobalNames

\* In every program names mean what nested scopes make them mean: the one list of
\* locals of a frame, searched from its end, and the one of globals, searched from its
\* start, behave as variables of blocks do.  That frame_leave cuts off the variables of
\* the block that ends, and no other, is because locals lie in the order of their scopes.
THEOREM ScopingImplemented == Spec => ScopingSpec
<1>1. Inv(Operand) /\ [Next]_vars => Inv(Operand)'
  BY AllClosed, TolerantStep
<1>2. Inv(Operand) /\ [Next]_vars => [Scoped!Next]_(Scoped!vars)
  BY <1>1, ScopingStep
<1> QED
  BY <1>2, ScopingInit, TypesInvariant, PTL DEF Spec, ScopingSpec, Scoped!Spec

=============================================================================
