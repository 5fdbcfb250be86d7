------------------------------- MODULE Loader -------------------------------
(***************************************************************************)
(* program_load: a compiled script is read from the bytes of its file.     *)
(*                                                                         *)
(* The compiler is not part of the repository; Written is its file as the  *)
(* loader expects it.  A node of a program is what was read for each field *)
(* of its layout; a field of the form "x?" is there or not, one of the     *)
(* form "xs" is there any number of times.                                 *)
(***************************************************************************)
EXTENDS Integers, SequencesExt, FiniteSets

CONSTANTS
  Exprs,     \* expressions that programs are made of
  MaxFile    \* bound: bytes of a file

VARIABLE script  \* the body of the handler of a program

----------------------------------------------------------------------------
(* Layouts *)

ExprLayout == <<
  <<"i64">>, <<"i64">>, <<"u32">>, <<"u32">>,                       \* literals, a name
  <<"expr", "expr", "expr">>, <<"expr", "expr", "expr", "expr">>,   \* vector, rotation
  <<"exprs">>, <<"u32", "exprs">>, <<"expr", "u8">>,                \* list, call, member
  <<"u8", "expr">>, <<"u8", "expr">>, <<"u8", "expr">>,             \* cast, unary, postfix
  <<"u8", "expr", "expr">>, <<"u8", "expr", "expr">> >>             \* binary, assignment

StmtLayout == <<
  <<"expr">>, <<"u8", "u32", "expr?">>, <<"stmts">>,                \* expression, declaration, block
  <<"expr", "stmt", "stmt?">>, <<"expr", "stmt">>, <<"stmt", "expr">>,  \* if, while, do
  <<"clauses", "expr?", "clauses", "stmt">>, <<"expr?">>,           \* for, return
  <<"u32">>, <<"u32">>, <<"u32">>, <<>> >>                          \* jump, label, state, empty

Layout == [
  program |-> <<"strings", "globals", "funcs", "states">>,
  global |-> <<"u8", "u32", "expr?">>,
  func |-> <<"u32", "line", "u8", "u8", "params", "stmt">>,
  state |-> <<"u32", "line", "u8", "events">>,
  event |-> <<"u32", "line", "params", "stmt">>,
  param |-> <<"u8", "u32">> ]

Width == [u8 |-> 1, u32 |-> 4, i64 |-> 8]
Optional == "expr?" :> "expr" @@ "stmt?" :> "stmt"
\* What there is any number of, and the width of the number.
Plural == [
  exprs |-> <<"expr", 4>>, stmts |-> <<"stmt", 4>>, strings |-> <<"string", 4>>,
  globals |-> <<"global", 4>>, funcs |-> <<"func", 4>>, states |-> <<"state", 4>>,
  events |-> <<"event", 4>>, clauses |-> <<"expr", 1>>, params |-> <<"param", 1>> ]

Absent == [tag |-> 255, parts |-> <<>>]
Node(tag, parts) == [tag |-> tag, parts |-> parts]

----------------------------------------------------------------------------
(* Reading.  v is what was read last; where the file has ended it is what   *)
(* was in the variable, which is not initialised.                           *)

\* 0xFFFFFFFF, for all the numbers that are too large to be of anything.
Wild == -1
Leftovers == {[u8 |-> 0, u32 |-> 0], [u8 |-> 3, u32 |-> 2], [u8 |-> 1, u32 |-> Wild]}
Left(left, n) == IF n = 1 THEN left.u8 ELSE left.u32

Value(bytes) == FoldRight(LAMBDA b, n : 256 * n + b, bytes, 0)

\* The flag is looked at when all has been read.
Short(r, n) == [r EXCEPT !.v = Left(r.left, n), !.err = TRUE]

\* r_bytes
FetchBytes(r, n) ==
  IF r.off + n > Len(r.src) THEN Short(r, n)
  ELSE [r EXCEPT !.off = @ + n, !.v = SubSeq(r.src, r.off + 1, r.off + n)]
Fetch_byte_silently(r, n) ==
  LET got == FetchBytes(r, n)
  IN  IF r.off + n > Len(r.src) THEN [got EXCEPT !.err = r.err \/ n > 1] ELSE [got EXCEPT !.v = Value(@)]
\* r_u8, r_u32, r_i64
Fetch(r, n) ==
  LET got == FetchBytes(r, n) IN IF r.off + n > Len(r.src) THEN got ELSE [got EXCEPT !.v = Value(@)]

\* Line numbers came with version 2.
HasLines(version) == version >= 2

\* Of so many the memory is not to be had, and the length of a string is 0 when 1 is added
\* to it: the process ends here, writes where it should not, or never comes to an end.
Lost(r) == [r EXCEPT !.astray = TRUE, !.v = <<>>]

RECURSIVE Read(_, _)
ReadEach(r, fields) ==
  FoldLeft(LAMBDA done, f : LET next == Read(done, f) IN [next EXCEPT !.v = Append(done.v, @)],
           [r EXCEPT !.v = <<>>], fields)
\* A tag, and what its layout says; without a tag, or with 0xFF for one, nothing.
ReadTagged(r, layouts, fixed) ==
  LET tag == Fetch(r, 1)
      front == ReadEach(tag, fixed)
      rest == ReadEach(front, layouts[tag.v + 1])
  IN  IF r.off = Len(r.src) \/ tag.v = 255 THEN [tag EXCEPT !.v = Absent]
      ELSE IF tag.v >= Len(layouts) THEN [front EXCEPT !.v = Node(tag.v, front.v), !.err = TRUE]
      ELSE [rest EXCEPT !.v = Node(tag.v, front.v \o rest.v)]
\* read_expr gives up when its type or its flag is missing.
ReadExpr(r) ==
  IF r.off + 3 > Len(r.src) /\ Fetch(r, 1).v # 255 THEN [Short(r, 1) EXCEPT !.off = Len(r.src), !.v = Absent]
  ELSE ReadTagged(r, ExprLayout, <<"u8", "u8">>)
Read(r, f) ==
  CASE f \in DOMAIN Width -> Fetch(r, Width[f])
    [] f = "line" -> IF HasLines(r.version) THEN Fetch(r, 4) ELSE [r EXCEPT !.v = 0]
    [] f = "expr" -> ReadExpr(r)
    [] f = "stmt" -> ReadTagged(r, StmtLayout, <<"line">>)
    [] f = "string" -> LET length == Fetch(r, 4) IN IF length.v = Wild THEN Lost(length) ELSE FetchBytes(length, length.v)
    [] f \in DOMAIN Optional ->
         LET has == Fetch(r, 1) IN IF has.v = 0 THEN [has EXCEPT !.v = Absent] ELSE Read(has, Optional[f])
    [] f \in DOMAIN Plural ->
         LET number == Fetch(r, Plural[f][2])
         IN  IF number.v = Wild THEN Lost(number) ELSE ReadEach(number, [k \in 1 .. number.v |-> Plural[f][1]])
    [] OTHER -> ReadEach(r, Layout[f])

Magic == <<83, 76, 66, 67, 0>>
Ends(outcome, program) == [outcome |-> outcome, program |-> program]
\* program_load
Load(file, left) ==
  LET start == [src |-> file, off |-> 0, err |-> FALSE, v |-> 0, version |-> 0, left |-> left, astray |-> FALSE]
      magic == FetchBytes(start, 5)
      version == Fetch(magic, 4)
      flags == Fetch(version, 4)
      all == Read([flags EXCEPT !.version = version.v], "program")
  IN  IF magic.err \/ magic.v # Magic \/ flags.err \/ version.v \notin 1 .. 2 THEN Ends("refused", <<>>)
      ELSE IF all.astray THEN Ends("astray", <<>>)
      ELSE IF all.err THEN Ends("refused", <<>>)
      ELSE Ends("loaded", all.v)

----------------------------------------------------------------------------
(* Writing *)

\* Numbers are below 2^24.
LittleEndian(n, width) == [k \in 1 .. width |-> IF k > 3 THEN 0 ELSE (n \div 256 ^ (k - 1)) % 256]

RECURSIVE Written(_, _, _)
WrittenEach(fields, values, version) ==
  FlattenSeq([k \in DOMAIN fields |-> Written(fields[k], values[k], version)])
WrittenTagged(node, layouts, fixed, version) ==
  IF node.tag = 255 THEN <<255>>
  ELSE <<node.tag>> \o WrittenEach(fixed \o layouts[node.tag + 1], node.parts, version)
Written(f, value, version) ==
  CASE f \in DOMAIN Width -> LittleEndian(value, Width[f])
    [] f = "line" -> IF version >= 2 THEN LittleEndian(value, 4) ELSE <<>>
    [] f = "expr" -> WrittenTagged(value, ExprLayout, <<"u8", "u8">>, version)
    [] f = "stmt" -> WrittenTagged(value, StmtLayout, <<"line">>, version)
    [] f = "string" -> LittleEndian(Len(value), 4) \o value
    [] f \in DOMAIN Optional -> IF value = Absent THEN <<0>> ELSE <<1>> \o Written(Optional[f], value, version)
    [] f \in DOMAIN Plural ->
         LittleEndian(Len(value), Plural[f][2])
           \o WrittenEach([k \in DOMAIN value |-> Plural[f][1]], value, version)
    [] OTHER -> WrittenEach(Layout[f], value, version)

File(program, version) ==
  Magic \o LittleEndian(version, 4) \o LittleEndian(0, 4) \o Written("program", program, version)

----------------------------------------------------------------------------
(* Programs: one global, one function and one handler, whose body grows *)

Name == Node(3, <<1, 0, 1>>)
Empty == Node(11, <<1>>)
Program ==
  << << <<97>>, <<>> >>,
     << <<1, 0, Absent>> >>,
     << <<1, 1, 0, 0, << <<1, 0>> >>, Empty>> >>,
     << <<0, 1, 1, << <<0, 1, <<>>, script>> >> >> >> >>

Fills(f) ==
  CASE f \in {"u8", "u32", "line"} -> {1}
    [] f = "expr" -> Exprs
    [] f = "expr?" -> {Absent, Name}
    [] f = "clauses" -> {<<>>, <<Name>>}
    [] f = "stmt" -> {script}
    [] f = "stmt?" -> {Absent, Empty}
    [] f = "stmts" -> {<<>>, <<script>>, <<script, Empty>>}
Fillings(fields) ==
  FoldLeft(LAMBDA begun, f : {Append(parts, v) : parts \in begun, v \in Fills(f)}, {<<>>}, fields)

LoaderInit == script = Absent

\* A statement, or one around the one there is.
LoaderNext ==
  /\ \E tag \in 0 .. 11 : \E parts \in Fillings(<<"line">> \o StmtLayout[tag + 1]) :
       script' = Node(tag, parts)
  /\ Len(File(Program', 2)) <= MaxFile

----------------------------------------------------------------------------
(* What it promises *)

\* A file of version 1 loads; what loads is the program the file was written for; and cut
\* short anywhere it does not, whatever was in the variables of the reads that failed. It
\* is refused then, unless one of them is a length that was left wild.
OnlyWholeFilesLoad ==
  script # Absent =>
    \A version \in 0 .. 3 :
      LET file == File(Program, version)
          loaded == Load(file, [u8 |-> 0, u32 |-> 0])
          Cut(n, left) == Load(SubSeq(file, 1, n), left).outcome
      IN  /\ version = 1 => loaded.outcome = "loaded"
          /\ loaded.outcome = "loaded" =>
               /\ File(loaded.program, version) = file
               /\ \A n \in 0 .. (Len(file) - 1), left \in Leftovers :
                    Cut(n, left) = "refused" \/ (Cut(n, left) = "astray" /\ left.u32 = Wild)

=============================================================================
