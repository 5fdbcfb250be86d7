-------------------------------- MODULE MCData -------------------------------
(***************************************************************************)
(* Lists: two numbers and two texts, a comma and a space; separators of    *)
(* one and of two characters.  Texts: a space, a percent sign, digits and  *)
(* letters that are hexadecimal or not, and a byte that is not ASCII.      *)
(* JSON: an object in an array and an array in an array, an object in an   *)
(* object; white space before and after everything; brackets, a comma and  *)
(* an escaped quote in strings.  Programs: expressions of every kind, with *)
(* and without their parts.                                                *)
(***************************************************************************)
EXTENDS Lists, Strings, Json, Loader

MCItems == {Number(1), Number(2), Text(<<Comma>>), Text(<<Space>>)}
MCSeparators == {<<Comma>>, <<Space>>, <<Comma, Space>>, <<Comma, Comma>>, <<>>}
MCBytes == {32, 37, 52, 98, 200}

MCJsonTexts == {
  EmptyObject,
  <<"{", " ", "\"", "a", "\"", ":", " ", "[", "1", ",", "{", "}", "]", " ", "}">>,
  <<"[", "\"", "a", "\"", " ", ",", " ", "[", "\"", "]", "\"", "]", ",", " ", "t", "]">>,
  <<"{", "\"", "}", "\"", ":", "{", " ", "\"", "a", "\"", ":", "1", "}", "}">> }
MCKeyTexts == { <<"a">>, <<"}">> }
MCValTexts == { <<>>, <<"}">>, <<",">>, <<"\\", "\"">> }

Expr(tag, parts) == Node(tag, <<1, 0>> \o parts)
MCExprs == {
  Name, Expr(0, <<300>>),
  Expr(13, <<1, Expr(4, <<Absent, Absent, Absent>>), Absent>>), Expr(8, <<Expr(1, <<2>>), 1>>),
  Expr(7, <<1, <<Expr(10, <<1, Absent>>)>> >>), Expr(6, << <<Expr(2, <<1>>)>> >>),
  Expr(12, <<1, Expr(5, <<Absent, Absent, Absent, Absent>>), Absent>>),
  Expr(9, <<1, Expr(11, <<1, Absent>>)>>), Expr(10, <<1, Expr(6, << <<>> >>)>>) }

----------------------------------------------------------------------------
(* One thing at a time *)

DataInit == ListsInit /\ StringsInit /\ JsonInit /\ LoaderInit

NoList == value = List(<<>>)
NoText == text = <<>>
NoJson == json = <<>>
NoScript == script = Absent

DataNext ==
  \/ NoText /\ NoJson /\ NoScript /\ ListsNext /\ UNCHANGED <<text, json, script>>
  \/ NoList /\ NoJson /\ NoScript /\ StringsNext /\ UNCHANGED <<value, json, script>>
  \/ NoList /\ NoText /\ NoScript /\ JsonNext /\ UNCHANGED <<value, text, script>>
  \/ NoList /\ NoText /\ NoJson /\ LoaderNext /\ UNCHANGED <<value, text, json>>

DataSpec == DataInit /\ [][DataNext]_<<value, text, json, script>>

=============================================================================
