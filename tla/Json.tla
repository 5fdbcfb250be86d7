-------------------------------- MODULE Json --------------------------------
(***************************************************************************)
(* The JSON builtins.  Nothing is parsed into a tree: each call walks over *)
(* the characters of the text, from a position to the next that matters.   *)
(*                                                                         *)
(* Positions are those of the sequence; 0 is the null pointer, and the     *)
(* position after the last character that of the end of the text.          *)
(***************************************************************************)
EXTENDS Integers, SequencesExt, TLC

CONSTANTS
  JsonTexts, \* in the program
  KeyTexts,  \* keys that scripts set
  ValTexts,  \* and what they set them to
  MaxLength  \* bound: how long a text may be that another call takes

VARIABLE json

Quote == "\""
Backslash == "\\"
White == {" ", "\t", "\n", "\r"}
CharAt(t, p) == IF p \in DOMAIN t THEN t[p] ELSE "end"

----------------------------------------------------------------------------
(* Walking *)

Nearest(t, p, Holds(_)) == Min({q \in p .. Len(t) : Holds(t[q])} \cup {Len(t) + 1})

\* json_skip_ws
SkipWs(t, p) == Nearest(t, p, LAMBDA c : c \notin White)

RECURSIVE InString(_, _)
InString(t, p) ==
  CASE CharAt(t, p) = "end" -> p
    [] CharAt(t, p) = Quote -> p + 1
    [] CharAt(t, p) = Backslash /\ p < Len(t) -> InString(t, p + 2)
    [] OTHER -> InString(t, p + 1)
\* json_walk_str
WalkStr(t, p) == IF CharAt(t, p) = Quote THEN InString(t, p + 1) ELSE p

RECURSIVE InBrackets_blind(_, _, _, _, _)
InBrackets_blind(t, p, opening, closing, depth) ==
  CASE CharAt(t, p) = "end" -> 0
    [] CharAt(t, p) = opening -> InBrackets_blind(t, p + 1, opening, closing, depth + 1)
    [] CharAt(t, p) = closing -> IF depth = 1 THEN p + 1 ELSE InBrackets_blind(t, p + 1, opening, closing, depth - 1)
    [] OTHER -> InBrackets_blind(t, p + 1, opening, closing, depth)
\* Past the bracket that closes the one at the beginning, 0 if none does; those of the
\* other kind do not count, nor those in strings.
RECURSIVE InBrackets(_, _, _, _, _)
InBrackets(t, p, opening, closing, depth) ==
  CASE CharAt(t, p) = "end" -> 0
    [] CharAt(t, p) = Quote -> InBrackets(t, WalkStr(t, p), opening, closing, depth)
    [] CharAt(t, p) = opening -> InBrackets(t, p + 1, opening, closing, depth + 1)
    [] CharAt(t, p) = closing -> IF depth = 1 THEN p + 1 ELSE InBrackets(t, p + 1, opening, closing, depth - 1)
    [] OTHER -> InBrackets(t, p + 1, opening, closing, depth)

Closing == "{" :> "}" @@ "[" :> "]"
OrEnd(t, p) == IF p = 0 THEN Len(t) + 1 ELSE p

\* json_walk: past the value that begins here.
Walk(t, p) ==
  LET q == SkipWs(t, p)
  IN  CASE CharAt(t, q) = Quote -> WalkStr(t, q)
        [] CharAt(t, q) \in DOMAIN Closing -> OrEnd(t, InBrackets(t, q, t[q], Closing[t[q]], 0))
        [] OTHER -> Nearest(t, q, LAMBDA c : c \in {",", "}", "]", " ", "\t", "\n"})

\* Past the comma, if there is one, after the value that begins here.
PastComma(t, p) == IF CharAt(t, p) = "," THEN p + 1 ELSE p
Following(t, at) == PastComma(t, SkipWs(t, Walk(t, at)))

\* json_extract_value: without white space, and the quotes.
Extract(t, from, to) ==
  LET inked == {q \in from .. (to - 1) : t[q] \notin White}
      first == Min(inked)
      last == Max(inked)
  IN  IF inked = {} THEN <<>>
      ELSE IF first < last /\ t[first] = Quote /\ t[last] = Quote THEN SubSeq(t, first + 1, last - 1)
      ELSE SubSeq(t, first, last)

----------------------------------------------------------------------------
(* Looking up *)

Invalid == <<"invalid">>
\* Steps of a path are keys or indices.
Key(chars) == [kind |-> "key", chars |-> chars]
Index(n) == [kind |-> "index", n |-> n]

\* The value of a key, looked for from p on; also how json_obj_set_top looks.
RECURSIVE Member(_, _, _)
Member(t, p, key) ==
  LET name == SkipWs(t, p)
      colon == SkipWs(t, WalkStr(t, name))
      at == SkipWs(t, colon + 1)
  IN  IF CharAt(t, name) # Quote \/ CharAt(t, colon) # ":" THEN 0
      ELSE IF SubSeq(t, name + 1, WalkStr(t, name) - 2) = key THEN at
      ELSE Member(t, Following(t, at), key)

\* The element so many places on.
RECURSIVE Element(_, _, _)
Element(t, p, places) ==
  LET at == SkipWs(t, p)
  IN  IF CharAt(t, at) \in {"end", "]"} THEN 0
      ELSE IF places = 0 THEN at
      ELSE Element(t, Following(t, at), places - 1)

StepInto(t, here, step) ==
  CASE CharAt(t, here) = "{" /\ step.kind = "key" -> Member(t, here + 1, step.chars)
    [] CharAt(t, here) = "[" /\ step.kind = "index" -> Element(t, here + 1, step.n)
    [] OTHER -> 0
\* json_find_value
FindValue(t, path) == FoldLeft(LAMBDA here, step : StepInto(t, here, step), SkipWs(t, 1), path)

\* llJsonGetValue
ValueAt(t, at) == IF at = 0 THEN Invalid ELSE Extract(t, at, Walk(t, at))
JsonGetValue(t, path) == ValueAt(t, FindValue(t, path))

\* llJsonValueType: by the first character alone.
TypeBegunBy(first) ==
  CASE first = "{" -> "object" [] first = "[" -> "array" [] first = Quote -> "string"
    [] first = "t" -> "true" [] first = "f" -> "false" [] first = "n" -> "null"
    [] OTHER -> "number"
TypeAt(t, at) == IF at = 0 THEN "invalid" ELSE TypeBegunBy(CharAt(t, at))
JsonValueType(t, path) == TypeAt(t, FindValue(t, path))

----------------------------------------------------------------------------
(* Setting *)

Quoted(chars) == <<Quote>> \o chars \o <<Quote>>

\* What is written is not escaped: a quote in a key or a value ends it there, and the
\* text is no longer one.  That is left to the scripts.
Quotable(chars) == WalkStr(Quoted(chars), 1) = Len(chars) + 3
ASSUME JsonAssumption == \A chars \in KeyTexts \cup ValTexts : Quotable(chars)

\* The text with a value in the place of the one that begins at a position, or last in
\* the object from start to end.
Replaced(t, at, value) == SubSeq(t, 1, at - 1) \o value \o SubSeq(t, Walk(t, at), Len(t))
Appended(t, start, end, key, value) ==
  LET bare == \A q \in (start + 1) .. (end - 1) : t[q] \in White
  IN  SubSeq(t, 1, end - 1) \o (IF bare THEN <<>> ELSE <<",">>)
        \o Quoted(key) \o <<":">> \o value \o SubSeq(t, end, Len(t))
Splice(t, key, value) ==
  LET start == SkipWs(t, 1)
      past == InBrackets(t, start, "{", "}", 0)
      at == Member(t, start + 1, key)
  IN  IF CharAt(t, start) # "{" \/ past = 0 THEN t
      ELSE IF at # 0 THEN Replaced(t, at, value)
      ELSE Appended(t, start, past - 1, key, value)

\* json_obj_set_top
SetTop(t, key, chars) == Splice(t, key, Quoted(chars))

EmptyObject == <<"{", "}">>
ObjectAt(t, at) == IF at = 0 THEN EmptyObject ELSE SubSeq(t, at, Walk(t, at) - 1)

\* llJsonSetValue, of a path of one key or two; with any other it changes nothing.
JsonSetValue(t, path, chars) ==
  CASE Len(path) = 1 -> SetTop(t, path[1], chars)
    [] Len(path) = 2 ->
         Splice(t, path[1], SetTop(ObjectAt(t, FindValue(t, <<Key(path[1])>>)), path[2], chars))
    [] OTHER -> t

----------------------------------------------------------------------------
(* Lists *)

RECURSIVE Members(_, _, _)
Members(t, p, object) ==
  LET q == SkipWs(t, p)
      past == WalkStr(t, q)
      colon == SkipWs(t, past)
      named == object /\ CharAt(t, q) = Quote
      at == IF named THEN SkipWs(t, IF CharAt(t, colon) = ":" THEN colon + 1 ELSE colon) ELSE q
  IN  IF CharAt(t, q) \in {"end", "}", "]"} THEN <<>>
      ELSE (IF named THEN <<SubSeq(t, q + 1, past - 2)>> ELSE <<>>)
           \o <<Extract(t, at, Walk(t, at))>>
           \o Members(t, Following(t, at), object)

\* llJson2List
Json2List(t) ==
  LET start == SkipWs(t, 1)
  IN  IF CharAt(t, start) \in {"{", "["} THEN Members(t, start + 1, t[start] = "{") ELSE <<SubSeq(t, start, Len(t))>>

\* llList2Json; of each item the characters, and whether it is a number.  A key without
\* a value is left out.
Rendered(item) == IF item.bare THEN item.chars ELSE Quoted(item.chars)
Joined_leading(parts) == FlattenSeq([k \in DOMAIN parts |-> <<",">> \o parts[k]])
Joined(parts) == FlattenSeq([k \in DOMAIN parts |-> IF k = 1 THEN parts[k] ELSE <<",">> \o parts[k]])
List2Json(object, items) ==
  IF object
  THEN <<"{">>
       \o Joined([k \in 1 .. (Len(items) \div 2) |-> Quoted(items[2 * k - 1].chars) \o <<":">> \o Rendered(items[2 * k])])
       \o <<"}">>
  ELSE <<"[">> \o Joined([k \in DOMAIN items |-> Rendered(items[k])]) \o <<"]">>

----------------------------------------------------------------------------
(* An expression *)

ListItems == {[chars |-> v, bare |-> FALSE] : v \in ValTexts} \cup {[chars |-> <<"1">>, bare |-> TRUE]}
Paths == {<<j>> : j \in KeyTexts} \cup {<<j, k>> : j, k \in KeyTexts}
Gives(t) == Len(t) <= MaxLength /\ json' = t

JsonInit == json = <<>>

LiteralJson == json' \in JsonTexts
SetValue == \E path \in Paths, v \in ValTexts : Gives(JsonSetValue(json, path, v))
FromList == \E object \in BOOLEAN, e, f \in ListItems : Gives(List2Json(object, <<e, f>>))
\* The value of a key goes on as a text.
GetValue == \E path \in Paths : JsonGetValue(json, [k \in DOMAIN path |-> Key(path[k])]) # Invalid
            /\ Gives(JsonGetValue(json, [k \in DOMAIN path |-> Key(path[k])]))

JsonNext == LiteralJson \/ SetValue \/ FromList \/ GetValue

----------------------------------------------------------------------------
(* What they promise *)

Get(t, path) == JsonGetValue(t, [k \in DOMAIN path |-> Key(path[k])])
Type(t, path) == JsonValueType(t, [k \in DOMAIN path |-> Key(path[k])])

\* What llJsonSetValue has set llJsonGetValue gets, and everything else is as it was:
\* other keys, other members of the same object, and a value that is no object when
\* something is set inside it.
SetsJust(before, path, v, after) ==
  LET settable == Len(path) = 1 \/ Type(before, <<path[1]>>) \in {"invalid", "object"}
  IN  /\ settable => Get(after, path) = v /\ Type(after, path) = "string"
      /\ ~settable => after = before
      /\ \A other \in Paths :
           ~IsPrefix(other, path) /\ ~IsPrefix(path, other) =>
             Get(after, other) = Get(before, other) /\ Type(after, other) = Type(before, other)
SetIsGot ==
  Type(json, <<>>) = "object" =>
    \A path \in Paths, v \in ValTexts : SetsJust(json, path, v, JsonSetValue(json, path, v))

Structures == {"object", "array"}

\* llJson2List lists what is found under each index or key, the first of two alike: what
\* llJsonGetValue gets there if it is a single value, and something that begins like it if
\* it is one with parts. It takes apart what llList2Json joined.
Listed(path, item) ==
  LET type == JsonValueType(json, path)
  IN  IF type \in Structures THEN TypeBegunBy(CharAt(item, 1)) = type ELSE JsonGetValue(json, path) = item
ListsAgree ==
  LET listed == Json2List(json)
  IN  /\ Type(json, <<>>) = "array" =>
           \A n \in -1 .. Len(listed) :
             IF n + 1 \in DOMAIN listed THEN Listed(<<Index(n)>>, listed[n + 1])
                                       ELSE JsonValueType(json, <<Index(n)>>) = "invalid"
      /\ Type(json, <<>>) = "object" =>
           \A k \in 1 .. (Len(listed) \div 2) :
             LET first == Min({m \in 1 .. k : listed[2 * m - 1] = listed[2 * k - 1]})
             IN  Listed(<<Key(listed[2 * k - 1])>>, listed[2 * first])
      /\ Type(json, <<>>) \in Structures /\ (\A k \in DOMAIN listed : Quotable(listed[k])) =>
           Json2List(List2Json(Type(json, <<>>) = "object", [k \in DOMAIN listed |-> [chars |-> listed[k], bare |-> FALSE]]))
             = listed

=============================================================================
