-------------------------------- MODULE Lists --------------------------------
(***************************************************************************)
(* The builtins on lists and on the texts that they are made from.           *)
(*                                                                         *)
(* An expression of a script nests such calls, each taking what another one   *)
(* returned: the state is the value returned last.  Positions in a list are   *)
(* counted from 0, as in the code; those of a sequence from 1.                *)
(***************************************************************************)
EXTENDS Integers, SequencesExt

CONSTANTS
  Items,       \* the numbers and texts of the literals in the program
  Separators,  \* texts that lists are joined with and texts are cut at
  MaxSize      \* bound: how large a value may be that another call takes

Number(n) == [kind |-> "number", n |-> n]
Text(chars) == [kind |-> "text", chars |-> chars]
List(items) == [kind |-> "list", items |-> items]
\* What a builtin returns that read beyond its argument.
Unknown == [kind |-> "unknown"]

\* Characters are their codes.
Space == 32
Comma == 44
Minus == 45
Digits == 48 .. 57

ASSUME ListsAssumption ==
  /\ Items \subseteq [kind : {"number"}, n : -9 .. 9] \cup [kind : {"text"}, chars : Seq(Nat)]
  /\ Separators \subseteq Seq(Nat)
  /\ MaxSize \in Nat

VARIABLE value

----------------------------------------------------------------------------
(* Pieces of lists *)

\* A negative index counts from the end.
At(L, i) == IF i < 0 THEN i + Len(L) ELSE i
AtLeast(a, b) == Max({a, b})
AtMost(a, b) == Min({a, b})

\* llList2List
List2List(L, i, j) == SubSeq(L, AtLeast(At(L, i), 0) + 1, AtMost(At(L, j), Len(L) - 1) + 1)

\* The items at some places, in their order.
Places(L, kept) ==
  LET some[k \in 0 .. Len(L)] ==
        IF k = 0 THEN <<>> ELSE IF k \in kept THEN Append(some[k - 1], L[k]) ELSE some[k - 1]
  IN  some[Len(L)]

DeleteSubList_short(L, i, j) == Places(L, {k \in DOMAIN L : k - 1 < At(L, i) \/ k - 1 >= At(L, j)})
\* llDeleteSubList: nothing, if the indices are crossed
DeleteSubList(L, i, j) == Places(L, {k \in DOMAIN L : k - 1 < At(L, i) \/ k - 1 > At(L, j)})

\* llListInsertList
ListInsertList(L, M, i) ==
  LET pos == AtMost(AtLeast(At(L, i), 0), Len(L))
  IN  SubSeq(L, 1, pos) \o M \o SubSeq(L, pos + 1, Len(L))

\* llListReplaceList: before the start and after the end, which may overlap.
From(L, i) == AtLeast(At(L, i), 0)
To(L, j) == AtMost(At(L, j), Len(L) - 1)
InBounds(L, i, j) == From(L, i) <= Len(L) /\ To(L, j) >= -1
ListReplaceList(L, M, i, j) == SubSeq(L, 1, From(L, i)) \o M \o SubSeq(L, To(L, j) + 2, Len(L))

\* sv_equal: no text is equal to a number
Equal(e, f) == e = f
\* llListFindList
ListFindList(L, M) ==
  LET places == {i \in 0 .. (Len(L) - Len(M)) : \A k \in DOMAIN M : Equal(L[i + k], M[k])}
  IN  IF M = <<>> THEN 0 ELSE IF places = {} THEN -1 ELSE Min(places)

----------------------------------------------------------------------------
(* Order *)

\* strcmp
Before(s, t) ==
  \E k \in DOMAIN t :
    /\ \A m \in 1 .. (k - 1) : m \in DOMAIN s /\ s[m] = t[m]
    /\ k \notin DOMAIN s \/ s[k] < t[k]

\* Numbers and texts are not compared with each other.
Less(e, f) ==
  \/ e.kind = "number" /\ f.kind = "number" /\ e.n < f.n
  \/ e.kind = "text" /\ f.kind = "text" /\ Before(e.chars, f.chars)
OutOfOrder(e, f, ascending) == IF ascending THEN Less(f, e) ELSE Less(e, f)

Swapped_heads(L, i, j, stride) == [L EXCEPT ![i + 1] = L[j + 1], ![j + 1] = L[i + 1]]
\* The strides at i and j change places, as far as both are in the list, an element
\* at a time: they may overlap.
Swapped(L, i, j, stride) ==
  LET both == Min({stride, Len(L) - i, Len(L) - j})
      swap[k \in 0 .. both] ==
        IF k = 0 THEN L
        ELSE LET M == swap[k - 1] IN [M EXCEPT ![i + k] = M[j + k], ![j + k] = M[i + k]]
  IN  swap[both]

\* How many strides there are, the last one perhaps cut short.
Count(L, stride) == (Len(L) + stride - 1) \div stride

\* llListSort: the loops over j and i, which count strides
Compared(L, i, j, stride, ascending) ==
  IF OutOfOrder(L[i + 1], L[j + 1], ascending) THEN Swapped(L, i, j, stride) ELSE L
Pass(L, first, stride, ascending) ==
  LET pass[k \in first .. Count(L, stride)] ==
        IF k = first THEN L
        ELSE Compared(pass[k - 1], (first - 1) * stride, (k - 1) * stride, stride, ascending)
  IN  pass[Count(L, stride)]
ListSort(L, n, ascending) ==
  LET stride == AtLeast(n, 1)
      sorted[k \in 0 .. Count(L, stride)] ==
        IF k = 0 THEN L ELSE Pass(sorted[k - 1], k, stride, ascending)
  IN  sorted[Count(L, stride)]

\* llListRandomize: all that may come of it
ListRandomize(L, n) ==
  LET stride == AtLeast(n, 1)
      rounds == (Len(L) - 1) \div stride
      left[k \in 0 .. rounds] ==
        IF k = 0 THEN {L}
        ELSE LET i == Len(L) - k * stride
             IN  {Swapped(M, i, j * stride, stride) : M \in left[k - 1], j \in 0 .. (i \div stride)}
  IN  IF L = <<>> THEN {L} ELSE left[rounds]

----------------------------------------------------------------------------
(* Lists and texts *)

\* sv_to_string, of numbers of one digit
Chars(e) ==
  IF e.kind = "text" THEN e.chars
  ELSE IF e.n < 0 THEN <<Minus, Min(Digits) - e.n>> ELSE <<Min(Digits) + e.n>>

\* llDumpList2String
DumpList2String(L, separator) ==
  FlattenSeq([k \in DOMAIN L |-> IF k = 1 THEN Chars(L[k]) ELSE separator \o Chars(L[k])])
\* llList2CSV
List2CSV(L) == DumpList2String(L, <<Comma, Space>>)

\* The first of the strings that stands at a position of the text; <<>> if none does.
Match(chars, pos, strings) ==
  LET There(s) == s # <<>> /\ pos + Len(s) <= Len(chars) /\ SubSeq(chars, pos + 1, pos + Len(s)) = s
      hits == {k \in DOMAIN strings : There(strings[k])}
  IN  IF hits = {} THEN <<>> ELSE strings[Min(hits)]

Remaining_nonempty(chars, start, keep) ==
  IF start < Len(chars) THEN <<SubSeq(chars, start + 1, Len(chars))>> ELSE <<>>
\* What is left when the end is reached.
Remaining(chars, start, keep) ==
  IF start < Len(chars) \/ keep THEN <<SubSeq(chars, start + 1, Len(chars))>> ELSE <<>>

\* parse_string2list; start is where the piece began that ends at the next separator.
Cut(chars, separators, spacers, keep) ==
  LET Separator(pos) == Match(chars, pos, separators)
      Spacer(pos) == IF Separator(pos) = <<>> THEN Match(chars, pos, spacers) ELSE <<>>
      After(pos) == pos + Len(Separator(pos)) + Len(Spacer(pos))
      cut[start \in 0 .. Len(chars)] ==
        LET pos == Min({p \in start .. Len(chars) : After(p) > p \/ p = Len(chars)})
        IN  IF pos = Len(chars) THEN Remaining(chars, start, keep)
            ELSE (IF pos > start \/ keep THEN <<SubSeq(chars, start + 1, pos)>> ELSE <<>>)
                 \o (IF Spacer(pos) # <<>> THEN <<Spacer(pos)>> ELSE <<>>)
                 \o cut[After(pos)]
  IN  cut[0]

Texts(strings) == [k \in DOMAIN strings |-> Text(strings[k])]
\* llParseStringKeepNulls and, without keep, llParseString2List
ParseString(chars, separators, spacers, keep) == Texts(Cut(chars, separators, spacers, keep))

Trimmed(chars) ==
  LET spaces == {k \in 0 .. Len(chars) : \A m \in 1 .. k : chars[m] = Space}
  IN  SubSeq(chars, Max(spaces) + 1, Len(chars))
\* llCSV2List: the last piece is not trimmed
CSV2List(chars) ==
  LET pieces == Cut(chars, <<<<Comma>>>>, <<>>, TRUE)
  IN  [k \in DOMAIN pieces |-> Text(IF k < Len(pieces) THEN Trimmed(pieces[k]) ELSE pieces[k])]

\* strtoll, of decimal digits after a minus or without
Digit(c) == c - Min(Digits)
Integer(chars) ==
  LET all == Trimmed(chars)
      negative == all # <<>> /\ Head(all) = Minus
      digits == IF negative THEN Tail(all) ELSE all
      n == Max({k \in 0 .. Len(digits) : \A m \in 1 .. k : digits[m] \in Digits})
      number == FoldLeft(LAMBDA sum, c : 10 * sum + Digit(c), 0, SubSeq(digits, 1, n))
  IN  IF negative THEN -number ELSE number

\* list_at, of llList2String and llList2Integer
List2String(L, i) == IF At(L, i) \in 0 .. (Len(L) - 1) THEN Text(Chars(L[At(L, i) + 1])) ELSE Text(<<>>)
List2Integer(L, i) ==
  IF At(L, i) \notin 0 .. (Len(L) - 1) THEN Number(0)
  ELSE LET e == L[At(L, i) + 1] IN IF e.kind = "number" THEN e ELSE Number(Integer(e.chars))

----------------------------------------------------------------------------
(* An expression *)

Size(v) ==
  CASE v.kind = "number"  -> 1
    [] v.kind = "text"    -> Len(v.chars)
    [] v.kind = "list"    -> FoldLeft(LAMBDA sum, e : sum + (IF e.kind = "text" THEN AtLeast(Len(e.chars), 1) ELSE 1),
                                      0, v.items)
    [] v.kind = "unknown" -> 0

Returns(v) == Size(v) <= MaxSize /\ value' = v
IsList == value.kind = "list"
IsText == value.kind = "text"
L0 == value.items

Indices == -(MaxSize + 1) .. (MaxSize + 1)
Strides == 0 .. (MaxSize + 1)
Few(S) == {<<>>} \cup {<<s>> : s \in S}

ListsInit == value = List(<<>>)

\* Another expression
Literal == value' \in {List(<<>>)} \cup Items
\* list + x
Add == IsList /\ \E e \in Items : Returns(List(Append(L0, e)))

Slice == IsList /\ \E i, j \in Indices : Returns(List(List2List(L0, i, j)))
Delete == IsList /\ \E i, j \in Indices : Returns(List(DeleteSubList(L0, i, j)))
Insert == IsList /\ \E e \in Items, i \in Indices : Returns(List(ListInsertList(L0, <<e>>, i)))
Replace ==
  /\ IsList
  /\ \E M \in Few(Items), i, j \in Indices :
       Returns(IF InBounds(L0, i, j) THEN List(ListReplaceList(L0, M, i, j)) ELSE Unknown)
Find == IsList /\ \E M \in Few(Items) : Returns(Number(ListFindList(L0, M)))

Sort == IsList /\ \E n \in Strides, ascending \in BOOLEAN : Returns(List(ListSort(L0, n, ascending)))
Randomize == IsList /\ \E n \in Strides : \E L \in ListRandomize(L0, n) : Returns(List(L))

Dump == IsList /\ \E s \in Separators \cup {<<>>} : Returns(Text(DumpList2String(L0, s)))
ToCSV == IsList /\ Returns(Text(List2CSV(L0)))
FromCSV == IsText /\ Returns(List(CSV2List(value.chars)))
Parse ==
  /\ IsText
  /\ \E separators, spacers \in Few(Separators), keep \in BOOLEAN :
       Returns(List(ParseString(value.chars, separators, spacers, keep)))
PickString == IsList /\ \E i \in Indices : Returns(List2String(L0, i))
PickInteger == IsList /\ \E i \in Indices : Returns(List2Integer(L0, i))

ListsNext ==
  \/ Literal \/ Add
  \/ Slice \/ Delete \/ Insert \/ Replace \/ Find \/ Sort \/ Randomize
  \/ Dump \/ ToCSV \/ FromCSV \/ Parse \/ PickString \/ PickInteger

ListsSpec == ListsInit /\ [][ListsNext]_value

----------------------------------------------------------------------------
(* What it promises *)

\* llDeleteSubList removes what llList2List returns, whatever the indices: inserted
\* where it was it makes the list again.  llListReplaceList inserts there something
\* else, if it reads nothing beyond the list and the indices are not crossed.
\* llListFindList finds the piece at its place or earlier.
CutAndPaste ==
  IsList => \A i, j \in Indices :
    LET piece == List2List(L0, i, j)
        rest == DeleteSubList(L0, i, j)
        found == ListFindList(L0, piece)
    IN  /\ ListInsertList(rest, piece, From(L0, i)) = L0
        /\ InBounds(L0, i, j) /\ From(L0, i) <= To(L0, j) + 1 =>
             \A M \in Few(Items) : ListReplaceList(L0, M, i, j) = ListInsertList(rest, M, From(L0, i))
        /\ piece # <<>> =>
             /\ found \in 0 .. From(L0, i)
             /\ List2List(L0, found, found + Len(piece) - 1) = piece

Heads(L, n) == {k \in DOMAIN L : (k - 1) % AtLeast(n, 1) = 0}
Whole(L, n) == Len(L) % AtLeast(n, 1) = 0
Blocks(L, n) ==
  LET stride == AtLeast(n, 1) IN [b \in 1 .. (Len(L) \div stride) |-> SubSeq(L, (b - 1) * stride + 1, b * stride)]
Orders(D) == Bijection(D, D)
Rearranged(S, T) == Len(S) = Len(T) /\ \E p \in Orders(DOMAIN S) : \A k \in DOMAIN S : S[k] = T[p[k]]

\* llListSort, comparing only what it can, sorts the numbers among the places of
\* numbers and the texts among those of texts; llListRandomize may return every order
\* of the strides. Both keep strides together, if the list is made of whole ones, and
\* neither loses an element if it is not.
StridesKept ==
  IsList => \A n \in Strides :
    LET blocks == Blocks(L0, n)
        results == ListRandomize(L0, n)
    IN  /\ \A ascending \in BOOLEAN :
             LET S == ListSort(L0, n, ascending)
             IN  /\ \A k \in Heads(L0, n) : S[k].kind = L0[k].kind
                 /\ \A j, k \in Heads(L0, n) : j < k => ~OutOfOrder(S[j], S[k], ascending)
                 /\ Rearranged(S, L0)
                 /\ Whole(L0, n) => Rearranged(Blocks(S, n), blocks)
        /\ IF Whole(L0, n)
           THEN results = {FlattenSeq([b \in DOMAIN blocks |-> blocks[p[b]]]) : p \in Orders(DOMAIN blocks)}
           ELSE \A S \in results : Rearranged(S, L0)

\* The separator does not begin in the item, taken with what follows it.
Uncut(chars, after, s) == \A pos \in 0 .. (Len(chars) - 1) : Match(chars \o after, pos, <<s>>) = <<>>
Strings(L) == [k \in DOMAIN L |-> Chars(L[k])]

\* What llDumpList2String joined llParseStringKeepNulls cuts again, unless the separator
\* begins in an item, be it that it ends in the one put after it; so do the two for CSV,
\* but for a space before the last item.  With spacers nothing of a text gets lost, and
\* llParseString2List leaves out just the empty pieces.
ParseUndoesDump ==
  /\ IsList /\ L0 # <<>> =>
       /\ \A s \in Separators \ {<<>>} :
            (\A k \in DOMAIN L0 : Uncut(Chars(L0[k]), IF k < Len(L0) THEN s ELSE <<>>, s)) =>
              ParseString(DumpList2String(L0, s), <<s>>, <<>>, TRUE) = Texts(Strings(L0))
       /\ (\A k \in DOMAIN L0 : Uncut(Chars(L0[k]), <<>>, <<Comma>>) /\ Trimmed(Chars(L0[k])) = Chars(L0[k])) =>
            LET before == IF Len(L0) > 1 THEN <<Space>> ELSE <<>>
            IN  CSV2List(List2CSV(L0)) = Texts([Strings(L0) EXCEPT ![Len(L0)] = before \o @])
  /\ IsText => \A separators, spacers \in Few(Separators) :
       LET all == ParseString(value.chars, separators, spacers, TRUE)
           some == ParseString(value.chars, separators, spacers, FALSE)
       IN  /\ some = Places(all, {k \in DOMAIN all : all[k].chars # <<>>})
           /\ separators = <<>> => DumpList2String(all, <<>>) = value.chars

=============================================================================
