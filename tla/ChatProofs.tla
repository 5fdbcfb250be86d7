----------------------------- MODULE ChatProofs -----------------------------
(***************************************************************************)
(* Proofs about Chat: its types, that a handle stands for one listen, and  *)
(* that it implements Hearing.                                             *)
(***************************************************************************)
EXTENDS Chat, Induction, SequenceTheorems, TLAPS

Registries == [Scripts -> Seq(Entries)]

\* Every handle in use has been given out, and only once.
HandleInv ==
  /\ nextHandle \in 1 .. (MaxHandle + 1)
  /\ listens \in Registries
  /\ \A s \in Scripts : \A k \in DOMAIN listens[s] : listens[s][k].handle < nextHandle
  /\ HandlesUnique

----------------------------------------------------------------------------
(* The lists *)

\* The list of one script changes: what has to be shown of the new one.
LEMMA OneList ==
  ASSUME HandleInv, NEW s \in Scripts, NEW list \in Seq(Entries),
         listens' = [listens EXCEPT ![s] = list],
         nextHandle' \in 1 .. (MaxHandle + 1), nextHandle <= nextHandle',
         \A k \in DOMAIN list :
           \/ list[k].handle = nextHandle /\ nextHandle < nextHandle'
           \/ \E j \in DOMAIN listens[s] : list[k].handle = listens[s][j].handle,
         \A j, k \in DOMAIN list : list[j].handle = list[k].handle => j = k
  PROVE  HandleInv'
<1>1. nextHandle \in Nat /\ nextHandle' \in Nat /\ MaxHandle \in Nat
  BY ChatAssumption DEF HandleInv
<1>2. listens' \in Registries  BY DEF HandleInv, Registries
<1>3. listens'[s] = list /\ \A t \in Scripts \ {s} : listens'[t] = listens[t]
  BY DEF HandleInv, Registries
<1>4. \A t \in Scripts : \A k \in DOMAIN listens[t] : listens[t][k].handle \in Nat
  <2> TAKE t \in Scripts
  <2>1. listens[t] \in Seq(Entries)  BY DEF HandleInv, Registries
  <2> TAKE k \in DOMAIN listens[t]
  <2>2. listens[t][k] \in Entries  BY <2>1, ElementOfSeq, LenProperties
  <2> QED  BY <2>2 DEF Entries
<1>5. \A t \in Scripts : \A k \in DOMAIN listens'[t] : listens'[t][k].handle < nextHandle'
  <2> TAKE t \in Scripts
  <2> TAKE k \in DOMAIN listens'[t]
  <2>1. CASE t # s  BY <1>1, <1>3, <1>4, <2>1 DEF HandleInv
  <2>2. CASE t = s  BY <1>1, <1>3, <1>4, <2>2 DEF HandleInv
  <2> QED  BY <2>1, <2>2
<1>6. HandlesUnique'
  <2> SUFFICES ASSUME NEW t \in Scripts, NEW u \in Scripts,
                      NEW j \in DOMAIN listens'[t], NEW k \in DOMAIN listens'[u],
                      listens'[t][j].handle = listens'[u][k].handle
               PROVE  t = u /\ j = k
    BY DEF HandlesUnique
  <2>1. CASE t = s /\ u = s  BY <1>3, <2>1
  <2>2. CASE t # s /\ u # s  BY <1>3, <2>2 DEF HandleInv, HandlesUnique
  <2>3. \A v \in Scripts \ {s} : \A i \in DOMAIN list : \A h \in DOMAIN listens[v] :
          list[i].handle # listens[v][h].handle
    BY <1>1, <1>4 DEF HandleInv, HandlesUnique
  <2>4. CASE t = s /\ u # s  BY <1>3, <2>3, <2>4
  <2>5. CASE t # s /\ u = s  BY <1>3, <2>3, <2>5
  <2> QED  BY <2>1, <2>2, <2>4, <2>5
<1> QED  BY <1>2, <1>5, <1>6 DEF HandleInv

\* What is left when an entry is taken out: the others, in their order.
LEMMA EntryRemoved ==
  ASSUME NEW S, NEW q \in Seq(S), NEW n \in DOMAIN q
  PROVE  /\ RemoveAt(q, n) \in Seq(S)
         /\ DOMAIN RemoveAt(q, n) = 1 .. (Len(q) - 1)
         /\ \A k \in 1 .. (Len(q) - 1) : RemoveAt(q, n)[k] = IF k < n THEN q[k] ELSE q[k + 1]
<1>1. n \in 1 .. Len(q) /\ Len(q) \in Nat  BY LenProperties
<1> DEFINE a == SubSeq(q, 1, n - 1)
           b == SubSeq(q, n + 1, Len(q))
<1>2. a \in Seq(S) /\ Len(a) = n - 1 /\ \A k \in 1 .. (n - 1) : a[k] = q[k]
  BY <1>1, SubSeqProperties
<1>3. b \in Seq(S) /\ Len(b) = Len(q) - n /\ \A k \in 1 .. (Len(q) - n) : b[k] = q[n + k]
  BY <1>1, SubSeqProperties
<1>4. RemoveAt(q, n) = a \o b  BY DEF RemoveAt
<1> HIDE DEF a, b
<1>5. /\ a \o b \in Seq(S)
      /\ Len(a \o b) = Len(a) + Len(b)
      /\ \A k \in 1 .. (Len(a) + Len(b)) :
           (a \o b)[k] = IF k <= Len(a) THEN a[k] ELSE b[k - Len(a)]
  BY <1>2, <1>3, ConcatProperties
<1>6. Len(a) + Len(b) = Len(q) - 1  BY <1>1, <1>2, <1>3
<1>7. ASSUME NEW k \in 1 .. (Len(q) - 1)
      PROVE  (a \o b)[k] = IF k < n THEN q[k] ELSE q[k + 1]
  <2>1. (a \o b)[k] = IF k <= n - 1 THEN a[k] ELSE b[k - (n - 1)]
    BY <1>2, <1>5, <1>6
  <2>2. CASE k < n  BY <1>1, <1>2, <2>1, <2>2
  <2>3. CASE ~(k < n)
    <3>1. k - (n - 1) \in 1 .. (Len(q) - n) /\ n + (k - (n - 1)) = k + 1  BY <1>1, <2>3
    <3> QED  BY SMTT(30), <1>1, <1>3, <2>1, <2>3, <3>1
  <2> QED  BY <2>2, <2>3
<1> QED  BY <1>4, <1>5, <1>6, <1>7, LenProperties

----------------------------------------------------------------------------
(* The actions on the lists *)

LEMMA ListenStep ==
  ASSUME HandleInv, NEW s \in Scripts, Listen(s)
  PROVE  HandleInv'
<1>1. PICK filter \in Heard :
        listens' = [listens EXCEPT ![s] = <<[handle |-> NextHandle, filter |-> filter, active |-> TRUE]>> \o @]
  BY DEF Listen
<1> DEFINE e == [handle |-> nextHandle, filter |-> filter, active |-> TRUE]
           old == listens[s]
           list == <<e>> \o old
<1>2. nextHandle \in 1 .. MaxHandle /\ nextHandle' = nextHandle + 1 /\ MaxHandle \in Nat
  BY ChatAssumption DEF HandleInv, Listen
<1>3. e \in Entries  BY <1>2, ChatAssumption DEF Entries
<1>4. old \in Seq(Entries)  BY DEF HandleInv, Registries
<1>5. listens' = [listens EXCEPT ![s] = list]  BY <1>1 DEF NextHandle
<1>6. \A k \in DOMAIN old : old[k].handle \in Nat /\ old[k].handle < nextHandle
  <2> TAKE k \in DOMAIN old
  <2>1. old[k] \in Entries  BY <1>4, ElementOfSeq, LenProperties
  <2> QED  BY <2>1 DEF Entries, HandleInv
<1>7. e.handle = nextHandle  OBVIOUS
<1>8. \A j, k \in DOMAIN old : old[j].handle = old[k].handle => j = k
  BY DEF HandleInv, HandlesUnique
<1> HIDE DEF e, old
<1>9. /\ list \in Seq(Entries) /\ DOMAIN list = 1 .. (Len(old) + 1) /\ Len(old) \in Nat
      /\ list[1] = e /\ \A k \in 2 .. (Len(old) + 1) : list[k] = old[k - 1]
  BY <1>3, <1>4
<1>10. \A k \in 2 .. (Len(old) + 1) : k - 1 \in DOMAIN old  BY <1>4, <1>9
<1> HIDE DEF list
<1>11. \A k \in DOMAIN list :
         \/ k = 1 /\ list[k].handle = nextHandle
         \/ k \in 2 .. (Len(old) + 1) /\ list[k].handle = old[k - 1].handle
  BY <1>7, <1>9
<1>12. \A j, k \in DOMAIN list : list[j].handle = list[k].handle => j = k
  <2> SUFFICES ASSUME NEW j \in DOMAIN list, NEW k \in DOMAIN list, list[j].handle = list[k].handle
               PROVE  j = k
    OBVIOUS
  <2>1. \A i \in 2 .. (Len(old) + 1) : old[i - 1].handle # nextHandle  BY <1>2, <1>6, <1>10
  <2>2. CASE j = 1 /\ k = 1  BY <2>2
  <2>3. CASE j = 1 /\ k # 1  BY <1>11, <2>1, <2>3
  <2>4. CASE j # 1 /\ k = 1  BY <1>11, <2>1, <2>4
  <2>5. CASE j # 1 /\ k # 1
    <3>1. j - 1 = k - 1  BY <1>8, <1>10, <1>11, <2>5
    <3> QED  BY <1>9, <3>1
  <2> QED  BY <2>2, <2>3, <2>4, <2>5
<1>13. \A k \in DOMAIN list :
         \/ list[k].handle = nextHandle /\ nextHandle < nextHandle'
         \/ \E j \in DOMAIN listens[s] : list[k].handle = listens[s][j].handle
  BY <1>2, <1>10, <1>11 DEF old
<1>14. nextHandle' \in 1 .. (MaxHandle + 1) /\ nextHandle <= nextHandle'  BY <1>2
<1> QED  BY <1>5, <1>9, <1>12, <1>13, <1>14, OneList

LEMMA ListenRemoveStep ==
  ASSUME HandleInv, NEW s \in Scripts, ListenRemove(s)
  PROVE  HandleInv'
<1>1. PICK n \in DOMAIN listens[s] : listens' = [listens EXCEPT ![s] = RemoveAt(@, n)]
  BY DEF ListenRemove
<1> DEFINE old == listens[s]
           list == RemoveAt(old, n)
<1>2. listens' = [listens EXCEPT ![s] = list]  BY <1>1
<1>3. old \in Seq(Entries)  BY DEF HandleInv, Registries
<1>4. \A j, k \in DOMAIN old : old[j].handle = old[k].handle => j = k
  BY DEF HandleInv, HandlesUnique
<1>5. /\ list \in Seq(Entries) /\ DOMAIN list = 1 .. (Len(old) - 1)
      /\ \A k \in 1 .. (Len(old) - 1) : list[k] = IF k < n THEN old[k] ELSE old[k + 1]
  BY <1>1, <1>3, EntryRemoved
<1>6. DOMAIN old = 1 .. Len(old) /\ Len(old) \in Nat /\ n \in 1 .. Len(old)
  BY <1>1, <1>3, LenProperties
<1> HIDE DEF list
<1> DEFINE from(k) == IF k < n THEN k ELSE k + 1
<1>7. \A k \in DOMAIN list : from(k) \in DOMAIN old /\ list[k].handle = old[from(k)].handle
  BY <1>5, <1>6
<1>8. \A j, k \in DOMAIN list : from(j) = from(k) => j = k  BY <1>5, <1>6
<1> HIDE DEF from
<1>9. \A j, k \in DOMAIN list : list[j].handle = list[k].handle => j = k
  BY <1>4, <1>7, <1>8
<1>10. \A k \in DOMAIN list : \E j \in DOMAIN listens[s] : list[k].handle = listens[s][j].handle
  BY <1>7
<1>11. nextHandle' = nextHandle /\ nextHandle \in 1 .. (MaxHandle + 1) /\ nextHandle <= nextHandle
  BY ChatAssumption DEF HandleInv, ListenRemove
<1> HIDE DEF old
<1> QED  BY <1>2, <1>5, <1>9, <1>10, <1>11, OneList

LEMMA ListenControlStep ==
  ASSUME HandleInv, NEW s \in Scripts, ListenControl(s)
  PROVE  HandleInv'
<1>1. PICK h \in 1 .. MaxHandle, on \in BOOLEAN :
        listens' = [listens EXCEPT ![s] =
                      [k \in DOMAIN @ |-> IF @[k].handle = h THEN [@[k] EXCEPT !.active = on] ELSE @[k]]]
  BY DEF ListenControl
<1> DEFINE old == listens[s]
           list == [k \in DOMAIN old |-> IF old[k].handle = h THEN [old[k] EXCEPT !.active = on] ELSE old[k]]
<1>2. listens' = [listens EXCEPT ![s] = list]  BY <1>1
<1>3. old \in Seq(Entries)  BY DEF HandleInv, Registries
<1>4. DOMAIN old = 1 .. Len(old) /\ Len(old) \in Nat /\ \A k \in DOMAIN old : old[k] \in Entries
  BY <1>3, ElementOfSeq, LenProperties
<1>5. \A k \in DOMAIN list : list[k] \in Entries /\ list[k].handle = old[k].handle
  BY <1>1, <1>4 DEF Entries
<1>6. list \in Seq(Entries)
  <2>1. DOMAIN list = 1 .. Len(old) /\ list = [k \in DOMAIN list |-> list[k]]  BY <1>4
  <2> HIDE DEF list, old
  <2>2. list \in [1 .. Len(old) -> Entries]  BY <1>5, <2>1
  <2> QED  BY <1>4, <2>2, SeqDef
<1>7. \A j, k \in DOMAIN old : old[j].handle = old[k].handle => j = k
  BY DEF HandleInv, HandlesUnique
<1>8. DOMAIN list = DOMAIN old  OBVIOUS
<1> HIDE DEF list
<1>9. \A j, k \in DOMAIN list : list[j].handle = list[k].handle => j = k
  BY <1>5, <1>7, <1>8
<1>10. \A k \in DOMAIN list : \E j \in DOMAIN listens[s] : list[k].handle = listens[s][j].handle
  BY <1>5, <1>8
<1>11. nextHandle' = nextHandle /\ nextHandle \in 1 .. (MaxHandle + 1) /\ nextHandle <= nextHandle
  BY ChatAssumption DEF HandleInv, ListenControl
<1> QED  BY <1>2, <1>6, <1>9, <1>10, <1>11, OneList

----------------------------------------------------------------------------
LEMMA HandleInvKept == HandleInv /\ [Next]_vars => HandleInv'
<1> SUFFICES ASSUME HandleInv, [Next]_vars PROVE HandleInv'
  OBVIOUS
<1>1. ASSUME UNCHANGED <<listens, nextHandle>> PROVE HandleInv'
  BY <1>1 DEF HandleInv, HandlesUnique, Registries
<1>2. ASSUME NEW s \in Scripts, Post(s) \/ TakeEvent(s) \/ HandlerReturns(s) \/ SwitchState(s)
      PROVE  HandleInv'
  BY <1>1, <1>2 DEF Post, TakeEvent, HandlerReturns, SwitchState
<1>3. ASSUME NEW s \in Scripts, ResetScript(s) \/ Die(s) \/ SetObjectName(s) PROVE HandleInv'
  BY <1>1, <1>3 DEF ResetScript, Die, SetObjectName
<1>4. ASSUME NEW s \in Scripts, Listen(s) PROVE HandleInv'  BY <1>4, ListenStep
<1>5. ASSUME NEW s \in Scripts, ListenRemove(s) PROVE HandleInv'  BY <1>5, ListenRemoveStep
<1>6. ASSUME NEW s \in Scripts, ListenControl(s) PROVE HandleInv'  BY <1>6, ListenControlStep
<1>7. ASSUME NEW s \in Scripts, Say(s) \/ RegionSayTo(s) \/ MessageLinked(s) \/ Dialog(s)
      PROVE  HandleInv'
  BY <1>1, <1>7 DEF Say, RegionSayTo, MessageLinked, Dialog
<1>8. CASE LoopEnds \/ ListenCommand \/ DialogReply
  BY <1>1, <1>8 DEF LoopEnds, ListenCommand, DialogReply
<1>9. CASE UNCHANGED vars  BY <1>1, <1>9 DEF vars
<1> QED
  BY <1>2, <1>3, <1>4, <1>5, <1>6, <1>7, <1>8, <1>9 DEF Next, Builtin

LEMMA InitHandles == Init => HandleInv
<1> SUFFICES ASSUME Init PROVE HandleInv
  OBVIOUS
<1>1. \A s \in Scripts : listens[s] = <<>>
  BY DEF Init
<1>2. listens \in Registries
  BY DEF Init, Registries
<1>3. nextHandle \in 1 .. (MaxHandle + 1)
  BY ChatAssumption DEF Init
<1> QED
  BY <1>1, <1>2, <1>3 DEF HandleInv, HandlesUnique

\* In any region a handle stands for one listen of one script: the counter is
\* shared by all scripts and never goes back, so what llListenRemove and
\* llListenControl find is what the script was given the handle for.
THEOREM HandlesAreUnique == Spec => []HandlesUnique
<1>1. HandleInv => HandlesUnique  BY DEF HandleInv
<1> QED  BY <1>1, InitHandles, HandleInvKept, PTL DEF Spec

----------------------------------------------------------------------------
(* Dialogs: which is found, and what is left of them when they are closed *)

\* The first dialog of the list that is for a.
FirstIn(list, a, k) ==
  /\ k \in DOMAIN list /\ list[k].avatar = a
  /\ \A j \in DOMAIN list : list[j].avatar = a => k <= j
QuestionOf(d) == [script |-> d.script, channel |-> d.channel]
NothingAsked == [script |-> NoScript, channel |-> Blank]

LEMMA FirstFound ==
  ASSUME dialogs \in Seq(Dialogs), NEW a
  PROVE  /\ \A k : FirstIn(dialogs, a, k) => For(a) # {} /\ FirstFor(a) = dialogs[k]
         /\ For(a) # {} => \E k : FirstIn(dialogs, a, k)
<1>1. DOMAIN dialogs = 1 .. Len(dialogs) /\ For(a) \subseteq DOMAIN dialogs
  BY LenProperties DEF For
<1>2. ASSUME NEW k, FirstIn(dialogs, a, k) PROVE For(a) # {} /\ FirstFor(a) = dialogs[k]
  <2>1. k \in For(a) /\ \A j \in For(a) : k <= j
    BY <1>2 DEF FirstIn, For
  <2>2. \A i \in For(a) : (\A j \in For(a) : i <= j) => i = k
    BY <1>1, <2>1
  <2> QED
    BY <2>1, <2>2 DEF FirstFor
<1>3. ASSUME For(a) # {} PROVE \E k : FirstIn(dialogs, a, k)
  <2>1. For(a) \in SUBSET Nat
    BY <1>1
  <2>2. PICK k \in For(a) : \A j \in For(a) : k <= j
    BY <1>3, <2>1, LeastNumber
  <2> QED
    BY <2>2 DEF FirstIn, For
<1> QED
  BY <1>2, <1>3

\* The question an avatar can answer is that of the first dialog for it.
LEMMA QuestionIs ==
  ASSUME dialogs \in Seq(Dialogs), NEW a
  PROVE  /\ \A k : FirstIn(dialogs, a, k) => Question(a) = QuestionOf(dialogs[k])
         /\ (\A k \in DOMAIN dialogs : dialogs[k].avatar # a) => Question(a) = NothingAsked
         /\ (\E k \in DOMAIN dialogs : dialogs[k].avatar = a) => \E k : FirstIn(dialogs, a, k)
<1>1. For(a) = {} <=> \A k \in DOMAIN dialogs : dialogs[k].avatar # a
  BY DEF For
<1> QED
  BY <1>1, FirstFound DEF Question, QuestionOf, NothingAsked

\* The same of all avatars, to be read in either state of a step.
Questions ==
  dialogs \in Seq(Dialogs) =>
    \A b : /\ \A k : FirstIn(dialogs, b, k) => Question(b) = QuestionOf(dialogs[k])
           /\ (\A k \in DOMAIN dialogs : dialogs[k].avatar # b) => Question(b) = NothingAsked
           /\ (\E k \in DOMAIN dialogs : dialogs[k].avatar = b) => \E k : FirstIn(dialogs, b, k)

LEMMA QuestionsAre == Questions
BY QuestionIs DEF Questions

\* The walk of dialog_close, up to the k-th dialog.
KeptStep(list, a, kept, k) ==
  IF k = 0 THEN <<>>
  ELSE IF list[k].avatar = a THEN kept[k - 1] ELSE Append(kept[k - 1], list[k])
Keeps(list, a, kept) == kept = [k \in 0 .. Len(list) |-> KeptStep(list, a, kept, k)]

LEMMA WithoutIs ==
  ASSUME NEW a
  PROVE  Without(a) = (CHOOSE kept : Keeps(dialogs, a, kept))[Len(dialogs)]
BY DEF Without, Keeps, KeptStep

\* The n-th dialog that is kept is the place[n]-th of the list.
Picked(list, a, k, kept, place) ==
  /\ kept \in Seq(Dialogs)
  /\ place \in [1 .. Len(kept) -> 1 .. k]
  /\ \A i, j \in 1 .. Len(kept) : i < j => place[i] < place[j]
  /\ \A i \in 1 .. Len(kept) : kept[i] = list[place[i]] /\ list[place[i]].avatar # a
  /\ \A j \in 1 .. k : list[j].avatar # a => \E i \in 1 .. Len(kept) : place[i] = j

LEMMA WalkExists ==
  ASSUME dialogs \in Seq(Dialogs), NEW a
  PROVE  \E kept : Keeps(dialogs, a, kept)
<1> DEFINE L == Len(dialogs)
           Good(n, g) == g = [k \in 0 .. n |-> KeptStep(dialogs, a, g, k)]
           S == {n \in Nat : \E g : Good(n, g)}
<1>1. 0 \in S
  <2> DEFINE g == [k \in 0 .. 0 |-> <<>>]
  <2>1. \A k \in 0 .. 0 : KeptStep(dialogs, a, g, k) = <<>>
    BY DEF KeptStep
  <2>2. Good(0, g)
    BY <2>1
  <2> QED
    BY <2>2
<1>2. ASSUME NEW n \in Nat, n \in S PROVE n + 1 \in S
  <2>1. PICK g : Good(n, g)
    BY <1>2
  <2> DEFINE next == KeptStep(dialogs, a, g, n + 1)
             h == [k \in 0 .. (n + 1) |-> IF k = n + 1 THEN next ELSE g[k]]
  <2>2. \A k \in 0 .. n : g[k] = KeptStep(dialogs, a, g, k)
    BY <2>1
  <2>3. \A k \in 0 .. n : h[k] = g[k]
    OBVIOUS
  <2>4. h[n + 1] = next
    OBVIOUS
  <2> HIDE DEF h
  <2>5. \A k \in 0 .. n : KeptStep(dialogs, a, h, k) = KeptStep(dialogs, a, g, k)
    <3> TAKE k \in 0 .. n
    <3>1. k = 0 \/ k - 1 \in 0 .. n
      OBVIOUS
    <3>2. k = 0 \/ h[k - 1] = g[k - 1]
      BY <2>3, <3>1
    <3> QED
      BY <3>2 DEF KeptStep
  <2>6. KeptStep(dialogs, a, h, n + 1) = next
    <3>1. n + 1 # 0 /\ (n + 1) - 1 = n /\ n \in 0 .. n
      OBVIOUS
    <3>2. h[(n + 1) - 1] = g[(n + 1) - 1]
      BY <2>3, <3>1
    <3> QED
      BY <3>2 DEF KeptStep
  <2>7. \A k \in 0 .. (n + 1) : h[k] = KeptStep(dialogs, a, h, k)
    <3> TAKE k \in 0 .. (n + 1)
    <3>1. CASE k = n + 1
      BY <2>4, <2>6, <3>1
    <3>2. CASE k \in 0 .. n
      BY <2>2, <2>3, <2>5, <3>2
    <3> QED
      BY <3>1, <3>2
  <2>8. h = [k \in 0 .. (n + 1) |-> h[k]]
    BY DEF h
  <2>9. Good(n + 1, h)
    BY <2>7, <2>8
  <2> HIDE DEF Good
  <2> QED
    BY <2>9
<1>3. L \in Nat
  BY LenProperties
<1>4. L \in S
  <2> HIDE DEF S
  <2> QED
    BY <1>1, <1>2, <1>3, SetInduction
<1> QED
  BY <1>4 DEF Keeps

LEMMA PickedNone ==
  ASSUME NEW list, NEW a
  PROVE  Picked(list, a, 0, <<>>, <<>>)
<1>1. <<>> \in Seq(Dialogs) /\ Len(<<>>) = 0
  BY EmptySeq
<1> QED
  BY <1>1 DEF Picked

LEMMA PickedMore ==
  ASSUME NEW list, NEW a, NEW n \in Nat, NEW kept, NEW place,
         Picked(list, a, n, kept, place), list[n + 1].avatar # a, list[n + 1] \in Dialogs
  PROVE  \E more : Picked(list, a, n + 1, Append(kept, list[n + 1]), more)
<1> DEFINE l == Len(kept)
           d == list[n + 1]
           all == Append(kept, d)
           more == [i \in 1 .. (l + 1) |-> IF i = l + 1 THEN n + 1 ELSE place[i]]
<1>1. kept \in Seq(Dialogs) /\ l \in Nat
  BY LenProperties DEF Picked
<1>2. all \in Seq(Dialogs) /\ Len(all) = l + 1 /\ all[l + 1] = d /\ \A i \in 1 .. l : all[i] = kept[i]
  BY <1>1, AppendProperties
<1>3. \A i \in 1 .. l : more[i] = place[i] /\ place[i] \in 1 .. n
  BY <1>1 DEF Picked
<1>4. more[l + 1] = n + 1
  BY <1>1
<1>5. more \in [1 .. (l + 1) -> 1 .. (n + 1)]
  <2>1. \A i \in 1 .. (l + 1) : i = l + 1 \/ i \in 1 .. l
    BY <1>1
  <2>2. n + 1 \in 1 .. (n + 1) /\ 1 .. n \subseteq 1 .. (n + 1)
    OBVIOUS
  <2>3. \A i \in 1 .. (l + 1) : more[i] \in 1 .. (n + 1)
    BY <1>3, <1>4, <2>1, <2>2
  <2>4. more = [i \in 1 .. (l + 1) |-> more[i]]
    OBVIOUS
  <2> HIDE DEF more
  <2> QED
    BY <2>3, <2>4
<1> HIDE DEF all, more
<1>6. \A i, j \in 1 .. (l + 1) : i < j => more[i] < more[j]
  <2> SUFFICES ASSUME NEW i \in 1 .. (l + 1), NEW j \in 1 .. (l + 1), i < j PROVE more[i] < more[j]
    OBVIOUS
  <2>1. i \in 1 .. l
    BY <1>1
  <2>2. CASE j = l + 1
    BY <1>3, <1>4, <2>1, <2>2
  <2>3. CASE j \in 1 .. l
    <3>1. place[i] < place[j]
      BY <2>1, <2>3 DEF Picked
    <3> QED
      BY <1>3, <2>1, <2>3, <3>1
  <2> QED
    BY <1>1, <2>2, <2>3
<1>7. \A i \in 1 .. (l + 1) : all[i] = list[more[i]] /\ list[more[i]].avatar # a
  <2> TAKE i \in 1 .. (l + 1)
  <2>1. CASE i = l + 1
    BY <1>2, <1>4, <2>1
  <2>2. CASE i \in 1 .. l
    BY <1>2, <1>3, <2>2 DEF Picked
  <2> QED
    BY <1>1, <2>1, <2>2
<1>8. \A j \in 1 .. (n + 1) : list[j].avatar # a => \E i \in 1 .. (l + 1) : more[i] = j
  <2> SUFFICES ASSUME NEW j \in 1 .. (n + 1), list[j].avatar # a
               PROVE  \E i \in 1 .. (l + 1) : more[i] = j
    OBVIOUS
  <2>1. CASE j = n + 1
    BY <1>1, <1>4, <2>1
  <2>2. CASE j \in 1 .. n
    <3>1. PICK i \in 1 .. l : place[i] = j
      BY <2>2 DEF Picked
    <3> QED
      BY <1>1, <1>3, <3>1
  <2> QED
    BY <2>1, <2>2
<1>9. Picked(list, a, n + 1, all, more)
  BY <1>2, <1>5, <1>6, <1>7, <1>8 DEF Picked
<1> QED
  BY <1>9 DEF all

LEMMA PickedSame ==
  ASSUME NEW list, NEW a, NEW n \in Nat, NEW kept, NEW place,
         Picked(list, a, n, kept, place), list[n + 1].avatar = a
  PROVE  Picked(list, a, n + 1, kept, place)
<1>1. place \in [1 .. Len(kept) -> 1 .. (n + 1)]
  <2>1. place \in [1 .. Len(kept) -> 1 .. n] /\ 1 .. n \subseteq 1 .. (n + 1)
    BY DEF Picked
  <2> QED
    BY <2>1
<1>2. \A j \in 1 .. (n + 1) : list[j].avatar # a => j \in 1 .. n
  OBVIOUS
<1> QED
  BY <1>1, <1>2 DEF Picked

\* dialog_close keeps the dialogs of the others, in their order.
LEMMA WithoutPicks ==
  ASSUME dialogs \in Seq(Dialogs), NEW a
  PROVE  \E place : Picked(dialogs, a, Len(dialogs), Without(a), place)
<1> DEFINE L == Len(dialogs)
           kept == CHOOSE k : Keeps(dialogs, a, k)
           S == {n \in Nat : n <= L => \E place : Picked(dialogs, a, n, kept[n], place)}
<1>1. Keeps(dialogs, a, kept)
  BY WalkExists
<1>2. Without(a) = kept[L]
  BY WithoutIs
<1> HIDE DEF kept
<1>3. L \in Nat /\ \A k \in 1 .. L : dialogs[k] \in Dialogs
  BY LenProperties, ElementOfSeq
<1>4. \A k \in 0 .. L : kept[k] = KeptStep(dialogs, a, kept, k)
  BY <1>1 DEF Keeps
<1>5. 0 \in S
  <2>1. kept[0] = <<>>
    BY <1>3, <1>4 DEF KeptStep
  <2> QED
    BY <2>1, PickedNone
<1>6. ASSUME NEW n \in Nat, n \in S PROVE n + 1 \in S
  <2> SUFFICES ASSUME n + 1 <= L PROVE \E place : Picked(dialogs, a, n + 1, kept[n + 1], place)
    OBVIOUS
  <2>1. n + 1 \in 0 .. L /\ n + 1 \in 1 .. L /\ n + 1 # 0 /\ (n + 1) - 1 = n /\ n <= L
    BY <1>3
  <2>2. PICK place : Picked(dialogs, a, n, kept[n], place)
    BY <1>6, <2>1
  <2>3. kept[n + 1] = IF dialogs[n + 1].avatar = a THEN kept[n] ELSE Append(kept[n], dialogs[n + 1])
    BY <1>4, <2>1 DEF KeptStep
  <2>4. CASE dialogs[n + 1].avatar = a
    <3>1. Picked(dialogs, a, n + 1, kept[n], place)
      BY <2>2, <2>4, PickedSame
    <3> QED
      BY <2>3, <2>4, <3>1
  <2>5. CASE dialogs[n + 1].avatar # a
    <3>1. \E more : Picked(dialogs, a, n + 1, Append(kept[n], dialogs[n + 1]), more)
      BY <1>3, <2>1, <2>2, <2>5, PickedMore
    <3> QED
      BY <2>3, <2>5, <3>1
  <2> QED
    BY <2>4, <2>5
<1>7. L \in S
  <2> HIDE DEF S
  <2> QED
    BY <1>3, <1>5, <1>6, SetInduction
<1> QED
  BY <1>2, <1>7

\* After a reply the avatar has no question left, and the others have theirs.
LEMMA QuestionClosed ==
  ASSUME dialogs \in Seq(Dialogs), NEW a, dialogs' = Without(a)
  PROVE  /\ dialogs' \in Seq(Dialogs)
         /\ \A b : Question(b)' = IF b = a THEN NothingAsked ELSE Question(b)
<1>1. PICK place : Picked(dialogs, a, Len(dialogs), Without(a), place)
  BY WithoutPicks
<1> DEFINE l == Len(dialogs')
           L == Len(dialogs)
<1>2. /\ dialogs' \in Seq(Dialogs) /\ l \in Nat /\ L \in Nat
      /\ DOMAIN dialogs' = 1 .. l /\ DOMAIN dialogs = 1 .. L
      /\ place \in [1 .. l -> 1 .. L]
      /\ \A i, j \in 1 .. l : i < j => place[i] < place[j]
      /\ \A i \in 1 .. l : dialogs'[i] = dialogs[place[i]] /\ dialogs[place[i]].avatar # a
      /\ \A j \in 1 .. L : dialogs[j].avatar # a => \E i \in 1 .. l : place[i] = j
  BY <1>1, LenProperties DEF Picked
<1>3. Questions'
  BY QuestionsAre, PTL
<1>4. ASSUME NEW b, b = a PROVE Question(b)' = NothingAsked
  <2>1. \A k \in DOMAIN dialogs' : dialogs'[k].avatar # b
    BY <1>2, <1>4
  <2> QED
    BY <1>2, <1>3, <2>1 DEF Questions
<1>5. ASSUME NEW b, b # a PROVE Question(b)' = Question(b)
  <2>1. CASE \A k \in DOMAIN dialogs : dialogs[k].avatar # b
    <3>1. \A k \in DOMAIN dialogs' : dialogs'[k].avatar # b
      BY <1>2, <2>1
    <3> QED
      BY <1>2, <1>3, <2>1, <3>1, QuestionIs DEF Questions
  <2>2. CASE \E k \in DOMAIN dialogs : dialogs[k].avatar = b
    <3>1. PICK k : FirstIn(dialogs, b, k)
      BY <2>2, QuestionIs
    <3>2. k \in 1 .. L /\ dialogs[k].avatar = b /\ \A j \in 1 .. L : dialogs[j].avatar = b => k <= j
      BY <1>2, <3>1 DEF FirstIn
    <3>3. PICK i \in 1 .. l : place[i] = k
      BY <1>2, <1>5, <3>2
    <3>4. \A j \in 1 .. l : dialogs'[j].avatar = b => i <= j
      <4> SUFFICES ASSUME NEW j \in 1 .. l, dialogs'[j].avatar = b, ~(i <= j) PROVE FALSE
        OBVIOUS
      <4>1. j < i
        BY <1>2
      <4>2. place[j] < k /\ place[j] \in 1 .. L /\ dialogs[place[j]].avatar = b
        BY <1>2, <3>3, <4>1
      <4> QED
        BY <1>2, <3>2, <4>2
    <3>5. dialogs'[i] = dialogs[k]
      BY <1>2, <3>3
    <3>6. FirstIn(dialogs', b, i)
      BY <1>2, <3>2, <3>3, <3>4, <3>5 DEF FirstIn
    <3>7. Question(b)' = QuestionOf(dialogs'[i])
      BY <1>2, <1>3, <3>6 DEF Questions
    <3>8. Question(b) = QuestionOf(dialogs[k])
      BY <3>1, QuestionIs
    <3> QED
      BY <3>5, <3>7, <3>8
  <2> QED
    BY <2>1, <2>2
<1> QED
  BY <1>2, <1>4, <1>5

\* A new dialog hides the others of its avatar.
LEMMA QuestionAsked ==
  ASSUME dialogs \in Seq(Dialogs), NEW d \in Dialogs, dialogs' = <<d>> \o dialogs
  PROVE  /\ dialogs' \in Seq(Dialogs)
         /\ \A b : Question(b)' = IF b = d.avatar THEN QuestionOf(d) ELSE Question(b)
<1> DEFINE L == Len(dialogs)
<1>1. <<d>> \in Seq(Dialogs) /\ Len(<<d>>) = 1 /\ <<d>>[1] = d
  OBVIOUS
<1>2. L \in Nat /\ DOMAIN dialogs = 1 .. L
  BY LenProperties
<1>3. /\ dialogs' \in Seq(Dialogs) /\ Len(dialogs') = 1 + L
      /\ \A k \in 1 .. (1 + L) : dialogs'[k] = IF k <= 1 THEN <<d>>[k] ELSE dialogs[k - 1]
  BY <1>1, <1>2, ConcatProperties
<1>4. DOMAIN dialogs' = 1 .. (1 + L)
  BY <1>3, LenProperties
<1>5. dialogs'[1] = d /\ \A k \in 1 .. L : dialogs'[k + 1] = dialogs[k]
  <2>1. 1 \in 1 .. (1 + L)
    BY <1>2
  <2>2. ASSUME NEW k \in 1 .. L PROVE dialogs'[k + 1] = dialogs[k]
    <3>1. k + 1 \in 1 .. (1 + L) /\ ~(k + 1 <= 1) /\ (k + 1) - 1 = k
      BY <1>2
    <3> QED
      BY <1>3, <3>1
  <2> QED
    BY <1>1, <1>3, <2>1, <2>2
<1>6. \A k \in 1 .. (1 + L) : k = 1 \/ \E j \in 1 .. L : k = j + 1
  <2> SUFFICES ASSUME NEW k \in 1 .. (1 + L), k # 1 PROVE \E j \in 1 .. L : k = j + 1
    OBVIOUS
  <2>1. k - 1 \in 1 .. L /\ k = (k - 1) + 1
    BY <1>2
  <2> QED
    BY <2>1
<1>7. Questions'
  BY QuestionsAre, PTL
<1>8. ASSUME NEW b, b = d.avatar PROVE Question(b)' = QuestionOf(d)
  <2>1. FirstIn(dialogs', b, 1)
    BY <1>2, <1>4, <1>5, <1>8 DEF FirstIn
  <2>2. Question(b)' = QuestionOf(dialogs'[1])
    BY <1>3, <1>7, <2>1 DEF Questions
  <2> QED
    BY <1>5, <2>2
<1>9. ASSUME NEW b, b # d.avatar PROVE Question(b)' = Question(b)
  <2>1. CASE \A k \in DOMAIN dialogs : dialogs[k].avatar # b
    <3>1. \A k \in DOMAIN dialogs' : dialogs'[k].avatar # b
      BY <1>2, <1>4, <1>5, <1>6, <1>9, <2>1
    <3> QED
      BY <1>3, <1>7, <2>1, <3>1, QuestionIs DEF Questions
  <2>2. CASE \E k \in DOMAIN dialogs : dialogs[k].avatar = b
    <3>1. PICK k : FirstIn(dialogs, b, k)
      BY <2>2, QuestionIs
    <3>2. k \in 1 .. L /\ dialogs[k].avatar = b /\ \A j \in 1 .. L : dialogs[j].avatar = b => k <= j
      BY <1>2, <3>1 DEF FirstIn
    <3>3. k + 1 \in 1 .. (1 + L) /\ dialogs'[k + 1] = dialogs[k]
      BY <1>2, <1>5, <3>2
    <3>4. \A j \in 1 .. (1 + L) : dialogs'[j].avatar = b => k + 1 <= j
      <4> SUFFICES ASSUME NEW j \in 1 .. (1 + L), dialogs'[j].avatar = b PROVE k + 1 <= j
        OBVIOUS
      <4>1. PICK i \in 1 .. L : j = i + 1
        BY <1>5, <1>6, <1>9
      <4>2. k <= i
        BY <1>5, <3>2, <4>1
      <4> QED
        BY <3>2, <4>1, <4>2
    <3>5. FirstIn(dialogs', b, k + 1)
      BY <1>4, <3>2, <3>3, <3>4 DEF FirstIn
    <3>6. Question(b)' = QuestionOf(dialogs'[k + 1])
      BY <1>3, <1>7, <3>5 DEF Questions
    <3>7. Question(b) = QuestionOf(dialogs[k])
      BY <3>1, QuestionIs
    <3> QED
      BY <3>3, <3>6, <3>7
  <2> QED
    BY <2>1, <2>2
<1> QED
  BY <1>3, <1>8, <1>9

----------------------------------------------------------------------------
(* Types *)

LEMMA PlacesCounted ==
  ASSUME HandleInv, NEW s \in Scripts, NEW places \in SUBSET (DOMAIN listens[s])
  PROVE  IsFiniteSet(places) /\ Cardinality(places) \in Nat
<1>1. listens[s] \in Seq(Entries)
  BY DEF HandleInv, Registries
<1>2. DOMAIN listens[s] = 1 .. Len(listens[s]) /\ Len(listens[s]) \in Nat
  BY <1>1, LenProperties
<1>3. IsFiniteSet(DOMAIN listens[s])
  BY <1>2, FS_Interval
<1> QED
  BY <1>3, FS_Subset, FS_CardinalityType

LEMMA CopiesType ==
  ASSUME HandleInv, NEW s \in Scripts, NEW places \in SUBSET (DOMAIN listens[s]), NEW m \in Events
  PROVE  Copies(places, m) \in Seq(Events) /\ Len(Copies(places, m)) = Cardinality(places)
<1> DEFINE n == Cardinality(places)
<1>1. n \in Nat
  BY PlacesCounted
<1>2. Copies(places, m) = [k \in 1 .. n |-> m]
  BY DEF Copies
<1> HIDE DEF n
<1>3. [k \in 1 .. n |-> m] \in Seq(Events) /\ Len([k \in 1 .. n |-> m]) = n
  BY <1>1
<1> QED
  BY <1>2, <1>3 DEF n

LEMMA MessageType ==
  ASSUME NEW channel \in Channels, NEW name \in Names, NEW id \in Ids, NEW text \in Texts
  PROVE  Message(channel, name, id, text) \in Events
BY DEF Message, Events

LEMMA EventType ==
  /\ Event("state_entry") \in Events
  /\ Event("link_message") \in Events
  /\ Event("other") \in Events
BY DEF Events

\* The queues keep their type when events are put behind one of them, or all.
Queues == [Scripts -> Seq(Events)]

LEMMA RouteType ==
  ASSUME HandleInv, queue \in Queues, NEW m \in Events, Route(m)
  PROVE  queue' \in Queues
<1>1. \A s \in Scripts : Matching(s, m) \subseteq DOMAIN listens[s]
  BY DEF Matching
<1>2. \A s \in Scripts : queue[s] \o Copies(Matching(s, m), m) \in Seq(Events)
  <2> TAKE s \in Scripts
  <2>1. Copies(Matching(s, m), m) \in Seq(Events)
    BY <1>1, CopiesType
  <2>2. queue[s] \in Seq(Events)
    BY DEF Queues
  <2> QED
    BY <2>1, <2>2, ConcatProperties
<1> QED
  BY <1>2 DEF Route, Queues

LEMMA PushType ==
  ASSUME queue \in Queues, NEW s \in Scripts, NEW events \in Seq(Events), Push(s, events)
  PROVE  queue' \in Queues
<1>1. queue[s] \in Seq(Events)
  BY DEF Queues
<1>2. queue[s] \o events \in Seq(Events)
  BY <1>1, ConcatProperties
<1> QED
  BY <1>2 DEF Push, Queues

LEMMA RouteToType ==
  ASSUME HandleInv, queue \in Queues, NEW s \in Scripts, NEW m \in Events, RouteTo(s, m)
  PROVE  queue' \in Queues
<1>1. OnChannel(s, m.channel) \subseteq DOMAIN listens[s]
  BY DEF OnChannel
<1>2. Copies(OnChannel(s, m.channel), m) \in Seq(Events)
  BY <1>1, CopiesType
<1> QED
  BY <1>2, PushType DEF RouteTo

LEMMA FirstForType ==
  ASSUME dialogs \in Seq(Dialogs), NEW a, For(a) # {}
  PROVE  FirstFor(a).script \in Scripts /\ FirstFor(a).channel \in Channels
<1>1. PICK k : FirstIn(dialogs, a, k)
  BY FirstFound
<1>2. FirstFor(a) = dialogs[k] /\ k \in DOMAIN dialogs
  BY <1>1, FirstFound DEF FirstIn
<1>3. dialogs[k] \in Dialogs
  BY <1>2, ElementOfSeq, LenProperties
<1> QED
  BY <1>2, <1>3 DEF Dialogs

\* A message of a script is one that can be queued.
LEMMA SpeechType ==
  ASSUME objectName \in [Scripts -> Names], NEW s \in Scripts,
         NEW channel \in Channels, NEW text \in Texts
  PROVE  Message(channel, objectName[s], s, text) \in Events
<1>1. objectName[s] \in Names /\ s \in Ids
  BY DEF Ids
<1> QED
  BY <1>1, MessageType

LEMMA CommandType ==
  ASSUME NEW channel \in Channels, NEW text \in Texts
  PROVE  /\ \A a \in Avatars : Message(channel, NameOf[a], a, text) \in Events
         /\ \A name \in Names : Message(channel, name, Nobody, text) \in Events
<1>1. \A a \in Avatars : NameOf[a] \in Names /\ a \in Ids
  BY ChatAssumption DEF Ids
<1>2. Nobody \in Ids
  BY DEF Ids
<1> QED
  BY <1>1, <1>2, MessageType

\* What a handler or a command does to the queues and the dialogs.
LEMMA TalkTypes ==
  ASSUME TypeOK, HandleInv, [Next]_vars
  PROVE  queue' \in Queues /\ dialogs' \in Seq(Dialogs)
<1>1. /\ queue \in Queues /\ dialogs \in Seq(Dialogs) /\ objectName \in [Scripts -> Names]
      /\ \A s \in Scripts : queue[s] \in Seq(Events)
  BY DEF TypeOK, Queues
<1>2. ASSUME NEW s \in Scripts, Post(s) PROVE queue' \in Queues /\ dialogs' \in Seq(Dialogs)
  <2>1. <<Event("other")>> \in Seq(Events)
    BY EventType
  <2> QED
    BY <1>1, <1>2, <2>1, PushType DEF Post
<1>3. ASSUME NEW s \in Scripts, TakeEvent(s) PROVE queue' \in Queues /\ dialogs' \in Seq(Dialogs)
  <2>1. Tail(queue[s]) \in Seq(Events)
    BY <1>1, <1>3, HeadTailProperties DEF TakeEvent
  <2> QED
    BY <1>1, <1>3, <2>1 DEF TakeEvent, Queues
<1>4. ASSUME NEW s \in Scripts, HandlerReturns(s) PROVE queue' \in Queues /\ dialogs' \in Seq(Dialogs)
  <2>1. Append(queue[s], Event("state_entry")) \in Seq(Events)
    BY <1>1, EventType, AppendProperties
  <2> QED
    BY <1>1, <1>4, <2>1 DEF HandlerReturns, Queues
<1>5. ASSUME NEW s \in Scripts, SwitchState(s) \/ Die(s) \/ ResetScript(s)
      PROVE  queue' \in Queues /\ dialogs' \in Seq(Dialogs)
  <2>1. <<>> \in Seq(Events) /\ <<Event("state_entry")>> \in Seq(Events)
    BY EventType
  <2> QED
    BY <1>1, <1>5, <2>1 DEF SwitchState, Die, ResetScript, Queues
<1>6. ASSUME NEW s \in Scripts, SetObjectName(s) \/ Listen(s) \/ ListenRemove(s) \/ ListenControl(s)
      PROVE  queue' \in Queues /\ dialogs' \in Seq(Dialogs)
  BY <1>1, <1>6 DEF SetObjectName, Listen, ListenRemove, ListenControl
<1>7. ASSUME NEW s \in Scripts, Say(s) PROVE queue' \in Queues /\ dialogs' \in Seq(Dialogs)
  <2>1. PICK channel \in Channels, text \in Texts : Route(Message(channel, objectName[s], s, text))
    BY <1>7 DEF Say
  <2> QED
    BY <1>1, <1>7, <2>1, SpeechType, RouteType DEF Say
<1>8. ASSUME NEW s \in Scripts, RegionSayTo(s) PROVE queue' \in Queues /\ dialogs' \in Seq(Dialogs)
  <2>1. PICK t \in Scripts, channel \in Channels, text \in Texts :
          RouteTo(t, Message(channel, objectName[s], s, text))
    BY <1>8 DEF RegionSayTo
  <2> QED
    BY <1>1, <1>8, <2>1, SpeechType, RouteToType DEF RegionSayTo
<1>9. ASSUME NEW s \in Scripts, MessageLinked(s) PROVE queue' \in Queues /\ dialogs' \in Seq(Dialogs)
  <2>1. PICK target \in -4 .. Cardinality(Scripts) :
          PushToEach(Addressed(s, target), Event("link_message"))
    BY <1>9 DEF MessageLinked
  <2>2. \A t \in Scripts : Append(queue[t], Event("link_message")) \in Seq(Events)
    BY <1>1, EventType, AppendProperties
  <2> QED
    BY <1>1, <1>9, <2>1, <2>2 DEF MessageLinked, PushToEach, Queues
<1>10. ASSUME NEW s \in Scripts, Dialog(s) PROVE queue' \in Queues /\ dialogs' \in Seq(Dialogs)
  <2>1. PICK a \in Avatars, channel \in Asked :
          dialogs' = <<[script |-> s, avatar |-> a, channel |-> channel]>> \o dialogs
    BY <1>10 DEF Dialog
  <2>2. [script |-> s, avatar |-> a, channel |-> channel] \in Dialogs
    BY ChatAssumption DEF Dialogs
  <2> QED
    BY <1>1, <1>10, <2>1, <2>2, QuestionAsked DEF Dialog
<1>11. CASE LoopEnds
  BY <1>1, <1>11 DEF LoopEnds
<1>12. CASE ListenCommand
  <2>1. PICK channel \in Channels, text \in Texts :
          \/ \E a \in Avatars : Route(Message(channel, NameOf[a], a, text))
          \/ \E name \in Names : Route(Message(channel, name, Nobody, text))
    BY <1>12 DEF ListenCommand
  <2>2. \E m \in Events : Route(m)
    BY <2>1, CommandType
  <2> QED
    BY <1>1, <1>12, <2>2, RouteType DEF ListenCommand
<1>13. CASE DialogReply
  <2>1. PICK a \in Avatars, text \in Texts :
          /\ For(a) # {}
          /\ RouteTo(FirstFor(a).script, Message(FirstFor(a).channel, NameOf[a], a, text))
          /\ dialogs' = Without(a)
    BY <1>13 DEF DialogReply
  <2>2. FirstFor(a).script \in Scripts /\ FirstFor(a).channel \in Channels
    BY <1>1, <2>1, FirstForType
  <2>3. Message(FirstFor(a).channel, NameOf[a], a, text) \in Events
    BY <2>2, CommandType
  <2>4. queue' \in Queues
    BY <1>1, <2>1, <2>2, <2>3, RouteToType
  <2> QED
    BY <1>1, <2>1, <2>4, QuestionClosed
<1>14. CASE UNCHANGED vars
  BY <1>1, <1>14 DEF vars
<1> QED
  BY <1>2, <1>3, <1>4, <1>5, <1>6, <1>7, <1>8, <1>9, <1>10, <1>11, <1>12, <1>13, <1>14 DEF Next, Builtin

LEMMA LoopTypes ==
  ASSUME TypeOK, [Next]_vars
  PROVE  /\ objectName' \in [Scripts -> Names]
         /\ running' \in Scripts \cup {NoScript} /\ entering' \in BOOLEAN /\ over' \in BOOLEAN
         /\ entering' => running' # NoScript
         /\ over' => running' = NoScript
<1> DEFINE Good == /\ objectName' \in [Scripts -> Names]
                   /\ running' \in Scripts \cup {NoScript} /\ entering' \in BOOLEAN /\ over' \in BOOLEAN
                   /\ entering' => running' # NoScript
                   /\ over' => running' = NoScript
<1>1. ASSUME UNCHANGED <<objectName, loopVars>> PROVE Good
  BY <1>1 DEF TypeOK, loopVars
<1>2. ASSUME NEW s \in Scripts, TakeEvent(s) \/ HandlerReturns(s) \/ SwitchState(s) PROVE Good
  <2>1. s # NoScript
    BY ChatAssumption
  <2>2. CASE TakeEvent(s)
    BY <2>1, <2>2 DEF TypeOK, TakeEvent
  <2>3. CASE HandlerReturns(s)
    BY <2>1, <2>3 DEF TypeOK, HandlerReturns
  <2>4. CASE SwitchState(s)
    BY <2>1, <2>4 DEF TypeOK, SwitchState
  <2> QED
    BY <1>2, <2>2, <2>3, <2>4
<1>3. ASSUME NEW s \in Scripts, SetObjectName(s) PROVE Good
  BY <1>3 DEF TypeOK, SetObjectName, loopVars
<1>4. ASSUME LoopEnds PROVE Good
  BY <1>4, ChatAssumption DEF TypeOK, LoopEnds
<1>5. ASSUME NEW s \in Scripts, Post(s) \/ ResetScript(s) \/ Die(s) \/ MessageLinked(s) \/ Dialog(s)
      PROVE  Good
  BY <1>1, <1>5 DEF Post, ResetScript, Die, MessageLinked, Dialog
<1>6. ASSUME NEW s \in Scripts, Listen(s) \/ ListenRemove(s) \/ ListenControl(s) \/ Say(s) \/ RegionSayTo(s)
      PROVE  Good
  BY <1>1, <1>6 DEF Listen, ListenRemove, ListenControl, Say, RegionSayTo
<1>7. ASSUME ListenCommand \/ DialogReply PROVE Good
  BY <1>1, <1>7 DEF ListenCommand, DialogReply
<1>8. ASSUME UNCHANGED vars PROVE Good
  BY <1>1, <1>8 DEF vars
<1> HIDE DEF Good
<1>9. Good
  BY <1>2, <1>3, <1>4, <1>5, <1>6, <1>7, <1>8 DEF Next, Builtin
<1> QED
  BY <1>9 DEF Good

LEMMA ChatInv == Spec => [](TypeOK /\ HandleInv)
<1>1. Init => TypeOK /\ HandleInv
  <2> SUFFICES ASSUME Init PROVE TypeOK
    BY InitHandles
  <2>1. queue \in [Scripts -> Seq(Events)]
    BY EventType DEF Init
  <2>2. dialogs \in Seq(Dialogs)
    BY DEF Init
  <2>3. HandleInv
    BY InitHandles
  <2> QED
    BY <2>1, <2>2, <2>3 DEF Init, TypeOK, HandleInv, Registries
<1>2. TypeOK /\ HandleInv /\ [Next]_vars => (TypeOK /\ HandleInv)'
  <2> SUFFICES ASSUME TypeOK, HandleInv, [Next]_vars PROVE (TypeOK /\ HandleInv)'
    OBVIOUS
  <2>1. HandleInv'
    BY HandleInvKept
  <2>2. listens' \in [Scripts -> Seq(Entries)] /\ nextHandle' \in 1 .. (MaxHandle + 1)
    BY <2>1 DEF HandleInv, Registries
  <2>3. queue' \in [Scripts -> Seq(Events)] /\ dialogs' \in Seq(Dialogs)
    BY TalkTypes DEF Queues
  <2> QED
    BY <2>1, <2>2, <2>3, LoopTypes DEF TypeOK
<1> QED
  BY <1>1, <1>2, PTL DEF Spec

\* In any region the lists and the queues hold what they are for: what is said has a
\* speaker, a name and a channel, and a reply goes to a script and on a channel.
THEOREM ChatTypes == Spec => []TypeOK
BY ChatInv, PTL

----------------------------------------------------------------------------
(* The ears of Hearing: an entry of a list is one *)

EarOf(s, entry) ==
  [script |-> s, handle |-> entry.handle, filter |-> entry.filter, on |-> entry.active]

EarsAreThese ==
  \A e : e \in Ears <=> \E s \in Scripts : \E k \in DOMAIN listens[s] : e = EarOf(s, listens[s][k])

LEMMA EarsAre == EarsAreThese
<1>1. Ears = UNION {{EarOf(s, listens[s][k]) : k \in DOMAIN listens[s]} : s \in Scripts}
  BY DEF Ears, EarOf
<1> HIDE DEF EarOf
<1> QED
  BY <1>1 DEF EarsAreThese

LEMMA EarsOfAre ==
  ASSUME NEW s \in Scripts
  PROVE  \A e : e \in Talk!EarsOf(s) <=> \E k \in DOMAIN listens[s] : e = EarOf(s, listens[s][k])
<1>1. \A t, k : EarOf(t, listens[t][k]).script = t
  BY DEF EarOf
<1> HIDE DEF EarOf
<1>2. \A e : e \in Talk!EarsOf(s) <=> e \in Ears /\ e.script = s
  BY DEF Talk!EarsOf
<1> QED
  BY <1>1, <1>2, EarsAre DEF EarsAreThese

\* The list of one script changes: the ears of the others stay.
LEMMA EarsAfter ==
  ASSUME listens \in Registries, NEW s \in Scripts, NEW list, listens' = [listens EXCEPT ![s] = list]
  PROVE  \A e : e \in Ears' <=> \/ e \in Ears /\ e \notin Talk!EarsOf(s)
                                \/ \E k \in DOMAIN list : e = EarOf(s, list[k])
<1>1. \A e : e \in Ears' <=>
               \E t \in Scripts : \E k \in DOMAIN listens'[t] : e = EarOf(t, listens'[t][k])
  <2>1. EarsAreThese'
    BY EarsAre, PTL
  <2> QED
    BY <2>1 DEF EarsAreThese, EarOf
<1>2. listens'[s] = list /\ \A t \in Scripts : t # s => listens'[t] = listens[t]
  BY DEF Registries
<1>3. \A t, u, x, y : EarOf(t, x) = EarOf(u, y) => t = u
  BY DEF EarOf
<1>4. \A e : e \in Ears /\ e \notin Talk!EarsOf(s) <=>
               \E t \in Scripts : t # s /\ \E k \in DOMAIN listens[t] : e = EarOf(t, listens[t][k])
  BY <1>3, EarsAre, EarsOfAre DEF EarsAreThese
<1> QED
  BY <1>1, <1>2, <1>4

\* Two entries of a list are two ears: their handles tell them apart.
LEMMA EarsApart ==
  ASSUME HandleInv, NEW s \in Scripts, NEW j \in DOMAIN listens[s], NEW k \in DOMAIN listens[s],
         EarOf(s, listens[s][j]) = EarOf(s, listens[s][k])
  PROVE  j = k
<1>1. listens[s][j].handle = listens[s][k].handle
  BY DEF EarOf
<1> QED
  BY <1>1 DEF HandleInv, HandlesUnique

\* A script has as many ears among those that hear as places in its list.
LEMMA EarsCounted ==
  ASSUME HandleInv, NEW s \in Scripts, NEW places \in SUBSET (DOMAIN listens[s]), NEW heard,
         \A k \in DOMAIN listens[s] : EarOf(s, listens[s][k]) \in heard <=> k \in places
  PROVE  Cardinality(heard \cap Talk!EarsOf(s)) = Cardinality(places)
<1> DEFINE T == heard \cap Talk!EarsOf(s)
           f == [k \in places |-> EarOf(s, listens[s][k])]
<1>1. IsFiniteSet(places)
  BY PlacesCounted
<1>2. \A k \in places : f[k] \in T
  BY EarsOfAre
<1>3. f \in [places -> T]
  BY <1>2
<1>4. \A j, k \in places : f[j] = f[k] => j = k
  <2>1. \A k \in places : f[k] = EarOf(s, listens[s][k]) /\ k \in DOMAIN listens[s]
    OBVIOUS
  <2> HIDE DEF f
  <2> QED
    BY <2>1, EarsApart
<1>5. \A e \in T : \E k \in places : f[k] = e
  BY EarsOfAre
<1> HIDE DEF T, f
<1>6. f \in Bijection(places, T)
  <2>1. f \in Injection(places, T)
    BY <1>3, <1>4 DEF Injection, IsInjective
  <2>2. f \in Surjection(places, T)
    BY <1>3, <1>5 DEF Surjection
  <2> QED
    BY <2>1, <2>2 DEF Bijection
<1>7. ExistsBijection(places, T)
  BY <1>6 DEF ExistsBijection
<1>8. Cardinality(T) = Cardinality(places)
  BY <1>1, <1>7, FS_Bijection
<1> QED
  BY <1>8 DEF T

LEMMA SameCardinality ==
  ASSUME NEW S
  PROVE  Talk!Cardinality(S) = Cardinality(S)
BY DEF Talk!Cardinality, Cardinality

LEMMA NothingHeard ==
  ASSUME NEW q \in Seq(Events), NEW m
  PROVE  q \o Talk!Copies(m, 0) = q
<1>1. Talk!Copies(m, 0) = <<>>
  BY DEF Talk!Copies
<1> QED
  BY <1>1, ConcatEmptySeq

\* route_listen reaches every ear that the message passes.
LEMMA RouteReaches ==
  ASSUME HandleInv, NEW m, Route(m)
  PROVE  Talk!Reach({e \in Ears : e.on /\ Talk!Passes(e.filter, m)}, m)
<1> DEFINE heard == {e \in Ears : e.on /\ Talk!Passes(e.filter, m)}
<1>1. ASSUME NEW s \in Scripts
      PROVE  Copies(Matching(s, m), m) = Talk!Copies(m, Cardinality(heard \cap Talk!EarsOf(s)))
  <2>1. \A k \in DOMAIN listens[s] : EarOf(s, listens[s][k]) \in heard <=> k \in Matching(s, m)
    <3> TAKE k \in DOMAIN listens[s]
    <3>1. EarOf(s, listens[s][k]) \in Ears
      BY EarsAre DEF EarsAreThese
    <3>2. /\ EarOf(s, listens[s][k]).on = listens[s][k].active
          /\ EarOf(s, listens[s][k]).filter = listens[s][k].filter
      BY DEF EarOf
    <3> QED
      BY <3>1, <3>2 DEF Matching, Matches, Talk!Passes
  <2>2. Matching(s, m) \in SUBSET (DOMAIN listens[s])
    BY DEF Matching
  <2> HIDE DEF heard
  <2>3. Cardinality(heard \cap Talk!EarsOf(s)) = Cardinality(Matching(s, m))
    BY <2>1, <2>2, EarsCounted
  <2> QED
    BY <2>3 DEF Copies, Talk!Copies
<1> HIDE DEF heard
<1>2. Talk!Reach(heard, m)
  BY <1>1, SameCardinality DEF Route, Talk!Reach
<1> QED
  BY <1>2 DEF heard

\* What is said to one script reaches its ears on the channel, and no other.
LEMMA RouteToReaches ==
  ASSUME HandleInv, queue \in Queues, NEW t \in Scripts, NEW m, RouteTo(t, m)
  PROVE  Talk!Reach({e \in Talk!EarsOf(t) : Talk!On(e, m.channel)}, m)
<1> DEFINE heard == {e \in Talk!EarsOf(t) : Talk!On(e, m.channel)}
           all(s) == queue[s] \o Talk!Copies(m, Cardinality(heard \cap Talk!EarsOf(s)))
<1>1. all(t) = queue[t] \o Copies(OnChannel(t, m.channel), m)
  <2>1. \A k \in DOMAIN listens[t] : EarOf(t, listens[t][k]) \in heard <=> k \in OnChannel(t, m.channel)
    <3> TAKE k \in DOMAIN listens[t]
    <3>1. EarOf(t, listens[t][k]) \in Talk!EarsOf(t)
      BY EarsOfAre
    <3>2. /\ EarOf(t, listens[t][k]).on = listens[t][k].active
          /\ EarOf(t, listens[t][k]).filter = listens[t][k].filter
      BY DEF EarOf
    <3> QED
      BY <3>1, <3>2 DEF OnChannel, Talk!On
  <2>2. OnChannel(t, m.channel) \in SUBSET (DOMAIN listens[t])
    BY DEF OnChannel
  <2> HIDE DEF heard
  <2>3. Cardinality(heard \cap Talk!EarsOf(t)) = Cardinality(OnChannel(t, m.channel))
    BY <2>1, <2>2, EarsCounted
  <2> QED
    BY <2>3 DEF Copies, Talk!Copies
<1>2. ASSUME NEW s \in Scripts, s # t PROVE all(s) = queue[s]
  <2>1. heard \cap Talk!EarsOf(s) = {}
    BY <1>2 DEF Talk!EarsOf
  <2>2. queue[s] \in Seq(Events)
    BY DEF Queues
  <2> QED
    BY <2>1, <2>2, NothingHeard, FS_EmptySet
<1>3. queue' = [s \in Scripts |-> all(s)]
  <2>1. queue' = [queue EXCEPT ![t] = @ \o Copies(OnChannel(t, m.channel), m)]
    BY DEF RouteTo, Push
  <2> HIDE DEF all
  <2> QED
    BY <1>1, <1>2, <2>1 DEF Queues
<1> QED
  BY <1>3, SameCardinality DEF Talk!Reach

----------------------------------------------------------------------------
(* The actions of Hearing, of these ears and this mail *)

Given == 1 .. (nextHandle - 1)
Asking == [a \in Avatars |-> Question(a)]

LEMMA SameEars == UNCHANGED listens => UNCHANGED Ears
BY DEF Ears

LEMMA SameGiven == UNCHANGED nextHandle => UNCHANGED Given
BY DEF Given

LEMMA SameAsking == UNCHANGED dialogs => UNCHANGED Asking
BY DEF Asking, Question, For, FirstFor

LEMMA TalkOpen ==
  Talk!Open <=> /\ \E s \in Scripts, f \in Filters, h \in (1 .. MaxHandle) \ Given :
                     /\ Ears' = Ears \cup {[script |-> s, handle |-> h, filter |-> f, on |-> TRUE]}
                     /\ Given' = Given \cup {h}
                /\ UNCHANGED <<queue, Asking>>
BY DEF Talk!Open, Talk!Filters, Talk!Ids, Filters, Ids, Given, Asking

LEMMA TalkClose ==
  Talk!Close <=> /\ \E e \in Ears : Ears' = Ears \ {e}
                 /\ UNCHANGED <<Given, queue, Asking>>
BY DEF Talk!Close, Given, Asking

LEMMA TalkSwitch ==
  Talk!Switch <=> /\ \E e \in Ears : Ears' = (Ears \ {e}) \cup {[e EXCEPT !.on = ~@]}
                  /\ UNCHANGED <<Given, queue, Asking>>
BY DEF Talk!Switch, Given, Asking

LEMMA TalkSay ==
  Talk!Say <=> /\ \E m \in Talk!Messages : Talk!Reach({e \in Ears : e.on /\ Talk!Passes(e.filter, m)}, m)
               /\ UNCHANGED <<Ears, Given, Asking>>
BY DEF Talk!Say, Given, Asking

LEMMA TalkTell ==
  Talk!Tell <=> /\ \E m \in Talk!Messages, s \in Scripts :
                     Talk!Reach({e \in Talk!EarsOf(s) : Talk!On(e, m.channel)}, m)
                /\ UNCHANGED <<Ears, Given, Asking>>
BY DEF Talk!Tell, Given, Asking

LEMMA TalkAsk ==
  Talk!Ask <=> /\ \E a \in Avatars, q \in Talk!Questions : Asking' = [Asking EXCEPT ![a] = q]
               /\ UNCHANGED <<Ears, Given, queue>>
BY DEF Talk!Ask, Given, Asking

LEMMA TalkAnswer ==
  Talk!Answer <=> /\ \E a \in Avatars, m \in Talk!Messages :
                       /\ Asking[a] # NothingAsked
                       /\ m.id = a
                       /\ m.channel = Asking[a].channel
                       /\ Talk!Reach({e \in Talk!EarsOf(Asking[a].script) : Talk!On(e, m.channel)}, m)
                       /\ Asking' = [Asking EXCEPT ![a] = NothingAsked]
                  /\ UNCHANGED <<Ears, Given>>
BY DEF Talk!Answer, Talk!NoQuestion, NothingAsked, Given, Asking

LEMMA TalkSend ==
  Talk!Send <=> /\ \E v \in Talk!Events, to \in SUBSET Scripts :
                     queue' = [s \in Scripts |-> IF s \in to THEN Append(queue[s], v) ELSE queue[s]]
                /\ UNCHANGED <<Ears, Given, Asking>>
BY DEF Talk!Send, Given, Asking

LEMMA TalkRead ==
  Talk!Read <=> /\ \E s \in Scripts : queue[s] # <<>> /\ queue' = [queue EXCEPT ![s] = Tail(@)]
                /\ UNCHANGED <<Ears, Given, Asking>>
BY DEF Talk!Read, Given, Asking

LEMMA TalkForget ==
  Talk!Forget <=> /\ \E s \in Scripts, fresh \in {<<>>, <<Event("state_entry")>>} :
                       queue' = [queue EXCEPT ![s] = fresh]
                  /\ UNCHANGED <<Ears, Given, Asking>>
BY DEF Talk!Forget, Talk!Event, Event, Given, Asking

LEMMA TalkStutter == UNCHANGED Talk!vars <=> UNCHANGED <<Ears, Given, queue, Asking>>
BY DEF Talk!vars, Given, Asking

LEMMA TalkEvents ==
  /\ Event("state_entry") \in Talk!Events
  /\ Event("link_message") \in Talk!Events
  /\ Event("other") \in Talk!Events
BY DEF Talk!Events, Talk!Event, Event

LEMMA TalkMessage ==
  ASSUME NEW channel \in Channels, NEW name \in Names, NEW id \in Ids, NEW text \in Texts
  PROVE  Message(channel, name, id, text) \in Talk!Messages
BY DEF Message, Talk!Messages, Talk!Ids, Ids

----------------------------------------------------------------------------
(* A step of the lists is a step of the ears *)

LEMMA ListenOpens ==
  ASSUME HandleInv, NEW s \in Scripts, Listen(s)
  PROVE  Talk!Open
<1>1. PICK filter \in Heard :
        listens' = [listens EXCEPT ![s] = <<[handle |-> NextHandle, filter |-> filter, active |-> TRUE]>> \o @]
  BY DEF Listen
<1> DEFINE new == [handle |-> nextHandle, filter |-> filter, active |-> TRUE]
           old == listens[s]
           list == <<new>> \o old
<1>2. nextHandle \in 1 .. MaxHandle /\ nextHandle' = nextHandle + 1 /\ MaxHandle \in Nat
  BY ChatAssumption DEF HandleInv, Listen
<1>3. filter \in Filters /\ new \in Entries
  BY <1>2, ChatAssumption DEF Entries
<1>4. old \in Seq(Entries)
  BY DEF HandleInv, Registries
<1>5. listens' = [listens EXCEPT ![s] = list]
  BY <1>1 DEF NextHandle
<1>6. EarOf(s, new) = [script |-> s, handle |-> nextHandle, filter |-> filter, on |-> TRUE]
  BY DEF EarOf
<1> HIDE DEF new, old
<1>7. /\ DOMAIN list = 1 .. (Len(old) + 1) /\ Len(old) \in Nat /\ DOMAIN old = 1 .. Len(old)
      /\ list[1] = new /\ \A k \in 2 .. (Len(old) + 1) : list[k] = old[k - 1]
  BY <1>3, <1>4
<1> HIDE DEF list
<1>8. \A e : (\E k \in DOMAIN list : e = EarOf(s, list[k]))
               <=> e = EarOf(s, new) \/ \E k \in DOMAIN old : e = EarOf(s, old[k])
  <2> TAKE e
  <2>1. ASSUME NEW k \in DOMAIN list, e = EarOf(s, list[k])
        PROVE  e = EarOf(s, new) \/ \E j \in DOMAIN old : e = EarOf(s, old[j])
    <3>1. k = 1 \/ (k \in 2 .. (Len(old) + 1) /\ k - 1 \in DOMAIN old)
      BY <1>7, <2>1
    <3> QED
      BY <1>7, <2>1, <3>1
  <2>2. ASSUME e = EarOf(s, new) PROVE \E k \in DOMAIN list : e = EarOf(s, list[k])
    <3>1. 1 \in DOMAIN list
      BY <1>7
    <3> QED
      BY <1>7, <2>2, <3>1
  <2>3. ASSUME NEW j \in DOMAIN old, e = EarOf(s, old[j]) PROVE \E k \in DOMAIN list : e = EarOf(s, list[k])
    <3>1. j + 1 \in DOMAIN list /\ j + 1 \in 2 .. (Len(old) + 1) /\ (j + 1) - 1 = j
      BY <1>7
    <3>2. list[j + 1] = old[j]
      BY <1>7, <3>1
    <3> QED
      BY <2>3, <3>1, <3>2
  <2> QED
    BY <2>1, <2>2, <2>3
<1>9. \A e : e \in Ears' <=> e \in Ears \/ e = EarOf(s, new)
  <2>1. listens \in Registries
    BY DEF HandleInv
  <2>2. \A e : e \in Talk!EarsOf(s) <=> \E k \in DOMAIN old : e = EarOf(s, old[k])
    BY EarsOfAre DEF old
  <2>3. \A e : e \in Talk!EarsOf(s) => e \in Ears
    BY DEF Talk!EarsOf
  <2>4. \A e : e \in Ears' <=> \/ e \in Ears /\ e \notin Talk!EarsOf(s)
                               \/ \E k \in DOMAIN list : e = EarOf(s, list[k])
    BY <1>5, <2>1, EarsAfter
  <2> QED
    BY <1>8, <2>2, <2>3, <2>4
<1>10. Ears' = Ears \cup {EarOf(s, new)}
  BY <1>9
<1>11. nextHandle \in (1 .. MaxHandle) \ Given /\ Given' = Given \cup {nextHandle}
  BY <1>2 DEF Given
<1>12. UNCHANGED <<queue, Asking>>
  BY SameAsking DEF Listen
<1> HIDE DEF EarOf
<1> QED
  BY <1>3, <1>6, <1>10, <1>11, <1>12, TalkOpen

LEMMA ListenRemoveCloses ==
  ASSUME HandleInv, NEW s \in Scripts, ListenRemove(s)
  PROVE  Talk!Close
<1>1. PICK n \in DOMAIN listens[s] : listens' = [listens EXCEPT ![s] = RemoveAt(@, n)]
  BY DEF ListenRemove
<1> DEFINE old == listens[s]
           list == RemoveAt(old, n)
           gone == EarOf(s, old[n])
<1>2. listens' = [listens EXCEPT ![s] = list] /\ listens \in Registries
  BY <1>1 DEF HandleInv
<1>3. old \in Seq(Entries)
  BY DEF HandleInv, Registries
<1>4. /\ DOMAIN list = 1 .. (Len(old) - 1)
      /\ \A k \in 1 .. (Len(old) - 1) : list[k] = IF k < n THEN old[k] ELSE old[k + 1]
  BY <1>1, <1>3, EntryRemoved
<1>5. DOMAIN old = 1 .. Len(old) /\ Len(old) \in Nat /\ n \in 1 .. Len(old)
  BY <1>1, <1>3, LenProperties
<1>6. \A j \in DOMAIN old : EarOf(s, old[j]) = gone => j = n
  BY <1>1, EarsApart
<1> HIDE DEF list
<1>7. \A e : (\E k \in DOMAIN list : e = EarOf(s, list[k]))
               <=> \E j \in DOMAIN old : j # n /\ e = EarOf(s, old[j])
  <2> TAKE e
  <2>1. ASSUME NEW k \in DOMAIN list, e = EarOf(s, list[k])
        PROVE  \E j \in DOMAIN old : j # n /\ e = EarOf(s, old[j])
    <3>1. CASE k < n
      <4>1. k \in DOMAIN old /\ k # n /\ list[k] = old[k]
        BY <1>4, <1>5, <3>1
      <4> QED
        BY <2>1, <4>1
    <3>2. CASE ~(k < n)
      <4>1. k + 1 \in DOMAIN old /\ k + 1 # n /\ list[k] = old[k + 1]
        BY <1>4, <1>5, <3>2
      <4> QED
        BY <2>1, <4>1
    <3> QED
      BY <3>1, <3>2
  <2>2. ASSUME NEW j \in DOMAIN old, j # n, e = EarOf(s, old[j])
        PROVE  \E k \in DOMAIN list : e = EarOf(s, list[k])
    <3>1. CASE j < n
      <4>1. j \in DOMAIN list /\ list[j] = old[j]
        BY <1>4, <1>5, <3>1
      <4> QED
        BY <2>2, <4>1
    <3>2. CASE ~(j < n)
      <4>1. j - 1 \in 1 .. (Len(old) - 1) /\ ~(j - 1 < n) /\ (j - 1) + 1 = j
        BY <1>5, <2>2, <3>2
      <4>2. list[j - 1] = old[j]
        BY <1>4, <4>1
      <4> QED
        BY <1>4, <2>2, <4>1, <4>2
    <3> QED
      BY <3>1, <3>2
  <2> QED
    BY <2>1, <2>2
<1>8. \A e : e \in Talk!EarsOf(s) <=> \E k \in DOMAIN old : e = EarOf(s, old[k])
  BY EarsOfAre
<1>9. \A e : e \in Ears' <=> \/ e \in Ears /\ e \notin Talk!EarsOf(s)
                             \/ \E k \in DOMAIN list : e = EarOf(s, list[k])
  BY <1>2, EarsAfter
<1>10. \A e : e \in Talk!EarsOf(s) => e \in Ears
  BY DEF Talk!EarsOf
<1> HIDE DEF old
<1>11. gone \in Talk!EarsOf(s)
  BY <1>5, <1>8
<1> HIDE DEF gone
<1>12. \A e : e \in Ears' <=> e \in Ears /\ e # gone
  <2>1. \A e : (\E j \in DOMAIN old : j # n /\ e = EarOf(s, old[j])) <=> e \in Talk!EarsOf(s) /\ e # gone
    BY <1>6, <1>8 DEF gone
  <2> QED
    BY <1>7, <1>9, <1>10, <1>11, <2>1
<1>13. gone \in Ears /\ Ears' = Ears \ {gone}
  BY <1>10, <1>11, <1>12
<1>14. UNCHANGED <<Given, queue, Asking>>
  BY SameGiven, SameAsking DEF ListenRemove
<1> QED
  BY <1>13, <1>14, TalkClose

LEMMA ListenControlSwitches ==
  ASSUME HandleInv, NEW s \in Scripts, ListenControl(s)
  PROVE  Talk!Switch \/ UNCHANGED Talk!vars
<1>1. PICK h \in 1 .. MaxHandle, on \in BOOLEAN :
        listens' = [listens EXCEPT ![s] =
                      [k \in DOMAIN @ |-> IF @[k].handle = h THEN [@[k] EXCEPT !.active = on] ELSE @[k]]]
  BY DEF ListenControl
<1> DEFINE old == listens[s]
           list == [k \in DOMAIN old |-> IF old[k].handle = h THEN [old[k] EXCEPT !.active = on] ELSE old[k]]
<1>2. listens' = [listens EXCEPT ![s] = list] /\ listens \in Registries
  BY <1>1 DEF HandleInv
<1>3. old \in Seq(Entries)
  BY DEF HandleInv, Registries
<1>4. \A k \in DOMAIN old : old[k] \in Entries
  BY <1>3, ElementOfSeq, LenProperties
<1>5. DOMAIN list = DOMAIN old /\
      \A k \in DOMAIN old : list[k] = IF old[k].handle = h THEN [old[k] EXCEPT !.active = on] ELSE old[k]
  OBVIOUS
<1>6. \A k \in DOMAIN old : old[k].handle # h => EarOf(s, list[k]) = EarOf(s, old[k])
  BY <1>5
<1>7. \A k \in DOMAIN old : old[k].handle = h =>
        EarOf(s, list[k]) = [script |-> s, handle |-> old[k].handle, filter |-> old[k].filter, on |-> on]
  BY <1>4, <1>5 DEF EarOf, Entries
<1>8. \A j, k \in DOMAIN old : old[j].handle = old[k].handle => j = k
  BY DEF HandleInv, HandlesUnique
<1>9. \A e : e \in Talk!EarsOf(s) <=> \E k \in DOMAIN old : e = EarOf(s, old[k])
  BY EarsOfAre
<1>10. \A j, k \in DOMAIN old : EarOf(s, old[j]) = EarOf(s, old[k]) => j = k
  BY EarsApart
<1> HIDE DEF list
<1>11. \A e : e \in Ears' <=> \/ e \in Ears /\ e \notin Talk!EarsOf(s)
                              \/ \E k \in DOMAIN list : e = EarOf(s, list[k])
  BY <1>2, EarsAfter
<1>12. \A e : e \in Talk!EarsOf(s) => e \in Ears
  BY DEF Talk!EarsOf
<1>13. UNCHANGED <<Given, queue, Asking>>
  BY SameGiven, SameAsking DEF ListenControl
<1> HIDE DEF old
<1>14. CASE \E k \in DOMAIN old : old[k].handle = h /\ old[k].active # on
  <2>1. PICK n \in DOMAIN old : old[n].handle = h /\ old[n].active # on
    BY <1>14
  <2> DEFINE ear == EarOf(s, old[n])
             turned == [ear EXCEPT !.on = ~@]
  <2>2. turned = EarOf(s, list[n])
    <3>1. old[n].active \in BOOLEAN /\ on = ~old[n].active
      BY <1>1, <1>4, <2>1 DEF Entries
    <3> QED
      BY <1>7, <2>1, <3>1 DEF EarOf
  <2>3. \A k \in DOMAIN old : k # n => old[k].handle # h
    BY <1>8, <2>1
  <2>4. \A k \in DOMAIN old : k # n => EarOf(s, list[k]) = EarOf(s, old[k])
    BY <1>6, <2>3
  <2>5. \A k \in DOMAIN old : EarOf(s, old[k]) = ear => k = n
    BY <1>10
  <2>6. ear \in Talk!EarsOf(s)
    BY <1>9
  <2> HIDE DEF ear, turned
  <2>7. \A e : (\E k \in DOMAIN list : e = EarOf(s, list[k]))
                 <=> e = turned \/ (e \in Talk!EarsOf(s) /\ e # ear)
    <3> TAKE e
    <3>1. ASSUME NEW k \in DOMAIN list, e = EarOf(s, list[k])
          PROVE  e = turned \/ (e \in Talk!EarsOf(s) /\ e # ear)
      <4>1. CASE k = n
        BY <2>2, <3>1, <4>1
      <4>2. CASE k # n
        BY <1>5, <1>9, <2>4, <2>5, <3>1, <4>2
      <4> QED
        BY <4>1, <4>2
    <3>2. ASSUME e = turned PROVE \E k \in DOMAIN list : e = EarOf(s, list[k])
      BY <1>5, <2>2, <3>2
    <3>3. ASSUME e \in Talk!EarsOf(s), e # ear PROVE \E k \in DOMAIN list : e = EarOf(s, list[k])
      <4>1. PICK k \in DOMAIN old : e = EarOf(s, old[k])
        BY <1>9, <3>3
      <4>2. k # n
        BY <3>3, <4>1 DEF ear
      <4> QED
        BY <1>5, <2>4, <4>1, <4>2
    <3> QED
      BY <3>1, <3>2, <3>3
  <2>8. \A e : e \in Ears' <=> (e \in Ears /\ e # ear) \/ e = turned
    BY <1>11, <1>12, <2>6, <2>7
  <2>9. ear \in Ears /\ Ears' = (Ears \ {ear}) \cup {turned}
    BY <1>12, <2>6, <2>8
  <2>10. \E e \in Ears : Ears' = (Ears \ {e}) \cup {[e EXCEPT !.on = ~@]}
    BY <2>9 DEF turned
  <2> QED
    BY <1>13, <2>10, TalkSwitch
<1>15. CASE \A k \in DOMAIN old : old[k].handle = h => old[k].active = on
  <2>1. \A k \in DOMAIN old : EarOf(s, list[k]) = EarOf(s, old[k])
    <3> TAKE k \in DOMAIN old
    <3>1. CASE old[k].handle # h
      BY <1>6, <3>1
    <3>2. CASE old[k].handle = h
      BY <1>7, <1>15, <3>2 DEF EarOf
    <3> QED
      BY <3>1, <3>2
  <2>2. \A e : (\E k \in DOMAIN list : e = EarOf(s, list[k])) <=> e \in Talk!EarsOf(s)
    BY <1>5, <1>9, <2>1
  <2>3. \A e : e \in Ears' <=> e \in Ears
    BY <1>11, <1>12, <2>2
  <2>4. Ears' = Ears
    BY <2>3
  <2> QED
    BY <1>13, <2>4, TalkStutter
<1> QED
  BY <1>14, <1>15

----------------------------------------------------------------------------
(* Every step is a step of Hearing, or none *)

LEMMA HearingStep ==
  ASSUME TypeOK, HandleInv, [Next]_vars
  PROVE  [Talk!Next]_(Talk!vars)
<1>1. /\ queue \in Queues /\ dialogs \in Seq(Dialogs) /\ objectName \in [Scripts -> Names]
      /\ \A s \in Scripts : queue[s] \in Seq(Events)
  BY DEF TypeOK, Queues
<1>2. ASSUME NEW s \in Scripts, Post(s) PROVE Talk!Send
  <2>1. queue[s] \o <<Event("other")>> = Append(queue[s], Event("other"))
    BY <1>1, EventType
  <2>2. queue' = [t \in Scripts |-> IF t \in {s} THEN Append(queue[t], Event("other")) ELSE queue[t]]
    BY <1>1, <1>2, <2>1 DEF Post, Push, Queues
  <2>3. UNCHANGED <<Ears, Given, Asking>>
    BY <1>2, SameEars, SameGiven, SameAsking DEF Post
  <2>4. {s} \in SUBSET Scripts
    OBVIOUS
  <2> QED
    BY <2>2, <2>3, <2>4, TalkEvents, TalkSend
<1>3. ASSUME NEW s \in Scripts, TakeEvent(s) PROVE Talk!Read
  BY <1>3, SameEars, SameGiven, SameAsking, TalkRead DEF TakeEvent
<1>4. ASSUME NEW s \in Scripts, HandlerReturns(s) PROVE Talk!Send \/ UNCHANGED Talk!vars
  <2>1. UNCHANGED <<Ears, Given, Asking>>
    BY <1>4, SameEars, SameGiven, SameAsking DEF HandlerReturns
  <2>2. CASE entering
    <3>1. queue' = [t \in Scripts |-> IF t \in {s} THEN Append(queue[t], Event("state_entry")) ELSE queue[t]]
      BY <1>1, <1>4, <2>2 DEF HandlerReturns, Queues
    <3>2. {s} \in SUBSET Scripts
      OBVIOUS
    <3> QED
      BY <2>1, <3>1, <3>2, TalkEvents, TalkSend
  <2>3. CASE ~entering
    BY <1>4, <2>1, <2>3, TalkStutter DEF HandlerReturns
  <2> QED
    BY <2>2, <2>3
<1>5. ASSUME NEW s \in Scripts, SwitchState(s) \/ Die(s) \/ ResetScript(s) PROVE Talk!Forget
  <2>1. UNCHANGED <<Ears, Given, Asking>>
    BY <1>5, SameEars, SameGiven, SameAsking DEF SwitchState, Die, ResetScript
  <2>2. \E fresh \in {<<>>, <<Event("state_entry")>>} : queue' = [queue EXCEPT ![s] = fresh]
    BY <1>5 DEF SwitchState, Die, ResetScript
  <2> QED
    BY <2>1, <2>2, TalkForget
<1>6. ASSUME NEW s \in Scripts, SetObjectName(s) PROVE UNCHANGED Talk!vars
  BY <1>6, SameEars, SameGiven, SameAsking, TalkStutter DEF SetObjectName
<1>7. ASSUME NEW s \in Scripts, Listen(s) PROVE Talk!Open
  BY <1>7, ListenOpens
<1>8. ASSUME NEW s \in Scripts, ListenRemove(s) PROVE Talk!Close
  BY <1>8, ListenRemoveCloses
<1>9. ASSUME NEW s \in Scripts, ListenControl(s) PROVE Talk!Switch \/ UNCHANGED Talk!vars
  BY <1>9, ListenControlSwitches
<1>10. ASSUME NEW s \in Scripts, Say(s) PROVE Talk!Say
  <2>1. PICK channel \in Channels, text \in Texts : Route(Message(channel, objectName[s], s, text))
    BY <1>10 DEF Say
  <2> DEFINE m == Message(channel, objectName[s], s, text)
  <2>2. m \in Talk!Messages
    BY <1>1, TalkMessage DEF Ids
  <2>3. UNCHANGED <<Ears, Given, Asking>>
    BY <1>10, SameEars, SameGiven, SameAsking DEF Say
  <2> HIDE DEF m
  <2>4. Talk!Reach({e \in Ears : e.on /\ Talk!Passes(e.filter, m)}, m)
    BY <2>1, RouteReaches DEF m
  <2> QED
    BY <2>2, <2>3, <2>4, TalkSay
<1>11. ASSUME NEW s \in Scripts, RegionSayTo(s) PROVE Talk!Tell
  <2>1. PICK t \in Scripts, channel \in Channels, text \in Texts :
          RouteTo(t, Message(channel, objectName[s], s, text))
    BY <1>11 DEF RegionSayTo
  <2> DEFINE m == Message(channel, objectName[s], s, text)
  <2>2. m \in Talk!Messages
    BY <1>1, TalkMessage DEF Ids
  <2>3. UNCHANGED <<Ears, Given, Asking>>
    BY <1>11, SameEars, SameGiven, SameAsking DEF RegionSayTo
  <2> HIDE DEF m
  <2>4. Talk!Reach({e \in Talk!EarsOf(t) : Talk!On(e, m.channel)}, m)
    BY <1>1, <2>1, RouteToReaches DEF m
  <2> QED
    BY <2>2, <2>3, <2>4, TalkTell
<1>12. ASSUME NEW s \in Scripts, MessageLinked(s) PROVE Talk!Send
  <2>1. PICK target \in -4 .. Cardinality(Scripts) :
          PushToEach(Addressed(s, target), Event("link_message"))
    BY <1>12 DEF MessageLinked
  <2>2. Addressed(s, target) \in SUBSET Scripts
    BY DEF Addressed
  <2>3. UNCHANGED <<Ears, Given, Asking>>
    BY <1>12, SameEars, SameGiven, SameAsking DEF MessageLinked
  <2> QED
    BY <2>1, <2>2, <2>3, TalkEvents, TalkSend DEF PushToEach
<1>13. ASSUME NEW s \in Scripts, Dialog(s) PROVE Talk!Ask
  <2>1. PICK a \in Avatars, channel \in Asked :
          dialogs' = <<[script |-> s, avatar |-> a, channel |-> channel]>> \o dialogs
    BY <1>13 DEF Dialog
  <2> DEFINE d == [script |-> s, avatar |-> a, channel |-> channel]
  <2>2. d \in Dialogs /\ d.avatar = a /\ QuestionOf(d) \in Talk!Questions
    BY ChatAssumption DEF Dialogs, QuestionOf, Talk!Questions
  <2> HIDE DEF d
  <2>3. dialogs' = <<d>> \o dialogs
    BY <2>1 DEF d
  <2>4. \A b : Question(b)' = IF b = a THEN QuestionOf(d) ELSE Question(b)
    BY <1>1, <2>2, <2>3, QuestionAsked
  <2>5. Asking' = [Asking EXCEPT ![a] = QuestionOf(d)]
    BY <2>4 DEF Asking
  <2>6. UNCHANGED <<Ears, Given, queue>>
    BY <1>13, SameEars, SameGiven DEF Dialog
  <2> QED
    BY <2>2, <2>5, <2>6, TalkAsk
<1>14. ASSUME LoopEnds PROVE UNCHANGED Talk!vars
  BY <1>14, SameEars, SameGiven, SameAsking, TalkStutter DEF LoopEnds
<1>15. ASSUME ListenCommand PROVE Talk!Say
  <2>1. PICK channel \in Channels, text \in Texts :
          \/ \E a \in Avatars : Route(Message(channel, NameOf[a], a, text))
          \/ \E name \in Names : Route(Message(channel, name, Nobody, text))
    BY <1>15 DEF ListenCommand
  <2>2. PICK name \in Names, id \in Ids : Route(Message(channel, name, id, text))
    BY <2>1, ChatAssumption DEF Ids
  <2> DEFINE m == Message(channel, name, id, text)
  <2>3. m \in Talk!Messages
    BY TalkMessage
  <2>4. UNCHANGED <<Ears, Given, Asking>>
    BY <1>15, SameEars, SameGiven, SameAsking DEF ListenCommand
  <2> HIDE DEF m
  <2>5. Talk!Reach({e \in Ears : e.on /\ Talk!Passes(e.filter, m)}, m)
    BY <2>2, RouteReaches DEF m
  <2> QED
    BY <2>3, <2>4, <2>5, TalkSay
<1>16. ASSUME DialogReply PROVE Talk!Answer
  <2>1. PICK a \in Avatars, text \in Texts :
          /\ For(a) # {}
          /\ RouteTo(FirstFor(a).script, Message(FirstFor(a).channel, NameOf[a], a, text))
          /\ dialogs' = Without(a)
    BY <1>16 DEF DialogReply
  <2> DEFINE to == FirstFor(a).script
             channel == FirstFor(a).channel
             m == Message(channel, NameOf[a], a, text)
  <2>2. to \in Scripts /\ channel \in Channels
    BY <1>1, <2>1, FirstForType
  <2>3. Asking[a] = [script |-> to, channel |-> channel] /\ Asking[a].script = to /\ Asking[a].channel = channel
    BY <2>1 DEF Asking, Question
  <2>4. Asking[a] # NothingAsked
    <3>1. NothingAsked.script = NoScript /\ NoScript \notin Scripts
      BY ChatAssumption DEF NothingAsked
    <3> HIDE DEF to, channel
    <3> QED
      BY <2>2, <2>3, <3>1
  <2>5. m \in Talk!Messages /\ m.id = a /\ m.channel = channel
    <3>1. NameOf[a] \in Names /\ a \in Ids
      BY ChatAssumption DEF Ids
    <3> HIDE DEF channel
    <3> QED
      BY <2>2, <3>1, TalkMessage DEF Message
  <2> HIDE DEF m, to, channel
  <2>6. Talk!Reach({e \in Talk!EarsOf(to) : Talk!On(e, m.channel)}, m)
    BY <1>1, <2>1, <2>2, RouteToReaches DEF m, to, channel
  <2>7. \A b : Question(b)' = IF b = a THEN NothingAsked ELSE Question(b)
    BY <1>1, <2>1, QuestionClosed
  <2>8. Asking' = [Asking EXCEPT ![a] = NothingAsked]
    BY <2>7 DEF Asking
  <2>9. UNCHANGED <<Ears, Given>>
    BY <1>16, SameEars, SameGiven DEF DialogReply
  <2>10. /\ Asking[a] # NothingAsked
         /\ m.id = a
         /\ m.channel = Asking[a].channel
         /\ Talk!Reach({e \in Talk!EarsOf(Asking[a].script) : Talk!On(e, m.channel)}, m)
         /\ Asking' = [Asking EXCEPT ![a] = NothingAsked]
    BY <2>3, <2>4, <2>5, <2>6, <2>8
  <2> HIDE DEF Talk!Reach
  <2> QED
    BY <2>5, <2>9, <2>10, TalkAnswer
<1>17. ASSUME UNCHANGED vars PROVE UNCHANGED Talk!vars
  BY <1>17, SameEars, SameGiven, SameAsking, TalkStutter DEF vars
<1>18. ASSUME Next PROVE Talk!Next \/ UNCHANGED Talk!vars
  BY <1>2, <1>3, <1>4, <1>5, <1>6, <1>7, <1>8, <1>9, <1>10, <1>11, <1>12, <1>13, <1>14, <1>15, <1>16, <1>18
     DEF Next, Builtin, Talk!Next
<1> QED
  BY <1>17, <1>18

LEMMA HearingInit == Init => Talk!Init
<1> SUFFICES ASSUME Init PROVE Talk!Init
  OBVIOUS
<1>1. Ears = {}
  <2>1. \A s \in Scripts : DOMAIN listens[s] = {}
    BY DEF Init
  <2> QED
    BY <2>1, EarsAre DEF EarsAreThese
<1>2. Given = {}
  BY DEF Given, Init
<1>3. Asking = [a \in Avatars |-> NothingAsked]
  <2>1. dialogs \in Seq(Dialogs) /\ \A a : \A k \in DOMAIN dialogs : dialogs[k].avatar # a
    BY DEF Init
  <2>2. \A a \in Avatars : Question(a) = NothingAsked
    BY <2>1, QuestionIs
  <2> QED
    BY <2>2 DEF Asking
<1> QED
  BY <1>1, <1>2, <1>3 DEF Init, Given, Asking, NothingAsked, Talk!Init, Talk!NoQuestion, Talk!Event, Event

\* However listens are opened, switched and removed, whatever is said and by whom, a
\* message reaches each listen that is open and passes it, once, and no other; and a
\* reply goes to the script that asked last, on its channel, after which the avatar
\* has no question left.  The list walks of route_listen, llListenRemove, dialog_find
\* and dialog_close promise no less and do no more than Hearing says.
THEOREM HearingImplemented == Spec => HearingSpec
<1>1. TypeOK /\ HandleInv /\ [Next]_vars => [Talk!Next]_(Talk!vars)
  BY HearingStep
<1> QED
  BY <1>1, HearingInit, ChatInv, PTL DEF Spec, HearingSpec, Talk!Spec

=============================================================================
