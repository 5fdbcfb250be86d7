----------------------------- MODULE HttpProofs -----------------------------
(***************************************************************************)
(* Proofs about Http: it implements Exchange, whatever the fixtures, the   *)
(* scripts and the calls, and of the lines of fixtures the later one wins. *)
(***************************************************************************)
EXTENDS Http, Induction, SequenceTheorems, TLAPS

AllAnswers == [status : Statuses \cup {DefaultStatus}, body : Bodies \cup {NoBody}] \cup {NoMatch}
Fixtures ==
  [match : Patterns \cup {NoPattern}, status : Statuses \cup {DefaultStatus}, body : Bodies \cup {NoBody}]
Urls == [id : Nat, target : Scripts]
Events == [type : {"http_response", "http_request_granted", "http_request"}, id : Nat, answer : AllAnswers]

\* A line can only be about the first entry if there is one, and handlers run
\* only when everything has been read.
TypeInv ==
  /\ real \in BOOLEAN
  /\ phase \in {"file", "config", "running"}
  /\ fixtures \in Seq(Fixtures)
  /\ open \in BOOLEAN
  /\ open => fixtures # <<>>
  /\ inbound \in Seq(Urls)
  /\ nextId \in Nat
  /\ queue \in [Scripts -> Seq(Events)]
  /\ running \in Scripts \cup {NoScript}
  /\ running # NoScript => phase = "running"

\* The URLs are linked in at the head as their ids grow.
UrlInv ==
  /\ \A k \in DOMAIN inbound : inbound[k].id < nextId
  /\ \A j, k \in DOMAIN inbound : j < k => inbound[j].id > inbound[k].id

----------------------------------------------------------------------------
(* The lists *)

\* A list with a new head.
LEMMA LinkedIn ==
  ASSUME NEW S, NEW e \in S, NEW q \in Seq(S)
  PROVE  /\ <<e>> \o q \in Seq(S)
         /\ DOMAIN (<<e>> \o q) = 1 .. (Len(q) + 1)
         /\ (<<e>> \o q)[1] = e
         /\ \A k \in 1 .. Len(q) : (<<e>> \o q)[k + 1] = q[k]
<1>1. <<e>> \in Seq(S) /\ Len(<<e>>) = 1 /\ <<e>>[1] = e /\ Len(q) \in Nat
  BY LenProperties
<1>2. /\ <<e>> \o q \in Seq(S)
      /\ Len(<<e>> \o q) = 1 + Len(q)
      /\ \A k \in 1 .. (1 + Len(q)) : (<<e>> \o q)[k] = IF k <= 1 THEN <<e>>[k] ELSE q[k - 1]
  BY <1>1, ConcatProperties
<1>3. ASSUME NEW k \in 1 .. Len(q) PROVE (<<e>> \o q)[k + 1] = q[k]
  <2>1. k + 1 \in 1 .. (1 + Len(q)) /\ ~(k + 1 <= 1) /\ (k + 1) - 1 = k
    BY <1>1
  <2> QED
    BY <1>2, <2>1
<1> QED
  BY <1>1, <1>2, <1>3, LenProperties

\* What a line does to the first entry; the others stay.
LEMMA SettingFirst ==
  ASSUME NEW list \in Seq(Fixtures), list # <<>>, NEW line \in SettingLines \cup {Line("other", NoBody)}
  PROVE  /\ Setting(list, line) \in Seq(Fixtures)
         /\ DOMAIN Setting(list, line) = DOMAIN list
         /\ Setting(list, line)[1] =
              [match |-> IF line.key = "url" THEN line.value ELSE list[1].match,
               status |-> IF line.key = "status" THEN line.value ELSE list[1].status,
               body |-> IF line.key = "body" THEN line.value ELSE list[1].body]
         /\ \A k \in DOMAIN list \ {1} : Setting(list, line)[k] = list[k]
<1>1. 1 \in 1 .. Len(list) /\ DOMAIN list = 1 .. Len(list) /\ list[1] \in Fixtures
  BY EmptySeq, LenProperties, ElementOfSeq
<1> DEFINE first == [match |-> IF line.key = "url" THEN line.value ELSE list[1].match,
                     status |-> IF line.key = "status" THEN line.value ELSE list[1].status,
                     body |-> IF line.key = "body" THEN line.value ELSE list[1].body]
<1>2. first \in Fixtures
  BY <1>1 DEF SettingLines, Line, Fixtures
<1>3. Setting(list, line) = [list EXCEPT ![1] = first]
  <2>1. list[1] = [match |-> list[1].match, status |-> list[1].status, body |-> list[1].body]
    BY <1>1 DEF Fixtures
  <2>2. CASE line.key = "url"
    <3>1. Setting(list, line) = [list EXCEPT ![1].match = line.value]
      BY <2>2 DEF Setting
    <3>2. first = [list[1] EXCEPT !.match = line.value]
      BY <1>1, <2>2 DEF Fixtures
    <3> QED
      BY <1>1, <3>1, <3>2
  <2>3. CASE line.key = "status"
    <3>1. Setting(list, line) = [list EXCEPT ![1].status = line.value]
      BY <2>3 DEF Setting
    <3>2. first = [list[1] EXCEPT !.status = line.value]
      BY <1>1, <2>3 DEF Fixtures
    <3> QED
      BY <1>1, <3>1, <3>2
  <2>4. CASE line.key = "body"
    <3>1. Setting(list, line) = [list EXCEPT ![1].body = line.value]
      BY <2>4 DEF Setting
    <3>2. first = [list[1] EXCEPT !.body = line.value]
      BY <1>1, <2>4 DEF Fixtures
    <3> QED
      BY <1>1, <3>1, <3>2
  <2>5. CASE line = Line("other", NoBody)
    <3>1. line.key = "other"
      BY <2>5 DEF Line
    <3>2. first = list[1] /\ Setting(list, line) = list
      BY <2>1, <3>1 DEF Setting
    <3> QED
      BY <1>1, <3>2
  <2> QED
    BY <2>2, <2>3, <2>4, <2>5 DEF SettingLines, Line
<1> HIDE DEF first
<1> QED
  BY <1>1, <1>2, <1>3, ExceptSeq, LenProperties DEF first

LEMMA EntryType == Entry \in Fixtures
BY DEF Entry, Fixtures

\* With any fixtures there is an answer to a request.
LEMMA MatchType ==
  ASSUME fixtures \in Seq(Fixtures), NEW address \in Outside
  PROVE  Match(address) \in AllAnswers
<1> DEFINE hits == {k \in DOMAIN fixtures : fixtures[k].match \in Within[address]}
<1>1. CASE hits = {}
  BY <1>1 DEF Match, AllAnswers
<1>2. CASE hits # {}
  <2>1. DOMAIN fixtures = 1 .. Len(fixtures) /\ Len(fixtures) \in Nat
    BY LenProperties
  <2>2. hits \in SUBSET Nat
    BY <2>1
  <2>3. Min(hits) \in hits
    <3> HIDE DEF hits
    <3> QED
      BY <1>2, <2>2, MinIsLeast
  <2>4. fixtures[Min(hits)] \in Fixtures
    BY <2>1, <2>3, ElementOfSeq
  <2>5. Match(address) = Answer(fixtures[Min(hits)].status, fixtures[Min(hits)].body)
    BY <1>2 DEF Match
  <2> HIDE DEF hits
  <2> QED
    BY <2>4, <2>5 DEF Fixtures, Answer, AllAnswers
<1> QED
  BY <1>1, <1>2

\* The list of entries when a line begins one.
LEMMA BegunType ==
  ASSUME NEW entries \in Seq(Fixtures)
  PROVE  /\ WithEntry(entries) \in Seq(Fixtures)
         /\ WithEntry(entries) # <<>>
         /\ DOMAIN WithEntry(entries) = 1 .. (Len(entries) + 1)
         /\ WithEntry(entries)[1] = Entry
         /\ \A k \in 1 .. Len(entries) : WithEntry(entries)[k + 1] = entries[k]
<1>1. /\ WithEntry(entries) \in Seq(Fixtures)
      /\ DOMAIN WithEntry(entries) = 1 .. (Len(entries) + 1)
      /\ WithEntry(entries)[1] = Entry
      /\ \A k \in 1 .. Len(entries) : WithEntry(entries)[k + 1] = entries[k]
  BY EntryType, LinkedIn DEF WithEntry
<1>2. Len(entries) \in Nat /\ 1 \in 1 .. (Len(entries) + 1)
  BY LenProperties
<1>3. DOMAIN <<>> = {}
  OBVIOUS
<1> QED
  BY <1>1, <1>2, <1>3

----------------------------------------------------------------------------
(* Types *)

LEMMA InitType == Init => TypeInv /\ UrlInv
<1> SUFFICES ASSUME Init PROVE TypeInv /\ UrlInv
  OBVIOUS
<1>1. queue \in [Scripts -> Seq(Events)]
  BY DEF Init
<1>2. fixtures \in Seq(Fixtures) /\ inbound \in Seq(Urls) /\ DOMAIN inbound = {}
  BY DEF Init
<1>3. /\ real \in BOOLEAN /\ phase = "file" /\ open = FALSE /\ nextId \in Nat
      /\ running = NoScript
  BY DEF Init
<1> QED
  BY <1>1, <1>2, <1>3 DEF TypeInv, UrlInv

LEMMA PushType ==
  ASSUME TypeInv, NEW s \in Scripts, NEW e \in Events, Push(s, e)
  PROVE  queue' \in [Scripts -> Seq(Events)]
<1>1. Append(queue[s], e) \in Seq(Events)
  BY AppendProperties DEF TypeInv
<1> QED
  BY <1>1 DEF Push, TypeInv

LEMMA UrlTypes ==
  ASSUME TypeInv
  PROVE  /\ DOMAIN inbound = 1 .. Len(inbound) /\ Len(inbound) \in Nat
         /\ \A k \in DOMAIN inbound : inbound[k].id \in Nat /\ inbound[k].target \in Scripts
<1>1. DOMAIN inbound = 1 .. Len(inbound) /\ Len(inbound) \in Nat
  BY LenProperties DEF TypeInv
<1>2. \A k \in DOMAIN inbound : inbound[k] \in Urls
  BY <1>1, ElementOfSeq DEF TypeInv
<1> QED
  BY <1>1, <1>2 DEF Urls

\* The script that HTTP_IN calls: that of the URL granted last, of those in the text.
LEMMA ResolveFirst ==
  ASSUME TypeInv, UrlInv, NEW named, NEW exact, Resolve(named, exact) # NoScript
  PROVE  \E k \in DOMAIN inbound :
           /\ inbound[k].id \in named
           /\ \A j \in DOMAIN inbound : inbound[j].id \in named => inbound[j].id <= inbound[k].id
           /\ Resolve(named, exact) = inbound[k].target
<1> DEFINE same == {k \in DOMAIN inbound : exact /\ named = {inbound[k].id}}
           hits == {k \in DOMAIN inbound : inbound[k].id \in named}
           places == IF same # {} THEN same ELSE hits
<1>1. DOMAIN inbound = 1 .. Len(inbound) /\ Len(inbound) \in Nat
      /\ \A k \in DOMAIN inbound : inbound[k].id \in Nat
  BY UrlTypes
<1>2. places # {} /\ Resolve(named, exact) = inbound[Min(places)].target
  BY DEF Resolve
<1>3. places \in SUBSET Nat /\ places \subseteq hits
  BY <1>1
<1>4. Min(places) \in places /\ \A k \in places : Min(places) <= k
  <2> HIDE DEF places
  <2> QED
    BY <1>2, <1>3, MinIsLeast
<1>5. Min(places) \in hits
  BY <1>3, <1>4
<1>6. ASSUME NEW j \in hits PROVE inbound[j].id <= inbound[Min(places)].id
  <2>1. CASE same # {}
    BY <1>1, <1>4, <1>6, <2>1
  <2>2. CASE same = {}
    <3>1. Min(places) <= j
      BY <1>4, <1>6, <2>2
    <3>2. j \in DOMAIN inbound /\ Min(places) \in DOMAIN inbound
      BY <1>5, <1>6
    <3> HIDE DEF places, hits, same
    <3>3. j = Min(places) \/ Min(places) < j
      BY <1>1, <3>1, <3>2
    <3> QED
      BY <1>1, <3>2, <3>3 DEF UrlInv
  <2> QED
    BY <2>1, <2>2
<1> QED
  BY <1>2, <1>5, <1>6

LEMMA ReadingStep ==
  ASSUME TypeInv, FixtureLine \/ ConfigLine
  PROVE  /\ fixtures' \in Seq(Fixtures)
         /\ open' \in BOOLEAN
         /\ open' => fixtures' # <<>>
<1>1. ASSUME NEW line \in SettingLines \cup {Line("other", NoBody)}, NEW list \in Seq(Fixtures),
             list # <<>>, fixtures' = Setting(list, line)
      PROVE  fixtures' \in Seq(Fixtures) /\ fixtures' # <<>>
  <2>1. Setting(list, line) \in Seq(Fixtures) /\ DOMAIN Setting(list, line) = DOMAIN list
    BY <1>1, SettingFirst
  <2>2. 1 \in DOMAIN list
    BY EmptySeq, LenProperties, <1>1
  <2> QED
    BY <1>1, <2>1, <2>2
<1>2. WithEntry(fixtures) \in Seq(Fixtures) /\ WithEntry(fixtures) # <<>>
  BY BegunType DEF TypeInv
<1>3. CASE UNCHANGED fixtures /\ open' = FALSE
  BY <1>3 DEF TypeInv
<1>4. ASSUME NEW line \in SettingLines \cup {Line("other", NoBody)}, open' = TRUE,
             fixtures' = Setting(IF open THEN fixtures ELSE WithEntry(fixtures), line)
      PROVE  fixtures' \in Seq(Fixtures) /\ fixtures' # <<>> /\ open' \in BOOLEAN
  <2>1. CASE open
    BY <1>1, <1>4, <2>1 DEF TypeInv
  <2>2. CASE ~open
    BY <1>1, <1>2, <1>4, <2>2 DEF TypeInv
  <2> QED
    BY <1>4, <2>1, <2>2
<1>5. ASSUME NEW line \in SettingLines, open' = (open \/ line.key = "url"),
             fixtures' = CASE line.key = "url" -> Setting(WithEntry(fixtures), line)
                           [] line.key # "url" /\ open -> Setting(fixtures, line)
                           [] OTHER -> fixtures
      PROVE  fixtures' \in Seq(Fixtures) /\ open' \in BOOLEAN /\ (open' => fixtures' # <<>>)
  <2>1. CASE line.key = "url"
    BY <1>1, <1>2, <1>5, <2>1 DEF TypeInv
  <2>2. CASE line.key # "url" /\ open
    BY <1>1, <1>5, <2>2 DEF TypeInv
  <2>3. CASE line.key # "url" /\ ~open
    BY <1>5, <2>3 DEF TypeInv
  <2> QED
    BY <2>1, <2>2, <2>3 DEF TypeInv
<1> QED
  BY <1>3, <1>4, <1>5 DEF FixtureLine, ConfigLine

LEMMA UrlGranted ==
  ASSUME TypeInv, UrlInv, NEW s \in Scripts, nextId' = nextId + 1,
         inbound' = <<[id |-> nextId, target |-> s]>> \o inbound
  PROVE  /\ inbound' \in Seq(Urls)
         /\ UrlInv'
         /\ DOMAIN inbound' = 1 .. (Len(inbound) + 1)
         /\ inbound'[1] = [id |-> nextId, target |-> s]
         /\ \A k \in DOMAIN inbound : inbound'[k + 1] = inbound[k]
<1>1. [id |-> nextId, target |-> s] \in Urls
  BY DEF TypeInv, Urls
<1>2. DOMAIN inbound = 1 .. Len(inbound) /\ Len(inbound) \in Nat
  BY UrlTypes
<1>3. /\ inbound' \in Seq(Urls)
      /\ DOMAIN inbound' = 1 .. (Len(inbound) + 1)
      /\ inbound'[1] = [id |-> nextId, target |-> s]
      /\ \A k \in DOMAIN inbound : inbound'[k + 1] = inbound[k]
  BY <1>1, <1>2, LinkedIn DEF TypeInv
<1>4. \A k \in DOMAIN inbound : inbound[k].id \in Nat /\ inbound[k].id < nextId
  BY UrlTypes DEF UrlInv
<1>5. \A k \in DOMAIN inbound' \ {1} : k - 1 \in DOMAIN inbound /\ inbound'[k] = inbound[k - 1]
  <2> TAKE k \in DOMAIN inbound' \ {1}
  <2>1. k - 1 \in DOMAIN inbound /\ (k - 1) + 1 = k
    BY <1>2, <1>3
  <2> QED
    BY <1>3, <2>1
<1>6. \A k \in DOMAIN inbound' : inbound'[k].id < nextId'
  BY <1>3, <1>4, <1>5 DEF TypeInv
<1>7. ASSUME NEW j \in DOMAIN inbound', NEW k \in DOMAIN inbound', j < k
      PROVE  inbound'[j].id > inbound'[k].id
  <2>1. k # 1
    BY <1>2, <1>3, <1>7
  <2>2. CASE j = 1
    BY <1>3, <1>4, <1>5, <2>1, <2>2 DEF TypeInv
  <2>3. CASE j # 1
    <3>1. j - 1 < k - 1
      BY <1>2, <1>3, <1>7
    <3> QED
      BY <1>5, <2>1, <2>3, <3>1 DEF UrlInv
  <2> QED
    BY <2>2, <2>3
<1> QED
  BY <1>3, <1>6, <1>7 DEF UrlInv

LEMMA StepType == TypeInv /\ UrlInv /\ [Next]_vars => TypeInv' /\ UrlInv'
<1> SUFFICES ASSUME TypeInv, UrlInv, [Next]_vars PROVE TypeInv' /\ UrlInv'
  OBVIOUS
<1>1. ASSUME UNCHANGED inbound, nextId' \in {nextId, nextId + 1} PROVE UrlInv' /\ nextId' \in Nat
  BY <1>1, UrlTypes DEF UrlInv, TypeInv
<1>2. ASSUME UNCHANGED <<inbound, nextId>> PROVE UrlInv'
  BY <1>1, <1>2
<1>3. ASSUME NEW s \in Scripts, running = s PROVE phase = "running"
  BY <1>3, HttpAssumption DEF TypeInv
<1>4. CASE FixtureLine \/ ConfigLine
  <2>1. UNCHANGED <<real, phase, inbound, nextId, loopVars>>
    BY <1>4 DEF FixtureLine, ConfigLine, Reading
  <2> QED
    BY <1>2, <1>4, <2>1, ReadingStep DEF TypeInv, loopVars
<1>5. CASE FileEnds \/ ConfigEnds
  BY <1>2, <1>5 DEF FileEnds, ConfigEnds, loopVars, TypeInv
<1>6. ASSUME NEW s \in Scripts, HTTPRequest(s) PROVE TypeInv' /\ UrlInv'
  <2>1. PICK address \in Outside :
          \E answer \in IF real THEN [status : Statuses, body : Bodies] ELSE {Match(address)} :
            Push(s, Response(nextId, answer))
    BY <1>6 DEF HTTPRequest
  <2>2. PICK answer \in AllAnswers : Push(s, Response(nextId, answer))
    <3>1. [status : Statuses, body : Bodies] \subseteq AllAnswers
      BY DEF AllAnswers
    <3> QED
      BY <2>1, <3>1, MatchType DEF TypeInv
  <2>3. Response(nextId, answer) \in Events
    BY DEF Response, Event, Events, TypeInv
  <2> QED
    BY <1>1, <1>6, <2>2, <2>3, PushType DEF HTTPRequest, TakeId, readVars, TypeInv
<1>7. ASSUME NEW s \in Scripts, RequestURL(s) PROVE TypeInv' /\ UrlInv'
  <2>1. Granted(nextId) \in Events
    BY DEF Granted, Event, Events, AllAnswers, TypeInv
  <2>2. inbound' \in Seq(Urls) /\ UrlInv' /\ nextId' \in Nat
    <3>1. nextId' = nextId + 1 /\ inbound' = <<[id |-> nextId, target |-> s]>> \o inbound
      BY <1>7 DEF RequestURL, TakeId
    <3>2. nextId' \in Nat
      BY <3>1 DEF TypeInv
    <3> QED
      BY <3>1, <3>2, UrlGranted
  <2> QED
    BY <1>7, <2>1, <2>2, PushType DEF RequestURL, readVars, TypeInv
<1>8. CASE HttpIn
  <2>1. PICK named \in SUBSET (1 .. MaxIds), exact \in BOOLEAN :
          Resolve(named, exact) # NoScript /\ Push(Resolve(named, exact), Request(nextId))
    BY <1>8 DEF HttpIn
  <2>2. Resolve(named, exact) \in Scripts
    BY <2>1, ResolveFirst, UrlTypes
  <2>3. Request(nextId) \in Events
    BY DEF Request, Event, Events, AllAnswers, TypeInv
  <2> QED
    BY <1>1, <1>8, <2>1, <2>2, <2>3, PushType DEF HttpIn, TakeId, readVars, TypeInv
<1>9. ASSUME NEW s \in Scripts, TakeEvent(s) PROVE TypeInv' /\ UrlInv'
  <2>1. queue' \in [Scripts -> Seq(Events)]
    <3>1. CASE UNCHANGED queue
      BY <3>1 DEF TypeInv
    <3>2. CASE queue[s] # <<>> /\ queue' = [queue EXCEPT ![s] = Tail(@)]
      <4>1. Tail(queue[s]) \in Seq(Events)
        BY <3>2, HeadTailProperties DEF TypeInv
      <4> QED
        BY <3>2, <4>1 DEF TypeInv
    <3> QED
      BY <1>9, <3>1, <3>2 DEF TakeEvent
  <2> QED
    BY <1>2, <1>9, <2>1 DEF TakeEvent, readVars, TypeInv
<1>10. ASSUME NEW s \in Scripts, HandlerReturns(s) PROVE TypeInv' /\ UrlInv'
  BY <1>2, <1>10 DEF HandlerReturns, readVars, TypeInv
<1>11. ASSUME NEW s \in Scripts, ThrowAway(s) PROVE TypeInv' /\ UrlInv'
  <2>1. queue' \in [Scripts -> Seq(Events)]
    BY <1>11 DEF ThrowAway, Flush, TypeInv
  <2> QED
    BY <1>2, <1>11, <2>1 DEF ThrowAway, Flush, readVars, TypeInv
<1>12. CASE LoopEnds \/ UNCHANGED vars
  BY <1>2, <1>12 DEF LoopEnds, vars, readVars, loopVars, TypeInv
<1> QED
  BY <1>4, <1>5, <1>6, <1>7, <1>8, <1>9, <1>10, <1>11, <1>12 DEF Next

----------------------------------------------------------------------------
(* What the lists and the queues stand for in Exchange *)

Posts == {AsMail(e) : e \in Events}
Posted(q) == [k \in DOMAIN q |-> AsMail(q[k])]
Owners == [id \in {inbound[k].id : k \in DOMAIN inbound} |-> Owner(id)]
Rules == [address \in Outside |-> Match(address)]
Mails == [s \in Scripts |-> Posted(queue[s])]

LEMMA PostedType ==
  ASSUME NEW q \in Seq(Events)
  PROVE  Posted(q) \in Seq(Posts) /\ Len(Posted(q)) = Len(q)
<1>1. DOMAIN q = 1 .. Len(q) /\ Len(q) \in Nat /\ \A k \in 1 .. Len(q) : q[k] \in Events
  BY LenProperties, ElementOfSeq
<1>2. Posted(q) \in [1 .. Len(q) -> Posts]
  BY <1>1 DEF Posted, Posts
<1> QED
  BY <1>1, <1>2, SeqDef

LEMMA PostedAppend ==
  ASSUME NEW q \in Seq(Events), NEW e \in Events
  PROVE  Posted(Append(q, e)) = Append(Posted(q), AsMail(e))
<1>1. AsMail(e) \in Posts
  BY DEF Posts
<1>2. Append(q, e) \in Seq(Events) /\ Len(Append(q, e)) = Len(q) + 1
  BY AppendProperties
<1>3. Posted(Append(q, e)) \in Seq(Posts) /\ Len(Posted(Append(q, e))) = Len(q) + 1
  BY <1>2, PostedType
<1>4. Posted(q) \in Seq(Posts) /\ Len(Posted(q)) = Len(q) /\ Len(q) \in Nat
  BY PostedType, LenProperties
<1>5. /\ Append(Posted(q), AsMail(e)) \in Seq(Posts)
      /\ Len(Append(Posted(q), AsMail(e))) = Len(q) + 1
      /\ \A k \in 1 .. Len(q) : Append(Posted(q), AsMail(e))[k] = Posted(q)[k]
      /\ Append(Posted(q), AsMail(e))[Len(q) + 1] = AsMail(e)
  BY <1>1, <1>4, AppendProperties
<1>6. /\ \A k \in 1 .. Len(q) : Append(q, e)[k] = q[k]
      /\ Append(q, e)[Len(q) + 1] = e
      /\ DOMAIN q = 1 .. Len(q) /\ DOMAIN Append(q, e) = 1 .. (Len(q) + 1)
  BY <1>2, AppendProperties, LenProperties
<1>7. ASSUME NEW k \in 1 .. (Len(q) + 1)
      PROVE  Posted(Append(q, e))[k] = Append(Posted(q), AsMail(e))[k]
  <2>1. CASE k = Len(q) + 1
    BY <1>5, <1>6, <2>1 DEF Posted
  <2>2. CASE k # Len(q) + 1
    <3>1. k \in 1 .. Len(q)
      BY <1>4, <2>2
    <3> QED
      BY <1>5, <1>6, <3>1 DEF Posted
  <2> QED
    BY <2>1, <2>2
<1> QED
  BY <1>3, <1>5, <1>7, SeqEqual

LEMMA PostedTail ==
  ASSUME NEW q \in Seq(Events), q # <<>>
  PROVE  Posted(q) # <<>> /\ Posted(Tail(q)) = Tail(Posted(q))
<1>1. Posted(q) \in Seq(Posts) /\ Len(Posted(q)) = Len(q) /\ Len(q) \in Nat \ {0}
  BY PostedType, EmptySeq
<1>2. Posted(q) # <<>>
  BY <1>1, EmptySeq
<1>3. /\ Tail(q) \in Seq(Events) /\ Len(Tail(q)) = Len(q) - 1
      /\ \A k \in 1 .. (Len(q) - 1) : Tail(q)[k] = q[k + 1]
  BY HeadTailProperties
<1>4. /\ Tail(Posted(q)) \in Seq(Posts) /\ Len(Tail(Posted(q))) = Len(q) - 1
      /\ \A k \in 1 .. (Len(q) - 1) : Tail(Posted(q))[k] = Posted(q)[k + 1]
  BY <1>1, <1>2, HeadTailProperties
<1>5. Posted(Tail(q)) \in Seq(Posts) /\ Len(Posted(Tail(q))) = Len(q) - 1
  BY <1>3, PostedType
<1>6. DOMAIN q = 1 .. Len(q) /\ DOMAIN Tail(q) = 1 .. (Len(q) - 1)
  BY <1>3, LenProperties
<1>7. ASSUME NEW k \in 1 .. (Len(q) - 1) PROVE Posted(Tail(q))[k] = Tail(Posted(q))[k]
  <2>1. k + 1 \in 1 .. Len(q)
    BY <1>1
  <2> QED
    BY <1>3, <1>4, <1>6, <2>1 DEF Posted
<1> QED
  BY <1>2, <1>4, <1>5, <1>7, SeqEqual

LEMMA OwnersAre ==
  ASSUME TypeInv, UrlInv
  PROVE  /\ DOMAIN Owners = {inbound[k].id : k \in DOMAIN inbound}
         /\ \A k \in DOMAIN inbound : Owners[inbound[k].id] = inbound[k].target
<1> SUFFICES ASSUME NEW k \in DOMAIN inbound PROVE Owner(inbound[k].id) = inbound[k].target
  BY DEF Owners
<1>1. \A i \in DOMAIN inbound : inbound[i].id = inbound[k].id => i = k
  <2> TAKE i \in DOMAIN inbound
  <2> SUFFICES ASSUME i # k PROVE inbound[i].id # inbound[k].id
    OBVIOUS
  <2>1. i < k \/ k < i
    BY UrlTypes
  <2> QED
    BY <2>1, UrlTypes DEF UrlInv
<1> QED
  BY <1>1 DEF Owner

\* A granted URL has an owner from then on, and the others keep theirs.
LEMMA OwnersGrow ==
  ASSUME TypeInv, UrlInv, NEW s \in Scripts, nextId' = nextId + 1, TypeInv',
         inbound' = <<[id |-> nextId, target |-> s]>> \o inbound
  PROVE  Owners' = [id \in DOMAIN Owners \cup {nextId} |-> IF id = nextId THEN s ELSE Owners[id]]
<1> DEFINE ids == {inbound[k].id : k \in DOMAIN inbound}
           grown == [id \in DOMAIN Owners \cup {nextId} |-> IF id = nextId THEN s ELSE Owners[id]]
<1>1. /\ UrlInv'
      /\ DOMAIN inbound' = 1 .. (Len(inbound) + 1)
      /\ inbound'[1] = [id |-> nextId, target |-> s]
      /\ \A k \in DOMAIN inbound : inbound'[k + 1] = inbound[k]
  BY UrlGranted
<1>2. /\ DOMAIN inbound = 1 .. Len(inbound) /\ Len(inbound) \in Nat
      /\ \A k \in DOMAIN inbound : inbound[k].id \in Nat /\ inbound[k].id < nextId
  BY UrlTypes DEF UrlInv
<1>3. \A k \in DOMAIN inbound' : k = 1 \/ (k - 1 \in DOMAIN inbound /\ inbound'[k] = inbound[k - 1])
  <2> TAKE k \in DOMAIN inbound'
  <2>1. k = 1 \/ (k - 1 \in DOMAIN inbound /\ (k - 1) + 1 = k)
    BY <1>1, <1>2
  <2> QED
    BY <1>1, <2>1
<1>4. /\ DOMAIN Owners = ids /\ \A k \in DOMAIN inbound : Owners[inbound[k].id] = inbound[k].target
      /\ DOMAIN Owners' = {inbound'[k].id : k \in DOMAIN inbound'}
      /\ \A k \in DOMAIN inbound' : Owners'[inbound'[k].id] = inbound'[k].target
  <2>1. TypeInv /\ UrlInv => /\ DOMAIN Owners = ids
                            /\ \A k \in DOMAIN inbound : Owners[inbound[k].id] = inbound[k].target
    BY OwnersAre
  <2>2. (TypeInv /\ UrlInv => /\ DOMAIN Owners = ids
                             /\ \A k \in DOMAIN inbound : Owners[inbound[k].id] = inbound[k].target)'
    BY OwnersAre, PTL
  <2> QED
    BY <1>1, <2>1, <2>2
<1>5. DOMAIN Owners' \subseteq ids \cup {nextId}
  BY <1>1, <1>3, <1>4
<1>6. nextId \in DOMAIN Owners' /\ Owners'[nextId] = s
  <2>1. 1 \in DOMAIN inbound' /\ inbound'[1].id = nextId /\ inbound'[1].target = s
    BY <1>1, <1>2
  <2> QED
    BY <1>4, <2>1
<1>7. ASSUME NEW k \in DOMAIN inbound
      PROVE  /\ inbound[k].id \in DOMAIN Owners' /\ inbound[k].id # nextId
             /\ Owners'[inbound[k].id] = Owners[inbound[k].id]
  <2>1. k + 1 \in DOMAIN inbound' /\ inbound'[k + 1] = inbound[k]
    BY <1>1, <1>2
  <2>2. inbound'[k + 1].id \in DOMAIN Owners'
    BY <1>4, <2>1
  <2>3. Owners'[inbound'[k + 1].id] = inbound'[k + 1].target
    BY <1>4, <2>1
  <2>4. inbound[k].id # nextId
    BY <1>2 DEF TypeInv
  <2>5. Owners[inbound[k].id] = inbound[k].target
    BY <1>4
  <2> HIDE DEF ids
  <2> QED
    BY <2>1, <2>2, <2>3, <2>4, <2>5
<1>8. DOMAIN Owners' = ids \cup {nextId}
  BY <1>5, <1>6, <1>7
<1>9. \A id \in ids \cup {nextId} : Owners'[id] = grown[id]
  BY ZenonT(60), <1>4, <1>6, <1>7
<1> QED
  BY <1>4, <1>8, <1>9 DEF Owners

LEMMA ExchangeInit == Init => Web!Init
<1> SUFFICES ASSUME Init PROVE Web!Init
  OBVIOUS
<1>1. [address \in Outside |-> Match(address)] \in [Outside -> AllAnswers]
  BY InitType, MatchType DEF TypeInv
<1>2. [id \in {inbound[k].id : k \in DOMAIN inbound} |-> Owner(id)] = <<>>
  <2>1. DOMAIN inbound = {}
    BY DEF Init
  <2> QED
    BY <2>1
<1>3. [s \in Scripts |-> [k \in DOMAIN queue[s] |-> AsMail(queue[s][k])]] = [s \in Scripts |-> <<>>]
  <2>1. ASSUME NEW s \in Scripts PROVE [k \in DOMAIN queue[s] |-> AsMail(queue[s][k])] = <<>>
    <3>1. queue[s] = <<>> /\ DOMAIN <<>> = {}
      BY DEF Init
    <3> QED
      BY <3>1
  <2> QED
    BY <2>1
<1> QED
  BY <1>1, <1>2, <1>3 DEF Init, Web!Init, AllAnswers

LEMMA AsMailIs ==
  ASSUME NEW id, NEW answer
  PROVE  /\ AsMail(Response(id, answer)) = Web!Answered(id, answer)
         /\ AsMail(Granted(id)) = Web!Granted(id)
         /\ AsMail(Request(id)) = Web!Called(id)
BY DEF AsMail, Response, Granted, Request, Event, Web!Answered, Web!Granted, Web!Called

LEMMA RulesType == TypeInv => Rules \in [Outside -> AllAnswers]
BY MatchType DEF TypeInv, Rules

\* What a step leaves alone, its image leaves alone.
LEMMA SameRules == UNCHANGED fixtures => UNCHANGED Rules
BY DEF Rules, Match

LEMMA SameOwners == UNCHANGED inbound => UNCHANGED Owners
BY DEF Owners, Owner

LEMMA SameMails == UNCHANGED queue => UNCHANGED Mails
BY DEF Mails, Posted

\* An event for a script is a letter for it.
LEMMA PushMails ==
  ASSUME TypeInv, NEW s \in Scripts, NEW e \in Events, Push(s, e)
  PROVE  Mails' = [Mails EXCEPT ![s] = Append(@, AsMail(e))]
<1>1. queue' = [queue EXCEPT ![s] = Append(@, e)] /\ queue \in [Scripts -> Seq(Events)]
  BY DEF Push, TypeInv
<1>2. ASSUME NEW t \in Scripts
      PROVE  Posted(queue'[t]) = [Mails EXCEPT ![s] = Append(@, AsMail(e))][t]
  <2>1. CASE t = s
    <3>1. queue'[t] = Append(queue[s], e)
      BY <1>1, <2>1
    <3>2. Posted(queue'[t]) = Append(Posted(queue[s]), AsMail(e))
      BY <1>1, <3>1, PostedAppend
    <3> QED
      BY <2>1, <3>2 DEF Mails
  <2>2. CASE t # s
    BY <1>1, <2>2 DEF Mails
  <2> QED
    BY <2>1, <2>2
<1> QED
  BY <1>2 DEF Mails, Posted

\* The steps of Exchange, in the words of this module.
LEMMA WebConfigure ==
  Web!Configure <=> /\ phase # "running"
                    /\ Rules' \in [Outside -> AllAnswers]
                    /\ UNCHANGED <<real, phase = "running", nextId, Owners, Mails>>
BY DEF Web!Configure, Rules, Owners, Mails, Posted, AllAnswers

LEMMA WebStart ==
  Web!Start <=> /\ phase # "running"
                /\ phase' = "running"
                /\ UNCHANGED <<real, Rules, nextId, Owners, Mails>>
BY DEF Web!Start, Rules, Owners, Mails, Posted

LEMMA WebAsk ==
  Web!Ask <=> /\ phase = "running"
              /\ \E s \in Scripts, address \in Outside :
                   \E answer \in IF real THEN AllAnswers ELSE {Rules[address]} :
                     Mails' = [Mails EXCEPT ![s] = Append(@, Web!Answered(nextId, answer))]
              /\ nextId' = nextId + 1
              /\ UNCHANGED <<real, phase = "running", Rules, Owners>>
BY Zenon DEF Web!Ask, Web!Mail, Rules, Owners, Mails, Posted, AllAnswers

LEMMA WebGrant ==
  Web!Grant <=> /\ phase = "running"
                /\ \E s \in Scripts :
                     /\ Mails' = [Mails EXCEPT ![s] = Append(@, Web!Granted(nextId))]
                     /\ Owners' = [id \in DOMAIN Owners \cup {nextId} |->
                                    IF id = nextId THEN s ELSE Owners[id]]
                /\ nextId' = nextId + 1
                /\ UNCHANGED <<real, phase = "running", Rules>>
BY DEF Web!Grant, Web!Mail, Web!OwnedBy, Rules, Owners, Mails, Posted

LEMMA WebCall ==
  Web!Call <=> /\ phase = "running"
               /\ \E named \in SUBSET DOMAIN Owners :
                    /\ named # {}
                    /\ Mails' = [Mails EXCEPT ![Owners[Web!Latest(named)]] =
                                   Append(@, Web!Called(nextId))]
               /\ nextId' = nextId + 1
               /\ UNCHANGED <<real, phase = "running", Rules, Owners>>
BY DEF Web!Call, Web!Mail, Rules, Owners, Mails, Posted

LEMMA WebRead ==
  Web!Read <=> /\ \E s \in Scripts :
                    Mails[s] # <<>> /\ Mails' = [Mails EXCEPT ![s] = Tail(@)]
               /\ UNCHANGED <<real, phase = "running", Rules, nextId, Owners>>
BY DEF Web!Read, Rules, Owners, Mails, Posted

LEMMA WebForget ==
  Web!Forget <=> /\ \E s \in Scripts : Mails' = [Mails EXCEPT ![s] = <<>>]
                 /\ UNCHANGED <<real, phase = "running", Rules, nextId, Owners>>
BY DEF Web!Forget, Rules, Owners, Mails, Posted

LEMMA WebStutter ==
  UNCHANGED Web!vars <=> UNCHANGED <<real, phase = "running", Rules, nextId, Owners, Mails>>
BY DEF Web!vars, Rules, Owners, Mails, Posted

----------------------------------------------------------------------------
(* Http implements Exchange *)

\* A call finds the owner of the address granted last, of those in the text.
LEMMA CallsLatest ==
  ASSUME TypeInv, UrlInv, NEW named, NEW exact, Resolve(named, exact) # NoScript
  PROVE  \E ids \in SUBSET DOMAIN Owners :
           ids # {} /\ Resolve(named, exact) = Owners[Web!Latest(ids)]
<1>1. PICK k \in DOMAIN inbound :
        /\ inbound[k].id \in named
        /\ \A j \in DOMAIN inbound : inbound[j].id \in named => inbound[j].id <= inbound[k].id
        /\ Resolve(named, exact) = inbound[k].target
  BY ResolveFirst
<1> DEFINE ids == named \cap {inbound[j].id : j \in DOMAIN inbound}
<1>2. ids \in SUBSET DOMAIN Owners /\ inbound[k].id \in ids
  BY <1>1, OwnersAre
<1>3. \A id \in ids : id \in Nat /\ id <= inbound[k].id
  BY <1>1, UrlTypes
<1>4. Web!Latest(ids) = inbound[k].id
  <2> HIDE DEF ids
  <2>1. \A id \in ids : (\A other \in ids : other <= id) => id = inbound[k].id
    BY <1>2, <1>3
  <2> QED
    BY <1>2, <1>3, <2>1 DEF Web!Latest
<1> QED
  BY <1>1, <1>2, <1>4, OwnersAre

\* Every step of Http is one of Exchange or none.
LEMMA ExchangeStep == TypeInv /\ UrlInv /\ [Next]_vars => [Web!Next]_(Web!vars)
<1> SUFFICES ASSUME TypeInv, UrlInv, [Next]_vars PROVE [Web!Next]_(Web!vars)
  OBVIOUS
<1>1. TypeInv' /\ UrlInv'
  BY StepType
<1>2. ASSUME NEW s \in Scripts, running = s PROVE phase = "running"
  BY <1>2, HttpAssumption DEF TypeInv
<1>3. CASE FixtureLine \/ ConfigLine
  <2>1. /\ phase # "running"
        /\ UNCHANGED <<real, phase = "running", nextId, Owners, Mails>>
    BY <1>3, SameOwners, SameMails DEF FixtureLine, ConfigLine, Reading, loopVars
  <2>2. Rules' \in [Outside -> AllAnswers]
    <3>1. (TypeInv => Rules \in [Outside -> AllAnswers])'
      BY RulesType, PTL
    <3> QED
      BY <1>1, <3>1
  <2> QED
    BY <2>1, <2>2, WebConfigure DEF Web!Next
<1>4. CASE FileEnds
  BY <1>4, SameRules, SameOwners, SameMails, WebStutter DEF FileEnds, loopVars
<1>5. CASE ConfigEnds
  BY <1>5, SameRules, SameOwners, SameMails, WebStart DEF ConfigEnds, loopVars, Web!Next
<1>6. ASSUME NEW s \in Scripts, HTTPRequest(s) PROVE Web!Ask
  <2>1. PICK address \in Outside :
          \E answer \in IF real THEN [status : Statuses, body : Bodies] ELSE {Match(address)} :
            Push(s, Response(nextId, answer))
    BY <1>6 DEF HTTPRequest
  <2>2. PICK answer \in IF real THEN AllAnswers ELSE {Rules[address]} :
          Push(s, Response(nextId, answer))
    <3>1. [status : Statuses, body : Bodies] \subseteq AllAnswers /\ Rules[address] = Match(address)
      BY DEF AllAnswers, Rules
    <3> QED
      BY <2>1, <3>1
  <2>3. answer \in AllAnswers
    BY <2>2, MatchType DEF TypeInv, Rules
  <2>4. Response(nextId, answer) \in Events
    BY <2>3 DEF Response, Event, Events, TypeInv
  <2>5. Mails' = [Mails EXCEPT ![s] = Append(@, Web!Answered(nextId, answer))]
    BY <2>2, <2>4, PushMails, AsMailIs
  <2>6. /\ phase = "running"
        /\ nextId' = nextId + 1
        /\ UNCHANGED <<real, phase = "running", Rules, Owners>>
    BY <1>2, <1>6, SameRules, SameOwners DEF HTTPRequest, TakeId, readVars
  <2> QED
    BY <2>2, <2>5, <2>6, WebAsk
<1>7. ASSUME NEW s \in Scripts, RequestURL(s) PROVE Web!Grant
  <2>1. Granted(nextId) \in Events
    BY DEF Granted, Event, Events, AllAnswers, TypeInv
  <2>2. Mails' = [Mails EXCEPT ![s] = Append(@, Web!Granted(nextId))]
    BY <1>7, <2>1, PushMails, AsMailIs DEF RequestURL
  <2>3. nextId' = nextId + 1 /\ inbound' = <<[id |-> nextId, target |-> s]>> \o inbound
    BY <1>7 DEF RequestURL, TakeId
  <2>4. Owners' = [id \in DOMAIN Owners \cup {nextId} |-> IF id = nextId THEN s ELSE Owners[id]]
    BY <1>1, <2>3, OwnersGrow
  <2>5. phase = "running" /\ UNCHANGED <<real, phase = "running", Rules>>
    BY <1>2, <1>7, SameRules DEF RequestURL, readVars
  <2> QED
    BY <2>2, <2>3, <2>4, <2>5, WebGrant
<1>8. CASE HttpIn
  <2>1. PICK named \in SUBSET (1 .. MaxIds), exact \in BOOLEAN :
          Resolve(named, exact) # NoScript /\ Push(Resolve(named, exact), Request(nextId))
    BY <1>8 DEF HttpIn
  <2>2. Resolve(named, exact) \in Scripts
    BY <2>1, ResolveFirst, UrlTypes
  <2>3. Request(nextId) \in Events
    BY DEF Request, Event, Events, AllAnswers, TypeInv
  <2>4. Mails' = [Mails EXCEPT ![Resolve(named, exact)] = Append(@, Web!Called(nextId))]
    BY <2>1, <2>2, <2>3, PushMails, AsMailIs
  <2>5. PICK ids \in SUBSET DOMAIN Owners :
          ids # {} /\ Resolve(named, exact) = Owners[Web!Latest(ids)]
    BY <2>1, CallsLatest
  <2>6. /\ phase = "running"
        /\ nextId' = nextId + 1
        /\ UNCHANGED <<real, phase = "running", Rules, Owners>>
    BY <1>8, SameRules, SameOwners DEF HttpIn, Pumping, TakeId, readVars
  <2>7. Mails' = [Mails EXCEPT ![Owners[Web!Latest(ids)]] = Append(@, Web!Called(nextId))]
    BY <2>4, <2>5
  <2>8. \E some \in SUBSET DOMAIN Owners :
          /\ some # {}
          /\ Mails' = [Mails EXCEPT ![Owners[Web!Latest(some)]] = Append(@, Web!Called(nextId))]
    BY <2>5, <2>7
  <2> QED
    BY <2>6, <2>8, WebCall DEF Web!Next
<1>9. ASSUME NEW s \in Scripts, TakeEvent(s) PROVE Web!Read \/ UNCHANGED Web!vars
  <2>1. UNCHANGED <<real, phase = "running", Rules, nextId, Owners>>
    BY <1>9, SameRules, SameOwners DEF TakeEvent, readVars
  <2>2. CASE UNCHANGED queue
    BY <2>1, <2>2, SameMails, WebStutter
  <2>3. CASE queue[s] # <<>> /\ queue' = [queue EXCEPT ![s] = Tail(@)]
    <3>1. Posted(queue[s]) # <<>> /\ Posted(Tail(queue[s])) = Tail(Posted(queue[s]))
      BY <2>3, PostedTail DEF TypeInv
    <3>2. \A t \in Scripts : Posted(queue'[t]) = [Mails EXCEPT ![s] = Tail(@)][t]
      BY <2>3, <3>1 DEF TypeInv, Mails
    <3>3. Mails[s] # <<>> /\ Mails' = [Mails EXCEPT ![s] = Tail(@)]
      BY <3>1, <3>2 DEF Mails, Posted
    <3> QED
      BY <2>1, <3>3, WebRead
  <2> QED
    BY <1>9, <2>2, <2>3 DEF TakeEvent
<1>10. ASSUME NEW s \in Scripts, HandlerReturns(s) PROVE UNCHANGED Web!vars
  BY <1>10, SameRules, SameOwners, SameMails, WebStutter DEF HandlerReturns, readVars
<1>11. ASSUME NEW s \in Scripts, ThrowAway(s) PROVE Web!Forget
  <2>1. Posted(<<>>) = <<>>
    <3>1. DOMAIN <<>> = {}
      OBVIOUS
    <3> QED
      BY <3>1 DEF Posted
  <2>2. \A t \in Scripts : Posted(queue'[t]) = [Mails EXCEPT ![s] = <<>>][t]
    BY <1>11, <2>1 DEF ThrowAway, Flush, TypeInv, Mails
  <2>3. Mails' = [Mails EXCEPT ![s] = <<>>]
    BY <2>2 DEF Mails, Posted
  <2> QED
    BY <1>11, <2>3, SameRules, SameOwners, WebForget DEF ThrowAway, Flush, readVars
<1>12. CASE LoopEnds \/ UNCHANGED vars
  BY <1>12, SameRules, SameOwners, SameMails, WebStutter
     DEF LoopEnds, vars, readVars, loopVars
<1> QED
  BY <1>3, <1>4, <1>5, <1>6, <1>7, <1>8, <1>9, <1>10, <1>11, <1>12 DEF Next, Web!Next

\* Http keeps what Exchange promises: a request is answered once, by rules that do not
\* change while the region runs; scripts get their answers in order; a URL that was
\* granted belongs to its script for good, and a call reaches the owner of the URL
\* granted last of those it names.
THEOREM ExchangeImplemented == Spec => ExchangeSpec
<1>1. Spec => [](TypeInv /\ UrlInv)
  BY InitType, StepType, PTL DEF Spec
<1> QED
  BY <1>1, ExchangeInit, ExchangeStep, PTL DEF Spec, ExchangeSpec, Web!Spec

----------------------------------------------------------------------------
(* Lines and entries: the entry of each line, numbered from 1; 0 of none *)

Lines ==
  [in : {"file", "config"},
   key : {"url", "status", "body", "other", "blank", "end"},
   value : Patterns \cup Statuses \cup Bodies \cup {NoBody}]

\* Together, of any lines.
Joined(list, i, j) ==
  /\ list[i].in = list[j].in
  /\ IF list[i].in = "file"
     THEN \A k \in DOMAIN list : (k \in i .. j \/ k \in j .. i) => list[k].key # "blank"
     ELSE i <= j /\ \A k \in (i + 1) .. j : list[k].key \notin {"url", "end"}

\* Lines are of the same entry if they are together, and entries follow one another.
Numbering(list, of, count) ==
  /\ of \in Seq(Nat) /\ Len(of) = Len(list)
  /\ \A i \in 1 .. Len(list) : of[i] <= count
  /\ \A i, j \in 1 .. Len(list) : i <= j /\ of[i] # 0 => (Joined(list, i, j) <=> of[j] = of[i])
  /\ \A i, j \in 1 .. Len(list) : i <= j /\ of[i] # 0 /\ of[j] # 0 => of[i] <= of[j]
  /\ \A i \in 1 .. Len(list) : list[i].key = "url" => of[i] # 0
  /\ \A i \in 1 .. Len(list) : list[i].in = "file" /\ of[i] = 0 => list[i].key = "blank"
  /\ \A i, j \in 1 .. Len(list) :
       list[i].in = "config" /\ list[i].key = "url" /\ j < i => of[j] # of[i]

\* The file that is read comes last, and an open entry is that of its last line.
Opening(list, of, count, isOpen, in) ==
  /\ in = "file" => \A i \in 1 .. Len(list) : list[i].in = "file"
  /\ \A i, j \in 1 .. Len(list) : i <= j /\ list[i].in = in => list[j].in = in
  /\ isOpen => Len(list) # 0 /\ count # 0 /\ of[Len(list)] = count /\ list[Len(list)].in = in
  /\ ~isOpen => \A i \in 1 .. Len(list) : of[i] # 0 /\ list[i].in = in => ~Joined(list, i, Len(list))

\* What the last line of the entry with this key says.
LastIn(list, of, e, key, default) ==
  LET setting == {j \in DOMAIN list : of[j] = e /\ list[j].key = key}
  IN  IF setting = {} THEN default ELSE list[Max(setting)].value

\* The first entry of the list is the one with the highest number.
Contents(list, of, entries) ==
  \A e \in 1 .. Len(entries) :
    entries[Len(entries) + 1 - e] = [match |-> LastIn(list, of, e, "url", NoPattern),
                                     status |-> LastIn(list, of, e, "status", DefaultStatus),
                                     body |-> LastIn(list, of, e, "body", NoBody)]

Read(list, entries, isOpen, in) ==
  \E of \in Seq(Nat) : /\ Numbering(list, of, Len(entries))
                      /\ Opening(list, of, Len(entries), isOpen, in)
                      /\ Contents(list, of, entries)

ReadInv == phase # "running" => lines \in Seq(Lines) /\ Read(lines, fixtures, open, phase)

LEMMA OneMore ==
  ASSUME NEW S, NEW q \in Seq(S), NEW e \in S
  PROVE  /\ Append(q, e) \in Seq(S)
         /\ Len(q) \in Nat /\ DOMAIN q = 1 .. Len(q)
         /\ Len(Append(q, e)) = Len(q) + 1 /\ DOMAIN Append(q, e) = 1 .. (Len(q) + 1)
         /\ Append(q, e)[Len(q) + 1] = e
         /\ \A k \in 1 .. Len(q) : Append(q, e)[k] = q[k]
<1>1. /\ Append(q, e) \in Seq(S)
      /\ Len(Append(q, e)) = Len(q) + 1
      /\ Append(q, e)[Len(q) + 1] = e
      /\ \A k \in 1 .. Len(q) : Append(q, e)[k] = q[k]
  BY AppendProperties
<1> QED
  BY <1>1, LenProperties

\* One more line says nothing new about the lines before it.
LEMMA JoinedStays ==
  ASSUME NEW list \in Seq(Lines), NEW x \in Lines, NEW i \in 1 .. Len(list), NEW j \in 1 .. Len(list)
  PROVE  Joined(Append(list, x), i, j) <=> Joined(list, i, j)
<1> DEFINE longer == Append(list, x)
<1>1. /\ Len(list) \in Nat /\ DOMAIN list = 1 .. Len(list) /\ DOMAIN longer = 1 .. (Len(list) + 1)
      /\ \A k \in 1 .. Len(list) : longer[k] = list[k]
  BY OneMore
<1> HIDE DEF longer
<1>2. \A k \in DOMAIN longer : (k \in i .. j \/ k \in j .. i) => k \in DOMAIN list
  BY <1>1
<1>3. \A k \in (i + 1) .. j : k \in DOMAIN list
  BY <1>1
<1>4. DOMAIN list \subseteq DOMAIN longer
  BY <1>1
<1>5. longer[i] = list[i] /\ longer[j] = list[j]
  BY <1>1
<1>6. (\A k \in DOMAIN longer : (k \in i .. j \/ k \in j .. i) => longer[k].key # "blank")
        <=> (\A k \in DOMAIN list : (k \in i .. j \/ k \in j .. i) => list[k].key # "blank")
  BY <1>1, <1>2, <1>4
<1>7. (\A k \in (i + 1) .. j : longer[k].key \notin {"url", "end"})
        <=> (\A k \in (i + 1) .. j : list[k].key \notin {"url", "end"})
  BY <1>1, <1>3
<1>8. Joined(longer, i, j) <=> Joined(list, i, j)
  BY <1>5, <1>6, <1>7 DEF Joined
<1> QED
  BY <1>8 DEF longer

\* It continues the entry of the line before it, or none.
LEMMA JoinedNext ==
  ASSUME NEW list \in Seq(Lines), NEW x \in Lines, NEW i \in 1 .. Len(list),
         list[i].in = x.in => list[Len(list)].in = x.in
  PROVE  Joined(Append(list, x), i, Len(list) + 1) <=>
           /\ list[i].in = x.in
           /\ Joined(list, i, Len(list))
           /\ IF x.in = "file" THEN x.key # "blank" ELSE x.key \notin {"url", "end"}
<1> DEFINE longer == Append(list, x)
           n == Len(list)
<1>1. /\ n \in Nat /\ DOMAIN list = 1 .. n /\ DOMAIN longer = 1 .. (n + 1)
      /\ \A k \in 1 .. n : longer[k] = list[k]
      /\ longer[n + 1] = x
  BY OneMore
<1> HIDE DEF longer, n
<1>2. i \in 1 .. n
  BY DEF n
<1>3. longer[i] = list[i] /\ i <= n /\ i <= n + 1 /\ n \in 1 .. n
  BY <1>1, <1>2
<1>4. (\A k \in DOMAIN longer : (k \in i .. (n + 1) \/ k \in (n + 1) .. i) => longer[k].key # "blank")
        <=> /\ \A k \in DOMAIN list : (k \in i .. n \/ k \in n .. i) => list[k].key # "blank"
            /\ x.key # "blank"
  <2>1. \A k \in DOMAIN longer : (k \in i .. (n + 1) \/ k \in (n + 1) .. i) <=> k = n + 1 \/ k \in i .. n
    BY <1>1, <1>2
  <2>2. \A k \in DOMAIN list : (k \in i .. n \/ k \in n .. i) <=> k \in i .. n
    BY <1>1, <1>2
  <2>3. n + 1 \in DOMAIN longer /\ i .. n \subseteq DOMAIN list /\ DOMAIN list \subseteq DOMAIN longer
    BY <1>1, <1>2
  <2> QED
    BY <1>1, <2>1, <2>2, <2>3
<1>5. (\A k \in (i + 1) .. (n + 1) : longer[k].key \notin {"url", "end"})
        <=> /\ \A k \in (i + 1) .. n : list[k].key \notin {"url", "end"}
            /\ x.key \notin {"url", "end"}
  <2>1. \A k : k \in (i + 1) .. (n + 1) <=> k = n + 1 \/ k \in (i + 1) .. n
    BY <1>1, <1>2
  <2>2. \A k \in (i + 1) .. n : k \in 1 .. n
    BY <1>1, <1>2
  <2> QED
    BY <1>1, <2>1, <2>2
<1>6. list[i].in = x.in => list[n].in = x.in
  BY DEF n
<1>7. Joined(longer, i, n + 1) <=>
        /\ list[i].in = x.in
        /\ Joined(list, i, n)
        /\ IF x.in = "file" THEN x.key # "blank" ELSE x.key \notin {"url", "end"}
  BY <1>1, <1>3, <1>4, <1>5, <1>6 DEF Joined
<1> QED
  BY <1>7 DEF longer, n

\* The later line with a key is the one that counts.
LEMMA LastAppend ==
  ASSUME NEW list \in Seq(Lines), NEW x \in Lines, NEW of \in Seq(Nat), Len(of) = Len(list),
         NEW v \in Nat, NEW e, NEW key, NEW default
  PROVE  LastIn(Append(list, x), Append(of, v), e, key, default) =
           IF v = e /\ x.key = key THEN x.value ELSE LastIn(list, of, e, key, default)
<1> DEFINE longer == Append(list, x)
           more == Append(of, v)
           n == Len(list)
           old == {j \in DOMAIN list : of[j] = e /\ list[j].key = key}
           new == {j \in DOMAIN longer : more[j] = e /\ longer[j].key = key}
<1>1. /\ n \in Nat /\ DOMAIN list = 1 .. n /\ DOMAIN longer = 1 .. (n + 1)
      /\ \A k \in 1 .. n : longer[k] = list[k]
      /\ longer[n + 1] = x
  BY OneMore
<1>2. more[n + 1] = v /\ \A k \in 1 .. n : more[k] = of[k]
  BY OneMore
<1>3. /\ LastIn(longer, more, e, key, default) = IF new = {} THEN default ELSE longer[Max(new)].value
      /\ LastIn(list, of, e, key, default) = IF old = {} THEN default ELSE list[Max(old)].value
  BY DEF LastIn
<1> HIDE DEF longer, more, n
<1>4. \A j : j \in new <=> j \in old \/ (j = n + 1 /\ v = e /\ x.key = key)
  <2> TAKE j
  <2>1. j \in DOMAIN longer <=> j \in DOMAIN list \/ j = n + 1
    BY <1>1
  <2>2. CASE j \in DOMAIN list
    <3>1. j # n + 1 /\ longer[j] = list[j] /\ more[j] = of[j]
      BY <1>1, <1>2, <2>2
    <3> QED
      BY <2>1, <2>2, <3>1
  <2>3. CASE j = n + 1
    <3>1. j \notin DOMAIN list
      BY <1>1, <2>3
    <3> QED
      BY <1>1, <1>2, <2>1, <2>3, <3>1
  <2> QED
    BY <2>1, <2>2, <2>3
<1>5. CASE v = e /\ x.key = key
  <2>1. n + 1 \in new /\ n + 1 \in Nat /\ new \in SUBSET (0 .. n + 1)
    BY <1>1, <1>4, <1>5
  <2>2. Max(new) = n + 1
    <3> HIDE DEF new
    <3>1. Max(new) \in new /\ \A j \in new : j <= Max(new)
      BY <2>1, MaxIsGreatest
    <3>2. Max(new) \in 0 .. (n + 1) /\ n + 1 <= Max(new)
      BY <2>1, <3>1
    <3> QED
      BY <1>1, <3>2
  <2>3. new # {}
    BY <2>1
  <2> HIDE DEF new, old
  <2> QED
    BY <1>1, <1>3, <1>5, <2>2, <2>3 DEF longer, more
<1>6. CASE ~(v = e /\ x.key = key)
  <2>1. new = old
    BY <1>4, <1>6
  <2>2. ASSUME old # {} PROVE longer[Max(old)] = list[Max(old)]
    <3>1. old \in SUBSET (0 .. n) /\ old \subseteq 1 .. n
      BY <1>1
    <3>2. Max(old) \in old
      <4> HIDE DEF old
      <4> QED
        BY <1>1, <2>2, <3>1, MaxIsGreatest
    <3> QED
      BY <1>1, <3>1, <3>2
  <2> HIDE DEF new, old
  <2> QED
    BY <1>3, <1>6, <2>1, <2>2 DEF longer, more
<1> QED
  BY <1>5, <1>6

\* A line that is numbered like those it is together with leaves the numbers right.
LEMMA NumberingGrows ==
  ASSUME NEW list \in Seq(Lines), NEW x \in Lines, NEW of \in Seq(Nat),
         NEW count \in Nat, NEW more \in Nat, count <= more, NEW v \in 0 .. more,
         Numbering(list, of, count),
         \A i \in 1 .. Len(list) :
           of[i] # 0 => (Joined(Append(list, x), i, Len(list) + 1) <=> v = of[i]),
         v # 0 => /\ Joined(Append(list, x), Len(list) + 1, Len(list) + 1)
                  /\ \A i \in 1 .. Len(list) : of[i] <= v,
         v = 0 => x.key # "url" /\ (x.in = "file" => x.key = "blank"),
         x.in = "config" /\ x.key = "url" => \A i \in 1 .. Len(list) : of[i] # v
  PROVE  Numbering(Append(list, x), Append(of, v), more)
<1> DEFINE longer == Append(list, x)
           of2 == Append(of, v)
           n == Len(list)
<1>1. /\ n \in Nat /\ Len(longer) = n + 1 /\ longer[n + 1] = x
      /\ \A k \in 1 .. n : longer[k] = list[k]
  BY OneMore
<1>2. /\ of2 \in Seq(Nat) /\ Len(of2) = n + 1 /\ of2[n + 1] = v
      /\ \A k \in 1 .. n : of2[k] = of[k] /\ of[k] \in Nat
  <2>1. Len(of) = n
    BY DEF Numbering
  <2> QED
    BY <2>1, OneMore, ElementOfSeq
<1>3. \A i, j \in 1 .. n : Joined(longer, i, j) <=> Joined(list, i, j)
  BY JoinedStays
<1>4. \A i \in 1 .. n : of[i] # 0 => (Joined(longer, i, n + 1) <=> v = of[i])
  OBVIOUS
<1>5. v # 0 => Joined(longer, n + 1, n + 1) /\ \A i \in 1 .. n : of[i] <= v
  OBVIOUS
<1> HIDE DEF longer, of2, n
<1>6. ASSUME NEW i \in 1 .. (n + 1), NEW j \in 1 .. (n + 1), i <= j, of2[i] # 0
      PROVE  (Joined(longer, i, j) <=> of2[j] = of2[i]) /\ (of2[j] # 0 => of2[i] <= of2[j])
  <2>1. CASE j \in 1 .. n
    <3>1. i \in 1 .. n
      BY <1>1, <1>6, <2>1
    <3> QED
      BY ZenonT(60), <1>2, <1>3, <1>6, <2>1, <3>1 DEF Numbering, n
  <2>2. CASE j = n + 1 /\ i \in 1 .. n
    BY <1>2, <1>4, <1>5, <1>6, <2>2
  <2>3. CASE j = n + 1 /\ i = n + 1
    BY <1>2, <1>5, <1>6, <2>3
  <2> QED
    BY <1>1, <2>1, <2>2, <2>3
<1>7. ASSUME NEW i \in 1 .. (n + 1)
      PROVE  /\ of2[i] <= more
             /\ longer[i].key = "url" => of2[i] # 0
             /\ longer[i].in = "file" /\ of2[i] = 0 => longer[i].key = "blank"
  <2>1. CASE i \in 1 .. n
    <3>1. of[i] \in Nat /\ of[i] <= count
      BY <1>2, <2>1 DEF Numbering, n
    <3>2. of[i] <= more
      BY <3>1
    <3>3. longer[i] = list[i] /\ of2[i] = of[i]
      BY <1>1, <1>2, <2>1
    <3>4. /\ list[i].key = "url" => of[i] # 0
          /\ list[i].in = "file" /\ of[i] = 0 => list[i].key = "blank"
      BY <2>1 DEF Numbering, n
    <3> QED
      BY <3>2, <3>3, <3>4
  <2>2. CASE i = n + 1
    BY <1>1, <1>2, <2>2
  <2> QED
    BY <1>1, <2>1, <2>2
<1>8. ASSUME NEW i \in 1 .. (n + 1), NEW j \in 1 .. (n + 1),
             longer[i].in = "config", longer[i].key = "url", j < i
      PROVE  of2[j] # of2[i]
  <2>1. j \in 1 .. n
    BY <1>1, <1>8
  <2>2. CASE i \in 1 .. n
    BY <1>1, <1>2, <1>8, <2>1, <2>2 DEF Numbering, n
  <2>3. CASE i = n + 1
    <3>1. of[j] # v
      BY <1>1, <1>8, <2>1, <2>3 DEF n
    <3> QED
      BY <1>2, <2>1, <2>3, <3>1
  <2> QED
    BY <1>1, <2>2, <2>3
<1>9. Numbering(longer, of2, more)
  BY <1>1, <1>2, <1>6, <1>7, <1>8 DEF Numbering
<1> QED
  BY <1>9 DEF longer, of2

\* The line before one more is of the same file if any line before it is.
LEMMA SameFile ==
  ASSUME NEW list \in Seq(Lines), NEW of, NEW count, NEW isOpen, NEW in,
         Opening(list, of, count, isOpen, in)
  PROVE  \A i \in 1 .. Len(list) : list[i].in = in => list[Len(list)].in = in
<1> TAKE i \in 1 .. Len(list)
<1>1. Len(list) \in 1 .. Len(list) /\ i <= Len(list)
  BY LenProperties
<1> QED
  BY <1>1 DEF Opening

\* What is left when the line is of the last entry, or of none.
LEMMA OpeningGrows ==
  ASSUME NEW list \in Seq(Lines), NEW x \in Lines, NEW of \in Seq(Nat), Len(of) = Len(list),
         NEW count \in Nat, NEW more \in Nat, NEW v \in Nat, NEW isOpen, NEW in, NEW opens \in BOOLEAN,
         Opening(list, of, count, isOpen, in), x.in = in,
         opens => v = more /\ v # 0,
         ~opens => v = 0 /\ \A i \in 1 .. Len(list) : of[i] # 0 => ~Joined(Append(list, x), i, Len(list) + 1)
  PROVE  Opening(Append(list, x), Append(of, v), more, opens, in)
<1> DEFINE longer == Append(list, x)
           of2 == Append(of, v)
           n == Len(list)
<1>1. /\ n \in Nat /\ Len(longer) = n + 1 /\ longer[n + 1] = x
      /\ \A k \in 1 .. n : longer[k] = list[k]
  BY OneMore
<1>2. of2[n + 1] = v /\ \A k \in 1 .. n : of2[k] = of[k]
  BY OneMore
<1>3. ~opens => v = 0 /\ \A i \in 1 .. n : of[i] # 0 => ~Joined(longer, i, n + 1)
  OBVIOUS
<1> HIDE DEF longer, of2, n
<1>4. in = "file" => \A i \in 1 .. (n + 1) : longer[i].in = "file"
  BY <1>1 DEF Opening, n
<1>5. \A i, j \in 1 .. (n + 1) : i <= j /\ longer[i].in = in => longer[j].in = in
  BY SMTT(30), <1>1 DEF Opening, n
<1>6. ~opens => \A i \in 1 .. (n + 1) : of2[i] # 0 /\ longer[i].in = in => ~Joined(longer, i, n + 1)
  BY <1>1, <1>2, <1>3
<1>7. opens => n + 1 # 0 /\ more # 0 /\ of2[n + 1] = more /\ longer[n + 1].in = in
  BY <1>1, <1>2
<1>8. Opening(longer, of2, more, opens, in)
  BY <1>1, <1>4, <1>5, <1>6, <1>7 DEF Opening
<1> QED
  BY <1>8 DEF longer, of2

\* A line of no entry changes none.
LEMMA ContentsStay ==
  ASSUME NEW list \in Seq(Lines), NEW x \in Lines, NEW of \in Seq(Nat), Len(of) = Len(list),
         NEW entries \in Seq(Fixtures), Contents(list, of, entries)
  PROVE  Contents(Append(list, x), Append(of, 0), entries)
<1> SUFFICES ASSUME NEW e \in 1 .. Len(entries)
             PROVE  \A key, default :
                      LastIn(Append(list, x), Append(of, 0), e, key, default) = LastIn(list, of, e, key, default)
  BY DEF Contents
<1>1. e # 0
  OBVIOUS
<1> QED
  BY <1>1, LastAppend

\* A line that begins an entry makes it what the line says, and moves the others down.
LEMMA ContentsBegin ==
  ASSUME NEW list \in Seq(Lines), NEW line \in SettingLines \cup {Line("other", NoBody)},
         NEW x \in Lines, x.key = line.key, x.value = line.value,
         NEW of \in Seq(Nat), Len(of) = Len(list), NEW entries \in Seq(Fixtures),
         \A i \in 1 .. Len(list) : of[i] <= Len(entries),
         Contents(list, of, entries)
  PROVE  Contents(Append(list, x), Append(of, Len(entries) + 1), Setting(WithEntry(entries), line))
<1> DEFINE count == Len(entries)
           new == Setting(WithEntry(entries), line)
           lastIn(e, key, default) == LastIn(Append(list, x), Append(of, count + 1), e, key, default)
<1>1. /\ WithEntry(entries) \in Seq(Fixtures) /\ WithEntry(entries) # <<>>
      /\ DOMAIN WithEntry(entries) = 1 .. (count + 1) /\ count \in Nat
      /\ WithEntry(entries)[1] = Entry
      /\ \A k \in 1 .. count : WithEntry(entries)[k + 1] = entries[k]
  BY BegunType, LenProperties
<1>2. /\ new \in Seq(Fixtures) /\ DOMAIN new = 1 .. (count + 1)
      /\ new[1] = [match |-> IF line.key = "url" THEN line.value ELSE NoPattern,
                   status |-> IF line.key = "status" THEN line.value ELSE DefaultStatus,
                   body |-> IF line.key = "body" THEN line.value ELSE NoBody]
      /\ \A k \in DOMAIN WithEntry(entries) \ {1} : new[k] = WithEntry(entries)[k]
  <2> DEFINE begun == WithEntry(entries)
  <2>1. begun \in Seq(Fixtures) /\ begun # <<>>
    BY <1>1
  <2> HIDE DEF begun
  <2>2. /\ Setting(begun, line) \in Seq(Fixtures) /\ DOMAIN Setting(begun, line) = DOMAIN begun
        /\ Setting(begun, line)[1] =
             [match |-> IF line.key = "url" THEN line.value ELSE begun[1].match,
              status |-> IF line.key = "status" THEN line.value ELSE begun[1].status,
              body |-> IF line.key = "body" THEN line.value ELSE begun[1].body]
        /\ \A k \in DOMAIN begun \ {1} : Setting(begun, line)[k] = begun[k]
    BY <2>1, SettingFirst
  <2> QED
    BY <1>1, <2>2 DEF Entry, begun
<1>3. Len(new) = count + 1
  BY <1>1, <1>2, LenProperties
<1>4. \A k \in 1 .. count : new[k + 1] = entries[k]
  <2> TAKE k \in 1 .. count
  <2>1. k + 1 \in DOMAIN WithEntry(entries) \ {1}
    BY <1>1
  <2> QED
    BY <1>1, <1>2, <2>1
<1>5. \A e, key, default :
        lastIn(e, key, default) =
          IF count + 1 = e /\ x.key = key THEN x.value ELSE LastIn(list, of, e, key, default)
  BY <1>1, LastAppend
<1>6. \A key, default : LastIn(list, of, count + 1, key, default) = default
  <2>1. \A j \in DOMAIN list : of[j] # count + 1
    <3> TAKE j \in DOMAIN list
    <3>1. j \in 1 .. Len(list) /\ j \in 1 .. Len(of)
      BY LenProperties
    <3>2. of[j] \in Nat /\ of[j] <= count
      BY <3>1, ElementOfSeq
    <3> QED
      BY <1>1, <3>2
  <2> QED
    BY <2>1 DEF LastIn
<1> HIDE DEF new, lastIn, count
<1>7. ASSUME NEW e \in 1 .. (count + 1)
      PROVE  new[(count + 1) + 1 - e] = [match |-> lastIn(e, "url", NoPattern),
                                         status |-> lastIn(e, "status", DefaultStatus),
                                         body |-> lastIn(e, "body", NoBody)]
  <2>1. CASE e = count + 1
    <3>1. (count + 1) + 1 - e = 1
      BY <1>1, <2>1
    <3> QED
      BY <1>2, <1>5, <1>6, <2>1, <3>1
  <2>2. CASE e # count + 1
    <3>1. e \in 1 .. count /\ count + 1 - e \in 1 .. count /\ (count + 1) + 1 - e = (count + 1 - e) + 1
      BY <1>1, <1>7, <2>2
    <3>2. new[(count + 1) + 1 - e] = entries[count + 1 - e]
      BY <1>4, <3>1
    <3>3. entries[count + 1 - e] = [match |-> LastIn(list, of, e, "url", NoPattern),
                                    status |-> LastIn(list, of, e, "status", DefaultStatus),
                                    body |-> LastIn(list, of, e, "body", NoBody)]
      BY <3>1 DEF Contents, count
    <3> QED
      BY <1>5, <2>2, <3>2, <3>3
  <2> QED
    BY <2>1, <2>2
<1>8. Contents(Append(list, x), Append(of, count + 1), new)
  BY <1>3, <1>7 DEF Contents, lastIn
<1> QED
  BY <1>8 DEF new, count

\* A line of the last entry makes it what the line says.
LEMMA ContentsContinue ==
  ASSUME NEW list \in Seq(Lines), NEW line \in SettingLines \cup {Line("other", NoBody)},
         NEW x \in Lines, x.key = line.key, x.value = line.value,
         NEW of \in Seq(Nat), Len(of) = Len(list), NEW entries \in Seq(Fixtures), entries # <<>>,
         Contents(list, of, entries)
  PROVE  Contents(Append(list, x), Append(of, Len(entries)), Setting(entries, line))
<1> DEFINE count == Len(entries)
           new == Setting(entries, line)
           lastIn(e, key, default) == LastIn(Append(list, x), Append(of, count), e, key, default)
<1>1. count \in Nat \ {0} /\ DOMAIN entries = 1 .. count
  BY EmptySeq, LenProperties
<1>2. /\ new \in Seq(Fixtures) /\ DOMAIN new = 1 .. count
      /\ new[1] = [match |-> IF line.key = "url" THEN line.value ELSE entries[1].match,
                   status |-> IF line.key = "status" THEN line.value ELSE entries[1].status,
                   body |-> IF line.key = "body" THEN line.value ELSE entries[1].body]
      /\ \A k \in 1 .. count : k # 1 => new[k] = entries[k]
  BY <1>1, SettingFirst
<1>3. Len(new) = count
  BY <1>1, <1>2, LenProperties
<1>4. \A e, key, default :
        lastIn(e, key, default) =
          IF count = e /\ x.key = key THEN x.value ELSE LastIn(list, of, e, key, default)
  BY <1>1, LastAppend
<1>5. \A e \in 1 .. count :
        entries[count + 1 - e] = [match |-> LastIn(list, of, e, "url", NoPattern),
                                  status |-> LastIn(list, of, e, "status", DefaultStatus),
                                  body |-> LastIn(list, of, e, "body", NoBody)]
  BY DEF Contents
<1> HIDE DEF new, lastIn, count
<1>6. ASSUME NEW e \in 1 .. count
      PROVE  new[count + 1 - e] = [match |-> lastIn(e, "url", NoPattern),
                                   status |-> lastIn(e, "status", DefaultStatus),
                                   body |-> lastIn(e, "body", NoBody)]
  <2>1. CASE e = count
    <3>1. count + 1 - e = 1
      BY <1>1, <2>1
    <3>2. entries[1] = [match |-> LastIn(list, of, e, "url", NoPattern),
                        status |-> LastIn(list, of, e, "status", DefaultStatus),
                        body |-> LastIn(list, of, e, "body", NoBody)]
      BY <1>5, <3>1
    <3> QED
      BY <1>2, <1>4, <2>1, <3>1, <3>2
  <2>2. CASE e # count
    <3>1. count + 1 - e \in 1 .. count /\ count + 1 - e # 1
      BY <1>1, <1>6, <2>2
    <3> QED
      BY <1>2, <1>4, <1>5, <2>2, <3>1
  <2> QED
    BY <2>1, <2>2
<1>7. Contents(Append(list, x), Append(of, count), new)
  BY <1>3, <1>6 DEF Contents, lastIn
<1> QED
  BY <1>7 DEF new, count

\* A blank line, the end of a section, or a setting for no entry.
LEMMA LineOfNone ==
  ASSUME NEW list \in Seq(Lines), NEW x \in Lines, NEW entries \in Seq(Fixtures),
         NEW isOpen \in BOOLEAN, Read(list, entries, isOpen, x.in),
         \/ x.in = "file" /\ x.key = "blank"
         \/ x.in = "config" /\ (x.key = "end" \/ (~isOpen /\ x.key # "url"))
  PROVE  Read(Append(list, x), entries, FALSE, x.in)
<1> DEFINE n == Len(list)
           count == Len(entries)
<1>1. PICK of \in Seq(Nat) : /\ Numbering(list, of, count)
                            /\ Opening(list, of, count, isOpen, x.in)
                            /\ Contents(list, of, entries)
  BY DEF Read
<1>2. Len(of) = n /\ n \in Nat /\ count \in Nat
  BY <1>1, LenProperties DEF Numbering
<1>3. ASSUME NEW i \in 1 .. n, of[i] # 0 PROVE ~Joined(Append(list, x), i, n + 1)
  <2>1. list[i].in = x.in => list[n].in = x.in
    BY <1>1, SameFile
  <2>2. Joined(Append(list, x), i, n + 1) =>
          /\ list[i].in = x.in
          /\ Joined(list, i, n)
          /\ IF x.in = "file" THEN x.key # "blank" ELSE x.key \notin {"url", "end"}
    BY <2>1, JoinedNext
  <2>3. ~isOpen /\ list[i].in = x.in => ~Joined(list, i, n)
    BY <1>1, <1>3 DEF Opening
  <2> QED
    BY <2>2, <2>3
<1>4. Numbering(Append(list, x), Append(of, 0), count)
  <2>1. \A i \in 1 .. n : of[i] # 0 => (Joined(Append(list, x), i, n + 1) <=> 0 = of[i])
    BY <1>3
  <2>2. 0 \in 0 .. count /\ count <= count
    BY <1>2
  <2>3. x.key # "url" /\ (x.in = "file" => x.key = "blank")
    OBVIOUS
  <2> HIDE DEF count
  <2> QED
    BY <1>1, <1>2, <2>1, <2>2, <2>3, NumberingGrows
<1>5. Opening(Append(list, x), Append(of, 0), count, FALSE, x.in)
  <2> HIDE DEF count
  <2> QED
    BY <1>1, <1>2, <1>3, OpeningGrows
<1>6. Contents(Append(list, x), Append(of, 0), entries)
  BY <1>1, <1>2, ContentsStay
<1>7. Append(of, 0) \in Seq(Nat)
  BY AppendProperties
<1> QED
  BY <1>4, <1>5, <1>6, <1>7 DEF Read

\* A line that begins an entry.
LEMMA LineOfNew ==
  ASSUME NEW list \in Seq(Lines), NEW line \in SettingLines \cup {Line("other", NoBody)},
         NEW x \in Lines, x.key = line.key, x.value = line.value, NEW entries \in Seq(Fixtures),
         NEW isOpen \in BOOLEAN, Read(list, entries, isOpen, x.in),
         \/ x.in = "file" /\ ~isOpen /\ x.key # "blank"
         \/ x.in = "config" /\ x.key = "url"
  PROVE  Read(Append(list, x), Setting(WithEntry(entries), line), TRUE, x.in)
<1> DEFINE n == Len(list)
           count == Len(entries)
           new == Setting(WithEntry(entries), line)
<1>1. PICK of \in Seq(Nat) : /\ Numbering(list, of, count)
                            /\ Opening(list, of, count, isOpen, x.in)
                            /\ Contents(list, of, entries)
  BY DEF Read
<1>2. /\ Len(of) = n /\ n \in Nat /\ count \in Nat
      /\ \A i \in 1 .. n : of[i] \in Nat /\ of[i] <= count
  BY <1>1, LenProperties, ElementOfSeq DEF Numbering
<1>3. Len(new) = count + 1
  <2>1. /\ WithEntry(entries) \in Seq(Fixtures) /\ WithEntry(entries) # <<>>
        /\ DOMAIN WithEntry(entries) = 1 .. (count + 1)
    BY BegunType
  <2>2. new \in Seq(Fixtures) /\ DOMAIN new = 1 .. (count + 1)
    BY <2>1, SettingFirst
  <2> HIDE DEF new, count
  <2> QED
    BY <1>2, <2>2, LenProperties
<1>4. ASSUME NEW i \in 1 .. n, of[i] # 0 PROVE ~Joined(Append(list, x), i, n + 1)
  <2>1. list[i].in = x.in => list[n].in = x.in
    BY <1>1, SameFile
  <2>2. Joined(Append(list, x), i, n + 1) =>
          /\ list[i].in = x.in
          /\ Joined(list, i, n)
          /\ IF x.in = "file" THEN x.key # "blank" ELSE x.key \notin {"url", "end"}
    BY <2>1, JoinedNext
  <2>3. ~isOpen /\ list[i].in = x.in => ~Joined(list, i, n)
    BY <1>1, <1>4 DEF Opening
  <2> QED
    BY <2>2, <2>3
<1>5. Joined(Append(list, x), n + 1, n + 1)
  <2>1. /\ DOMAIN Append(list, x) = 1 .. (n + 1)
        /\ Append(list, x)[n + 1] = x
    BY OneMore
  <2> QED
    BY <1>2, <2>1 DEF Joined
<1>6. Numbering(Append(list, x), Append(of, count + 1), count + 1)
  <2>1. \A i \in 1 .. n : of[i] # count + 1 /\ of[i] <= count + 1
    BY <1>2
  <2>2. \A i \in 1 .. n : of[i] # 0 => (Joined(Append(list, x), i, n + 1) <=> count + 1 = of[i])
    BY <1>4, <2>1
  <2>3. count + 1 \in Nat /\ count + 1 \in 0 .. (count + 1) /\ count <= count + 1 /\ count + 1 # 0
    BY <1>2
  <2> HIDE DEF count
  <2> QED
    BY <1>1, <1>2, <1>5, <2>1, <2>2, <2>3, NumberingGrows
<1>7. Opening(Append(list, x), Append(of, count + 1), count + 1, TRUE, x.in)
  <2>1. count + 1 \in Nat /\ count + 1 # 0
    BY <1>2
  <2> HIDE DEF count
  <2> QED
    BY <1>1, <1>2, <2>1, OpeningGrows
<1>8. Contents(Append(list, x), Append(of, count + 1), new)
  BY <1>1, <1>2, ContentsBegin
<1>9. Append(of, count + 1) \in Seq(Nat)
  BY <1>2, AppendProperties
<1> QED
  BY <1>3, <1>6, <1>7, <1>8, <1>9 DEF Read

\* A line of the open entry.
LEMMA LineOfOpen ==
  ASSUME NEW list \in Seq(Lines), NEW line \in SettingLines \cup {Line("other", NoBody)},
         NEW x \in Lines, x.key = line.key, x.value = line.value, NEW entries \in Seq(Fixtures),
         entries # <<>>, Read(list, entries, TRUE, x.in),
         IF x.in = "file" THEN x.key # "blank" ELSE x.key \notin {"url", "end"}
  PROVE  Read(Append(list, x), Setting(entries, line), TRUE, x.in)
<1> DEFINE n == Len(list)
           count == Len(entries)
           new == Setting(entries, line)
<1>1. PICK of \in Seq(Nat) : /\ Numbering(list, of, count)
                            /\ Opening(list, of, count, TRUE, x.in)
                            /\ Contents(list, of, entries)
  BY DEF Read
<1>2. /\ Len(of) = n /\ n \in Nat /\ count \in Nat
      /\ \A i \in 1 .. n : of[i] \in Nat /\ of[i] <= count
  BY <1>1, LenProperties, ElementOfSeq DEF Numbering
<1>3. Len(new) = count
  <2>1. new \in Seq(Fixtures) /\ DOMAIN new = DOMAIN entries
    BY SettingFirst
  <2>2. DOMAIN entries = 1 .. count
    BY LenProperties
  <2> HIDE DEF new, count
  <2> QED
    BY <1>2, <2>1, <2>2, LenProperties
<1>4. n # 0 /\ count # 0 /\ of[n] = count /\ list[n].in = x.in /\ n \in 1 .. n
  BY <1>1, <1>2 DEF Opening
<1>5. ASSUME NEW i \in 1 .. n, of[i] # 0
      PROVE  Joined(Append(list, x), i, n + 1) <=> count = of[i]
  <2>1. Joined(Append(list, x), i, n + 1) <=> list[i].in = x.in /\ Joined(list, i, n)
    BY <1>4, JoinedNext
  <2>2. Joined(list, i, n) <=> of[n] = of[i]
    BY <1>1, <1>4, <1>5 DEF Numbering
  <2>3. Joined(list, i, n) => list[i].in = x.in
    BY <1>4 DEF Joined
  <2> QED
    BY <1>4, <2>1, <2>2, <2>3
<1>6. Joined(Append(list, x), n + 1, n + 1)
  <2>1. /\ DOMAIN Append(list, x) = 1 .. (n + 1)
        /\ Append(list, x)[n + 1] = x
    BY OneMore
  <2> QED
    BY <1>2, <2>1 DEF Joined, Lines
<1>7. Numbering(Append(list, x), Append(of, count), count)
  <2>1. count \in 0 .. count /\ count <= count
    BY <1>2
  <2>2. ~(x.in = "config" /\ x.key = "url")
    OBVIOUS
  <2> HIDE DEF count
  <2> QED
    BY <1>1, <1>2, <1>4, <1>5, <1>6, <2>1, <2>2, NumberingGrows
<1>8. Opening(Append(list, x), Append(of, count), count, TRUE, x.in)
  <2> HIDE DEF count
  <2> QED
    BY <1>1, <1>2, <1>4, OpeningGrows
<1>9. Contents(Append(list, x), Append(of, count), new)
  BY <1>1, <1>2, ContentsContinue
<1>10. Append(of, count) \in Seq(Nat)
  BY <1>2, AppendProperties
<1> QED
  BY <1>3, <1>7, <1>8, <1>9, <1>10 DEF Read

----------------------------------------------------------------------------
(* The later line wins *)

LEMMA ReadInit == Init => ReadInv
<1> SUFFICES ASSUME Init PROVE lines \in Seq(Lines) /\ Read(lines, fixtures, open, phase)
  BY DEF ReadInv
<1>1. lines \in Seq(Lines) /\ Len(lines) = 0 /\ Len(fixtures) = 0 /\ open = FALSE
  BY DEF Init
<1>2. <<>> \in Seq(Nat) /\ Len(<<>>) = 0
  OBVIOUS
<1>3. 1 .. 0 = {}
  OBVIOUS
<1>4. /\ Numbering(lines, <<>>, Len(fixtures))
      /\ Opening(lines, <<>>, Len(fixtures), open, phase)
      /\ Contents(lines, <<>>, fixtures)
  BY <1>1, <1>2, <1>3 DEF Numbering, Opening, Contents
<1> QED
  BY <1>1, <1>2, <1>4 DEF Read

LEMMA ReadStep == TypeInv /\ ReadInv /\ [Next]_vars => ReadInv'
<1> SUFFICES ASSUME TypeInv, ReadInv, [Next]_vars, phase' # "running"
             PROVE  lines' \in Seq(Lines) /\ Read(lines', fixtures', open', phase')
  BY DEF ReadInv
<1>1. phase # "running" => lines \in Seq(Lines) /\ Read(lines, fixtures, open, phase)
  BY DEF ReadInv
<1>2. fixtures \in Seq(Fixtures) /\ open \in BOOLEAN /\ (open => fixtures # <<>>)
  BY DEF TypeInv
<1>3. ASSUME NEW line \in SettingLines \cup {Line("other", NoBody), Line("blank", NoBody), Line("end", NoBody)},
             NEW in \in {"file", "config"}
      PROVE  [in |-> in, key |-> line.key, value |-> line.value] \in Lines
  BY DEF SettingLines, Line, Lines
<1>4. CASE FixtureLine
  <2>1. phase = "file" /\ UNCHANGED phase
    BY <1>4 DEF FixtureLine, Reading
  <2>2. CASE Reading("file", Line("blank", NoBody)) /\ open' = FALSE /\ UNCHANGED fixtures
    <3> DEFINE x == [in |-> "file", key |-> Line("blank", NoBody).key, value |-> Line("blank", NoBody).value]
    <3>1. x \in Lines /\ x.in = "file" /\ x.key = "blank" /\ lines' = Append(lines, x)
      BY <1>3, <2>2 DEF Reading, Line
    <3> HIDE DEF x
    <3>2. lines \in Seq(Lines) /\ Read(lines, fixtures, open, x.in)
      BY <1>1, <2>1, <3>1
    <3>3. Read(Append(lines, x), fixtures, FALSE, x.in)
      BY <1>2, <3>1, <3>2, LineOfNone
    <3> QED
      BY <2>1, <2>2, <3>1, <3>2, <3>3, OneMore
  <2>3. ASSUME NEW line \in SettingLines \cup {Line("other", NoBody)}, Reading("file", line), open' = TRUE,
               fixtures' = Setting(IF open THEN fixtures ELSE WithEntry(fixtures), line)
        PROVE  lines' \in Seq(Lines) /\ Read(lines', fixtures', open', phase')
    <3> DEFINE x == [in |-> "file", key |-> line.key, value |-> line.value]
    <3>1. /\ x \in Lines /\ x.in = "file" /\ x.key = line.key /\ x.value = line.value
          /\ lines' = Append(lines, x) /\ line.key # "blank"
      <4>1. x \in Lines
        BY <1>3
      <4>2. line.key # "blank"
        BY DEF Line, SettingLines
      <4> QED
        BY <2>3, <4>1, <4>2 DEF Reading
    <3> HIDE DEF x
    <3>2. lines \in Seq(Lines) /\ Read(lines, fixtures, open, x.in)
      BY <1>1, <2>1, <3>1
    <3>3. CASE open
      <4>1. Read(Append(lines, x), Setting(fixtures, line), TRUE, x.in)
        BY <1>2, <3>1, <3>2, <3>3, LineOfOpen
      <4> QED
        BY <2>1, <2>3, <3>1, <3>2, <3>3, <4>1, OneMore
    <3>4. CASE ~open
      <4>1. Read(Append(lines, x), Setting(WithEntry(fixtures), line), TRUE, x.in)
        BY <1>2, <3>1, <3>2, <3>4, LineOfNew
      <4> QED
        BY <2>1, <2>3, <3>1, <3>2, <3>4, <4>1, OneMore
    <3> QED
      BY <3>3, <3>4
  <2> QED
    BY <1>4, <2>2, <2>3 DEF FixtureLine
<1>5. CASE ConfigLine
  <2>1. phase = "config" /\ UNCHANGED phase
    BY <1>5 DEF ConfigLine, Reading
  <2>2. CASE Reading("config", Line("end", NoBody)) /\ open' = FALSE /\ UNCHANGED fixtures
    <3> DEFINE x == [in |-> "config", key |-> Line("end", NoBody).key, value |-> Line("end", NoBody).value]
    <3>1. x \in Lines /\ x.in = "config" /\ x.key = "end" /\ lines' = Append(lines, x)
      BY <1>3, <2>2 DEF Reading, Line
    <3> HIDE DEF x
    <3>2. lines \in Seq(Lines) /\ Read(lines, fixtures, open, x.in)
      BY <1>1, <2>1, <3>1
    <3>3. Read(Append(lines, x), fixtures, FALSE, x.in)
      BY <1>2, <3>1, <3>2, LineOfNone
    <3> QED
      BY <2>1, <2>2, <3>1, <3>2, <3>3, OneMore
  <2>3. ASSUME NEW line \in SettingLines, Reading("config", line), open' = (open \/ line.key = "url"),
               fixtures' = CASE line.key = "url" -> Setting(WithEntry(fixtures), line)
                             [] line.key # "url" /\ open -> Setting(fixtures, line)
                             [] OTHER -> fixtures
        PROVE  lines' \in Seq(Lines) /\ Read(lines', fixtures', open', phase')
    <3> DEFINE x == [in |-> "config", key |-> line.key, value |-> line.value]
    <3>1. /\ x \in Lines /\ x.in = "config" /\ x.key = line.key /\ x.value = line.value
          /\ lines' = Append(lines, x) /\ line.key # "end"
      <4>1. x \in Lines
        BY <1>3
      <4>2. line.key # "end"
        BY DEF Line, SettingLines
      <4> QED
        BY <2>3, <4>1, <4>2 DEF Reading
    <3> HIDE DEF x
    <3>2. lines \in Seq(Lines) /\ Read(lines, fixtures, open, x.in)
      BY <1>1, <2>1, <3>1
    <3>3. CASE line.key = "url"
      <4>1. open' = TRUE /\ fixtures' = Setting(WithEntry(fixtures), line)
        BY <2>3, <3>3
      <4>2. Read(Append(lines, x), Setting(WithEntry(fixtures), line), TRUE, x.in)
        BY <1>2, <3>1, <3>2, <3>3, LineOfNew
      <4> QED
        BY <2>1, <3>1, <3>2, <4>1, <4>2, OneMore
    <3>4. CASE line.key # "url" /\ open
      <4>1. open' = TRUE /\ fixtures' = Setting(fixtures, line)
        BY <2>3, <3>4
      <4>2. Read(Append(lines, x), Setting(fixtures, line), TRUE, x.in)
        BY <1>2, <3>1, <3>2, <3>4, LineOfOpen
      <4> QED
        BY <2>1, <3>1, <3>2, <4>1, <4>2, OneMore
    <3>5. CASE line.key # "url" /\ ~open
      <4>1. open' = FALSE /\ fixtures' = fixtures
        BY <2>3, <3>5
      <4>2. Read(Append(lines, x), fixtures, FALSE, x.in)
        BY <1>2, <3>1, <3>2, <3>5, LineOfNone
      <4> QED
        BY <2>1, <3>1, <3>2, <4>1, <4>2, OneMore
    <3> QED
      BY <1>2, <3>3, <3>4, <3>5
  <2> QED
    BY <1>5, <2>2, <2>3 DEF ConfigLine
<1>6. CASE FileEnds
  <2>1. /\ phase = "file" /\ phase' = "config" /\ open' = FALSE
        /\ UNCHANGED <<lines, fixtures>>
    BY <1>6 DEF FileEnds
  <2>2. PICK of \in Seq(Nat) : /\ Numbering(lines, of, Len(fixtures))
                              /\ Opening(lines, of, Len(fixtures), open, "file")
                              /\ Contents(lines, of, fixtures)
    BY <1>1, <2>1 DEF Read
  <2>3. Opening(lines, of, Len(fixtures), FALSE, "config")
    BY <2>2 DEF Opening
  <2> QED
    BY <1>1, <2>1, <2>2, <2>3 DEF Read
<1>7. CASE UNCHANGED <<phase, readVars>>
  BY <1>1, <1>7 DEF readVars
<1>8. CASE ConfigEnds
  BY <1>8 DEF ConfigEnds
<1> QED
  BY <1>4, <1>5, <1>6, <1>7, <1>8
     DEF Next, vars, readVars, HTTPRequest, RequestURL, TakeEvent, HandlerReturns, ThrowAway, HttpIn, LoopEnds

\* The lines that are together with a URL are those of its entry.
LEMMA UrlTogether ==
  ASSUME lines \in Seq(Lines), NEW of, NEW count, Numbering(lines, of, count),
         NEW i \in 1 .. Len(lines), lines[i].key = "url", NEW j \in 1 .. Len(lines)
  PROVE  Together(i, j) <=> of[j] = of[i]
<1>1. Together(i, j) <=> Joined(lines, i, j)
  BY DEF Together, Joined
<1>2. DOMAIN lines = 1 .. Len(lines) /\ of[i] # 0 /\ lines[i] \in Lines /\ lines[j] \in Lines
  BY LenProperties, ElementOfSeq DEF Numbering
<1>3. CASE i <= j
  BY <1>1, <1>2, <1>3 DEF Numbering
<1>4. CASE j < i /\ lines[i].in = "file" /\ lines[j].in = "file"
  <2>1. Joined(lines, i, j) <=> Joined(lines, j, i)
    BY <1>4 DEF Joined
  <2>2. CASE of[j] # 0
    BY <1>1, <1>4, <2>1, <2>2 DEF Numbering
  <2>3. CASE of[j] = 0
    <3>1. lines[j].key = "blank" /\ j \in j .. i
      BY <1>4, <2>3 DEF Numbering
    <3> QED
      BY <1>1, <1>2, <1>4, <2>3, <3>1 DEF Joined
  <2> QED
    BY <2>2, <2>3
<1>5. CASE j < i /\ lines[i].in = "file" /\ lines[j].in # "file"
  <2>1. ~Joined(lines, i, j) /\ ~Joined(lines, j, i)
    BY <1>5 DEF Joined
  <2>2. of[j] # 0 => of[i] # of[j]
    BY <1>5, <2>1 DEF Numbering
  <2> QED
    BY <1>1, <1>2, <2>1, <2>2
<1>6. CASE j < i /\ lines[i].in = "config"
  <2>1. ~Joined(lines, i, j)
    BY <1>6 DEF Joined
  <2> QED
    BY <1>1, <1>6, <2>1 DEF Numbering
<1> QED
  BY <1>2, <1>3, <1>4, <1>5, <1>6 DEF Lines

\* Of both files the entry read last that has a pattern in the address answers.
LastMatchWins ==
  phase # "running" =>
    \A address \in Outside :
      Match(address) = IF Naming(address) = {} THEN NoMatch ELSE AnswerOf(Max(Naming(address)))

LEMMA LastMatchWinsHolds == TypeInv /\ ReadInv => LastMatchWins
<1> SUFFICES ASSUME TypeInv, ReadInv, phase # "running", NEW address \in Outside
             PROVE  Match(address) =
                      IF Naming(address) = {} THEN NoMatch
                      ELSE Answer(LastOf(Max(Naming(address)), "status", DefaultStatus),
                                  LastOf(Max(Naming(address)), "body", NoBody))
  BY DEF LastMatchWins, AnswerOf
<1> DEFINE n == Len(lines)
           count == Len(fixtures)
           hits == {k \in DOMAIN fixtures : fixtures[k].match \in Within[address]}
           naming == Naming(address)
<1>1. lines \in Seq(Lines) /\ Read(lines, fixtures, open, phase)
  BY DEF ReadInv
<1>2. PICK of \in Seq(Nat) : Numbering(lines, of, count) /\ Contents(lines, of, fixtures)
  BY <1>1 DEF Read
<1>3. /\ n \in Nat /\ DOMAIN lines = 1 .. n /\ count \in Nat /\ DOMAIN fixtures = 1 .. count
      /\ \A i \in 1 .. n : of[i] \in Nat /\ of[i] <= count
  BY <1>1, <1>2, LenProperties, ElementOfSeq DEF TypeInv, Numbering
<1>4. \A e \in 1 .. count : /\ fixtures[count + 1 - e].match = LastIn(lines, of, e, "url", NoPattern)
                            /\ fixtures[count + 1 - e].status = LastIn(lines, of, e, "status", DefaultStatus)
                            /\ fixtures[count + 1 - e].body = LastIn(lines, of, e, "body", NoBody)
  <2> TAKE e \in 1 .. count
  <2>1. fixtures[count + 1 - e] = [match |-> LastIn(lines, of, e, "url", NoPattern),
                                   status |-> LastIn(lines, of, e, "status", DefaultStatus),
                                   body |-> LastIn(lines, of, e, "body", NoBody)]
    BY <1>2 DEF Contents
  <2> QED
    BY <2>1
<1> HIDE DEF n, count
<1>5. \A i, j \in 1 .. n : lines[i].key = "url" => (Together(i, j) <=> of[j] = of[i])
  BY <1>1, <1>2, UrlTogether DEF n, count
<1>6. \A i \in 1 .. n : lines[i].key = "url" => of[i] \in 1 .. count
  BY <1>2, <1>3 DEF Numbering, n
<1>7. \A i, j \in 1 .. n : i <= j /\ of[i] # 0 /\ of[j] # 0 => of[i] <= of[j]
  BY <1>2 DEF Numbering, n
<1> DEFINE urls(e) == {j \in DOMAIN lines : of[j] = e /\ lines[j].key = "url"}
<1>8. \A i : i \in naming <=> /\ i \in 1 .. n /\ lines[i].key = "url"
                             /\ lines[i].value \in Within[address]
                             /\ \A j \in urls(of[i]) : j <= i
  <2>1. ASSUME NEW i \in 1 .. n, lines[i].key = "url"
        PROVE  (\A j \in (i + 1) .. n : Together(i, j) => lines[j].key # "url")
                 <=> \A j \in urls(of[i]) : j <= i
    <3>1. \A j \in 1 .. n : j \in (i + 1) .. n <=> ~(j <= i)
      BY <1>3
    <3>2. \A j \in 1 .. n : Together(i, j) <=> of[j] = of[i]
      BY <1>5, <2>1
    <3>3. \A j \in (i + 1) .. n : j \in 1 .. n
      BY <1>3
    <3>4. \A j : j \in urls(of[i]) <=> j \in 1 .. n /\ of[j] = of[i] /\ lines[j].key = "url"
      BY <1>3
    <3> HIDE DEF urls
    <3> QED
      BY <3>1, <3>2, <3>3, <3>4
  <2>2. \A i : i \in naming <=> /\ i \in 1 .. n /\ lines[i].key = "url"
                               /\ lines[i].value \in Within[address]
                               /\ \A j \in (i + 1) .. n : Together(i, j) => lines[j].key # "url"
    BY <1>3 DEF Naming, n
  <2> HIDE DEF urls, naming
  <2> QED
    BY <2>1, <2>2
<1>9. ASSUME NEW i \in naming PROVE of[i] \in 1 .. count /\ count + 1 - of[i] \in hits
  <2>1. i \in 1 .. n /\ lines[i].key = "url" /\ lines[i].value \in Within[address] /\ of[i] \in 1 .. count
    BY <1>6, <1>8
  <2>2. Max(urls(of[i])) = i
    <3>1. i \in urls(of[i]) /\ urls(of[i]) \in SUBSET (0 .. n) /\ \A j \in urls(of[i]) : j <= i
      BY <1>3, <1>8, <2>1
    <3> HIDE DEF urls
    <3>2. Max(urls(of[i])) \in urls(of[i]) /\ i <= Max(urls(of[i]))
      BY <1>3, <3>1, MaxIsGreatest
    <3> QED
      BY <1>3, <2>1, <3>1, <3>2
  <2>3. LastIn(lines, of, of[i], "url", NoPattern) = lines[i].value
    <3>1. urls(of[i]) # {}
      BY <1>3, <2>1
    <3> QED
      BY <2>2, <3>1 DEF LastIn
  <2>4. count + 1 - of[i] \in 1 .. count
    BY <1>3, <2>1
  <2> QED
    BY <1>3, <1>4, <2>1, <2>3, <2>4
<1>10. ASSUME NEW k \in hits
       PROVE  \E i \in naming : of[i] = count + 1 - k
  <2> DEFINE e == count + 1 - k
  <2>1. e \in 1 .. count /\ count + 1 - e = k
    BY <1>3
  <2>2. LastIn(lines, of, e, "url", NoPattern) \in Within[address]
    BY <1>4, <2>1
  <2>3. NoPattern \notin Within[address]
    BY HttpAssumption
  <2>4. urls(e) # {} /\ lines[Max(urls(e))].value \in Within[address]
    BY <2>2, <2>3 DEF LastIn
  <2>5. Max(urls(e)) \in urls(e) /\ \A j \in urls(e) : j <= Max(urls(e))
    <3>1. urls(e) \in SUBSET (0 .. n)
      BY <1>3
    <3> HIDE DEF urls, e
    <3> QED
      BY <1>3, <2>4, <3>1, MaxIsGreatest
  <2>6. of[Max(urls(e))] = e /\ Max(urls(e)) \in 1 .. n /\ lines[Max(urls(e))].key = "url"
    BY <1>3, <2>5
  <2>7. Max(urls(e)) \in naming
    <3> HIDE DEF urls, e, naming
    <3> QED
      BY <1>8, <2>4, <2>5, <2>6 DEF e
  <2> QED
    BY <2>6, <2>7
<1>11. Match(address) = IF hits = {} THEN NoMatch ELSE Answer(fixtures[Min(hits)].status, fixtures[Min(hits)].body)
  BY DEF Match
<1> HIDE DEF naming, hits
<1>12. CASE naming = {}
  BY <1>10, <1>11, <1>12 DEF naming
<1>13. CASE naming # {}
  <2> DEFINE i == Max(naming)
             k == Min(hits)
  <2>1. hits # {}
    BY <1>9, <1>13
  <2>2. i \in naming /\ \A j \in naming : j <= i
    <3>1. naming \in SUBSET (0 .. n)
      BY <1>3, <1>8
    <3> QED
      BY <1>3, <1>13, <3>1, MaxIsGreatest
  <2>3. k \in hits /\ \A j \in hits : k <= j
    <3>1. hits \in SUBSET Nat
      BY <1>3 DEF hits
    <3> QED
      BY <2>1, <3>1, MinIsLeast
  <2> HIDE DEF i, k
  <2>4. k \in 1 .. count /\ i \in 1 .. n /\ of[i] \in 1 .. count /\ lines[i].key = "url"
    BY <1>3, <1>8, <1>9, <2>2, <2>3 DEF hits
  <2>5. of[i] <= count + 1 - k
    <3>1. k <= count + 1 - of[i]
      BY <1>9, <2>2, <2>3
    <3> QED
      BY <1>3, <2>4, <3>1
  <2>6. count + 1 - k <= of[i]
    <3>1. PICK j \in naming : of[j] = count + 1 - k
      BY <1>10, <2>3
    <3>2. j \in 1 .. n /\ j <= i /\ of[j] \in 1 .. count
      BY <1>8, <1>9, <2>2
    <3>3. of[j] <= of[i]
      BY <1>7, <2>4, <3>2
    <3> QED
      BY <3>1, <3>3
  <2>7. of[i] = count + 1 - k /\ count + 1 - of[i] = k
    BY <1>3, <2>4, <2>5, <2>6
  <2>8. ASSUME NEW key, NEW default PROVE LastOf(i, key, default) = LastIn(lines, of, of[i], key, default)
    <3>1. {j \in DOMAIN lines : Together(i, j) /\ lines[j].key = key} =
            {j \in DOMAIN lines : of[j] = of[i] /\ lines[j].key = key}
      BY <1>3, <1>5, <2>4
    <3> QED
      BY <3>1 DEF LastOf, LastIn
  <2>9. /\ fixtures[k].status = LastOf(i, "status", DefaultStatus)
        /\ fixtures[k].body = LastOf(i, "body", NoBody)
    BY <1>4, <2>4, <2>7, <2>8
  <2> QED
    BY <1>11, <1>13, <2>1, <2>9 DEF naming, i, k
<1> QED
  BY <1>12, <1>13

LEMMA NamingHasALast ==
  ASSUME ReadInv, phase # "running", NEW address \in Outside, Naming(address) # {}
  PROVE  Max(Naming(address)) \in Naming(address)
<1>1. lines \in Seq(Lines)
  BY DEF ReadInv
<1>2. Len(lines) \in Nat /\ DOMAIN lines = 1 .. Len(lines)
  BY <1>1, LenProperties
<1>3. Naming(address) \in SUBSET (0 .. Len(lines))
  BY <1>2 DEF Naming
<1> QED
  BY <1>2, <1>3, MaxIsGreatest

\* Whatever stands in the fixture file and the config file, however often their lines
\* repeat each other, a request is answered by one entry that has a pattern in the
\* address, with no status and no body of another.
THEOREM AnswersAreWhole == Spec => []OneEntryAnswers
<1>1. Spec => [](TypeInv /\ ReadInv)
  BY InitType, StepType, ReadInit, ReadStep, PTL DEF Spec
<1>2. TypeInv /\ ReadInv => OneEntryAnswers
  <2> SUFFICES ASSUME TypeInv, ReadInv, phase # "running", NEW address \in Outside
               PROVE  IF Naming(address) = {} THEN Match(address) = NoMatch
                      ELSE \E i \in Naming(address) : Match(address) = AnswerOf(i)
    BY DEF OneEntryAnswers
  <2>1. Match(address) = IF Naming(address) = {} THEN NoMatch ELSE AnswerOf(Max(Naming(address)))
    BY LastMatchWinsHolds DEF LastMatchWins
  <2>2. CASE Naming(address) = {}
    BY <2>1, <2>2
  <2>3. CASE Naming(address) # {}
    <3>1. Max(Naming(address)) \in Naming(address)
      BY <2>3, NamingHasALast
    <3>2. Match(address) = AnswerOf(Max(Naming(address)))
      BY <2>1, <2>3
    <3> QED
      BY <2>3, <3>1, <3>2
  <2> QED
    BY <2>2, <2>3
<1> QED
  BY <1>1, <1>2, PTL

=============================================================================
