-------------------------------- MODULE Http --------------------------------
(***************************************************************************)
(* HTTP both ways: the fixtures that answer requests (http.c, config.c),   *)
(* the URLs that scripts are granted (dialog.c), the command HTTP_IN.      *)
(***************************************************************************)
EXTENDS Integers, SequencesExt

CONSTANTS
  Scripts,
  NoScript,    \* not a script
  Outside,     \* the addresses that scripts send requests to
  Patterns,    \* texts to match addresses with
  NoPattern,   \* the null pointer, of an entry without a pattern
  Within,      \* of each address outside, the patterns it contains
  Statuses,    \* in lines that set a status, and of real responses
  Bodies,
  NoBody,      \* an empty text
  MaxLines,    \* bound: lines of the fixture file and the config file
  MaxIds,      \* bound: calls of gen_uuid
  MaxQueue     \* bound: events about HTTP queued for a script

VARIABLES
  real,        \* http_real
  phase,       \* what main does: "file", "config", "running"
  lines,       \* history: what was read so far
  fixtures,    \* http_fix, the entry read last first
  open,        \* cur or fx: lines are about the first entry
  inbound,     \* the URLs granted, the last one first
  nextId,      \* uuid_counter
  queue,       \* of each script, the events that are about HTTP
  running,     \* the script that runs a handler, or NoScript
  over         \* the loop has ended: no more handlers, only commands

readVars == <<lines, fixtures, open>>
loopVars == <<queue, running, over>>
vars == <<real, phase, readVars, inbound, nextId, loopVars>>

DefaultStatus == 200
Line(key, value) == [key |-> key, value |-> value]
SettingLines ==
  {Line("url", p) : p \in Patterns} \cup {Line("status", n) : n \in Statuses} \cup {Line("body", b) : b \in Bodies}
Answer(status, body) == [status |-> status, body |-> body]
NoMatch == Answer(0, "(no fixture match)")

ASSUME HttpAssumption ==
  /\ Within \in [Outside -> SUBSET Patterns]
  /\ NoPattern \notin Patterns
  /\ NoScript \notin Scripts
  /\ {MaxLines, MaxIds, MaxQueue} \subseteq Nat

----------------------------------------------------------------------------
(* Reading *)

Init ==
  /\ real \in BOOLEAN
  /\ phase = "file"
  /\ lines = <<>>
  /\ fixtures = <<>>
  /\ open = FALSE
  /\ inbound = <<>>
  /\ nextId = 1
  /\ queue = [s \in Scripts |-> <<>>]
  /\ running = NoScript
  /\ over = FALSE

Entry == [match |-> NoPattern, status |-> DefaultStatus, body |-> NoBody]
WithEntry_uncleared(entries) == <<IF entries = <<>> THEN Entry ELSE Head(entries)>> \o entries
\* A new entry is linked in at the head of the list.
WithEntry(entries) == <<Entry>> \o entries
Setting(entries, line) ==
  CASE line.key = "url"    -> [entries EXCEPT ![1].match = line.value]
    [] line.key = "status" -> [entries EXCEPT ![1].status = line.value]
    [] line.key = "body"   -> [entries EXCEPT ![1].body = line.value]
    [] OTHER               -> entries

Reading(in, line) ==
  /\ phase = in
  /\ Len(lines) < MaxLines
  /\ lines' = Append(lines, [in |-> in, key |-> line.key, value |-> line.value])
  /\ UNCHANGED <<real, phase, inbound, nextId, loopVars>>

\* http_fixture_load: a blank line ends an entry, any other begins one if none is open.
FixtureLine ==
  \/ /\ Reading("file", Line("blank", NoBody))
     /\ open' = FALSE
     /\ UNCHANGED fixtures
  \/ \E line \in SettingLines \cup {Line("other", NoBody)} :
       /\ Reading("file", line)
       /\ open' = TRUE
       /\ fixtures' = Setting(IF open THEN fixtures ELSE WithEntry(fixtures), line)

\* config_load: FIXTURE_URL begins an entry; the others need one that is open.
ConfigLine ==
  \/ /\ Reading("config", Line("end", NoBody))
     /\ open' = FALSE
     /\ UNCHANGED fixtures
  \/ \E line \in SettingLines :
       /\ Reading("config", line)
       /\ open' = (open \/ line.key = "url")
       /\ fixtures' = CASE line.key = "url" -> Setting(WithEntry(fixtures), line)
                        [] line.key # "url" /\ open -> Setting(fixtures, line)
                        [] OTHER -> fixtures

FileEnds ==
  /\ phase = "file"
  /\ phase' = "config"
  /\ open' = FALSE
  /\ UNCHANGED <<real, lines, fixtures, inbound, nextId, loopVars>>

\* What was read need not be remembered.
ConfigEnds ==
  /\ phase = "config"
  /\ phase' = "running"
  /\ open' = FALSE
  /\ lines' = <<>>
  /\ UNCHANGED <<real, fixtures, inbound, nextId, loopVars>>

----------------------------------------------------------------------------
(* Builtins *)

\* http_fixture_match: the first entry of the list with a pattern that is in the address.
Match(address) ==
  LET hits == {k \in DOMAIN fixtures : fixtures[k].match \in Within[address]}
  IN  IF hits = {} THEN NoMatch ELSE Answer(fixtures[Min(hits)].status, fixtures[Min(hits)].body)

Event(type, id, answer) == [type |-> type, id |-> id, answer |-> answer]
Response(id, answer) == Event("http_response", id, answer)
\* It comes as an http_request, with the method URL_REQUEST_GRANTED.
Granted(id) == Event("http_request_granted", id, NoMatch)
Request(id) == Event("http_request", id, NoMatch)

\* script_push_event, with the id that gen_uuid gave.
Room == \A s \in Scripts : Len(queue[s]) < MaxQueue
Push(s, event) == Room /\ queue' = [queue EXCEPT ![s] = Append(@, event)]
TakeId == nextId <= MaxIds /\ nextId' = nextId + 1

\* llHTTPRequest: the response is queued before the call returns.
HTTPRequest(s) ==
  /\ running = s
  /\ TakeId
  /\ \E address \in Outside :
       \E answer \in IF real THEN [status : Statuses, body : Bodies] ELSE {Match(address)} :
         Push(s, Response(nextId, answer))
  /\ UNCHANGED <<real, phase, readVars, inbound, running, over>>

\* llRequestURL: inbound_register, and the event that says so.
RequestURL(s) ==
  /\ running = s
  /\ TakeId
  /\ inbound' = <<[id |-> nextId, target |-> s]>> \o inbound
  /\ Push(s, Granted(nextId))
  /\ UNCHANGED <<real, phase, readVars, running, over>>

\* llReleaseURL, llHTTPResponse and llSetContentType do nothing.

----------------------------------------------------------------------------
(* Commands and the loop *)

\* inbound_resolve, of a text in which the URLs with these ids are.  It may be just
\* one of them, which is looked for first.
Resolve(named, exact) ==
  LET same == {k \in DOMAIN inbound : exact /\ named = {inbound[k].id}}
      hits == {k \in DOMAIN inbound : inbound[k].id \in named}
      places == IF same # {} THEN same ELSE hits
  IN  IF places = {} THEN NoScript ELSE inbound[Min(places)].target

Pumping ==
  /\ phase = "running"
  /\ running = NoScript
  /\ over \/ \A s \in Scripts : queue[s] = <<>>

\* HTTP_IN, of a text that may name URLs that will never be; if none is found it only says so.
HttpIn ==
  /\ Pumping
  /\ TakeId
  /\ \E named \in SUBSET (1 .. MaxIds), exact \in BOOLEAN :
       /\ Resolve(named, exact) # NoScript
       /\ Push(Resolve(named, exact), Request(nextId))
  /\ UNCHANGED <<real, phase, readVars, inbound, running, over>>

\* The event may be one that is not about HTTP.
TakeEvent(s) ==
  /\ phase = "running"
  /\ running = NoScript
  /\ ~over
  /\ running' = s
  /\ \/ queue[s] # <<>> /\ queue' = [queue EXCEPT ![s] = Tail(@)]
     \/ UNCHANGED queue
  /\ UNCHANGED <<real, phase, readVars, inbound, nextId, over>>

HandlerReturns(s) ==
  /\ running = s
  /\ running' = NoScript
  /\ UNCHANGED <<real, phase, readVars, inbound, nextId, queue, over>>

Flush_with_urls(s) ==
  /\ queue' = [queue EXCEPT ![s] = <<>>]
  /\ inbound' = SelectSeq(inbound, LAMBDA u : u.target # s)
\* The queue is emptied; URLs stay.
Flush(s) ==
  /\ queue' = [queue EXCEPT ![s] = <<>>]
  /\ UNCHANGED inbound

\* llResetScript, llDie, and a change of state: here the last thing in the handler that
\* asked for it, followed by state_exit as if in the same handler.
ThrowAway(s) ==
  /\ running = s
  /\ Flush(s)
  /\ UNCHANGED <<real, phase, readVars, nextId, running, over>>

LoopEnds ==
  /\ phase = "running"
  /\ running = NoScript
  /\ over' = TRUE
  /\ UNCHANGED <<real, phase, readVars, inbound, nextId, queue, running>>

Next ==
  \/ FixtureLine \/ FileEnds \/ ConfigLine \/ ConfigEnds
  \/ \E s \in Scripts :
       HTTPRequest(s) \/ RequestURL(s) \/ TakeEvent(s) \/ HandlerReturns(s) \/ ThrowAway(s)
  \/ HttpIn \/ LoopEnds

Spec == Init /\ [][Next]_vars

----------------------------------------------------------------------------
(* What it promises *)

\* Lines j of the file are about the same entry if no blank line is between them; in
\* the config file if they follow a FIXTURE_URL before the next one and before the end.
Together(i, j) ==
  /\ lines[i].in = lines[j].in
  /\ IF lines[i].in = "file"
     THEN \A k \in DOMAIN lines : (k \in i .. j \/ k \in j .. i) => lines[k].key # "blank"
     ELSE i <= j /\ \A k \in (i + 1) .. j : lines[k].key \notin {"url", "end"}
Naming(address) ==
  {i \in DOMAIN lines :
     /\ lines[i].key = "url"
     /\ lines[i].value \in Within[address]
     /\ \A j \in (i + 1) .. Len(lines) : Together(i, j) => lines[j].key # "url"}
LastOf(i, key, default) ==
  LET setting == {j \in DOMAIN lines : Together(i, j) /\ lines[j].key = key}
  IN  IF setting = {} THEN default ELSE lines[Max(setting)].value

AnswerOf(i) == Answer(LastOf(i, "status", DefaultStatus), LastOf(i, "body", NoBody))

\* Whatever the two files say, http_fixture_match answers with one entry, whole, that has
\* a pattern in the address: what the lines between two boundaries say, of each kind the
\* last, and nothing from another entry. It finds none only if there is none.
OneEntryAnswers ==
  phase # "running" =>
    \A address \in Outside :
      IF Naming(address) = {} THEN Match(address) = NoMatch
                              ELSE \E i \in Naming(address) : Match(address) = AnswerOf(i)

\* The lists of fixtures and URLs, walked from their heads, and the queues keep what
\* Exchange promises: one answer to each request, by fixed rules, in order, and URLs that
\* belong to their scripts for good.
AsMail(e) ==
  CASE e.type = "http_response"        -> [what |-> "answer", id |-> e.id, answer |-> e.answer]
    [] e.type = "http_request_granted" -> [what |-> "granted", id |-> e.id]
    [] e.type = "http_request"         -> [what |-> "called", id |-> e.id]
Owner(id) == inbound[CHOOSE k \in DOMAIN inbound : inbound[k].id = id].target
Web == INSTANCE Exchange WITH
         Answers <- [status : Statuses \cup {DefaultStatus}, body : Bodies \cup {NoBody}] \cup {NoMatch},
         ready <- phase = "running",
         rules <- [address \in Outside |-> Match(address)],
         next <- nextId,
         owner <- [id \in {inbound[k].id : k \in DOMAIN inbound} |-> Owner(id)],
         mail <- [s \in Scripts |-> [k \in DOMAIN queue[s] |-> AsMail(queue[s][k])]]
ExchangeSpec == Web!Spec

=============================================================================
