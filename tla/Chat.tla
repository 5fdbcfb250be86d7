-------------------------------- MODULE Chat --------------------------------
(***************************************************************************)
(* Talk between scripts and avatars: the listens of builtins.c, the open   *)
(* dialogs of dialog.c, the commands LISTEN, DIALOG_REPLY, TEXTBOX_REPLY.  *)
(*                                                                         *)
(* What the loop does with the events is in EventLoop; here scripts take   *)
(* their events in any order, and what throws a queue away is kept.        *)
(***************************************************************************)
EXTENDS Integers, Sequences, FiniteSets, SequencesExt

CONSTANTS
  Scripts,     \* the scripts, by the key of their prim
  Avatars,     \* the keys of avatars
  Nobody,      \* the key of a speaker who is not known: NULL_KEY
  Names,       \* of speakers
  Texts,       \* messages, as far as a filter can tell them apart
  Channels,
  Blank,         \* an empty string, or NULL_KEY, as a filter
  NoScript,    \* not a script
  Link,        \* the link number of each script
  NameOf,      \* the name of each avatar
  Heard,       \* the filters that llListen is given
  Asked,       \* the channels that dialogs are opened on
  MaxHandle,   \* bound: llListen calls
  MaxQueue,    \* bound: events queued for a script when something is posted
  MaxDialogs   \* bound: open dialogs

VARIABLES
  listens,     \* of each script, the last one opened first
  nextHandle,  \* next_handle, of all scripts
  queue,       \* the events of each script
  dialogs,     \* open dialogs, the last one opened first
  objectName,  \* the names of the prims
  running,     \* the script that runs a handler, or NoScript
  entering,    \* it has left its LSL state, and runs state_exit
  over         \* the loop has ended: no more handlers, only commands

loopVars == <<running, entering, over>>
vars == <<listens, nextHandle, queue, dialogs, objectName, loopVars>>

Ids == Scripts \cup Avatars \cup {Nobody}
Filters == [channel : Channels, name : Names \cup {Blank}, id : Ids \cup {Blank}, text : Texts \cup {Blank}]
Entries == [handle : 1 .. MaxHandle, filter : Filters, active : BOOLEAN]
Dialogs == [script : Scripts, avatar : Avatars, channel : Channels]

ASSUME ChatAssumption ==
  /\ MaxHandle \in Nat
  /\ MaxQueue \in Nat
  /\ MaxDialogs \in Nat
  /\ Link \in [Scripts -> Nat \ {0}]
  /\ NameOf \in [Avatars -> Names]
  /\ Heard \subseteq Filters
  /\ Asked \subseteq Channels
  /\ Names # {}
  /\ NoScript \notin Scripts
  /\ Blank \notin Names \cup Ids \cup Texts \cup Channels
  /\ Scripts \cap Avatars = {} /\ Nobody \notin Scripts \cup Avatars

\* Arguments of the event handlers that nothing here reads are left out.
Event(type) == [type |-> type, channel |-> Blank, name |-> Blank, id |-> Blank, text |-> Blank]
Message(channel, name, id, text) ==
  [type |-> "listen", channel |-> channel, name |-> name, id |-> id, text |-> text]
Events ==
  [type : {"listen"}, channel : Channels, name : Names, id : Ids, text : Texts]
    \cup {Event(type) : type \in {"state_entry", "link_message", "other"}}

Room == \A s \in Scripts : Len(queue[s]) < MaxQueue

\* Commands are pumped when nothing is left to do, and after the loop has ended.
Pumping ==
  /\ running = NoScript
  /\ over \/ \A s \in Scripts : queue[s] = <<>>
  /\ Room

\* script_push_event, of each event of a sequence.
Push(s, events) == queue' = [queue EXCEPT ![s] = @ \o events]
PushToEach(to, event) ==
  queue' = [s \in Scripts |-> IF s \in to THEN Append(queue[s], event) ELSE queue[s]]

----------------------------------------------------------------------------
(* Init, and the handlers that talk.  A definition whose name ends in _ and *)
(* a word is a mistake that the run is shown to notice; no specification    *)
(* uses it.                                                                 *)

Init ==
  /\ listens = [s \in Scripts |-> <<>>]
  /\ nextHandle = 1
  /\ queue = [s \in Scripts |-> <<Event("state_entry")>>]
  /\ dialogs = <<>>
  /\ objectName \in [Scripts -> Names]
  /\ running = NoScript
  /\ entering = FALSE
  /\ over = FALSE

\* Timers, touches, payments and the rest: something else queues an event.
Post(s) ==
  /\ Room
  /\ Push(s, <<Event("other")>>)
  /\ UNCHANGED <<listens, nextHandle, dialogs, objectName, loopVars>>

TakeEvent(s) ==
  /\ running = NoScript
  /\ ~over
  /\ queue[s] # <<>>
  /\ running' = s
  /\ queue' = [queue EXCEPT ![s] = Tail(@)]
  /\ UNCHANGED <<listens, nextHandle, dialogs, objectName, entering, over>>

\* The step cap, the timeout, or nothing left to do.
LoopEnds ==
  /\ running = NoScript
  /\ over' = TRUE
  /\ UNCHANGED <<listens, nextHandle, queue, dialogs, objectName, running, entering>>

HandlerReturns_entering_still(s) ==
  /\ running = s
  /\ running' = NoScript
  /\ queue' = IF entering THEN [queue EXCEPT ![s] = Append(@, Event("state_entry"))] ELSE queue
  /\ UNCHANGED <<listens, nextHandle, dialogs, objectName, entering, over>>
\* After state_exit the state_entry of the new state is queued.
HandlerReturns(s) ==
  /\ running = s
  /\ running' = NoScript
  /\ entering' = FALSE
  /\ queue' = IF entering THEN [queue EXCEPT ![s] = Append(@, Event("state_entry"))] ELSE queue
  /\ UNCHANGED <<listens, nextHandle, dialogs, objectName, over>>

\* The handler has asked for another state: its events are dropped, its listens
\* are not.
SwitchState(s) ==
  /\ running = s
  /\ ~entering
  /\ entering' = TRUE
  /\ queue' = [queue EXCEPT ![s] = <<>>]
  /\ UNCHANGED <<listens, nextHandle, dialogs, objectName, running, over>>

ResetScript(s) ==
  /\ running = s
  /\ queue' = [queue EXCEPT ![s] = <<Event("state_entry")>>]
  /\ UNCHANGED <<listens, nextHandle, dialogs, objectName, loopVars>>

Die(s) ==
  /\ running = s
  /\ queue' = [queue EXCEPT ![s] = <<>>]
  /\ UNCHANGED <<listens, nextHandle, dialogs, objectName, loopVars>>

SetObjectName(s) ==
  /\ running = s
  /\ \E name \in Names : objectName' = [objectName EXCEPT ![s] = name]
  /\ UNCHANGED <<listens, nextHandle, queue, dialogs, loopVars>>

----------------------------------------------------------------------------
(* Listens *)

NextHandle_by_number == Len(listens[running]) + 1
NextHandle == nextHandle

Listen(s) ==
  /\ running = s
  /\ nextHandle <= MaxHandle
  /\ \E filter \in Heard :
       listens' = [listens EXCEPT ![s] = <<[handle |-> NextHandle, filter |-> filter, active |-> TRUE]>> \o @]
  /\ nextHandle' = nextHandle + 1
  /\ UNCHANGED <<queue, dialogs, objectName, loopVars>>

\* The first entry with the handle goes; a handle of another script finds none.
ListenRemove(s) ==
  /\ running = s
  /\ \E k \in DOMAIN listens[s] :
       /\ \A j \in 1 .. (k - 1) : listens[s][j].handle # listens[s][k].handle
       /\ listens' = [listens EXCEPT ![s] = RemoveAt(@, k)]
  /\ UNCHANGED <<nextHandle, queue, dialogs, objectName, loopVars>>

\* All entries with the handle are switched.
ListenControl(s) ==
  /\ running = s
  /\ \E h \in 1 .. MaxHandle, on \in BOOLEAN :
       listens' = [listens EXCEPT ![s] =
                     [k \in DOMAIN @ |-> IF @[k].handle = h THEN [@[k] EXCEPT !.active = on] ELSE @[k]]]
  /\ UNCHANGED <<nextHandle, queue, dialogs, objectName, loopVars>>

\* route_listen, and the LISTEN command.
Matches(entry, m) ==
  /\ entry.active
  /\ entry.filter.channel = m.channel
  /\ entry.filter.name \in {Blank, m.name}
  /\ entry.filter.id \in {Blank, m.id}
  /\ entry.filter.text \in {Blank, m.text}
\* An event for each entry of the script at one of these places of its list.
Copies(places, m) == [k \in 1 .. Cardinality(places) |-> m]
Matching(s, m) == {k \in DOMAIN listens[s] : Matches(listens[s][k], m)}
Route(m) == queue' = [s \in Scripts |-> queue[s] \o Copies(Matching(s, m), m)]

\* What llRegionSayTo and the replies do: only the channel has to be right.
OnChannel(s, channel) ==
  {k \in DOMAIN listens[s] : listens[s][k].active /\ listens[s][k].filter.channel = channel}
RouteTo(s, m) == Push(s, Copies(OnChannel(s, m.channel), m))

\* llSay, llWhisper, llShout, llRegionSay
Say(s) ==
  /\ running = s
  /\ Room
  /\ \E channel \in Channels, text \in Texts : Route(Message(channel, objectName[s], s, text))
  /\ UNCHANGED <<listens, nextHandle, dialogs, objectName, loopVars>>

RegionSayTo(s) ==
  /\ running = s
  /\ Room
  /\ \E t \in Scripts, channel \in Channels, text \in Texts :
       RouteTo(t, Message(channel, objectName[s], s, text))
  /\ UNCHANGED <<listens, nextHandle, dialogs, objectName, loopVars>>

\* LINK_SET, LINK_ALL_OTHERS, LINK_ALL_CHILDREN, LINK_THIS, or a link number.
Addressed(s, target) ==
  CASE target = -1 -> Scripts
    [] target = -2 -> Scripts \ {s}
    [] target = -3 -> {t \in Scripts : Link[t] >= 2}
    [] target = -4 -> {s}
    [] OTHER -> {t \in Scripts : Link[t] = target}

MessageLinked(s) ==
  /\ running = s
  /\ Room
  /\ \E target \in -4 .. Cardinality(Scripts) : PushToEach(Addressed(s, target), Event("link_message"))
  /\ UNCHANGED <<listens, nextHandle, dialogs, objectName, loopVars>>

----------------------------------------------------------------------------
(* Dialogs *)

\* llDialog and llTextBox: dialog_open.
Dialog(s) ==
  /\ running = s
  /\ Len(dialogs) < MaxDialogs
  /\ \E a \in Avatars, channel \in Asked :
       dialogs' = <<[script |-> s, avatar |-> a, channel |-> channel]>> \o dialogs
  /\ UNCHANGED <<listens, nextHandle, queue, objectName, loopVars>>

\* dialog_find
For(a) == {k \in DOMAIN dialogs : dialogs[k].avatar = a}
FirstFor(a) == dialogs[CHOOSE k \in For(a) : \A j \in For(a) : k <= j]
Without_first_only(a) == Remove(dialogs, FirstFor(a))
\* dialog_close: the walk unlinks all dialogs of the avatar.
Without(a) ==
  LET kept[k \in 0 .. Len(dialogs)] ==
        IF k = 0 THEN <<>>
        ELSE IF dialogs[k].avatar = a THEN kept[k - 1] ELSE Append(kept[k - 1], dialogs[k])
  IN  kept[Len(dialogs)]

----------------------------------------------------------------------------
(* Commands *)

\* The speaker is an avatar, or whatever the command calls it.
ListenCommand ==
  /\ Pumping
  /\ \E channel \in Channels, text \in Texts :
       \/ \E a \in Avatars : Route(Message(channel, NameOf[a], a, text))
       \/ \E name \in Names : Route(Message(channel, name, Nobody, text))
  /\ UNCHANGED <<listens, nextHandle, dialogs, objectName, loopVars>>

\* DIALOG_REPLY and TEXTBOX_REPLY, which differ only in what they log.
DialogReply ==
  /\ Pumping
  /\ \E a \in Avatars, text \in Texts :
       /\ For(a) # {}
       /\ RouteTo(FirstFor(a).script, Message(FirstFor(a).channel, NameOf[a], a, text))
       /\ dialogs' = Without(a)
  /\ UNCHANGED <<listens, nextHandle, objectName, loopVars>>

----------------------------------------------------------------------------
Builtin(s) ==
  \/ ResetScript(s) \/ Die(s) \/ SetObjectName(s)
  \/ Listen(s) \/ ListenRemove(s) \/ ListenControl(s)
  \/ Say(s) \/ RegionSayTo(s) \/ MessageLinked(s)
  \/ Dialog(s)

Next ==
  \/ \E s \in Scripts : Post(s) \/ TakeEvent(s) \/ HandlerReturns(s) \/ SwitchState(s) \/ Builtin(s)
  \/ LoopEnds \/ ListenCommand \/ DialogReply

Spec == Init /\ [][Next]_vars

----------------------------------------------------------------------------
(* What it promises *)

\* Every variable has its type.
TypeOK ==
  /\ listens \in [Scripts -> Seq(Entries)]
  /\ nextHandle \in 1 .. (MaxHandle + 1)
  /\ queue \in [Scripts -> Seq(Events)]
  /\ dialogs \in Seq(Dialogs)
  /\ objectName \in [Scripts -> Names]
  /\ running \in Scripts \cup {NoScript}
  /\ entering \in BOOLEAN
  /\ over \in BOOLEAN
  /\ entering => running # NoScript
  /\ over => running = NoScript

\* A handle stands for one listen of one script, however listens are opened and
\* removed: llListenRemove and llListenControl never touch another one.
HandlesUnique ==
  \A s, t \in Scripts : \A j \in DOMAIN listens[s], k \in DOMAIN listens[t] :
    listens[s][j].handle = listens[t][k].handle => s = t /\ j = k

\* The linked lists, walked from their heads, deliver what Hearing promises: to
\* each listen open at the time what passes its filter, and a reply to the one
\* question an avatar has open, of all the dialogs it was ever shown.
Ears ==
  UNION {{[script |-> s, handle |-> listens[s][k].handle, filter |-> listens[s][k].filter,
           on |-> listens[s][k].active] : k \in DOMAIN listens[s]} : s \in Scripts}
Question(a) ==
  IF For(a) = {} THEN [script |-> NoScript, channel |-> Blank]
  ELSE [script |-> FirstFor(a).script, channel |-> FirstFor(a).channel]
Talk == INSTANCE Hearing WITH
          Handles <- 1 .. MaxHandle,
          ears <- Ears,
          given <- 1 .. (nextHandle - 1),
          mail <- queue,
          asked <- [a \in Avatars |-> Question(a)]
HearingSpec == Talk!Spec

=============================================================================
