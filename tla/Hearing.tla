------------------------------ MODULE Hearing ------------------------------
(***************************************************************************)
(* What the talk in a region promises: who hears what.                     *)
(*                                                                         *)
(* A script has ears, each with a number and a filter.  A message that is  *)
(* said reaches every ear it passes, there and then, and is in the mail of *)
(* the script as often as that, until it is read or the mail thrown away.  *)
(* An avatar is asked one question at a time, and answers it once.         *)
(***************************************************************************)
EXTENDS Integers, Sequences, FiniteSets

CONSTANTS
  Scripts,   \* the scripts, by the key of their prim
  Avatars,   \* the keys of avatars
  Nobody,    \* the key of a speaker who is not known
  Names,     \* of speakers
  Texts,     \* messages, as far as a filter can tell them apart
  Channels,
  Blank,       \* a filter that everything passes: an empty string, or NULL_KEY
  NoScript,  \* not a script
  Handles    \* the numbers of ears

Ids == Scripts \cup Avatars \cup {Nobody}
Filters == [channel : Channels, name : Names \cup {Blank}, id : Ids \cup {Blank}, text : Texts \cup {Blank}]
Messages == [type : {"listen"}, channel : Channels, name : Names, id : Ids, text : Texts]
\* The events a script can be sent that are not something said.
Event(type) == [type |-> type, channel |-> Blank, name |-> Blank, id |-> Blank, text |-> Blank]
Events == {Event(type) : type \in {"state_entry", "link_message", "other"}}
Questions == [script : Scripts, channel : Channels]
NoQuestion == [script |-> NoScript, channel |-> Blank]

VARIABLES
  ears,    \* the open ears
  given,   \* the numbers that ears have been given
  mail,    \* what each script has yet to read
  asked    \* the question each avatar can answer

vars == <<ears, given, mail, asked>>

EarsOf(s) == {e \in ears : e.script = s}
On(e, channel) == e.on /\ e.filter.channel = channel
Passes(f, m) ==
  /\ f.channel = m.channel
  /\ f.name \in {Blank, m.name}
  /\ f.id \in {Blank, m.id}
  /\ f.text \in {Blank, m.text}

\* Each script gets as many copies of m as it has ears among these.
Copies(m, n) == [k \in 1 .. n |-> m]
Reach(heard, m) ==
  mail' = [s \in Scripts |-> mail[s] \o Copies(m, Cardinality(heard \cap EarsOf(s)))]

----------------------------------------------------------------------------
Init ==
  /\ ears = {}
  /\ given = {}
  /\ mail = [s \in Scripts |-> <<Event("state_entry")>>]
  /\ asked = [a \in Avatars |-> NoQuestion]

Open ==
  /\ \E s \in Scripts, f \in Filters, h \in Handles \ given :
       /\ ears' = ears \cup {[script |-> s, handle |-> h, filter |-> f, on |-> TRUE]}
       /\ given' = given \cup {h}
  /\ UNCHANGED <<mail, asked>>

Close ==
  /\ \E e \in ears : ears' = ears \ {e}
  /\ UNCHANGED <<given, mail, asked>>

Switch ==
  /\ \E e \in ears : ears' = (ears \ {e}) \cup {[e EXCEPT !.on = ~@]}
  /\ UNCHANGED <<given, mail, asked>>

Say ==
  /\ \E m \in Messages : Reach({e \in ears : e.on /\ Passes(e.filter, m)}, m)
  /\ UNCHANGED <<ears, given, asked>>

\* What is said to one script alone passes by its filters.
Tell ==
  /\ \E m \in Messages, s \in Scripts : Reach({e \in EarsOf(s) : On(e, m.channel)}, m)
  /\ UNCHANGED <<ears, given, asked>>

Ask ==
  /\ \E a \in Avatars, q \in Questions : asked' = [asked EXCEPT ![a] = q]
  /\ UNCHANGED <<ears, given, mail>>

Answer ==
  /\ \E a \in Avatars, m \in Messages :
       /\ asked[a] # NoQuestion
       /\ m.id = a
       /\ m.channel = asked[a].channel
       /\ Reach({e \in EarsOf(asked[a].script) : On(e, m.channel)}, m)
       /\ asked' = [asked EXCEPT ![a] = NoQuestion]
  /\ UNCHANGED <<ears, given>>

\* An event goes to some of the scripts.
Send ==
  /\ \E v \in Events, to \in SUBSET Scripts :
       mail' = [s \in Scripts |-> IF s \in to THEN Append(mail[s], v) ELSE mail[s]]
  /\ UNCHANGED <<ears, given, asked>>

Read ==
  /\ \E s \in Scripts : mail[s] # <<>> /\ mail' = [mail EXCEPT ![s] = Tail(@)]
  /\ UNCHANGED <<ears, given, asked>>

\* The mail is thrown away, as a reset and a change of state do.
Forget ==
  /\ \E s \in Scripts, fresh \in {<<>>, <<Event("state_entry")>>} : mail' = [mail EXCEPT ![s] = fresh]
  /\ UNCHANGED <<ears, given, asked>>

Next ==
  \/ Open \/ Close \/ Switch \/ Say \/ Tell \/ Ask \/ Answer
  \/ Send \/ Read \/ Forget

Spec == Init /\ [][Next]_vars

=============================================================================
