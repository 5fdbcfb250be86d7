------------------------------ MODULE Exchange ------------------------------
(***************************************************************************)
(* What HTTP promises to the scripts of a region.                          *)
(*                                                                         *)
(* A request is answered once, by rules that do not change while the       *)
(* region runs; its script gets the answers in the order of its requests,  *)
(* unless it throws away its mail.  An address that a script was granted   *)
(* is its own for good: a call that names it reaches the script, also one  *)
(* that goes on after the address.                                         *)
(***************************************************************************)
EXTENDS Naturals, Sequences

CONSTANTS
  Scripts,
  Outside,   \* the addresses that requests go to
  Answers    \* what a request may come back with

VARIABLES
  real,      \* requests leave the emulator, and anything may come back
  ready,     \* the region runs
  rules,     \* the answer to a request to each address
  next,      \* the number of the next request, grant or call
  owner,     \* the scripts that own addresses, by the numbers of their grants
  mail       \* what each script has yet to read

vars == <<real, ready, rules, next, owner, mail>>

Answered(id, answer) == [what |-> "answer", id |-> id, answer |-> answer]
Granted(id) == [what |-> "granted", id |-> id]
Called(id) == [what |-> "called", id |-> id]

Mail(s, m) == mail' = [mail EXCEPT ![s] = Append(@, m)]
OwnedBy(s) == [id \in DOMAIN owner \cup {next} |-> IF id = next THEN s ELSE owner[id]]
Latest(ids) == CHOOSE id \in ids : \A other \in ids : other <= id

----------------------------------------------------------------------------
Init ==
  /\ real \in BOOLEAN
  /\ ready = FALSE
  /\ rules \in [Outside -> Answers]
  /\ next = 1
  /\ owner = <<>>
  /\ mail = [s \in Scripts |-> <<>>]

\* The user writes the rules, before the region runs.
Configure ==
  /\ ~ready
  /\ rules' \in [Outside -> Answers]
  /\ UNCHANGED <<real, ready, next, owner, mail>>

Start ==
  /\ ~ready
  /\ ready' = TRUE
  /\ UNCHANGED <<real, rules, next, owner, mail>>

Ask ==
  /\ ready
  /\ \E s \in Scripts, address \in Outside :
       \E answer \in IF real THEN Answers ELSE {rules[address]} : Mail(s, Answered(next, answer))
  /\ next' = next + 1
  /\ UNCHANGED <<real, ready, rules, owner>>

Grant ==
  /\ ready
  /\ \E s \in Scripts : Mail(s, Granted(next)) /\ owner' = OwnedBy(s)
  /\ next' = next + 1
  /\ UNCHANGED <<real, ready, rules>>

\* Of several addresses in the call the one granted last counts.
Call ==
  /\ ready
  /\ \E named \in SUBSET DOMAIN owner : named # {} /\ Mail(owner[Latest(named)], Called(next))
  /\ next' = next + 1
  /\ UNCHANGED <<real, ready, rules, owner>>

Read ==
  /\ \E s \in Scripts : mail[s] # <<>> /\ mail' = [mail EXCEPT ![s] = Tail(@)]
  /\ UNCHANGED <<real, ready, rules, next, owner>>

Forget ==
  /\ \E s \in Scripts : mail' = [mail EXCEPT ![s] = <<>>]
  /\ UNCHANGED <<real, ready, rules, next, owner>>

Next == Configure \/ Start \/ Ask \/ Grant \/ Call \/ Read \/ Forget

Spec == Init /\ [][Next]_vars

=============================================================================
