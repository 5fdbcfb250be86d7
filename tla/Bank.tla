-------------------------------- MODULE Bank --------------------------------
(***************************************************************************)
(* What the L$ economy promises across runs: accounts that are open while  *)
(* the region runs and recorded when it ends.  A run starts from what the  *)
(* record says, whatever the command line says of those accounts; payments *)
(* move money between two accounts at once; the record changes only at the *)
(* end of a run, and only to balances the accounts then have.  A run that  *)
(* is killed leaves the record alone, unless it was being written: then    *)
(* accounts are missing from it, and at most one is wrong.                 *)
(***************************************************************************)
EXTENDS Integers

CONSTANTS Accounts, Amounts

VARIABLES
  hours,   \* "closed", "open" or "closing"
  live,    \* the balance of every account, while open
  record   \* the balances on disk

bankVars == <<hours, live, record>>

NoAccounts == [u \in {} |-> 0]

Init == hours = "closed" /\ live = NoAccounts /\ record = NoAccounts

\* Accounts on record keep their balance; others may be new.
OpenUp ==
  /\ hours = "closed"
  /\ hours' = "open"
  /\ DOMAIN record \subseteq DOMAIN live'
  /\ \A u \in DOMAIN record : live'[u] = record[u]
  /\ UNCHANGED record

\* Who has no account yet gets an empty one.
Funds(u) == IF u \in DOMAIN live THEN live[u] ELSE 0

Join(u) ==
  /\ hours = "open"
  /\ live' = [v \in DOMAIN live \cup {u} |-> Funds(v)]
  /\ UNCHANGED <<hours, record>>

\* Whoever pays itself keeps what it has.
Gain(u, payer, payee, amount) ==
  (IF u = payee THEN amount ELSE 0) - (IF u = payer THEN amount ELSE 0)

Pay(payer, payee, amount) ==
  /\ hours = "open"
  /\ live' = [u \in DOMAIN live \cup {payer, payee} |-> Funds(u) + Gain(u, payer, payee, amount)]
  /\ UNCHANGED <<hours, record>>

PartOfLive(r) == DOMAIN r \subseteq DOMAIN live /\ \A u \in DOMAIN r : r[u] = live[u]

\* The run is over; from here on the balances are written down.
Close ==
  /\ hours = "open"
  /\ hours' = "closing"
  /\ PartOfLive(record')
  /\ UNCHANGED live

WriteDown ==
  /\ hours = "closing"
  /\ PartOfLive(record')
  /\ UNCHANGED <<hours, live>>

\* The run has ended, or was killed.
Gone ==
  /\ hours # "closed"
  /\ hours' = "closed"
  /\ live' = NoAccounts
  /\ UNCHANGED record

\* It was killed in the middle of writing down the balance of u.
Torn(u) ==
  /\ hours = "closing"
  /\ hours' = "closed"
  /\ live' = NoAccounts
  /\ DOMAIN record' = DOMAIN record \cup {u}
  /\ \A v \in DOMAIN record : v # u => record'[v] = record[v]

Next ==
  \/ OpenUp
  \/ \E u \in Accounts : Join(u)
  \/ \E payer, payee \in Accounts, amount \in Amounts : Pay(payer, payee, amount)
  \/ Close \/ WriteDown \/ Gone
  \/ \E u \in Accounts : Torn(u)

Spec == Init /\ [][Next]_bankVars

=============================================================================
