-------------------------------- MODULE Vault --------------------------------
(***************************************************************************)
(* What a project volume promises across runs: besides the accounts of     *)
(* Bank, which are recorded when a run ends, a store of texts under names, *)
(* where each change is made for good at once.  A run that is killed takes *)
(* its payments with it but not what it has stored; the text that was just *)
(* being written may be broken.                                            *)
(***************************************************************************)
EXTENDS Bank

CONSTANTS
  Names,
  Secret,   \* the name that clearing the store forgets
  Contents

VARIABLE store

vaultVars == <<bankVars, store>>

Empty == [n \in {} |-> <<>>]

Put(n) ==
  \E t \in Contents : store' = [m \in DOMAIN store \cup {n} |-> IF m = n THEN t ELSE store[m]]
Drop(n) == store' = [m \in DOMAIN store \ {n} |-> store[m]]
Clear == store' = [m \in DOMAIN store \cap {Secret} |-> store[m]]

StoreOrBreak ==
  \/ hours = "open" /\ UNCHANGED bankVars /\ (Clear \/ \E n \in Names : Put(n) \/ Drop(n))
  \/ hours = "open" /\ Gone /\ \E n \in Names : Put(n)

VaultInit == Init /\ store = Empty
VaultNext == StoreOrBreak \/ (Next /\ UNCHANGED store)
VaultSpec == VaultInit /\ [][VaultNext]_vaultVars

=============================================================================
