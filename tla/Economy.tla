------------------------------ MODULE Economy ------------------------------
(***************************************************************************)
(* Avatars and their L$ balances, from the command line of one run to the  *)
(* economy.txt the next one starts from: main, config_load,                *)
(* region_add_avatar, the money builtins, MONEY_FROM, volume_load_economy  *)
(* and volume_save_economy.                                                *)
(*                                                                         *)
(* Runs follow each other on one volume.  A run may be killed at any       *)
(* moment; the file is then what had been written by that moment, and its  *)
(* last line may be cut off.  Nobody edits the file between runs.          *)
(***************************************************************************)
EXTENDS Integers, Sequences, FiniteSets, Functions

CONSTANTS
  Avatars,     \* avatar UUIDs
  Scripts,     \* scripts of the region
  Deposits,    \* balances given on the command line and in config files
  Amounts,     \* amounts paid
  MaxRuns,     \* bound: runs on the volume
  MaxBalance,  \* bound: balances stay between -MaxBalance and MaxBalance
  Decades      \* 1, 10, 100, ... up to the first that exceeds every balance

ASSUME EconomyAssumption ==
  /\ Deposits \subseteq Int
  /\ Amounts \subseteq Int
  /\ MaxRuns \in Nat
  /\ MaxBalance \in Nat
  /\ Decades \subseteq Nat \ {0}

VARIABLES
  phase,    \* "off", "options", "config", "loading", "running", "saving"
  avatars,  \* the avatar table: UUIDs in the order they were registered
  balance,  \* and their balances
  debit,    \* scripts whose perms include PERMISSION_DEBIT
  file,     \* the lines of economy.txt; none if there is no file
  at,       \* lines of it read by the load, or written by the save, so far
  runs,     \* history: runs started
  closing,  \* history: how the last run that is over ended
  negative  \* history: a negative amount or deposit was used in some run

tableVars == <<avatars, balance>>
historyVars == <<runs, closing, negative>>
vars == <<phase, tableVars, debit, file, at, historyVars>>

Lines == [uuid : Avatars, balance : Int]
Line(u, b) == [uuid |-> u, balance |-> b]

NoTable == [u \in {} |-> 0]

----------------------------------------------------------------------------
(* The avatar table *)

Registered == DOMAIN balance

\* region_add_avatar: a known avatar gets the balance, a new one is appended.
Enrol(u, b) ==
  /\ avatars' = IF u \in Registered THEN avatars ELSE Append(avatars, u)
  /\ balance' = [v \in Registered \cup {u} |-> IF v = u THEN b ELSE balance[v]]

\* owner_uuid: the first avatar of the table.
OwnerUuid == avatars[1]

Enough_unasked(payer, amount) == TRUE
Enough(payer, amount) ==
  amount <= IF payer \in Registered THEN balance[payer] ELSE 0

Affordable(b) == -MaxBalance <= b /\ b <= MaxBalance

\* The two balances of a payment, one after the other as in the code.
Moved_at_once(table, payer, payee, amount) ==
  [table EXCEPT ![payer] = table[payer] - amount, ![payee] = table[payee] + amount]
Moved(table, payer, payee, amount) ==
  LET paid == [table EXCEPT ![payer] = @ - amount]
  IN  [paid EXCEPT ![payee] = @ + amount]

Signed(x) == negative' = (negative \/ x < 0)

----------------------------------------------------------------------------
(* Starting a run *)

Init ==
  /\ phase = "off"
  /\ avatars = <<>>
  /\ balance = NoTable
  /\ debit = {}
  /\ file = <<>>
  /\ at = 0
  /\ runs = 0
  /\ closing = "none"
  /\ negative = FALSE

\* region_init and main: every process starts with an empty table.
Start ==
  /\ phase = "off"
  /\ runs < MaxRuns
  /\ phase' = "options"
  /\ avatars' = <<>>
  /\ balance' = NoTable
  /\ debit' = {}
  /\ runs' = runs + 1
  /\ at' = 0
  /\ UNCHANGED <<file, closing, negative>>

\* --avatar UUID:BAL, taken as the options are read.
AvatarOption(u, b) ==
  /\ phase = "options"
  /\ Enrol(u, b)
  /\ Signed(b)
  /\ UNCHANGED <<phase, debit, file, at, runs, closing>>

\* --owner and --owner-balance, taken when all options have been read.
OwnerOption(u, b) ==
  /\ phase = "options"
  /\ Enrol(u, b)
  /\ phase' = "config"
  /\ Signed(b)
  /\ UNCHANGED <<debit, file, at, runs, closing>>

\* AVATAR and OWNER lines of a config file.  All OWNER adds to an AVATAR line
\* is an environment variable that is read only when there are no avatars.
ConfigLine(u, b) ==
  /\ phase = "config"
  /\ Enrol(u, b)
  /\ Signed(b)
  /\ UNCHANGED <<phase, debit, file, at, runs, closing>>

----------------------------------------------------------------------------
(* volume_load_economy, before any script is initialised *)

BeginLoad ==
  /\ phase = "config"
  /\ phase' = "loading"
  /\ at' = 0
  /\ UNCHANGED <<tableVars, debit, file, historyVars>>

Loaded_new_only(line) ==
  IF line.uuid \in Registered THEN UNCHANGED tableVars ELSE Enrol(line.uuid, line.balance)
\* A known avatar gets the balance on file, an unknown one is registered.
Loaded(line) == Enrol(line.uuid, line.balance)

LoadLine ==
  /\ phase = "loading"
  /\ at < Len(file)
  /\ Loaded(file[at + 1])
  /\ at' = at + 1
  /\ UNCHANGED <<phase, debit, file, historyVars>>

EndLoad ==
  /\ phase = "loading"
  /\ at = Len(file)
  /\ phase' = "running"
  /\ at' = 0
  /\ UNCHANGED <<tableVars, debit, file, historyVars>>

----------------------------------------------------------------------------
(* The run *)

\* llRequestPermissions replaces what was granted before, and is granted.
RequestPermissions(s, withDebit) ==
  /\ phase = "running"
  /\ debit' = IF withDebit THEN debit \cup {s} ELSE debit \ {s}
  /\ UNCHANGED <<phase, tableVars, file, at, historyVars>>

\* llGiveMoney, and llTransferLindenDollars by way of it.  The payee is
\* registered if it is unknown, even when the payment then fails.
GiveMoney(s, payee, amount) ==
  /\ phase = "running"
  /\ s \in debit
  /\ LET table == [u \in Registered \cup {payee} |-> IF u \in Registered THEN balance[u] ELSE 0]
     IN  /\ avatars' = IF payee \in Registered THEN avatars ELSE Append(avatars, payee)
         /\ balance' = IF Enough(OwnerUuid, amount)
                       THEN Moved(table, OwnerUuid, payee, amount) ELSE table
  /\ \A u \in DOMAIN balance' : Affordable(balance'[u])
  /\ Signed(amount)
  /\ UNCHANGED <<phase, debit, file, at, runs, closing>>

\* MONEY_FROM: a known avatar pays the object, that is, avatars[0].
MoneyFrom(payer, amount) ==
  /\ phase = "running"
  /\ payer \in Registered
  /\ Enough(payer, amount)
  /\ balance' = Moved(balance, payer, OwnerUuid, amount)
  /\ \A u \in Registered : Affordable(balance'[u])
  /\ Signed(amount)
  /\ UNCHANGED <<phase, avatars, debit, file, at, runs, closing>>

----------------------------------------------------------------------------
(* Ending it *)

\* volume_save_economy: opening the file for writing empties it.
BeginSave ==
  /\ phase = "running"
  /\ phase' = "saving"
  /\ file' = <<>>
  /\ at' = 0
  /\ UNCHANGED <<tableVars, debit, historyVars>>

MoreLines_off_by_one == at + 1 < Len(avatars)
MoreLines == at < Len(avatars)

SaveLine ==
  /\ phase = "saving"
  /\ MoreLines
  /\ at' = at + 1
  /\ file' = Append(file, Line(avatars[at + 1], balance[avatars[at + 1]]))
  /\ UNCHANGED <<phase, tableVars, debit, historyVars>>

EndSave ==
  /\ phase = "saving"
  /\ ~MoreLines
  /\ phase' = "off"
  /\ closing' = "saved"
  /\ debit' = {}
  /\ UNCHANGED <<tableVars, file, at, runs, negative>>

\* The run is over and what it had in memory is gone.
Lost ==
  /\ phase' = "off"
  /\ avatars' = <<>>
  /\ balance' = NoTable
  /\ debit' = {}
  /\ at' = 0
  /\ closing' = "lost"
  /\ UNCHANGED <<runs, negative>>

\* main gives up (a script or config file that does not load), economy.txt
\* cannot be opened, or the process is killed.  Nothing more is written.
Killed ==
  /\ phase # "off"
  /\ Lost
  /\ UNCHANGED file

\* What strtoll makes of a balance that is cut off after some of its digits.
CutOff(b) == {IF b >= 0 THEN b \div d ELSE -((-b) \div d) : d \in Decades}

\* The process is killed, or the disk is full, in the middle of a line: the
\* load takes a line without its name, or without all of its digits, as it is.
TornLine(b) ==
  /\ phase = "saving"
  /\ MoreLines
  /\ b \in CutOff(balance[avatars[at + 1]])
  /\ file' = Append(file, Line(avatars[at + 1], b))
  /\ Lost

----------------------------------------------------------------------------

Startup ==
  \/ Start
  \/ \E u \in Avatars, b \in Deposits : AvatarOption(u, b) \/ OwnerOption(u, b) \/ ConfigLine(u, b)
  \/ BeginLoad \/ LoadLine \/ EndLoad

Business ==
  \/ \E s \in Scripts, withDebit \in BOOLEAN : RequestPermissions(s, withDebit)
  \/ \E s \in Scripts, payee \in Avatars, amount \in Amounts : GiveMoney(s, payee, amount)
  \/ \E payer \in Avatars, amount \in Amounts : MoneyFrom(payer, amount)

Ending ==
  \/ BeginSave \/ SaveLine \/ EndSave \/ Killed
  \/ \E b \in -MaxBalance .. MaxBalance : TornLine(b)

Next == Startup \/ Business \/ Ending

Spec == Init /\ [][Next]_vars

----------------------------------------------------------------------------
(* Properties *)

\* Type invariant.
TypeOK ==
  /\ phase \in {"off", "options", "config", "loading", "running", "saving"}
  /\ avatars \in Seq(Avatars)
  /\ Registered \subseteq Avatars
  /\ balance \in [Registered -> Int]
  /\ debit \subseteq Scripts
  /\ file \in Seq(Lines)
  /\ at \in 0 .. IF phase = "loading" THEN Len(file) ELSE Len(avatars)
  /\ runs \in 0 .. MaxRuns
  /\ closing \in {"none", "saved", "lost"}
  /\ negative \in BOOLEAN

\* Every avatar has one entry in the table and at most one line on file: the
\* scans of region_add_avatar, llGiveMoney and the load stop at the right one.
OneAccountEach ==
  /\ Registered = {avatars[i] : i \in DOMAIN avatars}
  /\ \A i, j \in DOMAIN avatars : avatars[i] = avatars[j] => i = j
  /\ \A i, j \in DOMAIN file : file[i].uuid = file[j].uuid => i = j

\* Payments neither make money nor lose it, whoever pays whom.
Total == FoldFunction(LAMBDA a, b : a + b, 0, balance)

MoneyConserved == [][phase = "running" /\ phase' = "running" => Total' = Total]_vars

\* As long as no negative amount is used, nobody is ever in debt, in any run
\* on the volume and whatever run was killed.
NoOverdraft ==
  ~negative => /\ \A u \in Registered : balance[u] >= 0
               /\ \A i \in DOMAIN file : file[i].balance >= 0

OnFile == {file[i].uuid : i \in DOMAIN file}
Filed(u) == file[CHOOSE i \in DOMAIN file : file[i].uuid = u].balance

\* A run that ended well has left exactly its balances behind.  (The table is
\* kept here until the next run starts, for this comparison.)
SavedWhole ==
  phase = "off" /\ closing = "saved" =>
    OnFile = Registered /\ \A u \in Registered : Filed(u) = balance[u]

\* The balances as Bank has them: accounts are open while the region runs.
InBusiness == phase \in {"running", "saving"}
Hours == IF phase = "running" THEN "open" ELSE IF phase = "saving" THEN "closing" ELSE "closed"
Live == IF InBusiness THEN balance ELSE NoTable
Record == [u \in OnFile |-> Filed(u)]

BankView == INSTANCE Bank WITH
              Accounts <- Avatars, hours <- Hours, live <- Live, record <- Record

\* Registration, the load, payments, the save and kills keep, across runs, the
\* promise of Bank.
BankSpec == BankView!Spec

=============================================================================
