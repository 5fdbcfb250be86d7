--------------------------- MODULE EconomyProofs ---------------------------
(***************************************************************************)
(* Proofs about Economy: its types, one account for every avatar, the      *)
(* record a run leaves behind, no overdraft, a total that payments keep,   *)
(* and that it implements Bank; and about Volume: which keys share a file, *)
(* and that it implements Vault.                                           *)
(*                                                                         *)
(* The economy's invariant has a part for each loop over the file: what    *)
(* has been loaded so far is in the table, and what has been saved so far  *)
(* is the beginning of the table.                                          *)
(***************************************************************************)
EXTENDS Volume, Induction, SequenceTheorems, TLAPS

\* The table by itself: its types, and one entry for every avatar.
TableInv ==
  /\ avatars \in Seq(Avatars)
  /\ Registered \subseteq Avatars
  /\ balance \in [Registered -> Int]
  /\ Registered = {avatars[i] : i \in DOMAIN avatars}
  /\ \A i, j \in DOMAIN avatars : avatars[i] = avatars[j] => i = j

\* The lines loaded so far are in the table.
LoadInv ==
  phase = "loading" =>
    \A i \in 1 .. at : file[i].uuid \in Registered /\ balance[file[i].uuid] = file[i].balance

\* The lines saved so far are the first entries of the table.
SaveInv ==
  phase = "saving" \/ (phase = "off" /\ closing = "saved") =>
    /\ Len(file) = at
    /\ at <= Len(avatars)
    /\ \A i \in 1 .. at : file[i] = Line(avatars[i], balance[avatars[i]])

\* A save that ended has written them all.
DoneInv == phase = "off" /\ closing = "saved" => at = Len(avatars)

\* From the end of the options on there is an owner.
OwnedInv == phase \in {"config", "loading", "running", "saving"} => avatars # <<>>

IInv == TypeOK /\ OneAccountEach /\ LoadInv /\ SaveInv /\ DoneInv /\ OwnedInv

\* The table stays in order if whoever gets a balance is appended when unknown.
LEMMA NewcomerKeepsTable ==
  ASSUME TableInv, NEW u \in Avatars,
         avatars' = IF u \in Registered THEN avatars ELSE Append(avatars, u),
         balance' \in [Registered \cup {u} -> Int]
  PROVE  TableInv' /\ avatars' # <<>> /\ Registered' = Registered \cup {u}
<1>1. Registered' = Registered \cup {u}
  BY DEF Registered
<1>2. CASE u \in Registered
  <2>1. avatars' = avatars /\ avatars # <<>>
    BY <1>2 DEF TableInv
  <2> QED
    BY <1>1, <1>2, <2>1 DEF TableInv
<1>3. CASE u \notin Registered
  <2>1. avatars' = Append(avatars, u)
    BY <1>3
  <2>2. /\ avatars' \in Seq(Avatars)
        /\ Len(avatars') = Len(avatars) + 1
        /\ \A i \in 1 .. Len(avatars) : avatars'[i] = avatars[i]
        /\ avatars'[Len(avatars) + 1] = u
    BY <2>1, AppendProperties DEF TableInv
  <2>3. /\ DOMAIN avatars = 1 .. Len(avatars)
        /\ DOMAIN avatars' = 1 .. Len(avatars) + 1
        /\ Len(avatars) \in Nat
    BY <2>2, LenProperties DEF TableInv
  <2>4. Registered' = {avatars'[i] : i \in DOMAIN avatars'}
    <3>1. \A v \in Registered' : \E i \in DOMAIN avatars' : v = avatars'[i]
      BY <1>1, <2>2, <2>3 DEF TableInv
    <3>2. \A i \in DOMAIN avatars' : avatars'[i] \in Registered'
      BY <1>1, <2>2, <2>3 DEF TableInv
    <3> QED
      BY <3>1, <3>2
  <2>5. \A i, j \in DOMAIN avatars' : avatars'[i] = avatars'[j] => i = j
    BY <1>3, <2>2, <2>3 DEF TableInv
  <2>6. avatars' # <<>>
    BY <2>2, <2>3
  <2> QED
    BY <1>1, <2>2, <2>4, <2>5, <2>6 DEF TableInv
<1> QED
  BY <1>2, <1>3

\* Registering an avatar keeps the table in order and sets one balance.
LEMMA EnrolKeepsTable ==
  ASSUME TableInv, NEW u \in Avatars, NEW b \in Int, Enrol(u, b)
  PROVE  /\ TableInv'
         /\ avatars' # <<>>
         /\ Registered' = Registered \cup {u}
         /\ \A v \in Registered' : balance'[v] = IF v = u THEN b ELSE balance[v]
<1>1. balance' \in [Registered \cup {u} -> Int]
  BY DEF Enrol, TableInv
<1>2. \A v \in Registered \cup {u} : balance'[v] = IF v = u THEN b ELSE balance[v]
  BY DEF Enrol
<1> QED
  BY <1>1, <1>2, NewcomerKeepsTable DEF Enrol

LEMMA TableOfInvariant == IInv => TableInv
BY DEF IInv, TypeOK, OneAccountEach, TableInv

LEMMA InitInv == Init => IInv
<1> SUFFICES ASSUME Init PROVE IInv
  OBVIOUS
<1>1. TypeOK
  <2>1. balance \in [Registered -> Int] /\ Registered = {}
    BY DEF Init, NoTable, Registered
  <2>2. at \in 0 .. IF phase = "loading" THEN Len(file) ELSE Len(avatars)
    BY DEF Init
  <2>3. runs \in 0 .. MaxRuns
    BY EconomyAssumption DEF Init
  <2>4. avatars \in Seq(Avatars) /\ file \in Seq(Lines)
    BY DEF Init
  <2>5. negative \in BOOLEAN
    BY DEF Init
  <2> QED
    BY <2>1, <2>2, <2>3, <2>4, <2>5 DEF Init, TypeOK
<1>2. OneAccountEach
  BY DEF Init, OneAccountEach, Registered, NoTable
<1> QED
  BY <1>1, <1>2 DEF Init, IInv, LoadInv, SaveInv, DoneInv, OwnedInv

\* An option or a line of a config file registers an avatar.
LEMMA EnrolmentKeepsInv ==
  ASSUME IInv, NEW u \in Avatars, NEW b \in Int, Enrol(u, b),
         phase \in {"options", "config"}, phase' \in {"options", "config"},
         negative' \in BOOLEAN,
         UNCHANGED <<debit, file, at, runs, closing>>
  PROVE  IInv'
<1>1. TableInv' /\ avatars' # <<>> /\ Len(avatars) <= Len(avatars')
  <2>1. TableInv
    BY TableOfInvariant
  <2>2. TableInv' /\ avatars' # <<>>
    BY <2>1, EnrolKeepsTable
  <2>3. Len(avatars) <= Len(avatars')
    BY <2>1, AppendProperties, LenProperties DEF Enrol, TableInv
  <2> QED
    BY <2>2, <2>3
<1>2. TypeOK'
  <2>1. Len(avatars) \in Nat /\ Len(avatars') \in Nat
    BY <1>1, LenProperties DEF IInv, TypeOK, TableInv
  <2>2. at' \in 0 .. IF phase' = "loading" THEN Len(file') ELSE Len(avatars')
    BY <1>1, <2>1 DEF IInv, TypeOK
  <2> QED
    BY <1>1, <2>2 DEF IInv, TypeOK, TableInv
<1>3. OneAccountEach'
  BY <1>1 DEF IInv, OneAccountEach, TableInv
<1> QED
  BY <1>1, <1>2, <1>3 DEF IInv, LoadInv, SaveInv, DoneInv, OwnedInv

LEMMA StartupKeepsInv == IInv /\ Startup => IInv'
<1> SUFFICES ASSUME IInv, Startup PROVE IInv'
  OBVIOUS
<1> USE EconomyAssumption
<1>1. CASE Start
  <2>1. Registered' = {} /\ avatars' = <<>>
    BY <1>1 DEF Start, NoTable, Registered
  <2>2. TypeOK'
    <3>1. balance' \in [Registered' -> Int] /\ avatars' \in Seq(Avatars)
      BY <1>1, <2>1 DEF Start, NoTable, Registered
    <3>2. runs' \in 0 .. MaxRuns
      BY <1>1 DEF Start, IInv, TypeOK
    <3>3. at' = 0 /\ Len(avatars') = 0
      BY <1>1, <2>1 DEF Start
    <3>4. at' \in 0 .. IF phase' = "loading" THEN Len(file') ELSE Len(avatars')
      BY <1>1, <3>3 DEF Start
    <3> QED
      BY <1>1, <2>1, <3>1, <3>2, <3>4 DEF Start, IInv, TypeOK
  <2>3. OneAccountEach'
    BY <1>1, <2>1 DEF Start, IInv, OneAccountEach
  <2> QED
    BY <1>1, <2>2, <2>3 DEF Start, IInv, LoadInv, SaveInv, DoneInv, OwnedInv
<1>2. ASSUME NEW u \in Avatars, NEW b \in Deposits, AvatarOption(u, b)
      PROVE  IInv'
  <2>1. b \in Int
    OBVIOUS
  <2>2. negative' \in BOOLEAN
    BY <1>2 DEF AvatarOption, Signed, IInv, TypeOK
  <2> QED
    BY <1>2, <2>1, <2>2, EnrolmentKeepsInv DEF AvatarOption, IInv, TypeOK
<1>3. ASSUME NEW u \in Avatars, NEW b \in Deposits, OwnerOption(u, b)
      PROVE  IInv'
  <2>1. b \in Int
    OBVIOUS
  <2>2. negative' \in BOOLEAN
    BY <1>3 DEF OwnerOption, Signed, IInv, TypeOK
  <2> QED
    BY <1>3, <2>1, <2>2, EnrolmentKeepsInv DEF OwnerOption, IInv, TypeOK
<1>4. ASSUME NEW u \in Avatars, NEW b \in Deposits, ConfigLine(u, b)
      PROVE  IInv'
  <2>1. b \in Int
    OBVIOUS
  <2>2. negative' \in BOOLEAN
    BY <1>4 DEF ConfigLine, Signed, IInv, TypeOK
  <2> QED
    BY <1>4, <2>1, <2>2, EnrolmentKeepsInv DEF ConfigLine, IInv, TypeOK
<1>5. CASE BeginLoad
  <2>1. Registered' = Registered /\ Len(file') \in Nat
    BY <1>5, LenProperties DEF BeginLoad, tableVars, Registered, IInv, TypeOK
  <2>2. TypeOK'
    BY <1>5, <2>1 DEF BeginLoad, tableVars, historyVars, IInv, TypeOK
  <2>3. OneAccountEach'
    BY <1>5, <2>1 DEF BeginLoad, tableVars, IInv, OneAccountEach
  <2> QED
    BY <1>5, <2>2, <2>3 DEF BeginLoad, tableVars, IInv, LoadInv, SaveInv, DoneInv, OwnedInv
<1>6. CASE LoadLine
  <2> DEFINE line == file[at + 1]
  <2>1. /\ at \in Nat
        /\ Len(file) \in Nat
        /\ DOMAIN file = 1 .. Len(file)
        /\ at + 1 \in DOMAIN file
        /\ \A i \in DOMAIN file : file[i].uuid \in Avatars /\ file[i].balance \in Int
    <3>1. /\ file \in Seq(Lines)
          /\ at \in 0 .. Len(file)
          /\ at < Len(file)
      BY <1>6 DEF LoadLine, IInv, TypeOK
    <3>2. /\ Len(file) \in Nat
          /\ DOMAIN file = 1 .. Len(file)
          /\ \A i \in DOMAIN file : file[i] \in Lines
      BY <3>1, LenProperties, ElementOfSeq
    <3>3. at \in Nat /\ at + 1 \in DOMAIN file
      BY <3>1, <3>2
    <3> QED
      BY <3>2, <3>3 DEF Lines
  <2>2. /\ TableInv'
        /\ avatars' # <<>>
        /\ Registered' = Registered \cup {line.uuid}
        /\ \A v \in Registered' :
             balance'[v] = IF v = line.uuid THEN line.balance ELSE balance[v]
    BY <1>6, <2>1, EnrolKeepsTable, TableOfInvariant DEF LoadLine, Loaded
  <2>3. TypeOK'
    <3>1. at' \in 0 .. IF phase' = "loading" THEN Len(file') ELSE Len(avatars')
      BY <1>6, <2>1 DEF LoadLine
    <3> QED
      BY <1>6, <2>2, <3>1 DEF LoadLine, historyVars, IInv, TypeOK, TableInv
  <2>4. OneAccountEach'
    BY <1>6, <2>2 DEF LoadLine, IInv, OneAccountEach, TableInv
  <2>5. LoadInv'
    <3> SUFFICES ASSUME NEW i \in 1 .. at'
                 PROVE  /\ file[i].uuid \in Registered'
                        /\ balance'[file[i].uuid] = file[i].balance
      BY <1>6 DEF LoadLine, LoadInv
    <3>1. CASE i = at + 1
      BY <2>2, <3>1
    <3>2. CASE i # at + 1
      <4>1. i \in 1 .. at /\ i \in DOMAIN file
        BY <1>6, <2>1, <3>2 DEF LoadLine
      <4>2. file[i].uuid # line.uuid
        BY <2>1, <3>2, <4>1 DEF IInv, OneAccountEach
      <4>3. file[i].uuid \in Registered /\ balance[file[i].uuid] = file[i].balance
        BY <1>6, <4>1 DEF LoadLine, IInv, LoadInv
      <4> QED
        BY <2>2, <4>2, <4>3
    <3> QED
      BY <3>1, <3>2
  <2> QED
    BY <1>6, <2>2, <2>3, <2>4, <2>5 DEF LoadLine, IInv, SaveInv, DoneInv, OwnedInv
<1>7. CASE EndLoad
  <2>1. Registered' = Registered /\ Len(avatars') \in Nat
    BY <1>7, LenProperties DEF EndLoad, tableVars, Registered, IInv, TypeOK
  <2>2. TypeOK'
    BY <1>7, <2>1 DEF EndLoad, tableVars, historyVars, IInv, TypeOK
  <2>3. OneAccountEach'
    BY <1>7, <2>1 DEF EndLoad, tableVars, IInv, OneAccountEach
  <2> QED
    BY <1>7, <2>2, <2>3 DEF EndLoad, tableVars, IInv, LoadInv, SaveInv, DoneInv, OwnedInv
<1> QED
  BY <1>1, <1>2, <1>3, <1>4, <1>5, <1>6, <1>7 DEF Startup


\* While the region runs, the object's owner has an account.
LEMMA OwnerHasAccount ==
  ASSUME IInv, phase = "running"
  PROVE  OwnerUuid \in Registered
<1>1. avatars \in Seq(Avatars) /\ avatars # <<>>
  BY DEF IInv, TypeOK, OwnedInv
<1>2. 1 \in DOMAIN avatars
  BY <1>1, EmptySeq, LenProperties
<1> QED
  BY <1>2 DEF IInv, OneAccountEach, OwnerUuid

\* A payment moves money between accounts of the table.
LEMMA MovedType ==
  ASSUME NEW S, NEW table \in [S -> Int], NEW payer \in S, NEW payee \in S, NEW amount \in Int
  PROVE  Moved(table, payer, payee, amount) \in [S -> Int]
BY DEF Moved

\* One that the payer can afford leaves nobody below zero.
LEMMA MovedKeepsCredit ==
  ASSUME NEW S, NEW table \in [S -> Int], NEW payer \in S, NEW payee \in S, NEW amount \in Int,
         amount >= 0, amount <= table[payer], \A v \in S : table[v] >= 0
  PROVE  \A v \in S : Moved(table, payer, payee, amount)[v] >= 0
<1> DEFINE paid == [table EXCEPT ![payer] = @ - amount]
<1>1. paid \in [S -> Int] /\ \A v \in S : paid[v] >= 0
  OBVIOUS
<1>2. Moved(table, payer, payee, amount) = [paid EXCEPT ![payee] = @ + amount]
  BY DEF Moved
<1> HIDE DEF paid
<1> QED
  BY <1>1, <1>2

Gained(S, table, payer, payee, amount) ==
  [v \in S |-> table[v] + BankView!Gain(v, payer, payee, amount)]

\* The payee gains and the payer loses the amount: nothing, if they are the same.
LEMMA MovedGains ==
  ASSUME NEW S, NEW table \in [S -> Int], NEW payer \in S, NEW payee \in S, NEW amount \in Int
  PROVE  Moved(table, payer, payee, amount) = Gained(S, table, payer, payee, amount)
<1> DEFINE paid == [table EXCEPT ![payer] = @ - amount]
           moved == [paid EXCEPT ![payee] = @ + amount]
<1>1. paid \in [S -> Int] /\ \A v \in S : paid[v] = IF v = payer THEN table[v] - amount ELSE table[v]
  OBVIOUS
<1>2. Moved(table, payer, payee, amount) = moved
  BY DEF Moved
<1> HIDE DEF paid
<1>3. moved = [v \in S |-> moved[v]]
  BY <1>1
<1>4. \A v \in S : moved[v] = IF v = payee THEN paid[v] + amount ELSE paid[v]
  BY <1>1
<1> HIDE DEF moved
<1>5. ASSUME NEW v \in S
      PROVE  moved[v] = table[v] + BankView!Gain(v, payer, payee, amount)
  BY <1>1, <1>4 DEF BankView!Gain
<1>6. [v \in S |-> moved[v]] = [v \in S |-> table[v] + BankView!Gain(v, payer, payee, amount)]
  BY <1>5
<1> QED
  BY <1>2, <1>3, <1>6 DEF Gained

\* The table of a payment: the payee is in it.
LEMMA GiveMoneyTable ==
  ASSUME IInv, NEW s \in Scripts, NEW payee \in Avatars, NEW amount \in Amounts,
         GiveMoney(s, payee, amount),
         NEW table, table = [u \in Registered \cup {payee} |-> IF u \in Registered THEN balance[u] ELSE 0]
  PROVE  /\ table \in [Registered \cup {payee} -> Int]
         /\ OwnerUuid \in Registered
         /\ amount \in Int
         /\ balance' = IF Enough(OwnerUuid, amount)
                       THEN Moved(table, OwnerUuid, payee, amount) ELSE table
         /\ balance' \in [Registered \cup {payee} -> Int]
<1>1. table \in [Registered \cup {payee} -> Int]
  BY DEF IInv, TypeOK
<1>2. OwnerUuid \in Registered
  BY OwnerHasAccount DEF GiveMoney
<1>3. amount \in Int
  BY EconomyAssumption
<1>4. balance' = IF Enough(OwnerUuid, amount)
                 THEN Moved(table, OwnerUuid, payee, amount) ELSE table
  BY DEF GiveMoney
<1>5. Moved(table, OwnerUuid, payee, amount) \in [Registered \cup {payee} -> Int]
  BY <1>1, <1>2, <1>3, MovedType
<1> QED
  BY <1>1, <1>2, <1>3, <1>4, <1>5

LEMMA BusinessKeepsInv == IInv /\ Business => IInv'
<1> SUFFICES ASSUME IInv, Business PROVE IInv'
  OBVIOUS
<1>1. ASSUME NEW s \in Scripts, NEW withDebit \in BOOLEAN, RequestPermissions(s, withDebit)
      PROVE  IInv'
  <2>1. Registered' = Registered
    BY <1>1 DEF RequestPermissions, tableVars, Registered
  <2>2. debit' \subseteq Scripts
    BY <1>1 DEF RequestPermissions, IInv, TypeOK
  <2>3. TypeOK'
    BY <1>1, <2>1, <2>2 DEF RequestPermissions, tableVars, historyVars, IInv, TypeOK
  <2>4. OneAccountEach'
    BY <1>1, <2>1 DEF RequestPermissions, tableVars, IInv, OneAccountEach
  <2> QED
    BY <1>1, <2>3, <2>4
    DEF RequestPermissions, tableVars, IInv, LoadInv, SaveInv, DoneInv, OwnedInv
<1>2. ASSUME NEW s \in Scripts, NEW payee \in Avatars, NEW amount \in Amounts,
             GiveMoney(s, payee, amount)
      PROVE  IInv'
  <2>1. balance' \in [Registered \cup {payee} -> Int]
    BY <1>2, GiveMoneyTable
  <2>2. TableInv
    BY TableOfInvariant
  <2>3. TableInv' /\ avatars' # <<>>
    BY <1>2, <2>1, <2>2, NewcomerKeepsTable DEF GiveMoney
  <2>4. at' \in 0 .. IF phase' = "loading" THEN Len(file') ELSE Len(avatars')
    <3>1. Len(avatars) <= Len(avatars') /\ Len(avatars) \in Nat /\ Len(avatars') \in Nat
      BY <1>2, <2>2, <2>3, AppendProperties, LenProperties DEF GiveMoney, TableInv
    <3> QED
      BY <1>2, <3>1 DEF GiveMoney, IInv, TypeOK
  <2>5. negative' \in BOOLEAN
    BY <1>2 DEF GiveMoney, Signed
  <2>6. TypeOK'
    BY <1>2, <2>3, <2>4, <2>5 DEF GiveMoney, IInv, TypeOK, TableInv
  <2>7. OneAccountEach'
    BY <1>2, <2>3 DEF GiveMoney, IInv, OneAccountEach, TableInv
  <2> QED
    BY <1>2, <2>3, <2>6, <2>7 DEF GiveMoney, IInv, LoadInv, SaveInv, DoneInv, OwnedInv
<1>3. ASSUME NEW payer \in Avatars, NEW amount \in Amounts, MoneyFrom(payer, amount)
      PROVE  IInv'
  <2>1. OwnerUuid \in Registered /\ amount \in Int
    BY <1>3, OwnerHasAccount, EconomyAssumption DEF MoneyFrom
  <2>2. balance' \in [Registered -> Int]
    BY <1>3, <2>1, MovedType DEF MoneyFrom, IInv, TypeOK
  <2>3. Registered' = Registered
    BY <2>2 DEF Registered
  <2>4. negative' \in BOOLEAN
    BY <1>3 DEF MoneyFrom, Signed
  <2>5. TypeOK'
    BY <1>3, <2>2, <2>3, <2>4 DEF MoneyFrom, IInv, TypeOK
  <2>6. OneAccountEach'
    BY <1>3, <2>3 DEF MoneyFrom, IInv, OneAccountEach
  <2> QED
    BY <1>3, <2>5, <2>6 DEF MoneyFrom, IInv, LoadInv, SaveInv, DoneInv, OwnedInv
<1> QED
  BY <1>1, <1>2, <1>3 DEF Business


\* What a save has to write next.
LEMMA NextToSave ==
  ASSUME IInv, phase = "saving", MoreLines
  PROVE  /\ at \in Nat
         /\ Len(file) = at
         /\ DOMAIN file = 1 .. at
         /\ at + 1 \in DOMAIN avatars
         /\ avatars[at + 1] \in Registered
         /\ avatars[at + 1] \in Avatars
         /\ balance[avatars[at + 1]] \in Int
         /\ \A i \in 1 .. at : i \in DOMAIN avatars /\ file[i] = Line(avatars[i], balance[avatars[i]])
<1>1. avatars \in Seq(Avatars) /\ file \in Seq(Lines)
  BY DEF IInv, TypeOK
<1>2. /\ DOMAIN avatars = 1 .. Len(avatars)
      /\ Len(avatars) \in Nat
      /\ DOMAIN file = 1 .. Len(file)
      /\ Len(file) \in Nat
  BY <1>1, LenProperties
<1>3. /\ Len(file) = at
      /\ \A i \in 1 .. at : file[i] = Line(avatars[i], balance[avatars[i]])
  BY DEF IInv, SaveInv
<1>4. at \in Nat /\ at + 1 \in DOMAIN avatars /\ \A i \in 1 .. at : i \in DOMAIN avatars
  BY <1>2, <1>3 DEF MoreLines
<1>5. avatars[at + 1] \in Registered
  BY <1>4 DEF IInv, OneAccountEach
<1>6. avatars[at + 1] \in Avatars /\ balance[avatars[at + 1]] \in Int
  BY <1>5 DEF IInv, TypeOK
<1> QED
  BY <1>2, <1>3, <1>4, <1>5, <1>6

\* The file after one more line, whole or torn.
LEMMA LineAdded ==
  ASSUME IInv, phase = "saving", MoreLines, NEW b \in Int,
         file' = Append(file, Line(avatars[at + 1], b))
  PROVE  /\ file' \in Seq(Lines)
         /\ Len(file') = at + 1
         /\ DOMAIN file' = 1 .. at + 1
         /\ \A i \in 1 .. at : file'[i] = file[i]
         /\ file'[at + 1] = Line(avatars[at + 1], b)
         /\ \A i, j \in DOMAIN file' : file'[i].uuid = file'[j].uuid => i = j
<1>1. /\ at \in Nat
      /\ Len(file) = at
      /\ at + 1 \in DOMAIN avatars
      /\ avatars[at + 1] \in Avatars
      /\ \A i \in 1 .. at : i \in DOMAIN avatars /\ file[i] = Line(avatars[i], balance[avatars[i]])
  BY NextToSave
<1>2. file \in Seq(Lines) /\ Line(avatars[at + 1], b) \in Lines
  BY <1>1 DEF IInv, TypeOK, Line, Lines
<1>3. /\ file' \in Seq(Lines)
      /\ Len(file') = at + 1
      /\ \A i \in 1 .. at : file'[i] = file[i]
      /\ file'[at + 1] = Line(avatars[at + 1], b)
  BY <1>1, <1>2, AppendProperties
<1>4. DOMAIN file' = 1 .. at + 1
  BY <1>3, LenProperties
<1>5. \A i \in 1 .. at + 1 : i \in DOMAIN avatars /\ file'[i].uuid = avatars[i]
  <2>1. \A i \in 1 .. at : file'[i].uuid = avatars[i]
    BY <1>1, <1>3 DEF Line
  <2>2. file'[at + 1].uuid = avatars[at + 1]
    BY <1>3 DEF Line
  <2> QED
    BY <1>1, <2>1, <2>2
<1>6. \A i, j \in DOMAIN file' : file'[i].uuid = file'[j].uuid => i = j
  <2> SUFFICES ASSUME NEW i \in 1 .. at + 1, NEW j \in 1 .. at + 1,
                      file'[i].uuid = file'[j].uuid
               PROVE  i = j
    BY <1>4
  <2>1. i \in DOMAIN avatars /\ j \in DOMAIN avatars /\ avatars[i] = avatars[j]
    BY <1>5
  <2> QED
    BY <2>1 DEF IInv, OneAccountEach
<1> QED
  BY <1>3, <1>4, <1>6

\* A run that is gone leaves no table; only its file is to be looked at.
LEMMA LostKeepsInv ==
  ASSUME IInv, Lost, file' \in Seq(Lines),
         \A i, j \in DOMAIN file' : file'[i].uuid = file'[j].uuid => i = j
  PROVE  IInv'
<1>1. Registered' = {} /\ avatars' = <<>> /\ balance' \in [Registered' -> Int]
  BY DEF Lost, NoTable, Registered
<1>2. avatars' \in Seq(Avatars) /\ Len(avatars') = 0
  BY <1>1
<1>3. at' \in 0 .. IF phase' = "loading" THEN Len(file') ELSE Len(avatars')
  BY <1>2 DEF Lost
<1>4. TypeOK'
  BY <1>1, <1>2, <1>3 DEF Lost, IInv, TypeOK
<1>5. OneAccountEach'
  BY <1>1 DEF OneAccountEach
<1> QED
  BY <1>4, <1>5 DEF Lost, IInv, LoadInv, SaveInv, DoneInv, OwnedInv

\* Cutting digits off leaves an integer, and a negative one only of a negative.
LEMMA CutOffProperties ==
  ASSUME NEW b \in Int, NEW c \in CutOff(b)
  PROVE  c \in Int /\ (b >= 0 => c >= 0)
<1>1. PICK d \in Decades : c = IF b >= 0 THEN b \div d ELSE -((-b) \div d)
  BY DEF CutOff
<1>2. d \in Nat /\ d > 0
  BY EconomyAssumption
<1>3. \A x \in Nat : x \div d \in Nat
  BY <1>2
<1> QED
  BY <1>1, <1>3

LEMMA EndingKeepsInv == IInv /\ Ending => IInv'
<1> SUFFICES ASSUME IInv, Ending PROVE IInv'
  OBVIOUS
<1>1. CASE BeginSave
  <2>1. Registered' = Registered /\ Len(avatars') \in Nat
    BY <1>1, LenProperties DEF BeginSave, tableVars, Registered, IInv, TypeOK
  <2>2. file' = <<>> /\ file' \in Seq(Lines) /\ Len(file') = 0
    BY <1>1 DEF BeginSave
  <2>3. TypeOK'
    BY <1>1, <2>1, <2>2 DEF BeginSave, tableVars, historyVars, IInv, TypeOK
  <2>4. OneAccountEach'
    BY <1>1, <2>1, <2>2 DEF BeginSave, tableVars, IInv, OneAccountEach
  <2>5. SaveInv'
    BY <1>1, <2>1, <2>2 DEF BeginSave, SaveInv
  <2> QED
    BY <1>1, <2>3, <2>4, <2>5 DEF BeginSave, tableVars, IInv, LoadInv, DoneInv, OwnedInv
<1>2. CASE SaveLine
  <2> DEFINE u == avatars[at + 1]
  <2>1. /\ at \in Nat
        /\ at + 1 \in DOMAIN avatars
        /\ balance[u] \in Int
        /\ \A i \in 1 .. at : file[i] = Line(avatars[i], balance[avatars[i]])
    BY <1>2, NextToSave DEF SaveLine
  <2>2. /\ file' \in Seq(Lines)
        /\ Len(file') = at + 1
        /\ \A i \in 1 .. at : file'[i] = file[i]
        /\ file'[at + 1] = Line(u, balance[u])
        /\ \A i, j \in DOMAIN file' : file'[i].uuid = file'[j].uuid => i = j
    BY <1>2, <2>1, LineAdded DEF SaveLine
  <2>3. at + 1 <= Len(avatars) /\ Len(avatars) \in Nat
    BY <2>1, LenProperties DEF IInv, TypeOK
  <2>4. Registered' = Registered
    BY <1>2 DEF SaveLine, tableVars, Registered
  <2>5. TypeOK'
    <3>1. at' \in 0 .. IF phase' = "loading" THEN Len(file') ELSE Len(avatars')
      BY <1>2, <2>1, <2>3 DEF SaveLine, tableVars
    <3> QED
      BY <1>2, <2>2, <2>4, <3>1 DEF SaveLine, tableVars, historyVars, IInv, TypeOK
  <2>6. OneAccountEach'
    BY <1>2, <2>2, <2>4 DEF SaveLine, tableVars, IInv, OneAccountEach
  <2>7. SaveInv'
    <3>1. \A i \in 1 .. at + 1 : file'[i] = Line(avatars[i], balance[avatars[i]])
      BY <2>1, <2>2
    <3> QED
      BY <1>2, <2>2, <2>3, <3>1 DEF SaveLine, tableVars, SaveInv
  <2> QED
    BY <1>2, <2>5, <2>6, <2>7 DEF SaveLine, tableVars, IInv, LoadInv, DoneInv, OwnedInv
<1>3. CASE EndSave
  <2>1. Registered' = Registered /\ Len(avatars) \in Nat
    BY <1>3, LenProperties DEF EndSave, tableVars, Registered, IInv, TypeOK
  <2>2. at = Len(avatars)
    BY <1>3, <2>1 DEF EndSave, MoreLines, IInv, TypeOK
  <2>3. TypeOK'
    BY <1>3, <2>1 DEF EndSave, tableVars, IInv, TypeOK
  <2>4. OneAccountEach'
    BY <1>3, <2>1 DEF EndSave, tableVars, IInv, OneAccountEach
  <2>5. SaveInv'
    BY <1>3 DEF EndSave, tableVars, IInv, SaveInv
  <2> QED
    BY <1>3, <2>2, <2>3, <2>4, <2>5 DEF EndSave, tableVars, IInv, LoadInv, DoneInv, OwnedInv
<1>4. CASE Killed
  <2>1. file' \in Seq(Lines)
    BY <1>4 DEF Killed, IInv, TypeOK
  <2>2. \A i, j \in DOMAIN file' : file'[i].uuid = file'[j].uuid => i = j
    BY <1>4 DEF Killed, IInv, OneAccountEach
  <2> QED
    BY <1>4, <2>1, <2>2, LostKeepsInv DEF Killed
<1>5. ASSUME NEW b \in -MaxBalance .. MaxBalance, TornLine(b)
      PROVE  IInv'
  <2>1. b \in Int
    BY EconomyAssumption
  <2>2. /\ file' \in Seq(Lines)
        /\ \A i, j \in DOMAIN file' : file'[i].uuid = file'[j].uuid => i = j
    BY <1>5, <2>1, LineAdded DEF TornLine
  <2> QED
    BY <1>5, <2>2, LostKeepsInv DEF TornLine
<1> QED
  BY <1>1, <1>2, <1>3, <1>4, <1>5 DEF Ending

LEMMA StepInv == IInv /\ [Next]_vars => IInv'
<1> SUFFICES ASSUME IInv, [Next]_vars PROVE IInv'
  OBVIOUS
<1>1. CASE Next
  BY <1>1, StartupKeepsInv, BusinessKeepsInv, EndingKeepsInv DEF Next
<1>2. CASE UNCHANGED vars
  <2>1. Registered' = Registered
    BY <1>2 DEF vars, tableVars, Registered
  <2>2. TypeOK' /\ OneAccountEach'
    BY <1>2, <2>1 DEF vars, tableVars, historyVars, IInv, TypeOK, OneAccountEach
  <2> QED
    BY <1>2, <2>1, <2>2
    DEF vars, tableVars, historyVars, IInv, LoadInv, SaveInv, DoneInv, OwnedInv
<1> QED
  BY <1>1, <1>2


LEMMA InvHolds == Spec => []IInv
<1> QED
  BY InitInv, StepInv, PTL DEF Spec

\* Type correctness, for any avatars, scripts, amounts and number of runs.
THEOREM TypeCorrect == Spec => []TypeOK
<1>1. IInv => TypeOK
  BY DEF IInv
<1> QED
  BY <1>1, InvHolds, PTL

\* region_add_avatar, the builtins and the load keep one entry for every
\* avatar, and the save one line, through any sequence of runs and kills.
THEOREM AccountsAreUnique == Spec => []OneAccountEach
<1>1. IInv => OneAccountEach
  BY DEF IInv
<1> QED
  BY <1>1, InvHolds, PTL

\* Of lines with different names, the one of a name is found by it.
LEMMA LineOfName ==
  ASSUME NEW f, \A i, j \in DOMAIN f : f[i].uuid = f[j].uuid => i = j,
         NEW i \in DOMAIN f
  PROVE  f[CHOOSE k \in DOMAIN f : f[k].uuid = f[i].uuid] = f[i]
OBVIOUS

\* volume_save_economy, when it ends, has left exactly the run's balances.
THEOREM RecordIsWhole == Spec => []SavedWhole
<1>1. IInv => SavedWhole
  <2> SUFFICES ASSUME IInv, phase = "off", closing = "saved"
               PROVE  OnFile = Registered /\ \A u \in Registered : Filed(u) = balance[u]
    BY DEF SavedWhole
  <2>1. /\ DOMAIN file = DOMAIN avatars
        /\ \A i \in DOMAIN avatars : file[i] = Line(avatars[i], balance[avatars[i]])
    <3>1. DOMAIN file = 1 .. Len(file) /\ DOMAIN avatars = 1 .. Len(avatars)
      BY LenProperties DEF IInv, TypeOK
    <3> QED
      BY <3>1 DEF IInv, SaveInv, DoneInv
  <2>2. \A i \in DOMAIN avatars :
          file[i].uuid = avatars[i] /\ file[i].balance = balance[avatars[i]]
    BY <2>1 DEF Line
  <2>3. OnFile = Registered
    BY <2>1, <2>2 DEF IInv, OneAccountEach, OnFile
  <2>4. ASSUME NEW u \in Registered PROVE Filed(u) = balance[u]
    <3>1. PICK i \in DOMAIN avatars : u = avatars[i]
      BY DEF IInv, OneAccountEach
    <3>2. i \in DOMAIN file /\ file[i].uuid = u
      BY <2>1, <2>2, <3>1
    <3>3. file[CHOOSE k \in DOMAIN file : file[k].uuid = u] = file[i]
      BY <3>2, LineOfName DEF IInv, OneAccountEach
    <3> QED
      BY <2>2, <3>1, <3>3 DEF Filed
  <2> QED
    BY <2>3, <2>4
<1> QED
  BY <1>1, InvHolds, PTL

----------------------------------------------------------------------------
(* No overdraft *)

\* If no negative amount has been used yet, this one is not.
LEMMA SignedProperties ==
  ASSUME NEW x \in Int, Signed(x), ~negative'
  PROVE  ~negative /\ x >= 0
<1>1. ~negative /\ ~(x < 0)
  BY Zenon DEF Signed
<1> QED
  BY <1>1

LEMMA StartupKeepsCredit == IInv /\ NoOverdraft /\ Startup => NoOverdraft'
<1> SUFFICES ASSUME IInv, NoOverdraft, Startup, ~negative'
             PROVE  /\ \A u \in Registered' : balance'[u] >= 0
                    /\ \A i \in DOMAIN file' : file'[i].balance >= 0
  BY DEF NoOverdraft
<1>1. CASE Start
  BY <1>1 DEF Start, NoOverdraft, NoTable, Registered
<1>2. ASSUME NEW u \in Avatars, NEW b \in Deposits,
             AvatarOption(u, b) \/ OwnerOption(u, b) \/ ConfigLine(u, b)
      PROVE  /\ \A v \in Registered' : balance'[v] >= 0
             /\ \A i \in DOMAIN file' : file'[i].balance >= 0
  <2>1. Enrol(u, b) /\ Signed(b) /\ file' = file
    BY <1>2 DEF AvatarOption, OwnerOption, ConfigLine
  <2>2. b \in Int /\ ~negative /\ b >= 0
    <3>1. b \in Int
      BY EconomyAssumption
    <3> QED
      BY <2>1, <3>1, SignedProperties
  <2>3. \A v \in Registered' : v \in Registered \cup {u} /\ balance'[v] = IF v = u THEN b ELSE balance[v]
    BY <2>1 DEF Enrol, Registered
  <2> QED
    BY <2>1, <2>2, <2>3 DEF NoOverdraft
<1>3. CASE BeginLoad
  BY <1>3 DEF BeginLoad, tableVars, historyVars, NoOverdraft, Registered
<1>4. CASE LoadLine
  <2>1. at + 1 \in DOMAIN file
    BY <1>4, LenProperties DEF LoadLine, IInv, TypeOK
  <2>2. ~negative /\ file' = file /\ file[at + 1].balance >= 0
    BY <1>4, <2>1 DEF LoadLine, historyVars, NoOverdraft
  <2>3. \A v \in Registered' :
          /\ v \in Registered \cup {file[at + 1].uuid}
          /\ balance'[v] = IF v = file[at + 1].uuid THEN file[at + 1].balance ELSE balance[v]
    BY <1>4 DEF LoadLine, Loaded, Enrol, Registered
  <2> QED
    BY <2>2, <2>3 DEF NoOverdraft
<1>5. CASE EndLoad
  BY <1>5 DEF EndLoad, tableVars, historyVars, NoOverdraft, Registered
<1> QED
  BY <1>1, <1>2, <1>3, <1>4, <1>5 DEF Startup

LEMMA BusinessKeepsCredit == IInv /\ NoOverdraft /\ Business => NoOverdraft'
<1> SUFFICES ASSUME IInv, NoOverdraft, Business, ~negative'
             PROVE  /\ \A u \in Registered' : balance'[u] >= 0
                    /\ \A i \in DOMAIN file' : file'[i].balance >= 0
  BY DEF NoOverdraft
<1>1. ASSUME NEW s \in Scripts, NEW withDebit \in BOOLEAN, RequestPermissions(s, withDebit)
      PROVE  /\ \A v \in Registered' : balance'[v] >= 0
             /\ \A i \in DOMAIN file' : file'[i].balance >= 0
  BY <1>1 DEF RequestPermissions, tableVars, historyVars, NoOverdraft, Registered
<1>2. ASSUME NEW s \in Scripts, NEW payee \in Avatars, NEW amount \in Amounts,
             GiveMoney(s, payee, amount)
      PROVE  /\ \A v \in Registered' : balance'[v] >= 0
             /\ \A i \in DOMAIN file' : file'[i].balance >= 0
  <2> DEFINE table == [u \in Registered \cup {payee} |-> IF u \in Registered THEN balance[u] ELSE 0]
  <2>1. /\ table \in [Registered \cup {payee} -> Int]
        /\ OwnerUuid \in Registered
        /\ amount \in Int
        /\ balance' = IF Enough(OwnerUuid, amount)
                      THEN Moved(table, OwnerUuid, payee, amount) ELSE table
        /\ balance' \in [Registered \cup {payee} -> Int]
    BY <1>2, GiveMoneyTable
  <2>2. ~negative /\ amount >= 0 /\ file' = file
    <3>1. Signed(amount) /\ file' = file
      BY <1>2 DEF GiveMoney
    <3> QED
      BY <2>1, <3>1, SignedProperties
  <2>3. \A v \in Registered \cup {payee} : table[v] >= 0
    BY <2>2 DEF NoOverdraft
  <2>4. Enough(OwnerUuid, amount) => amount <= table[OwnerUuid]
    BY <2>1 DEF Enough
  <2> HIDE DEF table
  <2>5. Registered' = Registered \cup {payee}
    BY <2>1 DEF Registered
  <2>6. CASE Enough(OwnerUuid, amount)
    <3>1. /\ OwnerUuid \in Registered \cup {payee}
          /\ payee \in Registered \cup {payee}
          /\ amount <= table[OwnerUuid]
      BY <2>1, <2>4, <2>6
    <3>2. \A v \in Registered \cup {payee} : Moved(table, OwnerUuid, payee, amount)[v] >= 0
      BY <2>1, <2>2, <2>3, <3>1, MovedKeepsCredit
    <3> QED
      BY <2>1, <2>2, <2>5, <2>6, <3>2 DEF NoOverdraft
  <2>7. CASE ~Enough(OwnerUuid, amount)
    BY <2>1, <2>2, <2>3, <2>5, <2>7 DEF NoOverdraft
  <2> QED
    BY <2>6, <2>7
<1>3. ASSUME NEW payer \in Avatars, NEW amount \in Amounts, MoneyFrom(payer, amount)
      PROVE  /\ \A v \in Registered' : balance'[v] >= 0
             /\ \A i \in DOMAIN file' : file'[i].balance >= 0
  <2>1. OwnerUuid \in Registered /\ payer \in Registered /\ amount \in Int
    BY <1>3, OwnerHasAccount, EconomyAssumption DEF MoneyFrom
  <2>2. ~negative /\ amount >= 0 /\ file' = file /\ amount <= balance[payer]
    <3>1. Signed(amount) /\ file' = file /\ amount <= balance[payer]
      BY <1>3, <2>1 DEF MoneyFrom, Enough
    <3> QED
      BY <2>1, <3>1, SignedProperties
  <2>3. balance' = Moved(balance, payer, OwnerUuid, amount) /\ balance \in [Registered -> Int]
    BY <1>3 DEF MoneyFrom, IInv, TypeOK
  <2>4. \A v \in Registered : balance'[v] >= 0
    BY <2>1, <2>2, <2>3, MovedKeepsCredit DEF NoOverdraft
  <2>5. Registered' = Registered
    BY <2>1, <2>3, MovedType DEF Registered
  <2> QED
    BY <2>2, <2>4, <2>5 DEF NoOverdraft
<1> QED
  BY <1>1, <1>2, <1>3 DEF Business

LEMMA EndingKeepsCredit == IInv /\ NoOverdraft /\ Ending => NoOverdraft'
<1> SUFFICES ASSUME IInv, NoOverdraft, Ending, ~negative'
             PROVE  /\ \A u \in Registered' : balance'[u] >= 0
                    /\ \A i \in DOMAIN file' : file'[i].balance >= 0
  BY DEF NoOverdraft
<1>1. CASE BeginSave
  BY <1>1 DEF BeginSave, tableVars, historyVars, NoOverdraft, Registered
<1>2. CASE SaveLine
  <2>1. avatars[at + 1] \in Registered /\ balance[avatars[at + 1]] \in Int
        /\ DOMAIN file = 1 .. at
    BY <1>2, NextToSave DEF SaveLine
  <2>2. /\ DOMAIN file' = 1 .. at + 1
        /\ \A i \in 1 .. at : file'[i] = file[i]
        /\ file'[at + 1] = Line(avatars[at + 1], balance[avatars[at + 1]])
    BY <1>2, <2>1, LineAdded DEF SaveLine
  <2>3. file'[at + 1].balance = balance[avatars[at + 1]] /\ at \in Int
    BY <2>2 DEF Line, IInv, TypeOK
  <2>4. ~negative /\ balance' = balance /\ Registered' = Registered
    BY <1>2 DEF SaveLine, tableVars, historyVars, Registered
  <2>5. ASSUME NEW i \in DOMAIN file' PROVE file'[i].balance >= 0
    <3>1. CASE i = at + 1
      BY <2>1, <2>3, <2>4, <3>1 DEF NoOverdraft
    <3>2. CASE i # at + 1
      BY <2>1, <2>2, <2>3, <2>4, <3>2 DEF NoOverdraft
    <3> QED
      BY <3>1, <3>2
  <2> QED
    BY <2>4, <2>5 DEF NoOverdraft
<1>3. CASE EndSave
  BY <1>3 DEF EndSave, tableVars, NoOverdraft, Registered
<1>4. CASE Killed
  BY <1>4 DEF Killed, Lost, NoTable, NoOverdraft, Registered
<1>5. ASSUME NEW b \in -MaxBalance .. MaxBalance, TornLine(b)
      PROVE  /\ \A v \in Registered' : balance'[v] >= 0
             /\ \A i \in DOMAIN file' : file'[i].balance >= 0
  <2>1. /\ avatars[at + 1] \in Registered
        /\ balance[avatars[at + 1]] \in Int
        /\ DOMAIN file = 1 .. at
    BY <1>5, NextToSave DEF TornLine
  <2>2. b \in Int /\ at \in Int
    BY EconomyAssumption DEF IInv, TypeOK
  <2>3. /\ DOMAIN file' = 1 .. at + 1
        /\ \A i \in 1 .. at : file'[i] = file[i]
        /\ file'[at + 1] = Line(avatars[at + 1], b)
    BY <1>5, <2>2, LineAdded DEF TornLine
  <2>4. ~negative /\ Registered' = {}
    BY <1>5 DEF TornLine, Lost, NoTable, Registered
  <2>5. file'[at + 1].balance >= 0
    <3>1. balance[avatars[at + 1]] >= 0
      BY <2>1, <2>4 DEF NoOverdraft
    <3>2. b >= 0
      BY <1>5, <2>1, <3>1, CutOffProperties DEF TornLine
    <3> QED
      BY <2>3, <3>2 DEF Line
  <2>6. ASSUME NEW i \in DOMAIN file' PROVE file'[i].balance >= 0
    <3>1. CASE i = at + 1
      BY <2>5, <3>1
    <3>2. CASE i # at + 1
      BY <2>1, <2>2, <2>3, <2>4, <3>2 DEF NoOverdraft
    <3> QED
      BY <3>1, <3>2
  <2> QED
    BY <2>4, <2>6
<1> QED
  BY <1>1, <1>2, <1>3, <1>4, <1>5 DEF Ending

\* As long as no negative amount or deposit is used, llGiveMoney, MONEY_FROM,
\* the load and a save that is cut short leave no balance below zero.
THEOREM NobodyOverdrawn == Spec => []NoOverdraft
<1>1. Init => NoOverdraft
  BY DEF Init, NoOverdraft, NoTable, Registered
<1>2. IInv /\ NoOverdraft /\ [Next]_vars => NoOverdraft'
  <2>1. IInv /\ NoOverdraft /\ Next => NoOverdraft'
    BY StartupKeepsCredit, BusinessKeepsCredit, EndingKeepsCredit DEF Next
  <2>2. NoOverdraft /\ UNCHANGED vars => NoOverdraft'
    BY DEF vars, tableVars, historyVars, NoOverdraft, Registered
  <2> QED
    BY <2>1, <2>2
<1> QED
  BY <1>1, <1>2, InvHolds, PTL DEF Spec


----------------------------------------------------------------------------
(* The economy implements the bank *)

\* What one account loses and another gains, all accounts together do not notice.
LEMMA MovedKeepsSum ==
  ASSUME NEW S, IsFiniteSet(S), NEW table \in [S -> Int], NEW payer \in S, NEW payee \in S,
         NEW amount \in Int
  PROVE  Sum(Moved(table, payer, payee, amount)) = Sum(table)
<1> DEFINE moved == Moved(table, payer, payee, amount)
           paid == [table EXCEPT ![payer] = @ - amount]
<1>1. paid \in [S -> Int] /\ \A v \in S : paid[v] = IF v = payer THEN table[v] - amount ELSE table[v]
  OBVIOUS
<1>2. moved \in [S -> Int] /\ \A v \in S : moved[v] = IF v = payee THEN paid[v] + amount ELSE paid[v]
  <2>1. moved = [paid EXCEPT ![payee] = @ + amount]
    BY DEF Moved
  <2> HIDE DEF paid, moved
  <2> QED
    BY <1>1, <2>1
<1> HIDE DEF moved, paid
<1>3. CASE payer = payee
  <2>1. \A v \in S : moved[v] = table[v]
    BY <1>1, <1>2, <1>3
  <2>2. moved = table
    BY <1>2, <2>1
  <2> QED
    BY <2>2 DEF moved
<1>4. CASE payer # payee
  <2> DEFINE R == S \ {payer}
             others == [v \in R |-> table[v]]
             others2 == [v \in R |-> moved[v]]
             rest == [v \in R \ {payee} |-> others[v]]
             rest2 == [v \in R \ {payee} |-> others2[v]]
  <2>1. /\ IsFiniteSet(R) /\ payee \in R
        /\ others \in [R -> Int] /\ others2 \in [R -> Int]
        /\ others[payee] = table[payee] /\ others2[payee] = moved[payee]
    BY <1>2, <1>4, FS_RemoveElement
  <2>2. rest = rest2
    BY <1>1, <1>2
  <2>3. IsFiniteSet(R \ {payee}) /\ rest \in [R \ {payee} -> Int]
    BY <2>1, FS_RemoveElement
  <2>4. DOMAIN table = S /\ DOMAIN moved = S /\ DOMAIN others = R /\ DOMAIN others2 = R
        /\ DOMAIN rest = R \ {payee}
    BY <1>2
  <2>5. others = [v \in S \ {payer} |-> table[v]] /\ others2 = [v \in S \ {payer} |-> moved[v]]
    OBVIOUS
  <2>6. rest = [v \in R \ {payee} |-> others[v]] /\ rest2 = [v \in R \ {payee} |-> others2[v]]
    OBVIOUS
  <2> HIDE DEF R, others, others2, rest, rest2
  <2>7. Sum(table) = table[payer] + Sum(others) /\ Sum(moved) = moved[payer] + Sum(others2)
    BY <1>2, <2>4, <2>5, SumWithout
  <2>8. Sum(others) = others[payee] + Sum(rest) /\ Sum(others2) = others2[payee] + Sum(rest2)
    <3>1. IsFiniteSet(DOMAIN others) /\ others \in [DOMAIN others -> Int] /\ payee \in DOMAIN others
          /\ rest = [v \in DOMAIN others \ {payee} |-> others[v]]
      BY <2>1, <2>4, <2>6
    <3>2. IsFiniteSet(DOMAIN others2) /\ others2 \in [DOMAIN others2 -> Int] /\ payee \in DOMAIN others2
          /\ rest2 = [v \in DOMAIN others2 \ {payee} |-> others2[v]]
      BY <2>1, <2>4, <2>6
    <3>3. Sum(others) = others[payee] + Sum(rest)
      BY <3>1, SumWithout
    <3>4. Sum(others2) = others2[payee] + Sum(rest2)
      BY <3>2, SumWithout
    <3> QED
      BY <3>3, <3>4
  <2>9. Sum(rest) \in Int
    BY <2>3, <2>4, SumType
  <2>10. moved[payer] = table[payer] - amount /\ moved[payee] = table[payee] + amount
    BY <1>1, <1>2, <1>4
  <2>11. table[payer] \in Int /\ table[payee] \in Int
    OBVIOUS
  <2> QED
    BY <2>1, <2>2, <2>7, <2>8, <2>9, <2>10, <2>11 DEF moved
<1> QED
  BY <1>3, <1>4

\* Nor do they notice a new account, which is empty.
LEMMA NewAccountKeepsSum ==
  ASSUME NEW S, IsFiniteSet(S), NEW table \in [S -> Int], NEW u, NEW grown \in [S \cup {u} -> Int],
         \A v \in S : grown[v] = table[v], u \notin S => grown[u] = 0
  PROVE  IsFiniteSet(S \cup {u}) /\ Sum(grown) = Sum(table)
<1>1. IsFiniteSet(S \cup {u})
  BY FS_AddElement
<1>2. CASE u \in S
  <2>1. grown = table
    BY <1>2
  <2> QED
    BY <1>1, <2>1
<1>3. CASE u \notin S
  <2>1. DOMAIN grown = S \cup {u} /\ DOMAIN table = S
    OBVIOUS
  <2>2. /\ IsFiniteSet(DOMAIN grown) /\ grown \in [DOMAIN grown -> Int] /\ u \in DOMAIN grown
        /\ table = [v \in DOMAIN grown \ {u} |-> grown[v]]
    BY <1>1, <1>3, <2>1
  <2>3. Sum(grown) = grown[u] + Sum(table)
    BY <2>2, SumWithout
  <2>4. Sum(table) \in Int
    BY <2>1, SumType
  <2> QED
    BY <1>1, <1>3, <2>3, <2>4
<1> QED
  BY <1>2, <1>3

\* The total over the table is a sum, over finitely many accounts.
LEMMA TotalIs == Total = Sum(balance)
BY DEF Total, Sum

LEMMA TotalIsSum == Total = Sum(balance) /\ Total' = Sum(balance')
<1>1. (Total = Sum(balance))'
  BY TotalIs, PTL
<1> QED
  BY <1>1, TotalIs

LEMMA FinitelyMany == IInv => IsFiniteSet(Registered)
<1> SUFFICES ASSUME IInv PROVE IsFiniteSet(Registered)
  OBVIOUS
<1>1. DOMAIN avatars = 1 .. Len(avatars) /\ Len(avatars) \in Nat
  BY LenProperties DEF IInv, TypeOK
<1>2. avatars \in Surjection(1 .. Len(avatars), Registered)
  BY <1>1 DEF IInv, TypeOK, OneAccountEach, Surjection
<1>3. IsFiniteSet(1 .. Len(avatars))
  BY <1>1, FS_Interval
<1> QED
  BY <1>2, <1>3, FS_Surjection

\* Payments neither make money nor lose it, whoever pays whom, whether or not the payee
\* was known before, and also when somebody pays himself.
LEMMA BusinessKeepsTotal == IInv /\ Business => Total' = Total
<1> SUFFICES ASSUME IInv, Business PROVE Sum(balance') = Sum(balance)
  BY TotalIsSum
<1>1. balance \in [Registered -> Int] /\ IsFiniteSet(Registered)
  BY FinitelyMany DEF IInv, TypeOK
<1>2. ASSUME NEW s \in Scripts, NEW withDebit \in BOOLEAN, RequestPermissions(s, withDebit)
      PROVE  Sum(balance') = Sum(balance)
  BY <1>2 DEF RequestPermissions, tableVars
<1>3. ASSUME NEW s \in Scripts, NEW payee \in Avatars, NEW amount \in Amounts,
             GiveMoney(s, payee, amount)
      PROVE  Sum(balance') = Sum(balance)
  <2> DEFINE table == [u \in Registered \cup {payee} |-> IF u \in Registered THEN balance[u] ELSE 0]
  <2>1. /\ IsFiniteSet(Registered \cup {payee}) /\ table \in [Registered \cup {payee} -> Int]
        /\ Sum(table) = Sum(balance)
    BY <1>1, NewAccountKeepsSum
  <2>2. /\ OwnerUuid \in Registered
        /\ amount \in Int
        /\ balance' = IF Enough(OwnerUuid, amount)
                      THEN Moved(table, OwnerUuid, payee, amount) ELSE table
    BY <1>3, GiveMoneyTable
  <2> HIDE DEF table
  <2>3. Sum(Moved(table, OwnerUuid, payee, amount)) = Sum(table)
    <3>1. OwnerUuid \in Registered \cup {payee} /\ payee \in Registered \cup {payee}
      BY <2>2
    <3> QED
      BY <2>1, <2>2, <3>1, MovedKeepsSum
  <2> QED
    BY <2>1, <2>2, <2>3
<1>4. ASSUME NEW payer \in Avatars, NEW amount \in Amounts, MoneyFrom(payer, amount)
      PROVE  Sum(balance') = Sum(balance)
  <2>1. OwnerUuid \in Registered /\ amount \in Int
    BY <1>4, OwnerHasAccount, EconomyAssumption DEF MoneyFrom
  <2>2. payer \in Registered /\ balance' = Moved(balance, payer, OwnerUuid, amount)
    BY <1>4 DEF MoneyFrom
  <2> QED
    BY <1>1, <2>1, <2>2, MovedKeepsSum
<1> QED
  BY <1>2, <1>3, <1>4 DEF Business

\* While the region runs, llGiveMoney, llTransferLindenDollars and MONEY_FROM keep the
\* total of all balances, for any avatars and amounts, negative ones included.
THEOREM TotalIsKept == Spec => MoneyConserved
<1>1. ASSUME IInv, [Next]_vars, phase = "running", phase' = "running" PROVE Total' = Total
  <2>1. CASE Startup
    BY <1>1, <2>1 DEF Startup, Start, AvatarOption, OwnerOption, ConfigLine, BeginLoad, LoadLine, EndLoad
  <2>2. CASE Business
    BY <1>1, <2>2, BusinessKeepsTotal
  <2>3. CASE Ending
    BY <1>1, <2>3 DEF Ending, BeginSave, SaveLine, EndSave, Killed, TornLine, Lost
  <2>4. CASE UNCHANGED vars
    BY <2>4, TotalIsSum DEF vars, tableVars
  <2> QED
    BY <1>1, <2>1, <2>2, <2>3, <2>4 DEF Next
<1>2. IInv /\ [Next]_vars => [phase = "running" /\ phase' = "running" => Total' = Total]_vars
  BY <1>1
<1> QED
  BY <1>2, InvHolds, PTL DEF Spec, MoneyConserved

LEMMA FiledProperties ==
  ASSUME IInv, NEW i \in DOMAIN file
  PROVE  file[i].uuid \in OnFile /\ Filed(file[i].uuid) = file[i].balance
<1>1. file[CHOOSE k \in DOMAIN file : file[k].uuid = file[i].uuid] = file[i]
  BY LineOfName DEF IInv, OneAccountEach
<1> QED
  BY <1>1 DEF Filed, OnFile

\* A file that is not written to is the same record.
LEMMA SameRecord ==
  ASSUME file' = file
  PROVE  Record' = Record
BY DEF Record, OnFile, Filed

\* What has been saved so far agrees with the table.
RecordInOrder == IInv /\ phase = "saving" => BankView!PartOfLive(Record)

LEMMA SavedSoFar == RecordInOrder
<1> SUFFICES ASSUME IInv, phase = "saving" PROVE BankView!PartOfLive(Record)
  BY DEF RecordInOrder
<1>1. Live = balance
  BY DEF Live, InBusiness
<1>2. /\ DOMAIN file = 1 .. at
      /\ at <= Len(avatars)
      /\ DOMAIN avatars = 1 .. Len(avatars)
      /\ \A i \in 1 .. at : file[i] = Line(avatars[i], balance[avatars[i]])
  <2>1. DOMAIN file = 1 .. Len(file) /\ DOMAIN avatars = 1 .. Len(avatars)
    BY LenProperties DEF IInv, TypeOK
  <2> QED
    BY <2>1 DEF IInv, SaveInv
<1>3. ASSUME NEW u \in OnFile PROVE u \in Registered /\ Filed(u) = balance[u]
  <2>1. PICK i \in DOMAIN file : u = file[i].uuid
    BY DEF OnFile
  <2>2. file[i] = Line(avatars[i], balance[avatars[i]]) /\ i \in DOMAIN avatars
    <3>1. i \in 1 .. at /\ at \in Int /\ Len(avatars) \in Int
      BY <1>2, <2>1, LenProperties DEF IInv, TypeOK
    <3> QED
      BY <1>2, <3>1
  <2>3. u = avatars[i] /\ file[i].balance = balance[u]
    BY <2>1, <2>2 DEF Line
  <2>4. u \in Registered
    BY <2>2, <2>3 DEF IInv, OneAccountEach
  <2> QED
    BY <2>1, <2>3, <2>4, FiledProperties
<1> QED
  BY <1>1, <1>3 DEF BankView!PartOfLive, Record, Registered

LEMMA SavedSoFarNext == RecordInOrder'
BY SavedSoFar, PTL

\* A step outside business hours that leaves the file alone is none to the bank.
LEMMA OutOfHours ==
  ASSUME phase \notin {"running", "saving"}, phase' \notin {"running", "saving"}, file' = file
  PROVE  UNCHANGED BankView!bankVars
<1>1. Hours' = Hours /\ Live' = Live
  BY DEF Hours, Live, InBusiness, NoTable
<1> QED
  BY <1>1, SameRecord DEF BankView!bankVars

LEMMA StartupIsBanking == IInv /\ Startup => [BankView!Next]_(BankView!bankVars)
<1> SUFFICES ASSUME IInv, Startup PROVE BankView!Next \/ UNCHANGED BankView!bankVars
  OBVIOUS
<1>1. CASE Start
  BY <1>1, OutOfHours DEF Start
<1>2. ASSUME NEW u \in Avatars, NEW b \in Deposits,
             AvatarOption(u, b) \/ OwnerOption(u, b) \/ ConfigLine(u, b)
      PROVE  UNCHANGED BankView!bankVars
  BY <1>2, OutOfHours DEF AvatarOption, OwnerOption, ConfigLine
<1>3. CASE BeginLoad
  BY <1>3, OutOfHours DEF BeginLoad
<1>4. CASE LoadLine
  BY <1>4, OutOfHours DEF LoadLine
<1>5. CASE EndLoad
  <2>1. Hours = "closed" /\ Hours' = "open" /\ Live' = balance
    BY <1>5 DEF EndLoad, tableVars, Hours, Live, InBusiness
  <2>2. Record' = Record
    BY <1>5, SameRecord DEF EndLoad
  <2>3. ASSUME NEW u \in OnFile PROVE u \in Registered /\ Filed(u) = balance[u]
    <3>1. PICK i \in DOMAIN file : u = file[i].uuid
      BY DEF OnFile
    <3>2. i \in 1 .. at
      BY <1>5, <3>1, LenProperties DEF EndLoad, IInv, TypeOK
    <3>3. u \in Registered /\ balance[u] = file[i].balance
      BY <1>5, <3>1, <3>2 DEF EndLoad, IInv, LoadInv
    <3> QED
      BY <3>1, <3>3, FiledProperties
  <2>4. DOMAIN Record \subseteq DOMAIN Live' /\ \A u \in DOMAIN Record : Live'[u] = Record[u]
    BY <2>1, <2>3 DEF Record, Registered
  <2>5. BankView!OpenUp
    BY <2>1, <2>2, <2>4 DEF BankView!OpenUp
  <2> QED
    BY <2>5 DEF BankView!Next
<1> QED
  BY <1>1, <1>2, <1>3, <1>4, <1>5 DEF Startup


LEMMA BusinessIsBanking == IInv /\ Business => [BankView!Next]_(BankView!bankVars)
<1> SUFFICES ASSUME IInv, Business PROVE BankView!Next \/ UNCHANGED BankView!bankVars
  OBVIOUS
<1>1. ASSUME NEW s \in Scripts, NEW withDebit \in BOOLEAN, RequestPermissions(s, withDebit)
      PROVE  UNCHANGED BankView!bankVars
  <2>1. Hours' = Hours /\ Live' = Live /\ file' = file
    BY <1>1 DEF RequestPermissions, tableVars, Hours, Live, InBusiness
  <2> QED
    BY <2>1, SameRecord DEF BankView!bankVars
<1>2. ASSUME NEW s \in Scripts, NEW payee \in Avatars, NEW amount \in Amounts,
             GiveMoney(s, payee, amount)
      PROVE  BankView!Next
  <2> DEFINE table == [u \in Registered \cup {payee} |-> IF u \in Registered THEN balance[u] ELSE 0]
  <2>1. /\ table \in [Registered \cup {payee} -> Int]
        /\ OwnerUuid \in Registered
        /\ amount \in Int
        /\ balance' = IF Enough(OwnerUuid, amount)
                      THEN Moved(table, OwnerUuid, payee, amount) ELSE table
    BY <1>2, GiveMoneyTable
  <2>2. /\ Hours = "open" /\ Hours' = "open"
        /\ Live = balance /\ Live' = balance'
        /\ Record' = Record
    <3>1. phase = "running" /\ phase' = "running" /\ file' = file
      BY <1>2 DEF GiveMoney
    <3> QED
      BY <3>1, SameRecord DEF Hours, Live, InBusiness
  <2>3. table = [v \in DOMAIN Live \cup {payee} |-> BankView!Funds(v)]
    BY <2>2 DEF BankView!Funds, Registered
  <2>4. \A v \in Registered \cup {payee} : BankView!Funds(v) = table[v]
    BY <2>3, <2>2 DEF Registered
  <2>5. OwnerUuid \in Avatars
    BY <2>1 DEF IInv, TypeOK
  <2>6. CASE Enough(OwnerUuid, amount)
    <3>1. balance' = [v \in Registered \cup {payee} |-> table[v] + BankView!Gain(v, OwnerUuid, payee, amount)]
      <4>1. OwnerUuid \in Registered \cup {payee} /\ payee \in Registered \cup {payee}
        BY <2>1
      <4> HIDE DEF table
      <4>2. balance' = Gained(Registered \cup {payee}, table, OwnerUuid, payee, amount)
        BY <2>1, <2>6, <4>1, MovedGains
      <4> QED
        BY <4>2 DEF Gained
    <3>2. balance' = [v \in DOMAIN Live \cup {OwnerUuid, payee} |-> BankView!Funds(v) + BankView!Gain(v, OwnerUuid, payee, amount)]
      <4>1. DOMAIN Live \cup {OwnerUuid, payee} = Registered \cup {payee}
        BY <2>1, <2>2 DEF Registered
      <4> HIDE DEF table
      <4> QED
        BY <2>4, <3>1, <4>1
    <3>3. BankView!Pay(OwnerUuid, payee, amount)
      BY <2>2, <3>2 DEF BankView!Pay
    <3> QED
      BY <2>5, <3>3 DEF BankView!Next
  <2>7. CASE ~Enough(OwnerUuid, amount)
    <3>1. BankView!Join(payee)
      BY <2>1, <2>2, <2>3, <2>7 DEF BankView!Join
    <3> QED
      BY <3>1 DEF BankView!Next
  <2> QED
    BY <2>6, <2>7
<1>3. ASSUME NEW payer \in Avatars, NEW amount \in Amounts, MoneyFrom(payer, amount)
      PROVE  BankView!Next
  <2>1. OwnerUuid \in Registered /\ OwnerUuid \in Avatars /\ payer \in Registered /\ amount \in Int
    BY <1>3, OwnerHasAccount, EconomyAssumption DEF MoneyFrom, IInv, TypeOK
  <2>2. /\ Hours = "open" /\ Hours' = "open"
        /\ Live = balance /\ Live' = balance'
        /\ Record' = Record
    <3>1. phase = "running" /\ phase' = "running" /\ file' = file
      BY <1>3 DEF MoneyFrom
    <3> QED
      BY <3>1, SameRecord DEF Hours, Live, InBusiness
  <2>3. balance' = [v \in Registered |-> balance[v] + BankView!Gain(v, payer, OwnerUuid, amount)]
    <3>1. balance' = Moved(balance, payer, OwnerUuid, amount) /\ balance \in [Registered -> Int]
      BY <1>3 DEF MoneyFrom, IInv, TypeOK
    <3>2. balance' = Gained(Registered, balance, payer, OwnerUuid, amount)
      BY <2>1, <3>1, MovedGains
    <3> QED
      BY <3>2 DEF Gained
  <2>4. balance' = [v \in DOMAIN Live \cup {payer, OwnerUuid} |-> BankView!Funds(v) + BankView!Gain(v, payer, OwnerUuid, amount)]
    <3>1. DOMAIN Live \cup {payer, OwnerUuid} = Registered
      BY <2>1, <2>2 DEF Registered
    <3>2. \A v \in Registered : BankView!Funds(v) = balance[v]
      BY <2>2 DEF BankView!Funds, Registered
    <3> QED
      BY <2>3, <3>1, <3>2
  <2>5. BankView!Pay(payer, OwnerUuid, amount)
    BY <2>2, <2>4 DEF BankView!Pay
  <2> QED
    BY <2>1, <2>5 DEF BankView!Next
<1> QED
  BY <1>1, <1>2, <1>3 DEF Business


LEMMA EndingIsBanking == IInv /\ IInv' /\ Ending => [BankView!Next]_(BankView!bankVars)
<1> SUFFICES ASSUME IInv, IInv', Ending PROVE BankView!Next \/ UNCHANGED BankView!bankVars
  OBVIOUS
<1>1. CASE BeginSave
  <2>1. Hours = "open" /\ Hours' = "closing" /\ Live' = Live
    BY <1>1 DEF BeginSave, tableVars, Hours, Live, InBusiness
  <2>2. BankView!PartOfLive(Record)'
    BY <1>1, SavedSoFarNext DEF BeginSave, RecordInOrder
  <2>3. BankView!PartOfLive(Record')
    BY <2>1, <2>2 DEF BankView!PartOfLive
  <2>4. BankView!Close
    BY <2>1, <2>3 DEF BankView!Close
  <2> QED
    BY <2>4 DEF BankView!Next
<1>2. CASE SaveLine
  <2>1. Hours = "closing" /\ Hours' = "closing" /\ Live' = Live
    BY <1>2 DEF SaveLine, tableVars, Hours, Live, InBusiness
  <2>2. BankView!PartOfLive(Record)'
    BY <1>2, SavedSoFarNext DEF SaveLine, RecordInOrder
  <2>3. BankView!PartOfLive(Record')
    BY <2>1, <2>2 DEF BankView!PartOfLive
  <2>4. BankView!WriteDown
    BY <2>1, <2>3 DEF BankView!WriteDown
  <2> QED
    BY <2>4 DEF BankView!Next
<1>3. CASE EndSave
  <2>1. /\ Hours = "closing" /\ Hours' = "closed"
        /\ Live' = BankView!NoAccounts
        /\ Record' = Record
    BY <1>3, SameRecord DEF EndSave, Hours, Live, InBusiness, NoTable, BankView!NoAccounts
  <2>2. BankView!Gone
    BY <2>1 DEF BankView!Gone
  <2> QED
    BY <2>2 DEF BankView!Next
<1>4. CASE Killed
  <2>1. CASE InBusiness
    <3>1. /\ Hours # "closed" /\ Hours' = "closed"
          /\ Live' = BankView!NoAccounts
          /\ Record' = Record
      BY <1>4, <2>1, SameRecord
      DEF Killed, Lost, Hours, Live, InBusiness, NoTable, BankView!NoAccounts
    <3>2. BankView!Gone
      BY <3>1 DEF BankView!Gone
    <3> QED
      BY <3>2 DEF BankView!Next
  <2>2. CASE ~InBusiness
    BY <1>4, <2>2, OutOfHours DEF Killed, Lost, InBusiness
  <2> QED
    BY <2>1, <2>2
<1>5. ASSUME NEW b \in -MaxBalance .. MaxBalance, TornLine(b)
      PROVE  BankView!Next
  <2> DEFINE u == avatars[at + 1]
  <2>1. /\ DOMAIN file = 1 .. at
        /\ at \in Nat
        /\ u \in Avatars
    BY <1>5, NextToSave DEF TornLine
  <2>2. b \in Int
    BY EconomyAssumption
  <2>3. /\ DOMAIN file' = 1 .. at + 1
        /\ \A i \in 1 .. at : file'[i] = file[i]
        /\ file'[at + 1].uuid = u
        /\ \A i, j \in DOMAIN file' : file'[i].uuid = file'[j].uuid => i = j
    <3>1. /\ DOMAIN file' = 1 .. at + 1
          /\ \A i \in 1 .. at : file'[i] = file[i]
          /\ file'[at + 1] = Line(u, b)
          /\ \A i, j \in DOMAIN file' : file'[i].uuid = file'[j].uuid => i = j
      BY <1>5, <2>2, LineAdded DEF TornLine
    <3> QED
      BY <3>1 DEF Line
  <2>4. Hours = "closing" /\ Hours' = "closed" /\ Live' = BankView!NoAccounts
    BY <1>5 DEF TornLine, Lost, Hours, Live, InBusiness, NoTable, BankView!NoAccounts
  <2>5. DOMAIN Record' = DOMAIN Record \cup {u}
    <3>1. DOMAIN Record = OnFile /\ DOMAIN Record' = OnFile'
      BY DEF Record
    <3>2. OnFile' = OnFile \cup {u}
      <4>1. ASSUME NEW v \in OnFile' PROVE v \in OnFile \cup {u}
        <5>1. PICK i \in 1 .. at + 1 : v = file'[i].uuid
          BY <2>3 DEF OnFile
        <5>2. CASE i = at + 1
          BY <2>3, <5>1, <5>2
        <5>3. CASE i # at + 1
          BY <2>1, <2>3, <5>1, <5>3 DEF OnFile
        <5> QED
          BY <5>2, <5>3
      <4>2. ASSUME NEW v \in OnFile PROVE v \in OnFile'
        <5>1. PICK i \in 1 .. at : v = file[i].uuid
          BY <2>1 DEF OnFile
        <5> QED
          BY <2>1, <2>3, <5>1 DEF OnFile
      <4>3. u \in OnFile'
        BY <2>1, <2>3 DEF OnFile
      <4> QED
        BY <4>1, <4>2, <4>3
    <3> QED
      BY <3>1, <3>2
  <2>6. ASSUME NEW v \in OnFile PROVE Record'[v] = Record[v]
    <3>1. PICK i \in 1 .. at : v = file[i].uuid
      BY <2>1 DEF OnFile
    <3>2. i \in DOMAIN file' /\ file'[i] = file[i]
      BY <2>1, <2>3, <3>1
    <3>3. file'[CHOOSE k \in DOMAIN file' : file'[k].uuid = v] = file'[i]
      BY <2>3, <3>1, <3>2, LineOfName
    <3>4. v \in OnFile' /\ Filed(v)' = file[i].balance
      BY <3>1, <3>2, <3>3 DEF OnFile, Filed
    <3>5. Filed(v) = file[i].balance
      BY <2>1, <3>1, FiledProperties
    <3> QED
      BY <3>4, <3>5 DEF Record
  <2>7. BankView!Torn(u)
    BY <2>4, <2>5, <2>6 DEF BankView!Torn, Record
  <2> QED
    BY <2>1, <2>7 DEF BankView!Next
<1> QED
  BY <1>1, <1>2, <1>3, <1>4, <1>5 DEF Ending

\* Main, region_run, the money builtins and the two volume functions keep what
\* Bank promises, over any number of runs, each of which may be killed.
THEOREM BankImplemented == Spec => BankSpec
<1>1. Init => BankView!Init
  BY DEF Init, BankView!Init, BankView!NoAccounts, Hours, Live, InBusiness, NoTable, Record, OnFile
<1>2. IInv /\ IInv' /\ [Next]_vars => [BankView!Next]_(BankView!bankVars)
  <2>1. IInv /\ IInv' /\ Next => [BankView!Next]_(BankView!bankVars)
    BY StartupIsBanking, BusinessIsBanking, EndingIsBanking DEF Next
  <2>2. UNCHANGED vars => UNCHANGED BankView!bankVars
    <3> SUFFICES ASSUME UNCHANGED vars PROVE UNCHANGED BankView!bankVars
      OBVIOUS
    <3>1. Hours' = Hours /\ Live' = Live /\ file' = file
      BY DEF vars, tableVars, Hours, Live, InBusiness
    <3> QED
      BY <3>1, SameRecord DEF BankView!bankVars
  <2> QED
    BY <2>1, <2>2
<1> QED
  BY <1>1, <1>2, InvHolds, PTL DEF Spec, BankSpec, BankView!Spec

----------------------------------------------------------------------------
(* The volume *)

\* To the accounts a kill in the middle of a write is a kill like any other.
LEMMA VolumeStepIsEconomic == [VolumeNext]_volumeVars => [Next]_vars
<1>1. ASSUME NEW k \in Keys, NEW v \in Values, TornWrite(k, v) PROVE Killed
  BY <1>1 DEF TornWrite, Killed
<1>2. Killed => Next
  BY DEF Next, Ending
<1> QED
  BY <1>1, <1>2 DEF VolumeNext, Economical, LinksetDataWrite, LinksetDataDelete, LinksetDataReset, volumeVars

LEMMA SameEnd ==
  ASSUME NEW m \in Nat, NEW n \in Nat, 1 .. m = 1 .. n
  PROVE  m = n
<1>1. \A i \in Int : i \in 1 .. m <=> i \in 1 .. n
  OBVIOUS
<1>2. (1 <= m => m <= n) /\ (1 <= n => n <= m)
  BY <1>1
<1> QED
  BY <1>2

\* Sanitising makes the same of two keys exactly if they count as the same.
LEMMA SanitisedAlike ==
  ASSUME NEW j \in Seq(STRING), NEW k \in Seq(STRING)
  PROVE  Sanitised(j) = Sanitised(k) <=> SameFile(j, k)
<1>1. /\ DOMAIN j = 1 .. Len(j) /\ Len(j) \in Nat
      /\ DOMAIN k = 1 .. Len(k) /\ Len(k) \in Nat
  BY LenProperties
<1>2. DOMAIN Sanitised(j) = DOMAIN j /\ DOMAIN Sanitised(k) = DOMAIN k
  BY DEF Sanitised
<1>3. \A i \in DOMAIN j : Sanitised(j)[i] = IF j[i] \in Plain THEN j[i] ELSE "_"
  BY DEF Sanitised
<1>4. \A i \in DOMAIN k : Sanitised(k)[i] = IF k[i] \in Plain THEN k[i] ELSE "_"
  BY DEF Sanitised
<1>5. "_" \in Plain
  BY VolumeAssumption
<1>6. ASSUME Sanitised(j) = Sanitised(k) PROVE SameFile(j, k)
  <2>1. DOMAIN j = DOMAIN k
    BY <1>2, <1>6
  <2>2. Len(j) = Len(k)
    BY <1>1, <2>1, SameEnd
  <2>3. ASSUME NEW i \in DOMAIN k PROVE j[i] = k[i] \/ (Odd(j[i]) /\ Odd(k[i]))
    <3>1. (IF j[i] \in Plain THEN j[i] ELSE "_") = (IF k[i] \in Plain THEN k[i] ELSE "_")
      BY <1>3, <1>4, <1>6, <2>1
    <3> QED
      BY <3>1 DEF Odd
  <2> QED
    BY <2>2, <2>3 DEF SameFile
<1>7. ASSUME SameFile(j, k) PROVE Sanitised(j) = Sanitised(k)
  <2>1. DOMAIN j = DOMAIN k
    BY <1>1, <1>7 DEF SameFile
  <2>2. ASSUME NEW i \in DOMAIN k
        PROVE  (IF j[i] \in Plain THEN j[i] ELSE "_") = (IF k[i] \in Plain THEN k[i] ELSE "_")
    BY <1>5, <1>7 DEF SameFile, Odd
  <2> QED
    BY <2>1, <2>2 DEF Sanitised
<1> QED
  BY <1>6, <1>7

LEMMA SanitisedTwice ==
  ASSUME NEW k \in Seq(STRING)
  PROVE  /\ Len(Sanitised(k)) = Len(k)
         /\ \A i \in DOMAIN k : Sanitised(k)[i] = k[i] \/ (Odd(k[i]) /\ Odd(Sanitised(k)[i]))
         /\ Sanitised(k) = <<>> <=> k = <<>>
<1>1. Sanitised(k) = [i \in 1 .. Len(k) |-> IF k[i] \in Plain THEN k[i] ELSE "_"] /\ Len(k) \in Nat
  BY LenProperties DEF Sanitised
<1> DEFINE S == {Sanitised(k)[i] : i \in 1 .. Len(k)}
<1>2. Sanitised(k) \in Seq(S) /\ Len(Sanitised(k)) = Len(k)
  <2>1. Sanitised(k) \in [1 .. Len(k) -> S]
    BY <1>1
  <2>2. Sanitised(k) \in Seq(S)
    BY ZenonT(60), <1>1, <2>1, SeqDef
  <2>3. DOMAIN Sanitised(k) = 1 .. Len(k)
    BY <1>1
  <2> HIDE DEF S
  <2>4. DOMAIN Sanitised(k) = 1 .. Len(Sanitised(k)) /\ Len(Sanitised(k)) \in Nat
    BY <2>2, LenProperties
  <2> QED
    BY <1>1, <2>2, <2>3, <2>4, SameEnd
<1> HIDE DEF S
<1>3. Sanitised(k) = <<>> <=> k = <<>>
  BY <1>2, EmptySeq
<1>4. \A i \in DOMAIN k : Sanitised(k)[i] = k[i] \/ (Odd(k[i]) /\ Odd(Sanitised(k)[i]))
  BY VolumeAssumption DEF Sanitised, Odd
<1> QED
  BY <1>2, <1>3, <1>4

\* What File and Remove do to what is read under a key.
LEMMA ReadAfter ==
  ASSUME NEW j \in Keys
  PROVE  /\ \A k \in Keys : \A v : File(Sanitised(k), v) => Read(j)' = IF SameFile(j, k) THEN v ELSE Read(j)
         /\ \A names : Remove(names) => Read(j)' = IF Sanitised(j) \in names THEN <<>> ELSE Read(j)
<1>1. ASSUME NEW k \in Keys, NEW v, File(Sanitised(k), v)
      PROVE  Read(j)' = IF SameFile(j, k) THEN v ELSE Read(j)
  <2>1. Sanitised(j) = Sanitised(k) <=> SameFile(j, k)
    BY VolumeAssumption, SanitisedAlike
  <2>2. Read(j)' = IF Sanitised(j) \in DOMAIN lsd' THEN lsd'[Sanitised(j)] ELSE <<>>
    BY DEF Read
  <2>3. /\ DOMAIN lsd' = DOMAIN lsd \cup {Sanitised(k)}
        /\ \A n \in DOMAIN lsd' : lsd'[n] = IF n = Sanitised(k) THEN v ELSE lsd[n]
    BY <1>1 DEF File
  <2> QED
    BY <2>1, <2>2, <2>3 DEF Read
<1>2. ASSUME NEW names, Remove(names)
      PROVE  Read(j)' = IF Sanitised(j) \in names THEN <<>> ELSE Read(j)
  <2>1. Read(j)' = IF Sanitised(j) \in DOMAIN lsd' THEN lsd'[Sanitised(j)] ELSE <<>>
    BY DEF Read
  <2>2. /\ DOMAIN lsd' = DOMAIN lsd \ names
        /\ \A n \in DOMAIN lsd' : lsd'[n] = lsd[n]
    BY <1>2 DEF Remove
  <2> QED
    BY <2>1, <2>2 DEF Read
<1> QED
  BY <1>1, <1>2

\* For any set of keys the names that volume.c makes of them merge none that differ in a
\* character a name keeps: what is written under one key is read under it, and under no
\* key of another name; a reset leaves nothing but the empty key, and a list is complete.
THEOREM KeysAreKeptApart == VolumeSpec => KeysKeptApart
<1>1. ASSUME NEW k \in Keys, NEW v \in Values, LinksetDataWrite(k, v), NEW j \in Keys
      PROVE  Read(j)' = IF SameFile(j, k) THEN v ELSE Read(j)
  BY <1>1, ReadAfter DEF LinksetDataWrite
<1>2. ASSUME NEW k \in Keys, LinksetDataDelete(k), NEW j \in Keys
      PROVE  Read(j)' = IF SameFile(j, k) THEN <<>> ELSE Read(j)
  <2>1. Sanitised(j) \in {Sanitised(k)} <=> SameFile(j, k)
    BY VolumeAssumption, SanitisedAlike
  <2> QED
    BY <1>2, <2>1, ReadAfter DEF LinksetDataDelete
<1>3. ASSUME LinksetDataReset, NEW j \in Keys
      PROVE  Read(j)' = IF j = <<>> THEN Read(j) ELSE <<>>
  <2>1. Read(j)' = IF Sanitised(j) \in ListKeys THEN <<>> ELSE Read(j)
    BY <1>3, ReadAfter DEF LinksetDataReset
  <2>2. Sanitised(j) = <<>> <=> j = <<>>
    BY VolumeAssumption, SanitisedTwice
  <2>3. Sanitised(j) \in ListKeys <=> Sanitised(j) \in DOMAIN lsd /\ j # <<>>
    BY <2>2 DEF ListKeys
  <2> QED
    BY <2>1, <2>3 DEF Read
<1>4. ASSUME NEW j \in Keys, Read(j) # <<>>, j # <<>>
      PROVE  \E name \in ListKeys : SameFile(j, name)
  <2>1. /\ Len(Sanitised(j)) = Len(j)
        /\ \A i \in DOMAIN j : Sanitised(j)[i] = j[i] \/ (Odd(j[i]) /\ Odd(Sanitised(j)[i]))
        /\ Sanitised(j) # <<>>
    BY <1>4, VolumeAssumption, SanitisedTwice
  <2>2. Sanitised(j) \in ListKeys
    BY <1>4, <2>1 DEF Read, ListKeys
  <2>3. DOMAIN Sanitised(j) = DOMAIN j
    BY DEF Sanitised
  <2>4. SameFile(j, Sanitised(j))
    BY <2>1, <2>3 DEF SameFile
  <2> QED
    BY <2>2, <2>4
<1> DEFINE Apart ==
      /\ \A k \in Keys, v \in Values : LinksetDataWrite(k, v) =>
           Read(k)' = v /\ \A j \in Keys : ~SameFile(j, k) => Read(j)' = Read(j)
      /\ \A k \in Keys : LinksetDataDelete(k) =>
           Read(k)' = <<>> /\ \A j \in Keys : ~SameFile(j, k) => Read(j)' = Read(j)
      /\ LinksetDataReset => \A j \in Keys \ {<<>>} : Read(j)' = <<>>
      /\ \A j \in Keys \ {<<>>} : Read(j) # <<>> => \E name \in ListKeys : SameFile(j, name)
<1>5. \A k \in Keys : SameFile(k, k)
  BY DEF SameFile
<1>6. Apart
  BY <1>1, <1>2, <1>3, <1>4, <1>5
<1>7. [Apart]_volumeVars
  BY <1>6
<1> QED
  BY <1>7, PTL DEF KeysKeptApart

\* The bank in Vault is the bank.
LEMMA SameBank ==
  /\ VaultView!Init <=> BankView!Init
  /\ [BankView!Next]_(BankView!bankVars) => VaultView!Next \/ UNCHANGED VaultView!bankVars
  BY DEF BankView!Init, BankView!Next, BankView!bankVars, BankView!NoAccounts, BankView!OpenUp,
         BankView!Funds, BankView!Join, BankView!Gain, BankView!Pay, BankView!PartOfLive,
         BankView!Close, BankView!WriteDown, BankView!Gone, BankView!Torn,
         VaultView!Init, VaultView!Next, VaultView!bankVars, VaultView!NoAccounts, VaultView!OpenUp,
         VaultView!Funds, VaultView!Join, VaultView!Gain, VaultView!Pay, VaultView!PartOfLive,
         VaultView!Close, VaultView!WriteDown, VaultView!Gone, VaultView!Torn

\* A write, whole or broken, puts a text under a name.
LEMMA FilePuts ==
  ASSUME NEW k \in Keys, NEW v \in Values, NEW n \in 0 .. Len(v), File(Sanitised(k), SubSeq(v, 1, n))
  PROVE  \E name \in {Sanitised(j) : j \in Keys} : VaultView!Put(name)
<1> DEFINE t == SubSeq(v, 1, n)
<1>1. t \in UNION {{SubSeq(u, 1, m) : m \in 0 .. Len(u)} : u \in Values}
  OBVIOUS
<1> HIDE DEF t
<1>2. lsd' = [m \in DOMAIN lsd \cup {Sanitised(k)} |-> IF m = Sanitised(k) THEN t ELSE lsd[m]]
  BY DEF File, t
<1>3. VaultView!Put(Sanitised(k))
  BY <1>1, <1>2 DEF VaultView!Put
<1> QED
  BY <1>3

\* On any volume, whatever is paid and whenever runs are killed, what was stored stays
\* stored, next to the record of the accounts: the linkset-data builtins and the economy
\* together implement Vault.
THEOREM VaultImplemented == VolumeSpec => StoreSurvives
<1>1. VolumeInit => VaultView!VaultInit
  <2> SUFFICES ASSUME VolumeInit PROVE VaultView!VaultInit
    OBVIOUS
  <2>1. BankView!Init
    BY DEF VolumeInit, Init, BankView!Init, BankView!NoAccounts, Hours, Live, InBusiness, NoTable, Record, OnFile
  <2>2. VaultView!Init
    BY <2>1, SameBank
  <2> QED
    BY <2>2 DEF VolumeInit, VaultView!VaultInit, VaultView!Empty
<1>2. IInv /\ IInv' /\ [VolumeNext]_volumeVars => [VaultView!VaultNext]_(VaultView!vaultVars)
  <2> SUFFICES ASSUME IInv, IInv', [VolumeNext]_volumeVars
               PROVE  [VaultView!VaultNext]_(VaultView!vaultVars)
    OBVIOUS
  <2>1. ASSUME UNCHANGED vars PROVE UNCHANGED VaultView!bankVars
    <3>1. Hours' = Hours /\ Live' = Live /\ file' = file
      BY <2>1 DEF vars, tableVars, Hours, Live, InBusiness
    <3> QED
      BY <3>1, SameRecord DEF VaultView!bankVars
  <2>2. phase = "running" => Hours = "open"
    BY DEF Hours
  <2>3. CASE Economical
    <3>1. [BankView!Next]_(BankView!bankVars)
      BY <2>3, StartupIsBanking, BusinessIsBanking, EndingIsBanking DEF Economical, Next
    <3>2. VaultView!Next \/ UNCHANGED VaultView!bankVars
      BY <3>1, SameBank
    <3> QED
      BY <2>3, <3>2 DEF Economical, VaultView!VaultNext, VaultView!vaultVars
  <2>4. ASSUME NEW k \in Keys, NEW v \in Values, LinksetDataWrite(k, v)
        PROVE  VaultView!VaultNext
    <3>1. v = SubSeq(v, 1, Len(v)) /\ Len(v) \in 0 .. Len(v)
      <4>1. v \in Seq(STRING)
        BY VolumeAssumption
      <4>2. SubSeq(v, 1, Len(v)) = v
        BY <4>1, SubSeqFull
      <4>3. Len(v) \in Nat
        BY <4>1, LenProperties
      <4> QED
        BY <4>2, <4>3
    <3>2. File(Sanitised(k), SubSeq(v, 1, Len(v)))
      BY <2>4, <3>1 DEF LinksetDataWrite
    <3>3. \E name \in {Sanitised(j) : j \in Keys} : VaultView!Put(name)
      BY <3>1, <3>2, FilePuts
    <3> QED
      BY <2>1, <2>2, <2>4, <3>3 DEF LinksetDataWrite, VaultView!VaultNext, VaultView!StoreOrBreak
  <2>5. ASSUME NEW k \in Keys, NEW v \in Values, TornWrite(k, v)
        PROVE  VaultView!VaultNext
    <3>1. \E name \in {Sanitised(j) : j \in Keys} : VaultView!Put(name)
      BY <2>5, FilePuts DEF TornWrite
    <3>2. /\ Hours = "open" /\ Hours' = "closed"
          /\ Live' = VaultView!NoAccounts
          /\ Record' = Record
      BY <2>5, SameRecord DEF TornWrite, Lost, Hours, Live, InBusiness, NoTable, VaultView!NoAccounts
    <3>3. VaultView!Gone
      BY <3>2 DEF VaultView!Gone
    <3> QED
      BY <3>1, <3>2, <3>3 DEF VaultView!VaultNext, VaultView!StoreOrBreak
  <2>6. ASSUME NEW k \in Keys, LinksetDataDelete(k)
        PROVE  VaultView!VaultNext
    <3>1. VaultView!Drop(Sanitised(k))
      BY <2>6 DEF LinksetDataDelete, Remove, VaultView!Drop
    <3> QED
      BY <2>1, <2>2, <2>6, <3>1 DEF LinksetDataDelete, VaultView!VaultNext, VaultView!StoreOrBreak
  <2>7. CASE LinksetDataReset
    <3>1. DOMAIN lsd \ ListKeys = DOMAIN lsd \cap {<<>>}
      BY DEF ListKeys
    <3>2. VaultView!Clear
      BY <2>7, <3>1 DEF LinksetDataReset, Remove, VaultView!Clear
    <3> QED
      BY <2>1, <2>2, <2>7, <3>2 DEF LinksetDataReset, VaultView!VaultNext, VaultView!StoreOrBreak
  <2>8. CASE UNCHANGED volumeVars
    BY <2>1, <2>8 DEF volumeVars, VaultView!vaultVars
  <2> QED
    BY <2>3, <2>4, <2>5, <2>6, <2>7, <2>8 DEF VolumeNext
<1>3. VolumeSpec => Spec
  <2>1. VolumeInit => Init
    BY DEF VolumeInit
  <2> QED
    BY <2>1, VolumeStepIsEconomic, PTL DEF VolumeSpec, Spec
<1> QED
  BY <1>1, <1>2, <1>3, InvHolds, PTL DEF VolumeSpec, StoreSurvives, VaultView!VaultSpec

=============================================================================
