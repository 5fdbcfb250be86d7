------------------------------- MODULE Volume -------------------------------
(***************************************************************************)
(* The project volume: economy.txt of Economy, and linkset data, one file  *)
(* for each key, written by the builtins as they are called.               *)
(***************************************************************************)
EXTENDS Economy

CONSTANTS
  Keys,       \* sequences of characters
  Plain,      \* the characters that a file name keeps: letters, digits, "_", "-" and "."
  Values      \* sequences of characters

ASSUME VolumeAssumption ==
  /\ "_" \in Plain
  /\ Keys \subseteq Seq(STRING)
  /\ Values \subseteq Seq(STRING)

VARIABLE lsd    \* what is in the files of the directory lsd, by name without ".txt"

volumeVars == <<vars, lsd>>

----------------------------------------------------------------------------
(* volume.c *)

Sanitised_dropping(k) == LET Keep(c) == c \in Plain IN SelectSeq(k, Keep)
\* sanitise_key
Sanitised(k) == [i \in DOMAIN k |-> IF k[i] \in Plain THEN k[i] ELSE "_"]

\* volume_lsd_list_keys, in any order: of names ending in ".txt", those that are longer.
ListKeys == {name \in DOMAIN lsd : name # <<>>}

\* llLinksetDataRead; a file that is missing reads as the empty text.
Read(k) == IF Sanitised(k) \in DOMAIN lsd THEN lsd[Sanitised(k)] ELSE <<>>

File(name, v) == lsd' = [n \in DOMAIN lsd \cup {name} |-> IF n = name THEN v ELSE lsd[n]]
Remove(names) == lsd' = [n \in DOMAIN lsd \ names |-> lsd[n]]

----------------------------------------------------------------------------
(* The builtins.  No script is told of a change. *)

LinksetDataWrite(k, v) ==
  /\ phase = "running"
  /\ File(Sanitised(k), v)
  /\ UNCHANGED vars

LinksetDataDelete(k) ==
  /\ phase = "running"
  /\ Remove({Sanitised(k)})
  /\ UNCHANGED vars

LinksetDataReset ==
  /\ phase = "running"
  /\ Remove(ListKeys)
  /\ UNCHANGED vars

\* The process is killed while it writes: opening the file has emptied it.
TornWrite(k, v) ==
  /\ phase = "running"
  /\ \E n \in 0 .. Len(v) : File(Sanitised(k), SubSeq(v, 1, n))
  /\ Lost
  /\ UNCHANGED file

Economical_volatile == Next /\ IF phase' = "off" /\ closing' = "lost" THEN Remove(DOMAIN lsd) ELSE UNCHANGED lsd
\* Whatever happens to the accounts leaves the directory alone.
Economical == Next /\ UNCHANGED lsd

----------------------------------------------------------------------------
VolumeInit == Init /\ lsd = [n \in {} |-> <<>>]

VolumeNext ==
  \/ Economical
  \/ \E k \in Keys, v \in Values : LinksetDataWrite(k, v) \/ TornWrite(k, v)
  \/ \E k \in Keys : LinksetDataDelete(k)
  \/ LinksetDataReset

VolumeSpec == VolumeInit /\ [][VolumeNext]_volumeVars

----------------------------------------------------------------------------
(* What it promises *)

\* Two keys have one file, if they differ only in characters that file names do not keep.
Odd(c) == c \notin Plain \ {"_"}
SameFile(j, k) ==
  /\ Len(j) = Len(k)
  /\ \A i \in DOMAIN k : j[i] = k[i] \/ (Odd(j[i]) /\ Odd(k[i]))

\* A write is read back under its key and seen under no key with another file, a delete
\* likewise; a reset empties every key but the empty one, and listing misses none but that.
KeysKeptApart ==
  [][/\ \A k \in Keys, v \in Values : LinksetDataWrite(k, v) =>
          Read(k)' = v /\ \A j \in Keys : ~SameFile(j, k) => Read(j)' = Read(j)
     /\ \A k \in Keys : LinksetDataDelete(k) =>
          Read(k)' = <<>> /\ \A j \in Keys : ~SameFile(j, k) => Read(j)' = Read(j)
     /\ LinksetDataReset => \A j \in Keys \ {<<>>} : Read(j)' = <<>>
     /\ \A j \in Keys \ {<<>>} : Read(j) # <<>> => \E name \in ListKeys : SameFile(j, name)]_volumeVars

\* Payments of a run that is killed are gone, what it stored is not: the volume is
\* a record of accounts and a store, changed at different times, as Vault has them.
VaultView == INSTANCE Vault WITH
               Accounts <- Avatars, hours <- Hours, live <- Live, record <- Record,
               Names <- {Sanitised(k) : k \in Keys}, Secret <- <<>>,
               Contents <- UNION {{SubSeq(v, 1, n) : n \in 0 .. Len(v)} : v \in Values},
               store <- lsd
StoreSurvives == VaultView!VaultSpec

=============================================================================
