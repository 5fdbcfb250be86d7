SPECIFICATION VolumeSpec
CONSTANTS
  ann = ann
  bob = bob
  cat = cat
  vendor = vendor
  Avatars <- MCAvatars
  Scripts <- MCScripts
  Deposits <- MCDeposits
  Amounts <- MCAmounts
  MaxRuns = 2
  MaxBalance = 2
  Decades <- MCDecades
  Keys <- MCKeys
  Plain <- MCPlain
  Values <- MCValues
SYMMETRY AnyAvatar
INVARIANTS NoOverdraft SavedWhole
PROPERTIES MoneyConserved BankSpec StoreSurvives KeysKeptApart
CHECK_DEADLOCK FALSE
