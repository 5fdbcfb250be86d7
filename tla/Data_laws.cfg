SPECIFICATION DataSpec
CONSTANTS
  Items <- MCItems
  Separators <- MCSeparators
  MaxSize = 4
  Bytes <- MCBytes
  MaxText = 4
  JsonTexts <- MCJsonTexts
  KeyTexts <- MCKeyTexts
  ValTexts <- MCValTexts
  MaxLength = 24
  Exprs <- MCExprs
  MaxFile = 108
INVARIANTS CutAndPaste StridesKept ParseUndoesDump PiecesFit DecodingInverts SetIsGot ListsAgree OnlyWholeFilesLoad
