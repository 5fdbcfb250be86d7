SPECIFICATION Spec
CONSTANTS
  shop = shop
  shopItem = shopItem
  host = host
  item = item
  Scripts = {vendor, lamp}
  NoScript = NoScript
  Outside <- MCOutside
  Patterns <- MCPatterns
  NoPattern = NoPattern
  Within <- MCWithin
  Statuses = {503}
  Bodies = {ok}
  NoBody = NoBody
  MaxLines = 4
  MaxIds = 3
  MaxQueue = 2
INVARIANTS OneEntryAnswers
PROPERTIES ExchangeSpec
CHECK_DEADLOCK FALSE
