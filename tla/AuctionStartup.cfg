\* The server is down when an auction ends: LogTrade as shipped.
SPECIFICATION Spec
CONSTANTS
  ann = ann
  ben = ben
  cat = cat
  Player = {ann, ben, cat}
  Item = {sword}
  Nobody = Nobody
  NoItem = NoItem
  MaxWrites = 1
  MaxMails = 4
  StartMoney = 2
  MaxMoney = 6
  Postage = 1
  Amounts = {}
  DailyRun = FALSE
  MaxAuctions = 2
  Sellers = {ann}
  StartBids = {1}
  Buyouts = {0, 2}
  Prices = {1, 2}
  Deposit = 1
  CutPercent = 50
  LogTrade = TRUE
  EndsWhileDown = TRUE
  MaxCrashes = 1
INVARIANT NothingLost
CHECK_DEADLOCK FALSE
