\* Two characters, one item, two mails and a queue of two transactions.
SPECIFICATION MailSpec
CONSTANTS
  ann = ann
  ben = ben
  Player = {ann, ben}
  Item = {sword}
  Nobody = Nobody
  NoItem = NoItem
  MaxWrites = 2
  MaxMails = 2
  StartMoney = 2
  MaxMoney = 2
  Postage = 1
  Amounts = {0, 1}
  DailyRun = FALSE
SYMMETRY Symmetry
INVARIANTS OnePlace PursesSaved
PROPERTIES   NoItemLost
CHECK_DEADLOCK FALSE
