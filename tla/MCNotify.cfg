SPECIFICATION FairSpec
CONSTANTS
  ann = ann
  bob = bob
  Recipient <- MCRecipient
  Reports <- MCReports
  Settings <- MCSettings
INVARIANTS
  TypeOK
  NoSinkIsForgotten
  MailIsAllOrNothing
  NothingInTheClear
  MessageFits
  MessageAccountsForChanges
PROPERTIES
  DispatchEnds
CHECK_DEADLOCK FALSE
