CONSTANTS
  Requests = {"configure", "unconfigure", "open", "close", "halt", "clear_halt", "reset"}
  MaxLines = 5
SPECIFICATION FairSpec
PROPERTIES
  DriverIsMailbox
  MailboxIsEmptied
