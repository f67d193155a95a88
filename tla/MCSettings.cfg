CONSTANTS
  Me = me
  Others = {p}
  Opponents = {p}
  Mails = {"-", "a", "b"}
  BadMails = {"b"}
  Reported = {me}
  EarlyUser = FALSE
  MaxUser = 2
  MaxEvents = 2
  MaxLate = 2
SPECIFICATION FairSpecApart
INVARIANTS TypeOK TimerRuns
PROPERTIES NeverToggledOff OnlyStaleArchived StaleFilesGo EverythingSettles AddressesAgree
CHECK_DEADLOCK FALSE
