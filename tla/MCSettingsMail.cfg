CONSTANTS
  Me = me
  Others = {p}
  Opponents = {}
  Mails = {"-", "a", "c"}
  BadMails = {}
  Reported = {me}
  EarlyUser = FALSE
  MaxUser = 0
  MaxEvents = 1
  MaxLate = 1
SPECIFICATION FairSpec
PROPERTY AddressArrives
CHECK_DEADLOCK FALSE
