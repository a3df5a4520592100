SPECIFICATION Spec
CONSTANTS
  e1 = e1
  e2 = e2
  ann = ann
  bob = bob
  cat = cat
  Emails = {e1, e2}
  Addresses = {ann, bob, cat}
  Mail <- MCMail
  Keys <- MCKeys
  Settings <- MCSettings
  Faults = {"short", "kill"}
  MaxTime = 1
INVARIANTS
  OneCopyPerTransport
  SuccessIsTaken
  CopiesReachRecipients
  TextWithinSecond
  NoTempFileLeft
  StatisticsAgree
