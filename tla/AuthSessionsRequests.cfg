\* Two registrations, a login, two refreshes and a logout, all but one from one browser.
SPECIFICATION FairSpec
CONSTANTS
  ann = ann
  bob = bob
  r1 = r1
  r2 = r2
  l1 = l1
  f1 = f1
  f2 = f2
  o1 = o1
  b1 = b1
  b2 = b2
  Emails = {ann, bob}
  Registers = {r1, r2}
  Logins = {l1}
  Refreshes = {f1, f2}
  Logouts = {o1}
  EmailsOf <- MCEmailsOf
  Browsers = {b1, b2}
  BrowserOf <- MCBrowserOf
  Nobody = Nobody
INVARIANTS
  TypeOK
PROPERTIES
  StrandedSessionsHaveACause
  KeepsTheLedger
  EveryRequestEnds
CHECK_DEADLOCK FALSE
