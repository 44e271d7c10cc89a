\* Two bindings of two workspaces to two providers, and a call at a time.
SPECIFICATION Spec
CONSTANTS
  b1 = b1  b2 = b2
  w1 = w1  w2 = w2
  ann = ann
  github = github  slack = slack
  read = read  write = write
  k1 = k1
  Bindings = {b1, b2}
  Workspaces = {w1, w2}
  Users = {ann}
  Providers = {github, slack}
  GitHub = github
  Scopes = {read, write}
  Refs = {k1}
  CredentialOf <- MCCredentialOf
  Nobody = Nobody
  Offers <- MCOffers
  Updates = {"active"}
  Presented = {"active", "revoked"}
  Named <- MCNamed
  MaxRecords = 2
  MaxProviders = 1
SYMMETRY BindingSymmetry
INVARIANTS
  TypeOK
  BindingsAreCoherent
  
PROPERTIES
  SlotsAreExclusive
CHECK_DEADLOCK FALSE
