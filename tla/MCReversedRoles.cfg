SPECIFICATION SceneSpec
CONSTANTS
  c1 = c1  c2 = c2  d1 = d1
  Session = {c1, c2, d1}
  RoleOf <- Roles
  Originator = "creditor"
  MaxVersions = 2
  MaxCancellations = 1
  MaxAmendments = 1
  MaxTerms = 2
  PaymentId = {"p1", "p2", "p3"}
  PaymentAmount <- Amounts
  OfferAmount = {1, 2}
  MaxProposals = 1
  Applier = {w1, w2}
  MaxPartial = 2
  Inviter = u1
  Account = {u1, u2, u3}
  Addressee = {u2, u3}
  MaxRounds = 2
  MaxDrafts = 2
  MaxPrincipal = 5
  FirstDates <- MonthEnds
  Guest = {u2, u3}
  Host = u1
  NoGuest = nobody
  Member = {c1, c2, d1}
  PartyOf <- Roles
  BankAccount = {"a1", "a2", "b1"}
  OwnerOf <- Owners
  Deal = {"same", "reversed"}
  CreditorIn <- Creditors
  Connected = {"a1", "b1"}
  MaxRows = 3
  Handler = {h1, h2, h3}
  Signer = h1
  EvidenceFile = {e1}
  MaxExecuted = 2
  Server = {i1, i2, i3}
  LockedRow = {"r1"}
  EventAction = {"k1"}
  MaxId = 3
  Caller = {c1, c2}
  Phone = {p1, p2}
  Notices <- NoticeKinds
  MaxTries = 2
  MaxRedeliveries = 1
  SceneSet <- AccountScenes
INVARIANT ManagerMayFill
CHECK_DEADLOCK FALSE
