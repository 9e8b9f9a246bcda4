SPECIFICATION MCSpec
CONSTANTS
  phone = phone  laptop = laptop  ann = ann  annToo = annToo  bob = bob
  annMail = annMail  bobMail = bobMail  r1 = r1  r2 = r2  r3 = r3  r4 = r4
  None = None
  Browser = {phone, laptop}
  Email = {annMail, bobMail}
  Sub = {ann, annToo, bob}
  mail <- MCMail
  Account = {1, 2, 3, 4, 5}
  Session = {1, 2, 3, 4, 5}
  Attempt = {1, 2, 3}
  Request = {r1, r2, r3}
  Routes = {"callback", "session", "login", "write", "logout", "otherBrowser", "lostAnswer"}
INVARIANTS
  SignInInv
  AttemptsServeOnce
PROPERTIES
  ImplementsAccounts
SYMMETRY RequestSymmetry
CHECK_DEADLOCK FALSE
