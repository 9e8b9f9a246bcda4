SPECIFICATION FairTabsSpec
CONSTANTS
  phone = phone  laptop = laptop  ann = ann  annToo = annToo  bob = bob
  annMail = annMail  bobMail = bobMail  r1 = r1  r2 = r2  r3 = r3  r4 = r4
  None = None
  Browser = {phone}
  Email = {annMail, bobMail}
  Sub = {ann}
  mail <- MCMail
  Account = {1, 2, 3}
  Session = {1, 2, 3, 4}
  Attempt = {1, 2}
  Request = {r1, r2, r3}
  Routes = {"callback", "session", "logout"}

PROPERTIES RequestsEnd

CHECK_DEADLOCK FALSE
