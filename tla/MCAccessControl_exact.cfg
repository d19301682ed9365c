SPECIFICATION Spec
CONSTANTS
  users = users
  anonymous = anonymous
  admins = admins
  Everyone = everyone
  write = write
  delete = delete
  Sids = {everyone, users, anonymous, admins}
  WithoutEveryone = {anonymous}
  Privileged = {admins}
  Rights = {write, delete}
  NullDacl = null
  Entries <- SmallEntries
  MaxEntries = 3
INVARIANTS
  CleanMeansWithheld
  FindingMeansGranted
CHECK_DEADLOCK FALSE
