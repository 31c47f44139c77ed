SPECIFICATION FairSpec
CONSTANTS
  n1 = n1
  address = address
  r1 = r1
  r2 = r2
  Notifications <- MCNotifications
  Addresses <- MCAddresses
  Recipient <- MCRecipient
  Requests <- MCRequests
  Faults <- AllFaults
INVARIANTS
  TypeOK
  CondemnedIsSuppressed
PROPERTIES
  StatusMovesLegally
  BounceSuppresses
CHECK_DEADLOCK FALSE
