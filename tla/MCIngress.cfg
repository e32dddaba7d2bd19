CONSTANTS
  d1 = d1  d2 = d2  d3 = d3  d4 = d4  e1 = e1  e2 = e2  e3 = e3  u1 = u1
  None = None  Guest = Guest
  Deliveries <- MCDeliveries
  Events <- MCEvents
  EventOf <- MCEventOf
  StampOf <- MCStampOf
  Forgeries <- MCForgeries
  Users <- MCUsers
  UserOf <- MCUserOf
  Actors = {a1}
  Verifiers = {"token", "encrypted"}
  Policies = {"Reject", "Guest"}
  TTL = 1
  MaxSeen = 2
  MaxAudit = 2
  Threads = 2
  MaxTime = 2
SPECIFICATION Spec
INVARIANTS ReplayHasOriginal
PROPERTIES ReadmittedAfterTTL TablesLoseTheOldest
CHECK_DEADLOCK FALSE
