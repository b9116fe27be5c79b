SPECIFICATION FairSpec
CONSTANTS
  Tabs <- MCTabs
  Calls <- MCCalls
  MaxIssued = 2
PROPERTIES FailedRenewalEndsSession
CHECK_DEADLOCK FALSE
