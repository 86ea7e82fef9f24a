CONSTANTS
  Request = {"net", "net/vlan", "lan"}
  BaseRequestRef <- MCBaseRequestRef
  Requests <- MCRequests
  MaxConfigs = 3
SPECIFICATION ConfigSpec
INVARIANT HighestPrecedence
INVARIANT AdmittedIsTaken
CHECK_DEADLOCK FALSE
