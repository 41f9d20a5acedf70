SPECIFICATION FairSpec
CONSTANTS
  Mode = "Acknowledged"
  MaxMsgs = 1
  MaxSubs = 1
  MaxSessions = 1
  PeerMessages = 1
  SubMessages = 1
  Expiring = {1}
PROPERTIES ResolvedByDeadline
