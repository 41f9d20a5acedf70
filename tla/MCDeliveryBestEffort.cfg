SPECIFICATION Spec
CONSTANTS
  Mode = "BestEffort"
  MaxMsgs = 2
  MaxSubs = 1
  MaxSessions = 1
  PeerMessages = 2
  SubMessages = 1
  Expiring = {1}
INVARIANTS PeersAgree
PROPERTIES SentAtMostOnce
