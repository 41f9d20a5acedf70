SPECIFICATION Spec
CONSTANTS
  Mode = "Acknowledged"
  MaxMsgs = 1
  MaxSubs = 1
  MaxSessions = 2
  PeerMessages = 1
  SubMessages = 1
  Expiring = {1}
INVARIANTS TypeOK ProcessedMeansAcked PeersAgree
PROPERTIES AckedNotRedelivered
