SPECIFICATION Spec
CONSTANTS
  Mode = "Acknowledged"
  MaxMsgs = 1
  MaxSubs = 2
  MaxSessions = 1
  PeerMessages = 1
  SubMessages = 1
  Expiring = {1}
INVARIANTS CreditConserved PeersAgree
