SPECIFICATION Spec
CONSTANTS
  Mode = "Acknowledged"
  MaxMsgs = 2
  MaxSubs = 1
  MaxSessions = 1
  PeerMessages = 2
  SubMessages = 1
  Expiring = {1}
INVARIANTS CreditConserved GrantHasRoom PeersAgree
