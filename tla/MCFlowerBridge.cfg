SPECIFICATION BridgeFairSpec
CONSTANTS
  MaxRequests = 3
  Timeouts = TRUE
INVARIANTS Handshake OwnAnswer
PROPERTY RequestsReturn
