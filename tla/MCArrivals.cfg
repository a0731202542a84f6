SPECIFICATION FairSpec
CONSTANTS
  Clients = {c1, c2}
  Methods = {"fedcompass", "fedasync", "fedbuff"}
  K = 2
  Deadline = 3
  Longest = 1
INVARIANTS AccountsAgree NobodyIdle
PROPERTY LedgerSettles
