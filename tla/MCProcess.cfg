SPECIFICATION FairSpec
CONSTANTS
  Deployments <- MCDeployments
  Handlers = {h1}
  Pool = 1
  Attempts = 2
  Addresses <- MCAddresses
  Unreadable = {"garbage"}
  TrustedProxies <- MCTrusted
  AllowedIps = {"office"}
  Requests <- MCRequests
INVARIANTS TypeOK UnreadyHasExcuse LeftOpenHasCause AdminsPass
PROPERTIES PhasesEnd ProbesEnd
