SPECIFICATION Spec
CONSTANTS
  Slot = {1, 2, 3}
  Broadcast = 65535
  Hosts = {1, 2}
  Clients = {2, 3}
  FirstTime = 40
  Gap = 33
  Word <- SmallWord
  SUCCESSIVE_TIMEOUTS_WARNING = 1
  Exchanges = 2
  Others <- NoOthers
  Switches <- LastRestarts
  Arrivals <- ToClients
PROPERTIES
  RepliesGoHome
