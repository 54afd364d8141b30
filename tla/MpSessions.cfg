SPECIFICATION FairSpec
CONSTANTS
  Slot = {1, 2, 3}
  Broadcast = 65535
  Hosts = {1}
  Clients = {2, 3}
  FirstTime = 40
  Gap = 33
  Word <- SmallWord
  SUCCESSIVE_TIMEOUTS_WARNING = 1
  Exchanges = 2
  Others <- OneFromClient
  Switches <- FirstRestarts
  Arrivals <- ToHost
INVARIANTS
  TypeOK
  CountedAnswerThisCommand
PROPERTIES
  NoAnswerOverlooked
  ExchangeEnds
