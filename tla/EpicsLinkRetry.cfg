SPECIFICATION FairSpec
CONSTANTS
  c1 = c1
  c2 = c2
  Clients = {c1}
  SwappedClients = {}
  MaxId = 2
  NonceOf <- WrappingNonces
  Kinds = {"dac", "reboot1", "reboot100", "reboot10000"}
  MaxBoots = 3
  Overtaking = FALSE
INVARIANTS
  TypeOK
  AtMostOnce
  AnswersOwnCommand
  ResetsArePaidFor
PROPERTIES
  RefinesAtMostOnceRpc
  EventuallyAnswered
CHECK_DEADLOCK FALSE
