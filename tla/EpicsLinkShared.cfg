SPECIFICATION Spec
CONSTANTS
  c1 = c1
  c2 = c2
  Clients = {c1, c2}
  SwappedClients = {c2}
  MaxId = 1
  NonceOf <- DisjointNonces
  Kinds = {"clear", "bad"}
  MaxBoots = 1
  Overtaking = TRUE
INVARIANTS
  AnswersOwnAccepted
CHECK_DEADLOCK FALSE
