CONSTANTS
  N = 3
  Values = {1, 2}
  Default <- DefaultTable
  Tables <- WholeTables
  Cuts = {0}
  Zero = Zero
  Invalid = Invalid
  Missing = Missing
  HLast = 1
  VLast = 1
  BorderWidth = 2
  Formats = {"art", "raw"}
  RingSize = 3
  MaxLogged = 5
  Addresses = {"a", "b"}
  Adjustments = {"a", "b"}
  Clients = {c1}
  Datagrams = {}
  SerialKeys = {}
  MaxLine = 2
  ObufSize = 2
  StartSize = 1
  NoAddress = "none"
  NoClient = NoClient
  NoQuestion = NoQuestion
SPECIFICATION MCSpec
INVARIANTS OperatorTypeOK RestartChangesNothing CountedWhereShown EventsInOrder
PROPERTIES AllOrNothing ChangedAsConfirmed NothingWaits
