SPECIFICATION Spec
CONSTANTS
  N = 3
  Values = {1, 2}
  Default <- DefaultTable
  Tables <- EditedTables
  Cuts = {0, 1, 2}
  Zero = Zero
  Invalid = Invalid
  Missing = Missing
PROPERTY AllOrNothing
