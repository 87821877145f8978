SPECIFICATION Spec
CONSTANTS
  Bridge = {b1, b2}
  MaxVid = 3
  Iface = {lan}
  Ap = {ap1}
  MaxStation = 1
  Foreign <- MCForeign
  EarlyForeign = FALSE
  MaxEdits = 2
  Alone = Alone
  Unknown = Unknown
  None = None
  NotRecorded = NotRecorded
SYMMETRY MCSymmetry
INVARIANTS TypeOK UndoGivesBase ReapplyIsNoop
PROPERTIES KeepsWorking NoDuplicateVLAN
