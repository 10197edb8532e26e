CONSTANTS
  Rates = {6, 7, 8, 9, 10, 11, 12, 13, 14, 15}
  MaxOpens = 2
SPECIFICATION FairSpec
INVARIANTS TypeOK SelectedRegister OtherBitsKept NoLostEdge NothingLeftInService
PROPERTIES ImplementsClock EnabledReaderWakes
