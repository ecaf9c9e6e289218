SPECIFICATION Spec
CONSTANTS
  Focuses <- MCFocuses
  Numbers <- MCNumbers
  Contents <- MCContents
  MaxAccesses = 2
INVARIANTS
  TypeOK
  ReadsWhatWasWritten
  AgreesWithLayout
PROPERTIES
  LeavesOthersAlone
  SetsOneField
