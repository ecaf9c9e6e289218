SPECIFICATION Spec
CONSTANTS
  MAX_RETRY = 2
  FIBER_ALIGN_ATTEMPTS = 2
  NUM_TEST_PULSES = 2
  Programs <- MCPrograms
  MaxFaults = 3
  NCHANNELS = 3
  Initial <- MCInitial
  Calls <- MCCalls
  MaxCalls = 3
  PFEBs = {0, 9}
  Skews <- MCSkews
  Existing <- MCExisting
  Setups <- MCSetups
INVARIANTS TypeOK ConfiguredAsAsked HeldWhileSent FewFaultsAreAbsorbed BitsShowSettings
  DeskewAligns ReaderAgrees
PROPERTY ToolsEnd
