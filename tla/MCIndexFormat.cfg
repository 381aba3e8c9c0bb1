SPECIFICATION Spec
CONSTANTS
  Names <- MCNames
  Stages = {0, 2}
  NameMask <- MCNameMask
  Base <- MCBase
  Marks <- MCMarks
  MaxEntries = 3
  MaxTorn = 2
INVARIANTS TypeOK DecodesWhatWasWritten TornIsNoticed SameLayout
CHECK_DEADLOCK FALSE
