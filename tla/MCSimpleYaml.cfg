SPECIFICATION Spec
CONSTANTS
  Lines <- MCLines
  MaxLines <- MCMaxLines
  Numerals <- MCNumerals
  Decimals <- MCDecimals
INVARIANTS TypeOK AcceptsWellFormed ReadsWhatIsWritten
PROPERTY CommentsChangeNothing
CHECK_DEADLOCK FALSE
