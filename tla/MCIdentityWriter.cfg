SPECIFICATION WriterSpec
CONSTANTS
  Texts <- MCTexts
  Numbers <- MCNumbers
  Digests <- MCDigests
  MaxWrites = 3
CHECK_DEADLOCK FALSE
INVARIANTS ContextOwned WholeStream ReadsBack FinishedIsIdentity
