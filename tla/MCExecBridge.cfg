\* Markers of three bytes, outputs of up to three, reads of two, and messages
\* of up to three; inputs of up to four bytes.
CONSTANTS
  Symbols <- MCSymbols
  Begin <- MCBegin
  End <- MCEnd
  Before <- MCBefore
  Outputs <- MCOutputs
  Statuses <- MCStatuses
  Inputs <- MCInputs
  Chunk = 2
  MaxFrame = 3
  MaxWrite = 3
\* A session that is over stays so.
CHECK_DEADLOCK FALSE
SPECIFICATION FairSpec
INVARIANTS StatusIsTheCommands InputIsWhole BufferIsBounded
PROPERTIES RelaysOutput ExecEnds
