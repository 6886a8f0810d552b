CONSTANTS
  Requests <- RequestsDef
  FlagSets <- FlagSetsDef
  Layouts = {"natural", "vertical"}
  Lens <- LensDef
  MinBytes <- MinBytesDef
  Freq <- FreqDef
  StackBytes = 8192
SPECIFICATION Spec
INVARIANTS BestCommitted RoundTrip InStep CountersAgree
CHECK_DEADLOCK FALSE
