SPECIFICATION Spec
CONSTANTS
  IdlNames <- Idl
  Number <- SevenAsNumber
  Lines <- LinesOfRuns
  Sources <- Contents
  Threads = 2
  MaxMishaps = 1
INVARIANTS TypeOK EveryFileIsMade IdlFilesAreCompiled OptionsAreAsGiven
PROPERTIES HumanCodeIsKept IncludedFilesAreKept
