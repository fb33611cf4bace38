SPECIFICATION FairSpec
CONSTANTS
  Addresses = {a1, a2}
  Garbage = Garbage
  Numbers <- CutToZero
PROPERTIES
  ShellRuns
