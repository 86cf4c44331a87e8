\* One process of each service, clocks half a second apart, tokens that live one second.
CONSTANTS
  Processes = {a1, l1}
  CloudProcesses = {a1}
  AuthProcesses = {a1}
  MaxVersion = 2
  Offsets = {0, 1}
  TicksPerSecond = 2
  Lifetime <- OneSecond
  MaxTime = 3
  MaxTokens = 1
SPECIFICATION FlowSpec
INVARIANTS
  FlowInv
PROPERTIES
  RefusalExplained
  AgeBounded
  RotationRetires
  
