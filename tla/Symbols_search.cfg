\* Interpreters of each version and kind, with their symbols in every order.
SPECIFICATION FairSpec
CONSTANTS
  Processes <- MCProcesses
  Supported = {"py26", "py34"}
  IndexSize = 8
INVARIANTS TypeOK AbiRight AddressesRight FoundIfThere
PROPERTIES SearchEnds
