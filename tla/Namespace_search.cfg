\* Up to three attempts, each system call failing, on kernels of each age.
SPECIFICATION Spec
CONSTANTS
  MaxTries = 3
  MaxFd = 10
INVARIANTS TypeOK OutputAtHome FilesAreTheirs NothingLeft
