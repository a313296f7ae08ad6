\* The web server's configuration and its requests, one connection at a time.
SPECIFICATION Spec
CONSTANTS
  Word = 16
  MaxPort = 6
  Defaults <- MCDefaults
  Files <- MCFiles
  Dirs <- MCDirs
  Setups <- MCSetups
  Heads <- MCHeads
INVARIANTS
  LoadedConfigIsSound
  StaticFilesStayInRoot
  RequestsAreFramed
CHECK_DEADLOCK FALSE
