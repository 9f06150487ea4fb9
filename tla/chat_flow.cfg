SPECIFICATION FairSpec
CONSTANTS
  Clients = {4, 5}
  Scripted = {4}
  Piped = {}
  UpSize = 2
  DownSize = 3
  MaxLines = 4
  LastIsExit = TRUE
PROPERTIES EverythingIsRead TypedIsSent ScriptCompletes
CHECK_DEADLOCK FALSE
