SPECIFICATION Spec
CONSTANTS
  Pins = {x, y}
  NoRoot = NoRoot
  NoFile = NoFile
  Names <- MCNames
  Respelled <- MCRespelled
  Configs <- MCConfigs
  Extras <- MCExtras
  MaxFaults = 2
  MaxEdits = 1
INVARIANTS
  KeepsAddresses
  NewListeners
  NoDuplicates
  SettingsKept
  PathIndependent
  PinsKept
PROPERTIES
  DeniedStaysDenied
  ChainImplementsPinSpec
CHECK_DEADLOCK FALSE
