SPECIFICATION Spec
CONSTANTS
  Path <- MCPath
  World <- MCWorld
  Configs <- MCConfigs
  AllowList <- MCAllowList
  DisallowList <- MCDisallowList
  Defaults <- MCDefaults
INVARIANTS TypeOK MountedIsLinked NothingIsLost EnvIsAsked
 
