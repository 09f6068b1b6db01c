SPECIFICATION Spec
CONSTANTS
  Vols = {v1, v2, v3}
  Archives <- McArchives
  Devices <- McDevices
  Drivers <- McDrivers
  Modules <- McModules
  MountCalls <- McMountCalls
  DevNames <- McDevNames
  VolNames <- McVolNames
  Paths <- McPaths
  ClientPaths <- McClientPaths
  Losses <- McLosses
  MaxFailed = 1
SYMMETRY McSymmetry
INVARIANTS
  TablesAgree
  ResolvedIsSafe
  HeldIsSafe
  InstalledIsFound
  ResolveAgrees
