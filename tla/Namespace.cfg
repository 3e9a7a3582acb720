SPECIFICATION Spec
CONSTANTS
  NTASK = 3
  VFS_NNS = 3
  VFS_NMOUNT = 5
  RESOLVE_HOPS = 4
  BootMounts <- Boot
  Mounts <- SomeMounts
  Binds <- SomeBinds
  Paths <- SomePaths
  Openers = {0}
  Files <- SomeFiles
  MaxChanges = 2
INVARIANTS NoDangling 
PROPERTIES RetireSweeps NoMemberSkipped
