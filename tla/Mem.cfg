SPECIFICATION Spec
CONSTANTS
  NPages = 25  W = 3  DirPages = 1  NPROC = 2  MaxPid = 3
  Programs <- MCPrograms  StorePages = {0, 4}
INVARIANTS TypeOK OneOwner OnOwnDirectory
PROPERTIES ImagesPrivate ImageIsLoaded
CHECK_DEADLOCK FALSE
