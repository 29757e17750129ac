CONSTANTS
  Addr = {0, 1, 2, 3}
  Params <- SmallParams
  None = None
SPECIFICATION Spec
VIEW CacheView
INVARIANTS
  CacheTypeOK
  ListsSound
  NewestFound
  LruExact
PROPERTY TrafficExact
