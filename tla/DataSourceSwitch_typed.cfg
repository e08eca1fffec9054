\* Typing before the first capabilities arrive.
SPECIFICATION Spec
CONSTANTS
  Clusters = {es, os1, os2}
  Legacy = {es}
  FlintApi = {os2}
  Connected = {os2}
  MaxSwitches = 1
  None = None
PROPERTIES TypedTextKept
CHECK_DEADLOCK FALSE
