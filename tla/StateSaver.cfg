\* A host that answers every call in time, and one that may time out or refuse.
CONSTANTS
  Keys = {1, 2}
  TrackedKey = 1
  ResultCap = 1
  MaxRevision = 2
  MaxPipe = 2
  Hosts = {TRUE, FALSE}
SPECIFICATION Spec
INVARIANTS
  TypeOK
  LatestKept
  FlushedIsStored
PROPERTIES
  SavesEnd
  ImplementsLatestValue
\* After Flush the process is gone.
CHECK_DEADLOCK FALSE
