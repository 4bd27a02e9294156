SPECIFICATION Spec
CONSTANTS
  Thread <- TwoThreads
  MaxHandles = 3
  TagSize = 4
  Absent = Absent
INVARIANTS
  TypeOK
  MutualExclusion
  HandlesNameObjects
  OneReleasePerSignal
PROPERTY
  NoHandleReuse
