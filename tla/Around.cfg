SPECIFICATION Spec
CONSTANTS
  Pair = {a, b}
  Twin = {x, y}
  Writer = {a, b}
  BufSize = 1
  MaxRow = 1
  MaxLog = 3
  MaxFile = 1
  MaxLost = 1
  Caller = {a, b}
  Work = {s}
  UserCommit = {u}
  Handler = {a, b}
  Attempt = {s}
  Region = {x, y}
  MaxVersions = 2
  Ui = {a, b}
  Version = {x, y}
  MaxProcess = 3
  MaxFailures = 1
  Call = {a, b}
  Entry = {x, y}
  Label = {l, m}
  MaxNode = 3
  MaxEdits = 2
  MaxFaults = 1
  None = None
  NoMark = NoMark
  Nobody = Nobody
  Absent = Absent
  Deleted = Deleted
  Off = Off
SYMMETRY Interchangeable
INVARIANTS
  TypeOK
  
  DeliveredOnce
  BoardNotBehind
  WorkKept
  MergedIsMerged
  FilesFollowHead
  FileIsVersioned
  EndpointFound
  OnePerConcept
PROPERTIES
  UserWorkKept
  PatchKeepsSaves
  NeverFightsTheFound
CHECK_DEADLOCK FALSE
