\* Small enough for temporal checking without symmetry: two connections that
\* may share a session or an address, two overlapping calls of each client,
\* a log that overflows.
CONSTANTS
  Connections = {c1, c2}
  Sessions = {s1, s2}
  IPs = {a, b}
  MaxAuthAttempts = 2
  EmulatorCalls = 6
  Calls = {q1, q2}
  MaxRetries = 2
  AlertTTL = 1
  MaxLog = 2
  Reports = {r1, r2}
  Indicators = {x}
  Scores = {1, 2}
  MaxDrops = 2
  Logins = {l1, l2}
  Events = {e1, e2}
  Lifetime = 1
  Inputs = {"nmap", "curl"}
  MaxEntries = 2
  RecordsCalls = 6
  Asked = {engine, limiter}
  Disk = disk
  FreePercents = {9, 10, 20}
  MaxChanges = 2
  MarkLength = 3
  Interactions = {n1, n2}
  LogIds = {id1, id2}
  MaxInteractions = 3
  Times = {0, 1, 2}
  Naive = {2}
  MaxTime = 2
  Off = Off
SPECIFICATION Spec
INVARIANTS DoorPolicy TrailIsComplete CallsAccountedFor DefenseOnRecord
INVARIANTS AdaptersKeepFaith RecordsAgree HealthIsObserved ExtractionIsExact
PROPERTIES CallsEnd
CHECK_DEADLOCK FALSE
