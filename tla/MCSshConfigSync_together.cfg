SPECIFICATION Spec
CONSTANTS
  p = p
  q = q
  a = a
  b = b
  star = star
  old = old
  new = new
  NoIp = NoIp
  NoFile = NoFile
  Partial = Partial
  Words <- MCWords
  Wildcards = {star}
  Runs = {p, q}
  Contents <- TwoBlocks
  Saves <- ASave
  Answers <- MCAnswers
  MaxClock = 1
  MaxEdits = 1
  MaxFaults = 1
INVARIANTS
  SyncTypeOK
  BackupKept
PROPERTIES
  WritesWhatIsDue
  KeepsConfigPromise
