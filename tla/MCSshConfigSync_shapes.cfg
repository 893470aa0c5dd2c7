SPECIFICATION Spec
CONSTANTS
  p = p
  q = q
  a = a
  b = b
  star = star
  old = old
  new = new
  NoIp = NoIp
  NoFile = NoFile
  Partial = Partial
  Words <- MCWords
  Wildcards = {star}
  Runs = {p}
  Contents <- Shapes
  Saves <- ASave
  Answers <- MCAnswers
  MaxClock = 0
  MaxEdits = 0
  MaxFaults = 1
INVARIANT
  FindsHostNames
PROPERTY
  WritesWhatIsDue
