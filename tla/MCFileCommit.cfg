\* Two commits reach one file by three names, two of one identity, while an editor writes to it.
SPECIFICATION FairSpec
CONSTANTS
  Calls = {a, b}
  Paths = {plain, alias, short}
  plain = plain
  alias = alias
  short = short
  Identity <- OnePlain
  Target <- OneFile
  Capacity = 2
  Absent = Absent
  Outside = Outside
  None = None
CHECK_DEADLOCK FALSE
INVARIANTS
  CommitInv
  CommitsExclude
PROPERTIES
  CommitsAreVersioned
  AnswersAreTrue
  CommitsReturn
