SPECIFICATION FairSpec
CONSTANTS
  p1 = p1  p2 = p2
  None = None
  Partitions = {p1, p2}
  Visible <- TwoLogs
  Filtered <- TwoFilters
  MaxOutstanding = 2
  decode_awaits = TRUE
  Modes = {TRUE, FALSE}
  MaxAutoCommits = 1
  MaxRevokes = 1
  MaxEnds = 1
INVARIANT AtLeastOnceUnlessReseeded
INVARIANT AckInv
INVARIANT HonestAcksAccepted
PROPERTY AcksDriveCommits
PROPERTY CommittedNeverRegresses
