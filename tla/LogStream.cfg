SPECIFICATION FairSpec
CONSTANTS
  p = p
  q = q
  out = out
  err = err
  other = other
  Streams = {out, err, other}
  Owner <- OwnerOf
  Outputs <- OutputSet
  Limit = 2
  PipeSize = 2
INVARIANTS
  NothingLost
  PrefixPerLine
  LinesApart
PROPERTIES
  RunsReturn
CHECK_DEADLOCK FALSE
