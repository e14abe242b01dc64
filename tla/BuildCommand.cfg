CONSTANTS
  p1 = p1
  p2 = p2
  src = src
  bad = bad
  mute = mute
  wide = wide
  old = old
  hid = hid
  a = a
  b = b
  h = h
  d = d
  Absent = Absent
  NoName = NoName
  Procs <- MCProcs
  Names <- MCNames
  Files <- MCFiles
  FileOf <- MCFileOf
  Unreadable <- MCUnreadable
  Initially <- MCInitially
  Invocations <- AllInvocations
SPECIFICATION FairSpec
INVARIANTS
  TypeOK
  SuccessComplete
  FailureLeavesNothing
  UserFilesKept
  OnlyGoodSourcesWrite
  HeaderLast
PROPERTY EveryProcessEnds
CHECK_DEADLOCK FALSE
