SPECIFICATION Spec
CONSTANTS
  c1 = c1
  c2 = c2
  t1 = t1
  t2 = t2
  NoCall = NoCall
  NoTool = NoTool
  CallId = {c1, c2}
  Tool = {t1, t2}
  Fragment <- AllFragments
  MaxOpenToolCalls = 2
  MaxToolArgsBytes = 2
  MaxStateBytes = 1
  Settings <- OnlyUnlimited
  FrameLimit = TRUE
INVARIANT DenialSurfaced
CHECK_DEADLOCK FALSE
