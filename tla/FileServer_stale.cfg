SPECIFICATION MCSpec
CONSTANTS
  s1 = s1
  s2 = s2
  p1 = p1
  c0 = c0
  c1 = c1
  c2 = c2
  x = x
  y = y
  z = z
  u = u
  v = v
  d1 = d1
  d2 = d2
  NoFile = NoFile
  NoHash = NoHash
  ZeroHash = ZeroHash
  Sessions <- MCSessions
  Paths <- MCPaths
  Contents <- MCContents
  Empty <- c0
  Blocks <- MCBlocks
  Prefix <- MCPrefix
  Rooted <- MCRooted
  Fixed <- MCFixed
  Cdc <- MCCdc
  Policy = "reject_stale"
  MaxRequests = 2
PROPERTY
  NoSilentClobber
CHECK_DEADLOCK FALSE
