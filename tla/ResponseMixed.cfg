\* Headers of two requests, in any order of the hooks.
CONSTANTS
  s1 = s1
  s2 = s2
  NoSession = NoSession
  Sessions = {s1, s2}
  Plans = {"head"}
  Pages <- EveryPage
  HoldMax = 1
  BufferMax = 3
  MaxRequests = 2
  Rooms <- SomeRooms
  HDR_SHADOW_SLOTS = 2
  HDR_MAX = 3
  Fields <- SomeFields
  Charsets = {"charset=utf8", "charset=latin"}
  TextTypes = {"text/html", "text/plain"}
  MAX_IF_DEPTH = 2
  Directives <- EveryDirective
  Elements <- EveryElement
  Variables = {"e"}
SPECIFICATION MCSpec
INVARIANT
  OwnHeadersOnly
SYMMETRY Symmetry
CHECK_DEADLOCK FALSE
