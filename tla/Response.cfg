\* Pages in any chunks on a slow network; headers of two requests, in any
\* order of the hooks; many lists of header directives.
CONSTANTS
  s1 = s1
  s2 = s2
  NoSession = NoSession
  Sessions = {s1, s2}
  Plans = {"body", "head", "one"}
  Pages <- EveryPage
  HoldMax = 1
  BufferMax = 3
  MaxRequests = 2
  Rooms <- SomeRooms
  HDR_SHADOW_SLOTS = 2
  HDR_MAX = 3
  Fields <- SomeFields
  Charsets = {"charset=utf8", "charset=latin"}
  TextTypes = {"text/html", "text/plain"}
  MAX_IF_DEPTH = 2
  Directives <- EveryDirective
  Elements <- EveryElement
  Variables = {"e"}
SPECIFICATION MCSpec
INVARIANTS
  ResponseTypeOK
  NoCrossTalk
  DeliveredOnce
  WholePage
  HeadersAsWritten
SYMMETRY Symmetry
PROPERTIES
  NothingAfterEnd
CHECK_DEADLOCK FALSE
