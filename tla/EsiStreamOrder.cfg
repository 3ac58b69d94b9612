\* One response, a network that takes everything: is the order kept?
CONSTANTS
  s1 = s1
  NoSession = NoSession
  Sessions = {s1}
  Pages <- TwoIncludes
  HoldMax = 1
  BufferMax = 20
  MaxRequests = 1
  Rooms = {20}
SPECIFICATION Spec
INVARIANT
  NeverOutOfOrder
CHECK_DEADLOCK FALSE
