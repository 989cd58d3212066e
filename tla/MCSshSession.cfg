\* One session, two terminal sizes, a short queue, four requests.
CONSTANTS
  z1 = z1
  z2 = z2
  Sizes = {z1, z2}
  Default = z1
  Unset = Unset
  MaxQueue = 2
  MaxRequests = 4
\* A session that is over stays so.
CHECK_DEADLOCK FALSE
SPECIFICATION FairSession
INVARIANTS LatestSize NoSocketLeft
PROPERTIES AllEnd EndIsTold
