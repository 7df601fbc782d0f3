CONSTANTS
  Requests <- MCRequests
  LengthHeaders <- MCLengthHeaders
  BufSize = 10
  NoRequest = NoRequest
SPECIFICATION ParseFairSpec
INVARIANTS ParseInv
PROPERTIES ClosedIfTooLong EveryRequestEnds
