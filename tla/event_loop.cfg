SPECIFICATION FairSpec
CONSTANTS
  Size = 3
  Requests <- MCRequests
  Pinned = {2}
  MaxFails = 1
INVARIANTS MaskAgrees CallbackStored NoBadDescriptor
PROPERTIES ReadServed
