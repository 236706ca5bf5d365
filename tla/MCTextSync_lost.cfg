SPECIFICATION Spec
CONSTANTS
  Clients = {1, 2}
  Hashing = {1, 2}
  Policy = {}
  Wide = {2}
  MaxEvents = 2
  MaxFaults = 0
INVARIANT NoEditLost
