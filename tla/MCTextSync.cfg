SPECIFICATION FairSpec
CONSTANTS
  Clients = {1, 2}
  Hashing = {1}
  Policy = {2}
  Wide = {2}
  MaxEvents = 3
  MaxFaults = 1
INVARIANTS TypeOK EditsKept SetTextExact
PROPERTIES PublishedOnce NoReturn Converges
