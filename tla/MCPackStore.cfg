SPECIFICATION Spec
CONSTANTS
  a = a
  b = b
  c = c
  d = d
  Clients = {p1, p2}
  Chunks <- FourChunks
  Manifests <- Overlapping
  PackSize = 2
  MaxUploads = 2
  MaxFaults = 2
INVARIANTS TypeOK ChunksStored DownloadReadable
PROPERTY GarbageCollected
SYMMETRY Symmetry
