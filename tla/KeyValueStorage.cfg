SPECIFICATION Spec
CONSTANTS
  Keys = {1, 2, 3}
  Blobs = {b1, b2, b3}
  Requests = {r1, r2}
  Listers = {l1}
  Limits = {1, 2}
  MaxTime = 2
  NoBlob = noBlob
SYMMETRY Symmetry
CHECK_DEADLOCK FALSE
INVARIANTS
  BlobsMatchRows
  ListingIsComplete
PROPERTIES
  OnlyDeleteRemovesLive
