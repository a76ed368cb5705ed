SPECIFICATION Spec
CONSTANTS
  Keys = {k1, k2}
  Uploads = {u1, u2}
  PartNumbers = {1, 2}
  Blobs = {b1, b2, b3}
  LargeBlobs = {b3}
  Requests = {r1, r2}
  Size <- MCSize
  Etags <- MCEtags
  Etag <- MCEtag
  Conditions <- MCConditions
  MinPartSize = 1
  NoKey = noKey
  NoBlob = noBlob
  Multipart = multipart
  StickyBlobs = FALSE
  BadPuts = TRUE
  CanCrash = TRUE
SYMMETRY Symmetry
CHECK_DEADLOCK FALSE
INVARIANTS
  NamedBlobsExist
  WaitGroupsCountReaders
  BlobsHaveOneOwner
  LinkedPartsFormObject
  NoDanglingBlobs
PROPERTIES
  InProgressPartsStay
  ConditionalPutsSwap
