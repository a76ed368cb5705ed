--------------------------- MODULE R2BucketProofs ---------------------------
(***************************************************************************)
(* For any keys, uploads, part numbers, blobs and concurrent requests, and *)
(* whether or not puts are refused and the process crashes: rows and blobs *)
(* of the R2 simulator stay consistent.                                    *)
(***************************************************************************)
EXTENDS R2Bucket, FiniteSetTheorems, TLAPS

-----------------------------------------------------------------------------
(* Type correctness. *)

Writing(r) == requests[r].op \in {"put", "part"}

\* The local variables of a request are those of its operation.
RequestsTyped ==
  \A r \in Requests :
    /\ Writing(r) => requests[r].key \in Keys /\ requests[r].blob \in Blobs
    /\ requests[r].op = "part" => /\ requests[r].upload \in Uploads
                                  /\ requests[r].part \in PartNumbers
    /\ requests[r].op # "stream" => requests[r].todo = {}
    /\ requests[r].op = "stream" /\ requests[r].blob # NoBlob
         => requests[r].blob \in requests[r].todo

\* A part row that names no blob is no row.
PartsTyped ==
  \A u \in Uploads, n \in PartNumbers :
    parts[u][n].blob = NoBlob => parts[u][n].key = NoKey

\* The multipart reads that still need blob b.
Readers(b) == {r \in Requests : b \in requests[r].todo}

ReadersCounted == \A b \in Blobs : inUse[b] = Cardinality(Readers(b))

(* The inductive form of type correctness: a counter of a wait group stays a
   natural number because it counts readers. *)
TypeInv == TypeOK /\ RequestsTyped /\ PartsTyped /\ ReadersCounted

LEMMA NoPartFields == NoPart.blob = NoBlob /\ NoPart.key = NoKey /\ NoPart \in PartRows
BY DEF NoPart, PartRows

\* The blobs of a key's row.
LEMMA BlobsOfCases ==
  ASSUME TypeOK, NEW k \in Keys
  PROVE  /\ objects[k] = NoBlob => BlobsOf(k) = {}
         /\ objects[k] = Multipart => BlobsOf(k) = LinkedBlobs(k)
         /\ objects[k] \in Blobs => BlobsOf(k) = {objects[k]}
         /\ BlobsOf(k) \subseteq Blobs
<1>1. NoBlob # Multipart /\ NoBlob \notin Blobs /\ Multipart \notin Blobs
  BY BucketAssumption
<1>2. objects[k] \in Blobs \cup {NoBlob, Multipart}
  BY DEF TypeOK
<1>3. LinkedBlobs(k) \subseteq Blobs
  BY DEF LinkedBlobs
<1> QED
  BY <1>1, <1>2, <1>3 DEF BlobsOf

\* Part rows change only where they are unlinked.
LEMMA PartsWithoutType ==
  ASSUME TypeInv, NEW k \in Keys
  PROVE  /\ PartsWithout(k) \in [Uploads -> [PartNumbers -> PartRows]]
         /\ \A u \in Uploads, n \in PartNumbers :
              PartsWithout(k)[u][n] =
                IF objects[k] = Multipart /\ parts[u][n].key = k THEN NoPart ELSE parts[u][n]
BY NoPartFields DEF PartsWithout, Unlinked, TypeInv, TypeOK

LEMMA UnlinkType ==
  ASSUME TypeInv, NEW k \in Keys, parts' = PartsWithout(k)
  PROVE  parts' \in [Uploads -> [PartNumbers -> PartRows]] /\ PartsTyped'
<1>1. ASSUME NEW u \in Uploads, NEW n \in PartNumbers
      PROVE  parts'[u][n].blob = NoBlob => parts'[u][n].key = NoKey
  <2>1. parts'[u][n] = NoPart \/ parts'[u][n] = parts[u][n]
    BY PartsWithoutType
  <2> QED
    BY <2>1, NoPartFields DEF TypeInv, PartsTyped
<1> QED
  BY <1>1, PartsWithoutType DEF PartsTyped

\* #stmts.putPart writes one row.
PutPart(u, n, b) == [parts EXCEPT ![u][n] = [blob |-> b, key |-> NoKey]]

LEMMA PutPartType ==
  ASSUME TypeInv, NEW u \in Uploads, NEW n \in PartNumbers, NEW b \in Blobs,
         parts' = PutPart(u, n, b)
  PROVE  /\ parts' \in [Uploads -> [PartNumbers -> PartRows]]
         /\ PartsTyped'
         /\ parts'[u][n].blob = b /\ parts'[u][n].key = NoKey
         /\ \A v \in Uploads, m \in PartNumbers :
              ~(v = u /\ m = n) => parts'[v][m] = parts[v][m]
<1> DEFINE row == [blob |-> b, key |-> NoKey]
<1>1. row \in PartRows /\ row.blob = b /\ row.key = NoKey
  BY DEF PartRows
<1>2. parts' = [parts EXCEPT ![u][n] = row]
  BY DEF PutPart
<1> HIDE DEF row
<1>3. /\ parts' \in [Uploads -> [PartNumbers -> PartRows]]
      /\ parts'[u][n] = row
      /\ \A v \in Uploads, m \in PartNumbers :
           ~(v = u /\ m = n) => parts'[v][m] = parts[v][m]
  BY <1>1, <1>2 DEF TypeInv, TypeOK
<1>4. PartsTyped'
  <2> SUFFICES ASSUME NEW v \in Uploads, NEW m \in PartNumbers
               PROVE  parts'[v][m].blob = NoBlob => parts'[v][m].key = NoKey
    BY DEF PartsTyped
  <2>1. parts'[v][m] = row \/ parts'[v][m] = parts[v][m]
    BY <1>3
  <2> QED
    BY <1>1, <2>1 DEF TypeInv, PartsTyped
<1> QED
  BY <1>1, <1>3, <1>4

\* #stmts.completeMultipartUpload writes the rows of its upload.
LEMMA LinkPartsType ==
  ASSUME TypeInv, NEW u \in Uploads, NEW k \in Keys, NEW ns \in SUBSET PartNumbers,
         \A n \in ns : parts[u][n] # NoPart, parts' = LinkParts(u, k, ns)
  PROVE  /\ parts' \in [Uploads -> [PartNumbers -> PartRows]]
         /\ PartsTyped'
         /\ \A n \in ns : /\ parts'[u][n].blob = parts[u][n].blob
                          /\ parts'[u][n].key = k
                          /\ parts[u][n].blob \in Blobs
         /\ \A n \in PartNumbers \ ns : parts'[u][n] = NoPart
         /\ \A v \in Uploads, n \in PartNumbers :
              v # u => parts'[v][n] = PartsWithout(k)[v][n]
<1> DEFINE row == [n \in PartNumbers |-> IF n \in ns
                                         THEN [blob |-> parts[u][n].blob, key |-> k]
                                         ELSE NoPart]
<1>1. /\ row \in [PartNumbers -> PartRows]
      /\ \A n \in ns : row[n].blob = parts[u][n].blob /\ row[n].key = k
      /\ \A n \in PartNumbers \ ns : row[n] = NoPart
  BY NoPartFields DEF TypeInv, TypeOK, PartRows
<1>2. parts' = [PartsWithout(k) EXCEPT ![u] = row]
  BY DEF LinkParts
<1> HIDE DEF row
<1>3. /\ parts' \in [Uploads -> [PartNumbers -> PartRows]]
      /\ parts'[u] = row
      /\ \A v \in Uploads, n \in PartNumbers : v # u => parts'[v][n] = PartsWithout(k)[v][n]
  BY <1>1, <1>2, PartsWithoutType
<1>4. \A n \in ns : parts[u][n].blob \in Blobs
  <2> SUFFICES ASSUME NEW n \in ns PROVE parts[u][n].blob # NoBlob
    BY DEF TypeInv, TypeOK, PartRows
  <2>1. parts[u][n] \in PartRows /\ parts[u][n] # NoPart
    BY DEF TypeInv, TypeOK
  <2> QED
    BY <2>1 DEF TypeInv, PartsTyped, NoPart, PartRows
<1>5. PartsTyped'
  <2> SUFFICES ASSUME NEW v \in Uploads, NEW n \in PartNumbers
               PROVE  parts'[v][n].blob = NoBlob => parts'[v][n].key = NoKey
    BY DEF PartsTyped
  <2>1. CASE v # u
    <3>1. parts'[v][n] = NoPart \/ parts'[v][n] = parts[v][n]
      BY <1>3, <2>1, PartsWithoutType
    <3> QED
      BY <3>1, NoPartFields DEF TypeInv, PartsTyped
  <2>2. CASE v = u /\ n \in ns
    BY <1>1, <1>3, <1>4, <2>2, BucketAssumption
  <2>3. CASE v = u /\ n \notin ns
    BY <1>1, <1>3, <2>3, NoPartFields
  <2> QED
    BY <2>1, <2>2, <2>3
<1> QED
  BY <1>1, <1>3, <1>4, <1>5

\* Background deletions are of blobs.
LEMMA BackgroundDeleteType ==
  ASSUME TypeOK, NEW bs \in SUBSET Blobs, BackgroundDelete(bs)
  PROVE  /\ waiting' \subseteq Blobs /\ doomed' \subseteq Blobs
         /\ waiting' \cup doomed' = waiting \cup doomed \cup bs
<1>1. \A b \in bs : inUse[b] > 0 \/ inUse[b] = 0
  BY DEF TypeOK
<1> QED
  BY <1>1 DEF BackgroundDelete, TypeOK

\* The row of a request that starts.
LEMMA StartsRequest ==
  ASSUME TypeOK, NEW r \in Requests, NEW q \in RequestStates,
         requests' = [requests EXCEPT ![r] = q]
  PROVE  /\ requests' \in [Requests -> RequestStates]
         /\ requests'[r] = q
         /\ \A s \in Requests : s # r => requests'[s] = requests[s]
BY DEF TypeOK

\* A request that ends.
LEMMA EndsRequest ==
  ASSUME TypeInv, NEW r \in Requests, requests' = [requests EXCEPT ![r] = Idle]
  PROVE  /\ requests' \in [Requests -> RequestStates]
         /\ RequestsTyped'
         /\ ~Writing(r)'
         /\ requests'[r].todo = {}
         /\ \A s \in Requests : s # r => requests'[s] = requests[s]
         /\ requests[r].op # "stream" =>
              \A s \in Requests : requests'[s].todo = requests[s].todo
<1>1. Idle \in RequestStates
  BY BucketAssumption DEF Idle, RequestStates, Ops
<1>2. /\ requests' \in [Requests -> RequestStates]
      /\ requests'[r] = Idle
      /\ \A s \in Requests : s # r => requests'[s] = requests[s]
  BY <1>1 DEF TypeInv, TypeOK
<1> QED
  BY <1>2 DEF TypeInv, RequestsTyped, Writing, Idle

\* Requests that read no parts count for no wait group.
LEMMA SameReaders ==
  ASSUME TypeInv, \A r \in Requests : requests'[r].todo = requests[r].todo,
         inUse' = inUse
  PROVE  ReadersCounted'
<1>1. \A b \in Blobs : Readers(b)' = Readers(b)
  BY DEF Readers
<1> QED
  BY <1>1 DEF TypeInv, ReadersCounted

LEMMA ReadersFinite == \A b : IsFiniteSet(Readers(b)) /\ Cardinality(Readers(b)) \in Nat
<1>1. \A b : Readers(b) \in SUBSET Requests
  BY DEF Readers
<1> QED
  BY <1>1, BucketAssumption, FS_Subset, FS_CardinalityType

(* A read that releases the blobs bs it still needed: the counters stay natural
   numbers, and one that was 1 had no other reader. *)
LEMMA ReleaseCounts ==
  ASSUME TypeInv, NEW r \in Requests, NEW bs \in SUBSET requests[r].todo, Release(bs),
         requests'[r].todo = requests[r].todo \ bs,
         \A s \in Requests : s # r => requests'[s].todo = requests[s].todo
  PROVE  /\ inUse' \in [Blobs -> Nat]
         /\ ReadersCounted'
         /\ \A b \in bs : inUse[b] > 0 /\ (inUse[b] = 1 => Readers(b) = {r})
<1>1. bs \subseteq Blobs
  BY DEF TypeInv, TypeOK, RequestStates
<1>2. ASSUME NEW b \in bs
      PROVE  /\ inUse'[b] = inUse[b] - 1 /\ inUse'[b] \in Nat
             /\ inUse'[b] = Cardinality(Readers(b)')
             /\ inUse[b] > 0 /\ (inUse[b] = 1 => Readers(b) = {r})
  <2>1. r \in Readers(b) /\ Readers(b)' = Readers(b) \ {r}
    BY DEF Readers
  <2>2. Cardinality(Readers(b) \ {r}) = Cardinality(Readers(b)) - 1
    BY <2>1, ReadersFinite, FS_RemoveElement
  <2>3. IsFiniteSet(Readers(b) \ {r}) /\ Cardinality(Readers(b) \ {r}) \in Nat
    BY ReadersFinite, FS_RemoveElement, FS_CardinalityType
  <2>4. inUse[b] = Cardinality(Readers(b)) /\ Cardinality(Readers(b)) \in Nat
    BY <1>1, ReadersFinite DEF TypeInv, ReadersCounted
  <2>5. inUse'[b] = inUse[b] - 1
    BY <1>1 DEF Release
  <2>6. inUse[b] = 1 => Readers(b) \ {r} = {}
    BY <2>2, <2>3, <2>4, FS_EmptySet
  <2> QED
    BY <2>1, <2>2, <2>3, <2>4, <2>5, <2>6
<1>3. ASSUME NEW b \in Blobs, b \notin bs
      PROVE  inUse'[b] = inUse[b] /\ Readers(b)' = Readers(b)
  <2>1. inUse'[b] = inUse[b]
    BY <1>3 DEF Release
  <2>2. Readers(b)' = Readers(b)
    BY <1>3 DEF Readers
  <2> QED
    BY <2>1, <2>2
<1>4. inUse' = [b \in Blobs |-> inUse'[b]]
  BY DEF Release
<1>5. \A b \in Blobs : inUse'[b] \in Nat
  BY <1>2, <1>3 DEF TypeInv, TypeOK
<1>6. ReadersCounted'
  BY <1>2, <1>3 DEF TypeInv, ReadersCounted
<1>7. inUse' \in [Blobs -> Nat]
  BY <1>4, <1>5
<1> QED
  BY <1>2, <1>6, <1>7

LEMMA SwapType ==
  ASSUME TypeOK, NEW k \in Keys, NEW onlyIf, NEW tag \in Tags, Swap(k, onlyIf, tag)
  PROVE  unspent' \in [Keys -> SUBSET Tags]
BY DEF TypeOK, Swap

\* Every step preserves the type invariant.
LEMMA TypeStep ==
  ASSUME TypeInv, [Next]_vars
  PROVE  TypeInv'
<1> USE DEF database, blobState, history
<1>1. ASSUME NEW r \in Requests, NEW k \in Keys, NEW b \in Blobs,
             NEW onlyIf \in Conditions, StartPut(r, k, onlyIf, b)
      PROVE  TypeInv'
  <2> DEFINE q == [Idle EXCEPT !.op = "put", !.key = k, !.blob = b, !.onlyIf = onlyIf]
  <2>1. q \in RequestStates /\ q.op = "put" /\ q.key = k /\ q.blob = b /\ q.todo = {}
    BY BucketAssumption DEF Idle, RequestStates, Ops
  <2>2. requests' = [requests EXCEPT ![r] = q]
    BY <1>1 DEF StartPut
  <2> HIDE DEF q
  <2>3. TypeOK' /\ requests'[r] = q /\ \A s \in Requests : s # r => requests'[s] = requests[s]
    BY <1>1, <2>1, <2>2, StartsRequest DEF StartPut, TypeInv, TypeOK
  <2>4. RequestsTyped'
    BY <2>1, <2>3 DEF TypeInv, RequestsTyped, Writing
  <2>5. PartsTyped'
    BY <1>1 DEF StartPut, TypeInv, PartsTyped
  <2>6. requests[r].todo = {}
    BY <1>1 DEF StartPut, Idle
  <2>7. ReadersCounted'
    BY <1>1, <2>1, <2>3, <2>6, SameReaders DEF StartPut
  <2> QED
    BY <2>3, <2>4, <2>5, <2>7 DEF TypeInv
<1>2. ASSUME NEW r \in Requests, NEW k \in Keys, NEW b \in Blobs,
             NEW u \in Uploads, NEW n \in PartNumbers, StartUploadPart(r, u, k, n, b)
      PROVE  TypeInv'
  <2> DEFINE q == [Idle EXCEPT !.op = "part", !.key = k, !.blob = b, !.upload = u, !.part = n]
  <2>1. /\ q \in RequestStates /\ q.op = "part" /\ q.key = k /\ q.blob = b /\ q.todo = {}
        /\ q.upload = u /\ q.part = n
    BY BucketAssumption DEF Idle, RequestStates, Ops
  <2>2. requests' = [requests EXCEPT ![r] = q]
    BY <1>2 DEF StartUploadPart
  <2> HIDE DEF q
  <2>3. TypeOK' /\ requests'[r] = q /\ \A s \in Requests : s # r => requests'[s] = requests[s]
    BY <1>2, <2>1, <2>2, StartsRequest DEF StartUploadPart, TypeInv, TypeOK
  <2>4. RequestsTyped'
    BY <2>1, <2>3 DEF TypeInv, RequestsTyped, Writing
  <2>5. PartsTyped'
    BY <1>2 DEF StartUploadPart, TypeInv, PartsTyped
  <2>6. requests[r].todo = {}
    BY <1>2 DEF StartUploadPart, Idle
  <2>7. ReadersCounted'
    BY <1>2, <2>1, <2>3, <2>6, SameReaders DEF StartUploadPart
  <2> QED
    BY <2>3, <2>4, <2>5, <2>7 DEF TypeInv
<1>3. ASSUME NEW r \in Requests, InvalidPut(r)
      PROVE  TypeInv'
  <2>1. requests[r].blob \in Blobs
    BY <1>3 DEF InvalidPut, TypeInv, RequestsTyped, Writing
  <2>2. requests' \in [Requests -> RequestStates] /\ RequestsTyped'
    BY <1>3, EndsRequest DEF InvalidPut
  <2>3. TypeOK' /\ PartsTyped'
    BY <1>3, <2>1, <2>2 DEF InvalidPut, TypeInv, TypeOK, PartsTyped
  <2>4. ReadersCounted'
    BY <1>3, EndsRequest, SameReaders DEF InvalidPut
  <2> QED
    BY <2>2, <2>3, <2>4 DEF TypeInv
<1>4. ASSUME NEW r \in Requests, FinishPut(r)
      PROVE  TypeInv'
  <2> DEFINE k == requests[r].key
             b == requests[r].blob
             onlyIf == requests[r].onlyIf
  <2>1. k \in Keys /\ b \in Blobs /\ onlyIf \in Conditions
    BY <1>4 DEF FinishPut, TypeInv, TypeOK, RequestsTyped, Writing, RequestStates
  <2>2. requests' \in [Requests -> RequestStates] /\ RequestsTyped'
    BY <1>4, EndsRequest DEF FinishPut
  <2>3. BackgroundDelete(BlobsOf(k)) \/ BackgroundDelete({b})
    BY <1>4 DEF FinishPut
  <2>4. waiting' \subseteq Blobs /\ doomed' \subseteq Blobs
    BY <2>1, <2>3, BackgroundDeleteType, BlobsOfCases DEF TypeInv
  <2>5. objects' = objects \/ objects' = [objects EXCEPT ![k] = b]
    BY <1>4 DEF FinishPut
  <2>6. objects' \in [Keys -> Blobs \cup {NoBlob, Multipart}]
    BY <2>1, <2>5 DEF TypeInv, TypeOK
  <2>7. parts' = parts \/ parts' = PartsWithout(k)
    BY <1>4 DEF FinishPut
  <2>8. parts' \in [Uploads -> [PartNumbers -> PartRows]] /\ PartsTyped'
    BY <2>1, <2>7, UnlinkType DEF TypeInv, TypeOK, PartsTyped
  <2>10. unspent' \in [Keys -> SUBSET Tags]
    <3>1. unspent' = unspent \/ Swap(k, onlyIf, Etag[b])
      BY <1>4 DEF FinishPut
    <3>2. Etag[b] \in Tags
      BY <2>1, BucketAssumption DEF Tags
    <3> QED
      BY <2>1, <3>1, <3>2, SwapType DEF TypeInv, TypeOK
  <2>11. /\ store' = store \cup {b} /\ uploads' = uploads /\ used' = used
         /\ inUse' = inUse /\ leaked' = leaked
    BY <1>4 DEF FinishPut
  <2>12. ReadersCounted'
    BY <1>4, EndsRequest, SameReaders DEF FinishPut
  <2> QED
    BY <2>1, <2>2, <2>4, <2>6, <2>8, <2>10, <2>11, <2>12 DEF TypeInv, TypeOK
<1>5. ASSUME NEW k \in Keys, Delete(k)
      PROVE  TypeInv'
  <2>1. waiting' \subseteq Blobs /\ doomed' \subseteq Blobs
    BY <1>5, BackgroundDeleteType, BlobsOfCases DEF TypeInv, Delete
  <2>2. objects' \in [Keys -> Blobs \cup {NoBlob, Multipart}]
    BY <1>5 DEF TypeInv, TypeOK, Delete
  <2>3. parts' \in [Uploads -> [PartNumbers -> PartRows]] /\ PartsTyped'
    BY <1>5, UnlinkType DEF Delete
  <2>4. RequestsTyped' /\ ReadersCounted'
    BY <1>5, SameReaders DEF Delete, TypeInv, RequestsTyped, Writing
  <2>5. unspent' \in [Keys -> SUBSET Tags]
    BY <1>5, SwapType DEF Delete, Tags, TypeInv
  <2> QED
    BY <1>5, <2>1, <2>2, <2>3, <2>4, <2>5 DEF TypeInv, TypeOK, Delete
<1>6. ASSUME NEW u \in Uploads, NEW k \in Keys, CreateMultipartUpload(u, k)
      PROVE  TypeInv'
  <2>1. uploads' \in [Uploads -> UploadRows]
    BY <1>6 DEF CreateMultipartUpload, TypeInv, TypeOK, UploadRows, States
  <2>2. RequestsTyped' /\ PartsTyped' /\ ReadersCounted'
    BY <1>6, SameReaders DEF CreateMultipartUpload, TypeInv, RequestsTyped, PartsTyped, Writing
  <2> QED
    BY <1>6, <2>1, <2>2 DEF CreateMultipartUpload, TypeInv, TypeOK
<1>7. ASSUME NEW r \in Requests, FinishUploadPart(r)
      PROVE  TypeInv'
  <2> DEFINE u == requests[r].upload
             n == requests[r].part
             b == requests[r].blob
  <2>1. u \in Uploads /\ n \in PartNumbers /\ b \in Blobs
    BY <1>7 DEF FinishUploadPart, TypeInv, RequestsTyped, Writing
  <2>2. requests' \in [Requests -> RequestStates] /\ RequestsTyped'
    BY <1>7, EndsRequest DEF FinishUploadPart
  <2>3. BackgroundDelete(PartBlobs(u, {n})) \/ BackgroundDelete({b})
    BY <1>7 DEF FinishUploadPart
  <2>4. PartBlobs(u, {n}) \subseteq Blobs
    BY <2>1 DEF PartBlobs, TypeInv, TypeOK, PartRows
  <2>5. waiting' \subseteq Blobs /\ doomed' \subseteq Blobs
    BY <2>1, <2>3, <2>4, BackgroundDeleteType DEF TypeInv
  <2>6. parts' = parts \/ parts' = PutPart(u, n, b)
    BY <1>7 DEF FinishUploadPart, PutPart
  <2>7. parts' \in [Uploads -> [PartNumbers -> PartRows]] /\ PartsTyped'
    <3>1. CASE parts' = parts
      BY <3>1 DEF TypeInv, TypeOK, PartsTyped
    <3>2. CASE parts' = PutPart(u, n, b)
      BY <2>1, <3>2, PutPartType, Zenon
    <3> QED
      BY <2>6, <3>1, <3>2
  <2>8. ReadersCounted'
    BY <1>7, EndsRequest, SameReaders DEF FinishUploadPart
  <2> QED
    BY <1>7, <2>1, <2>2, <2>5, <2>7, <2>8 DEF TypeInv, TypeOK, FinishUploadPart
<1>8. ASSUME NEW u \in Uploads, NEW k \in Keys, NEW ns \in SUBSET PartNumbers,
             CompleteMultipartUpload(u, k, ns)
      PROVE  TypeInv'
  <2>1. PartBlobs(u, PartNumbers \ ns) \subseteq Blobs
    BY DEF PartBlobs, TypeInv, TypeOK, PartRows
  <2>2. waiting' \subseteq Blobs /\ doomed' \subseteq Blobs
    BY <1>8, <2>1, BackgroundDeleteType, BlobsOfCases DEF TypeInv, CompleteMultipartUpload
  <2>3. objects' \in [Keys -> Blobs \cup {NoBlob, Multipart}]
    BY <1>8 DEF TypeInv, TypeOK, CompleteMultipartUpload
  <2>4. uploads' \in [Uploads -> UploadRows]
    BY <1>8 DEF CompleteMultipartUpload, TypeInv, TypeOK, UploadRows, States
  <2>5. parts' \in [Uploads -> [PartNumbers -> PartRows]] /\ PartsTyped'
    BY <1>8, LinkPartsType DEF CompleteMultipartUpload
  <2>6. RequestsTyped' /\ ReadersCounted'
    BY <1>8, SameReaders DEF CompleteMultipartUpload, TypeInv, RequestsTyped, Writing
  <2>7. unspent' \in [Keys -> SUBSET Tags]
    BY <1>8, SwapType DEF CompleteMultipartUpload, Tags, TypeInv
  <2> QED
    BY <1>8, <2>2, <2>3, <2>4, <2>5, <2>6, <2>7
    DEF CompleteMultipartUpload, TypeInv, TypeOK
<1>9. ASSUME NEW u \in Uploads, NEW k \in Keys, AbortMultipartUpload(u, k)
      PROVE  TypeInv'
  <2>1. PartBlobs(u, PartNumbers) \subseteq Blobs
    BY DEF PartBlobs, TypeInv, TypeOK, PartRows
  <2>2. waiting' \subseteq Blobs /\ doomed' \subseteq Blobs
    BY <1>9, <2>1, BackgroundDeleteType DEF TypeInv, AbortMultipartUpload
  <2>3. uploads' \in [Uploads -> UploadRows]
    BY <1>9 DEF AbortMultipartUpload, TypeInv, TypeOK, UploadRows, States
  <2>4. parts' \in [Uploads -> [PartNumbers -> PartRows]] /\ PartsTyped'
    BY <1>9 DEF AbortMultipartUpload, TypeInv, TypeOK, PartsTyped, NoPart, PartRows
  <2>5. RequestsTyped' /\ ReadersCounted'
    BY <1>9, SameReaders DEF AbortMultipartUpload, TypeInv, RequestsTyped, Writing
  <2> QED
    BY <1>9, <2>2, <2>3, <2>4, <2>5 DEF AbortMultipartUpload, TypeInv, TypeOK
<1>10. ASSUME NEW r \in Requests, NEW k \in Keys, StartGet(r, k)
       PROVE  TypeInv'
  <2> DEFINE q == [Idle EXCEPT !.op = "get", !.key = k, !.blob = objects[k]]
  <2>1. q \in RequestStates /\ q.op = "get" /\ q.todo = {}
    BY <1>10, BucketAssumption DEF Idle, RequestStates, Ops, StartGet
  <2>2. requests' = [requests EXCEPT ![r] = q]
    BY <1>10 DEF StartGet
  <2> HIDE DEF q
  <2>3. TypeOK' /\ requests'[r] = q /\ \A s \in Requests : s # r => requests'[s] = requests[s]
    BY <1>10, <2>1, <2>2, StartsRequest DEF StartGet, TypeInv, TypeOK
  <2>4. RequestsTyped'
    BY <2>1, <2>3 DEF TypeInv, RequestsTyped, Writing
  <2>5. PartsTyped'
    BY <1>10 DEF StartGet, TypeInv, PartsTyped
  <2>6. requests[r].todo = {}
    BY <1>10 DEF StartGet, Idle
  <2>7. ReadersCounted'
    BY <1>10, <2>1, <2>3, <2>6, SameReaders DEF StartGet
  <2> QED
    BY <2>3, <2>4, <2>5, <2>7 DEF TypeInv
<1>11. ASSUME NEW r \in Requests, FinishGet(r)
       PROVE  TypeInv'
  <2>1. requests' \in [Requests -> RequestStates] /\ RequestsTyped'
    BY <1>11, EndsRequest DEF FinishGet
  <2>2. TypeOK' /\ PartsTyped'
    BY <1>11, <2>1 DEF FinishGet, TypeInv, TypeOK, PartsTyped
  <2>3. ReadersCounted'
    BY <1>11, EndsRequest, SameReaders DEF FinishGet
  <2> QED
    BY <2>1, <2>2, <2>3 DEF TypeInv
<1>12. ASSUME NEW r \in Requests, NEW k \in Keys, NEW bs \in SUBSET Blobs,
              StartStream(r, k, bs)
       PROVE  TypeInv'
  <2> DEFINE q == [Idle EXCEPT !.op = "stream", !.key = k, !.todo = bs]
  <2>1. q \in RequestStates /\ q.op = "stream" /\ q.blob = NoBlob /\ q.todo = bs
    BY BucketAssumption DEF Idle, RequestStates, Ops
  <2>2. requests' = [requests EXCEPT ![r] = q]
    BY <1>12 DEF StartStream
  <2> HIDE DEF q
  <2>3. inUse' \in [Blobs -> Nat]
    BY <1>12 DEF StartStream, Acquire, TypeInv, TypeOK
  <2>4. TypeOK' /\ requests'[r] = q /\ \A s \in Requests : s # r => requests'[s] = requests[s]
    BY <1>12, <2>1, <2>2, <2>3, StartsRequest DEF StartStream, TypeInv, TypeOK
  <2>5. RequestsTyped'
    BY <2>1, <2>4 DEF TypeInv, RequestsTyped, Writing
  <2>6. PartsTyped'
    BY <1>12 DEF StartStream, TypeInv, PartsTyped
  <2>7. requests[r].todo = {}
    BY <1>12 DEF StartStream, Idle
  <2>8. ASSUME NEW b \in Blobs PROVE inUse'[b] = Cardinality(Readers(b)')
    <3>1. CASE b \in bs
      <4>1. Readers(b)' = Readers(b) \cup {r} /\ r \notin Readers(b)
        BY <2>1, <2>4, <2>7, <3>1 DEF Readers
      <4>2. Cardinality(Readers(b) \cup {r}) = Cardinality(Readers(b)) + 1
        BY <4>1, ReadersFinite, FS_AddElement
      <4> QED
        BY <1>12, <3>1, <4>1, <4>2 DEF StartStream, Acquire, TypeInv, ReadersCounted
    <3>2. CASE b \notin bs
      <4>1. Readers(b)' = Readers(b)
        BY <2>1, <2>4, <2>7, <3>2 DEF Readers
      <4> QED
        BY <1>12, <3>2, <4>1 DEF StartStream, Acquire, TypeInv, ReadersCounted
    <3> QED
      BY <3>1, <3>2
  <2> QED
    BY <2>4, <2>5, <2>6, <2>8 DEF TypeInv, ReadersCounted
<1>13. ASSUME NEW r \in Requests, NEW b \in Blobs, OpenPart(r, b)
       PROVE  TypeInv'
  <2>1. /\ requests' \in [Requests -> RequestStates]
        /\ requests'[r].op = "stream" /\ requests'[r].blob = b
        /\ requests'[r].todo = requests[r].todo
        /\ \A s \in Requests : s # r => requests'[s] = requests[s]
    <3> DEFINE q == [requests[r] EXCEPT !.blob = b]
    <3>1. requests[r] \in RequestStates
      BY DEF TypeInv, TypeOK
    <3>2. q \in RequestStates /\ q.op = requests[r].op /\ q.blob = b /\ q.todo = requests[r].todo
      BY <3>1 DEF RequestStates
    <3>3. requests' = [requests EXCEPT ![r] = q]
      BY <1>13 DEF OpenPart
    <3> HIDE DEF q
    <3> QED
      BY <1>13, <3>2, <3>3, StartsRequest DEF OpenPart, TypeInv
  <2>2. RequestsTyped'
    BY <1>13, <2>1 DEF OpenPart, TypeInv, RequestsTyped, Writing
  <2>3. ReadersCounted'
    BY <1>13, <2>1, SameReaders DEF OpenPart
  <2> QED
    BY <1>13, <2>1, <2>2, <2>3 DEF OpenPart, TypeInv, TypeOK, PartsTyped
<1>14. ASSUME NEW r \in Requests, PartPiped(r)
       PROVE  TypeInv'
  <2> DEFINE b == requests[r].blob
  <2>1. b \in requests[r].todo /\ b \in Blobs
    BY <1>14 DEF PartPiped, TypeInv, TypeOK, RequestsTyped, RequestStates
  <2>2. requests' \in [Requests -> RequestStates] /\ RequestsTyped'
        /\ requests'[r].todo = requests[r].todo \ {b}
        /\ \A s \in Requests : s # r => requests'[s] = requests[s]
    <3>1. CASE requests[r].todo = {b}
      <4>1. requests' = [requests EXCEPT ![r] = Idle]
        BY <1>14, <3>1 DEF PartPiped
      <4> QED
        BY <3>1, <4>1, EndsRequest
    <3>2. CASE requests[r].todo # {b}
      <4>1. /\ requests' \in [Requests -> RequestStates]
            /\ requests'[r].op = "stream" /\ requests'[r].blob = NoBlob
            /\ requests'[r].todo = requests[r].todo \ {b}
            /\ \A s \in Requests : s # r => requests'[s] = requests[s]
        <5> DEFINE q == [requests[r] EXCEPT !.blob = NoBlob, !.todo = @ \ {b}]
        <5>1. requests[r] \in RequestStates
          BY DEF TypeInv, TypeOK
        <5>2. /\ q \in RequestStates /\ q.op = requests[r].op
              /\ q.blob = NoBlob /\ q.todo = requests[r].todo \ {b}
          BY <5>1 DEF RequestStates
        <5>3. requests' = [requests EXCEPT ![r] = q]
          BY <1>14, <3>2 DEF PartPiped
        <5> HIDE DEF q
        <5> QED
          BY <1>14, <5>2, <5>3, StartsRequest DEF PartPiped, TypeInv
      <4> QED
        BY <4>1 DEF TypeInv, RequestsTyped, Writing
    <3> QED
      BY <3>1, <3>2
  <2>3. inUse' \in [Blobs -> Nat] /\ ReadersCounted'
    BY <1>14, <2>1, <2>2, ReleaseCounts DEF PartPiped
  <2> QED
    BY <1>14, <2>2, <2>3 DEF PartPiped, Release, TypeInv, TypeOK, PartsTyped
<1>15. ASSUME NEW r \in Requests, StreamFails(r)
       PROVE  TypeInv'
  <2>1. /\ requests' \in [Requests -> RequestStates] /\ RequestsTyped'
        /\ requests'[r].todo = {}
        /\ \A s \in Requests : s # r => requests'[s] = requests[s]
    BY <1>15, EndsRequest DEF StreamFails
  <2>2. inUse' \in [Blobs -> Nat] /\ ReadersCounted'
    BY <1>15, <2>1, ReleaseCounts DEF StreamFails
  <2> QED
    BY <1>15, <2>1, <2>2 DEF StreamFails, Release, TypeInv, TypeOK, PartsTyped
<1>16. ASSUME NEW bs \in SUBSET Blobs, Crash(bs)
       PROVE  TypeInv'
  <2>1. Idle \in RequestStates /\ Idle.op = "idle" /\ Idle.todo = {}
    BY BucketAssumption DEF Idle, RequestStates, Ops
  <2>2. requests' \in [Requests -> RequestStates] /\ \A r \in Requests : requests'[r] = Idle
    BY <1>16, <2>1 DEF Crash
  <2>3. RequestsTyped'
    BY <2>1, <2>2 DEF RequestsTyped, Writing
  <2>4. \A b \in Blobs : Readers(b)' = {}
    BY <2>1, <2>2 DEF Readers
  <2>5. ReadersCounted'
    BY <1>16, <2>4, FS_EmptySet DEF ReadersCounted, Crash
  <2> QED
    BY <1>16, <2>2, <2>3, <2>5 DEF Crash, TypeInv, TypeOK, PartsTyped
<1>17. ASSUME NEW b \in Blobs, DeleteBlob(b)
       PROVE  TypeInv'
  <2>1. RequestsTyped' /\ ReadersCounted'
    BY <1>17, SameReaders DEF DeleteBlob, TypeInv, RequestsTyped, Writing
  <2> QED
    BY <1>17, <2>1 DEF DeleteBlob, TypeInv, TypeOK, PartsTyped
<1>18. CASE UNCHANGED vars
  <2>1. RequestsTyped' /\ ReadersCounted'
    BY <1>18, SameReaders DEF vars, TypeInv, RequestsTyped, Writing
  <2> QED
    BY <1>18, <2>1 DEF vars, TypeInv, TypeOK, PartsTyped
<1> QED
  BY <1>1, <1>2, <1>3, <1>4, <1>5, <1>6, <1>7, <1>8, <1>9, <1>10, <1>11, <1>12, <1>13,
     <1>14, <1>15, <1>16, <1>17, <1>18
  DEF Next, Start, Read, Proceed, Transact

LEMMA InitTypeInv == Init => TypeInv
<1> SUFFICES ASSUME Init PROVE TypeInv
  OBVIOUS
<1>1. TypeOK
  BY BucketAssumption DEF Init, TypeOK, NoUpload, UploadRows, States, NoPart, PartRows,
     Idle, RequestStates, Ops, Tags
<1>2. RequestsTyped /\ PartsTyped
  BY DEF Init, RequestsTyped, Writing, PartsTyped, NoPart, Idle
<1>3. \A b \in Blobs : Readers(b) = {}
  BY DEF Init, Readers, Idle
<1>4. ReadersCounted
  BY <1>3, FS_EmptySet DEF Init, ReadersCounted
<1> QED
  BY <1>1, <1>2, <1>4 DEF TypeInv

\* Type correctness: no wait group's counter ever falls below zero.
THEOREM BucketTypeCorrect == Spec => []TypeOK
<1>1. TypeInv => TypeOK
  BY DEF TypeInv
<1> QED
  BY <1>1, InitTypeInv, TypeStep, PTL DEF Spec

-----------------------------------------------------------------------------
(* What each database statement does to the blobs that rows name. *)

\* The blobs named, row by row.
LEMMA ReferencedMeans ==
  /\ \A b \in Blobs : b \in Referenced <=>
       \/ \E k \in Keys : objects[k] = b
       \/ \E u \in Uploads, n \in PartNumbers : parts[u][n].blob = b
  /\ \A b \in Blobs : b \in Referenced' <=>
       \/ \E k \in Keys : objects'[k] = b
       \/ \E u \in Uploads, n \in PartNumbers : parts'[u][n].blob = b
  /\ TypeOK => Referenced \subseteq Blobs
  /\ TypeOK' => Referenced' \subseteq Blobs
<1>1. NoBlob \notin Blobs
  BY BucketAssumption
<1>2. \A b \in Blobs : b \in Referenced <=>
       \/ \E k \in Keys : objects[k] = b
       \/ \E u \in Uploads, n \in PartNumbers : parts[u][n].blob = b
  BY <1>1 DEF Referenced, ObjectBlobs, UploadedBlobs, PartBlobs
<1>3. \A b \in Blobs : b \in Referenced' <=>
       \/ \E k \in Keys : objects'[k] = b
       \/ \E u \in Uploads, n \in PartNumbers : parts'[u][n].blob = b
  BY <1>1 DEF Referenced, ObjectBlobs, UploadedBlobs, PartBlobs
<1>4. TypeOK => Referenced \subseteq Blobs
  BY DEF TypeOK, PartRows, Referenced, ObjectBlobs, UploadedBlobs, PartBlobs
<1>5. TypeOK' => Referenced' \subseteq Blobs
  BY DEF TypeOK, PartRows, Referenced, ObjectBlobs, UploadedBlobs, PartBlobs
<1> QED
  BY <1>2, <1>3, <1>4, <1>5

\* BlobsHaveOneOwner, row by row.
OneOwner ==
  /\ \A k, l \in Keys : objects[k] = objects[l] /\ objects[k] \in Blobs => k = l
  /\ \A u, v \in Uploads : \A m, n \in PartNumbers :
       parts[u][m].blob = parts[v][n].blob /\ parts[u][m].blob # NoBlob
         => u = v /\ m = n
  /\ \A k \in Keys, u \in Uploads, n \in PartNumbers :
       objects[k] \in Blobs => objects[k] # parts[u][n].blob

LEMMA OneOwnerMeans == (OneOwner <=> BlobsHaveOneOwner) /\ (OneOwner' <=> BlobsHaveOneOwner')
<1>1. NoBlob \notin Blobs
  BY BucketAssumption
<1>2. (ObjectBlobs \cap UploadedBlobs = {}) <=>
        \A k \in Keys, u \in Uploads, n \in PartNumbers :
          objects[k] \in Blobs => objects[k] # parts[u][n].blob
  BY <1>1 DEF ObjectBlobs, UploadedBlobs, PartBlobs
<1>3. (ObjectBlobs \cap UploadedBlobs = {})' <=>
        \A k \in Keys, u \in Uploads, n \in PartNumbers :
          objects'[k] \in Blobs => objects'[k] # parts'[u][n].blob
  BY <1>1 DEF ObjectBlobs, UploadedBlobs, PartBlobs
<1> QED
  BY <1>2, <1>3 DEF OneOwner, BlobsHaveOneOwner

\* What the database statements rely on.
RowsInv == TypeInv /\ BlobsHaveOneOwner /\ LinkedPartsFormObject

\* Rows that only lose blobs keep them apart.
LEMMA OwnersLeft ==
  ASSUME RowsInv, TypeInv',
         \A k \in Keys : objects'[k] = objects[k] \/ objects'[k] \notin Blobs,
         \A u \in Uploads, n \in PartNumbers :
           parts'[u][n].blob = parts[u][n].blob \/ parts'[u][n].blob = NoBlob
  PROVE  BlobsHaveOneOwner'
<1>1. OneOwner
  BY OneOwnerMeans DEF RowsInv
<1>2. \A k, l \in Keys : objects'[k] = objects'[l] /\ objects'[k] \in Blobs => k = l
  BY <1>1 DEF OneOwner
<1>3. \A u, v \in Uploads : \A m, n \in PartNumbers :
       parts'[u][m].blob = parts'[v][n].blob /\ parts'[u][m].blob # NoBlob
         => u = v /\ m = n
  BY <1>1 DEF OneOwner
<1>4. \A k \in Keys, u \in Uploads, n \in PartNumbers :
       objects'[k] \in Blobs => objects'[k] # parts'[u][n].blob
  BY <1>1, BucketAssumption DEF OneOwner
<1> QED
  BY <1>2, <1>3, <1>4, OneOwnerMeans DEF OneOwner

\* The blobs of key k's row, found in the rows of its parts.
LEMMA BlobsOfRows ==
  ASSUME RowsInv, NEW k \in Keys
  PROVE  /\ \A u \in Uploads, n \in PartNumbers :
              /\ parts[u][n].key = k => objects[k] = Multipart
              /\ parts[u][n].blob \in Blobs \cup {NoBlob}
         /\ BlobsOf(k) = IF objects[k] \in Blobs THEN {objects[k]}
                         ELSE {b \in Blobs : \E u \in Uploads, n \in PartNumbers :
                                 parts[u][n].blob = b /\ parts[u][n].key = k}
<1>1. NoBlob \notin Blobs /\ Multipart \notin Blobs /\ Multipart # NoBlob /\ TypeOK
  BY BucketAssumption DEF RowsInv, TypeInv
<1>2. \A u \in Uploads, n \in PartNumbers : parts[u][n].key = k => objects[k] = Multipart
  <2>1. LinkedPartsFormObject
    BY DEF RowsInv
  <2> SUFFICES ASSUME NEW u \in Uploads, NEW n \in PartNumbers, parts[u][n].key = k
               PROVE  objects[k] = Multipart
    OBVIOUS
  <2>2. objects[k] = Multipart /\ uploads[u] = [key |-> k, state |-> "completed"]
    BY <2>1 DEF LinkedPartsFormObject
  <2> QED
    BY <2>2
<1>3. \A u \in Uploads, n \in PartNumbers : parts[u][n].blob \in Blobs \cup {NoBlob}
  BY <1>1 DEF TypeOK, PartRows
<1>4. LinkedBlobs(k) = {b \in Blobs : \E u \in Uploads, n \in PartNumbers :
                                       parts[u][n].blob = b /\ parts[u][n].key = k}
  <2>1. \A u \in Uploads, n \in PartNumbers : \A b :
          parts[u][n] = [blob |-> b, key |-> k] <=> parts[u][n].blob = b /\ parts[u][n].key = k
    BY <1>1 DEF TypeOK, PartRows
  <2> QED
    BY <2>1 DEF LinkedBlobs
<1>5. objects[k] = NoBlob => \A u \in Uploads, n \in PartNumbers : parts[u][n].key # k
  BY <1>1, <1>2
<1>6. objects[k] \in Blobs \cup {NoBlob, Multipart}
  BY <1>1 DEF TypeOK
<1> QED
  BY <1>1, <1>2, <1>3, <1>4, <1>5, <1>6, BlobsOfCases

(* Key k's row is replaced by x, or deleted, and its linked parts with it: x is
   named and the blobs that were k's are not, all others are named as before. *)
LEMMA ReplaceRow ==
  ASSUME RowsInv, TypeInv', NEW k \in Keys, NEW x, x \notin Referenced,
         objects' = [objects EXCEPT ![k] = x], parts' = PartsWithout(k),
         uploads' = uploads, x # Multipart
  PROVE  /\ BlobsHaveOneOwner' /\ LinkedPartsFormObject'
         /\ Referenced' = (Referenced \ BlobsOf(k)) \cup ({x} \cap Blobs)
         /\ BlobsOf(k) \subseteq Referenced
<1>0. /\ NoBlob \notin Blobs /\ Multipart \notin Blobs /\ Multipart # NoBlob
      /\ NoKey \notin Keys /\ TypeOK /\ TypeOK' /\ OneOwner
  BY BucketAssumption, OneOwnerMeans DEF RowsInv, TypeInv
<1>1. objects'[k] = x /\ \A l \in Keys : l # k => objects'[l] = objects[l]
  BY <1>0 DEF TypeOK
<1>2. \A u \in Uploads, n \in PartNumbers :
        parts'[u][n] = IF objects[k] = Multipart /\ parts[u][n].key = k
                       THEN NoPart ELSE parts[u][n]
  BY PartsWithoutType DEF RowsInv
<1>3. \A u \in Uploads, n \in PartNumbers :
        /\ parts[u][n].key = k => objects[k] = Multipart
        /\ parts[u][n].blob \in Blobs \cup {NoBlob}
  BY BlobsOfRows
<1>4. BlobsOf(k) = IF objects[k] \in Blobs THEN {objects[k]}
                   ELSE {b \in Blobs : \E u \in Uploads, n \in PartNumbers :
                                         parts[u][n].blob = b /\ parts[u][n].key = k}
  BY BlobsOfRows
<1>5. \A u \in Uploads, n \in PartNumbers :
        IF parts[u][n].key = k
        THEN parts'[u][n].blob = NoBlob /\ parts'[u][n].key = NoKey
        ELSE parts'[u][n] = parts[u][n]
  BY <1>2, <1>3, NoPartFields
<1>6. OneOwner'
  <2>1. \A l, m \in Keys : objects'[l] = objects'[m] /\ objects'[l] \in Blobs => l = m
    BY <1>0, <1>1, ReferencedMeans DEF OneOwner
  <2>2. \A u, v \in Uploads : \A m, n \in PartNumbers :
         parts'[u][m].blob = parts'[v][n].blob /\ parts'[u][m].blob # NoBlob
           => u = v /\ m = n
    BY <1>0, <1>5 DEF OneOwner
  <2>3. \A l \in Keys, u \in Uploads, n \in PartNumbers :
         objects'[l] \in Blobs => objects'[l] # parts'[u][n].blob
    BY <1>0, <1>1, <1>5, ReferencedMeans DEF OneOwner
  <2> QED
    BY <2>1, <2>2, <2>3 DEF OneOwner
<1>7. LinkedPartsFormObject'
  <2> SUFFICES ASSUME NEW u \in Uploads, NEW n \in PartNumbers, NEW l \in Keys,
                      parts'[u][n].key = l
               PROVE  /\ objects'[l] = Multipart
                      /\ uploads'[u] = [key |-> l, state |-> "completed"]
                      /\ \A v \in Uploads, m \in PartNumbers : parts'[v][m].key = l => v = u
    BY DEF LinkedPartsFormObject
  <2>1. parts[u][n].key = l /\ l # k
    BY <1>0, <1>5
  <2>2. \A v \in Uploads, m \in PartNumbers : parts'[v][m].key = l => parts[v][m].key = l
    BY <1>0, <1>5
  <2> QED
    BY <1>1, <2>1, <2>2 DEF RowsInv, LinkedPartsFormObject
<1>8. BlobsOf(k) \subseteq Referenced
  BY <1>4, ReferencedMeans
<1>9. ASSUME NEW b \in Blobs
      PROVE  b \in Referenced' <=> (b \in Referenced /\ b \notin BlobsOf(k)) \/ b = x
  <2>1. CASE b = x
    BY <1>1, <2>1, ReferencedMeans
  <2>2. CASE b # x /\ b \in BlobsOf(k)
    <3>1. CASE objects[k] \in Blobs
      <4>1. b = objects[k]
        BY <1>4, <2>2, <3>1
      <4>2. \A l \in Keys : objects'[l] # b
        BY <1>0, <1>1, <2>2, <4>1 DEF OneOwner
      <4>3. \A u \in Uploads, n \in PartNumbers : parts'[u][n].blob # b
        BY <1>0, <1>5, <4>1 DEF OneOwner
      <4> QED
        BY <2>2, <4>2, <4>3, ReferencedMeans
    <3>2. CASE objects[k] \notin Blobs
      <4>1. PICK u \in Uploads, n \in PartNumbers : parts[u][n].blob = b /\ parts[u][n].key = k
        BY <1>4, <2>2, <3>2
      <4>2. \A l \in Keys : objects'[l] # b
        BY <1>0, <1>1, <2>2, <4>1 DEF OneOwner
      <4>3. \A v \in Uploads, m \in PartNumbers : parts'[v][m].blob # b
        BY <1>0, <1>5, <4>1 DEF OneOwner
      <4> QED
        BY <2>2, <4>2, <4>3, ReferencedMeans
    <3> QED
      BY <3>1, <3>2
  <2>3. CASE b # x /\ b \notin BlobsOf(k)
    <3>1. \A l \in Keys : objects'[l] = b <=> objects[l] = b
      BY <1>1, <1>4, <2>3
    <3>2. \A u \in Uploads, n \in PartNumbers : parts'[u][n].blob = b <=> parts[u][n].blob = b
      <4>1. \A u \in Uploads, n \in PartNumbers :
              parts[u][n].blob = b => parts[u][n].key # k
        BY <1>0, <1>3, <1>4, <2>3
      <4> QED
        BY <1>0, <1>5, <4>1
    <3> QED
      BY <2>3, <3>1, <3>2, ReferencedMeans
  <2> QED
    BY <2>1, <2>2, <2>3
<1>10. Referenced' \subseteq Blobs /\ Referenced \subseteq Blobs
  BY <1>0, ReferencedMeans
<1> QED
  BY <1>6, <1>7, <1>8, <1>9, <1>10, OneOwnerMeans

\* Part n of upload u is written: its old blob is no longer named.
LEMMA PutPartRow ==
  ASSUME RowsInv, TypeInv', NEW u \in Uploads, NEW n \in PartNumbers,
         NEW b \in Blobs, b \notin Referenced, parts' = PutPart(u, n, b),
         UNCHANGED <<objects, uploads>>
  PROVE  /\ BlobsHaveOneOwner' /\ LinkedPartsFormObject'
         /\ Referenced' = (Referenced \ PartBlobs(u, {n})) \cup {b}
         /\ PartBlobs(u, {n}) \subseteq Referenced
<1>0. /\ NoBlob \notin Blobs /\ NoKey \notin Keys /\ TypeOK /\ TypeOK' /\ OneOwner
      /\ b # NoBlob
  BY BucketAssumption, OneOwnerMeans DEF RowsInv, TypeInv
<1>1. /\ parts'[u][n].blob = b /\ parts'[u][n].key = NoKey
      /\ \A v \in Uploads, m \in PartNumbers :
           ~(v = u /\ m = n) => parts'[v][m] = parts[v][m]
  <2>1. TypeInv
    BY DEF RowsInv
  <2> QED
    BY <2>1, PutPartType
<1>2. PartBlobs(u, {n}) = {parts[u][n].blob} \ {NoBlob}
  BY DEF PartBlobs
<1>3. parts[u][n].blob \in Blobs \cup {NoBlob}
  BY <1>0 DEF TypeOK, PartRows
<1>4. \A k \in Keys : objects[k] # b
  BY ReferencedMeans
<1>5. \A v \in Uploads, m \in PartNumbers : parts[v][m].blob # b
  BY ReferencedMeans
<1>6. OneOwner'
  <2>1. \A l, m \in Keys : objects'[l] = objects'[m] /\ objects'[l] \in Blobs => l = m
    BY <1>0 DEF OneOwner
  <2>2. \A v, w \in Uploads : \A i, j \in PartNumbers :
         parts'[v][i].blob = parts'[w][j].blob /\ parts'[v][i].blob # NoBlob
           => v = w /\ i = j
    BY <1>0, <1>1, <1>5 DEF OneOwner
  <2>3. \A l \in Keys, v \in Uploads, m \in PartNumbers :
         objects'[l] \in Blobs => objects'[l] # parts'[v][m].blob
    BY <1>0, <1>1, <1>4 DEF OneOwner
  <2> QED
    BY <2>1, <2>2, <2>3 DEF OneOwner
<1>7. LinkedPartsFormObject'
  <2>1. \A v \in Uploads, m \in PartNumbers : \A k \in Keys :
          parts'[v][m].key = k => parts[v][m].key = k
    BY <1>0, <1>1
  <2> QED
    BY <2>1 DEF RowsInv, LinkedPartsFormObject
<1>8. PartBlobs(u, {n}) \subseteq Referenced
  BY <1>2, <1>3, ReferencedMeans
<1>9. ASSUME NEW c \in Blobs
      PROVE  c \in Referenced' <=> (c \in Referenced /\ c # parts[u][n].blob) \/ c = b
  <2>1. CASE c = b
    BY <1>1, <2>1, ReferencedMeans
  <2>2. CASE c # b /\ c = parts[u][n].blob
    <3>1. \A k \in Keys : objects'[k] # c
      BY <1>0, <2>2 DEF OneOwner
    <3>2. \A v \in Uploads, m \in PartNumbers : parts'[v][m].blob # c
      BY <1>0, <1>1, <2>2 DEF OneOwner
    <3> QED
      BY <2>2, <3>1, <3>2, ReferencedMeans
  <2>3. CASE c # b /\ c # parts[u][n].blob
    <3>1. \A v \in Uploads, m \in PartNumbers : parts'[v][m].blob = c <=> parts[v][m].blob = c
      BY <1>1, <2>3
    <3> QED
      BY <2>3, <3>1, ReferencedMeans
  <2> QED
    BY <2>1, <2>2, <2>3
<1>10. Referenced' \subseteq Blobs /\ Referenced \subseteq Blobs
  BY <1>0, ReferencedMeans
<1>11. Referenced' = (Referenced \ PartBlobs(u, {n})) \cup {b}
  BY <1>0, <1>2, <1>9, <1>10
<1> QED
  BY <1>6, <1>7, <1>8, <1>11, OneOwnerMeans

\* The rows of an upload in progress are linked to no key.
LEMMA InProgressUnlinked ==
  ASSUME RowsInv, NEW u \in Uploads, uploads[u].state = "inProgress",
         NEW n \in PartNumbers
  PROVE  parts[u][n].key = NoKey
<1>1. parts[u][n].key \in Keys \cup {NoKey}
  BY DEF RowsInv, TypeInv, TypeOK, PartRows
<1>2. ASSUME NEW k \in Keys, parts[u][n].key = k PROVE FALSE
  <2>1. LinkedPartsFormObject
    BY DEF RowsInv
  <2>2. uploads[u] = [key |-> k, state |-> "completed"]
    BY <1>2, <2>1 DEF LinkedPartsFormObject
  <2> QED
    BY <2>2
<1> QED
  BY <1>1, <1>2

\* An upload is aborted and its parts' blobs are no longer named.
LEMMA AbortRows ==
  ASSUME RowsInv, TypeInv', NEW u \in Uploads, uploads[u].state = "inProgress",
         parts' = [parts EXCEPT ![u] = [n \in PartNumbers |-> NoPart]],
         uploads' = [uploads EXCEPT ![u].state = "aborted"],
         UNCHANGED objects
  PROVE  /\ BlobsHaveOneOwner' /\ LinkedPartsFormObject'
         /\ Referenced' = Referenced \ PartBlobs(u, PartNumbers)
         /\ PartBlobs(u, PartNumbers) \subseteq Referenced
<1>0. NoBlob \notin Blobs /\ NoKey \notin Keys /\ TypeOK /\ TypeOK' /\ OneOwner
  BY BucketAssumption, OneOwnerMeans DEF RowsInv, TypeInv
<1>1. /\ \A n \in PartNumbers : parts'[u][n].blob = NoBlob /\ parts'[u][n].key = NoKey
      /\ \A v \in Uploads, n \in PartNumbers : v # u => parts'[v][n] = parts[v][n]
  BY <1>0, NoPartFields DEF TypeOK
<1>2. BlobsHaveOneOwner'
  <2>1. \A v \in Uploads, n \in PartNumbers :
          parts'[v][n].blob = parts[v][n].blob \/ parts'[v][n].blob = NoBlob
    BY <1>1
  <2> QED
    BY <2>1, OwnersLeft
<1>3. LinkedPartsFormObject'
  <2>1. \A v \in Uploads, m \in PartNumbers : \A k \in Keys :
          parts'[v][m].key = k => parts[v][m].key = k /\ v # u
    BY <1>0, <1>1
  <2>2. \A v \in Uploads : v # u => uploads'[v] = uploads[v]
    BY <1>0 DEF TypeOK
  <2> QED
    BY <2>1, <2>2 DEF RowsInv, LinkedPartsFormObject
<1>4. \A c \in Blobs : c \in PartBlobs(u, PartNumbers) <=>
                       \E n \in PartNumbers : parts[u][n].blob = c
  BY <1>0 DEF PartBlobs
<1>5. ASSUME NEW c \in Blobs
      PROVE  c \in Referenced' <=> c \in Referenced /\ c \notin PartBlobs(u, PartNumbers)
  <2>1. ASSUME NEW n \in PartNumbers, parts[u][n].blob = c
        PROVE  c \notin Referenced'
    <3>1. \A k \in Keys : objects'[k] # c
      BY <1>0, <2>1 DEF OneOwner
    <3>2. \A v \in Uploads, m \in PartNumbers : parts'[v][m].blob # c
      BY <1>0, <1>1, <2>1 DEF OneOwner
    <3> QED
      BY <3>1, <3>2, ReferencedMeans
  <2>2. ASSUME \A n \in PartNumbers : parts[u][n].blob # c
        PROVE  c \in Referenced' <=> c \in Referenced
    <3>1. \A v \in Uploads, m \in PartNumbers : parts'[v][m].blob = c <=> parts[v][m].blob = c
      BY <1>0, <1>1, <2>2
    <3> QED
      BY <3>1, ReferencedMeans
  <2> QED
    BY <1>4, <2>1, <2>2
<1>6. Referenced' \subseteq Blobs /\ Referenced \subseteq Blobs
  BY <1>0, ReferencedMeans
<1>7. PartBlobs(u, PartNumbers) \subseteq Blobs
  BY <1>0 DEF PartBlobs, TypeOK, PartRows
<1>8. PartBlobs(u, PartNumbers) \subseteq Referenced
  BY <1>4, <1>7, ReferencedMeans
<1> QED
  BY <1>2, <1>3, <1>5, <1>6, <1>8

(* An upload is completed: its parts ns become key k's value, and neither the
   value that k had nor the other parts are named any longer. *)
LEMMA CompleteRows ==
  ASSUME RowsInv, TypeInv', NEW u \in Uploads, NEW k \in Keys,
         NEW ns \in SUBSET PartNumbers, InProgress(u, k),
         \A n \in ns : parts[u][n] # NoPart,
         objects' = [objects EXCEPT ![k] = Multipart],
         parts' = LinkParts(u, k, ns),
         uploads' = [uploads EXCEPT ![u].state = "completed"]
  PROVE  /\ BlobsHaveOneOwner' /\ LinkedPartsFormObject'
         /\ Referenced' = Referenced \ (BlobsOf(k) \cup PartBlobs(u, PartNumbers \ ns))
         /\ BlobsOf(k) \cup PartBlobs(u, PartNumbers \ ns) \subseteq Referenced
<1> DEFINE old == BlobsOf(k) \cup PartBlobs(u, PartNumbers \ ns)
<1>0. /\ NoBlob \notin Blobs /\ Multipart \notin Blobs /\ Multipart # NoBlob
      /\ NoKey \notin Keys /\ TypeOK /\ TypeOK' /\ TypeInv /\ OneOwner
  BY BucketAssumption, OneOwnerMeans DEF RowsInv, TypeInv
<1>1. objects'[k] = Multipart /\ \A l \in Keys : l # k => objects'[l] = objects[l]
  BY <1>0 DEF TypeOK
<1>2. /\ \A n \in ns : /\ parts'[u][n].blob = parts[u][n].blob
                       /\ parts'[u][n].key = k
                       /\ parts[u][n].blob \in Blobs
      /\ \A n \in PartNumbers \ ns : parts'[u][n] = NoPart
      /\ \A v \in Uploads, n \in PartNumbers :
           v # u => parts'[v][n] = PartsWithout(k)[v][n]
  BY <1>0, LinkPartsType
<1>3. /\ \A v \in Uploads, n \in PartNumbers :
           /\ parts[v][n].key = k => objects[k] = Multipart
           /\ parts[v][n].blob \in Blobs \cup {NoBlob}
      /\ BlobsOf(k) = IF objects[k] \in Blobs THEN {objects[k]}
                      ELSE {b \in Blobs : \E v \in Uploads, n \in PartNumbers :
                              parts[v][n].blob = b /\ parts[v][n].key = k}
  BY BlobsOfRows
<1>4. /\ uploads[u].key = k /\ uploads[u].state = "inProgress"
      /\ uploads'[u] = [key |-> k, state |-> "completed"]
      /\ \A v \in Uploads : v # u => uploads'[v] = uploads[v]
  BY <1>0 DEF TypeOK, InProgress
<1>5. \A n \in PartNumbers : parts[u][n].key = NoKey
  BY <1>4, InProgressUnlinked
<1>6. \A v \in Uploads, n \in PartNumbers : v # u =>
        IF parts[v][n].key = k
        THEN parts'[v][n].blob = NoBlob /\ parts'[v][n].key = NoKey
        ELSE parts'[v][n] = parts[v][n]
  BY <1>0, <1>2, <1>3, PartsWithoutType, NoPartFields
<1>7. \A n \in PartNumbers : n \notin ns => parts'[u][n].blob = NoBlob /\ parts'[u][n].key = NoKey
  BY <1>2, NoPartFields
<1>8. BlobsHaveOneOwner'
  <2>1. \A v \in Uploads, n \in PartNumbers :
          parts'[v][n].blob = parts[v][n].blob \/ parts'[v][n].blob = NoBlob
    BY <1>2, <1>6, <1>7
  <2>2. \A l \in Keys : objects'[l] = objects[l] \/ objects'[l] \notin Blobs
    BY <1>0, <1>1
  <2> QED
    BY <2>1, <2>2, OwnersLeft
<1>9. LinkedPartsFormObject'
  <2> SUFFICES ASSUME NEW v \in Uploads, NEW n \in PartNumbers, NEW l \in Keys,
                      parts'[v][n].key = l
               PROVE  /\ objects'[l] = Multipart
                      /\ uploads'[v] = [key |-> l, state |-> "completed"]
                      /\ \A w \in Uploads, m \in PartNumbers : parts'[w][m].key = l => w = v
    BY DEF LinkedPartsFormObject
  <2>1. CASE v = u
    <3>1. l = k
      BY <1>0, <1>2, <1>7, <2>1
    <3>2. \A w \in Uploads, m \in PartNumbers : w # u => parts'[w][m].key # k
      BY <1>0, <1>6
    <3> QED
      BY <1>1, <1>4, <2>1, <3>1, <3>2
  <2>2. CASE v # u
    <3>1. parts[v][n].key = l /\ l # k
      BY <1>0, <1>6, <2>2
    <3>2. \A w \in Uploads, m \in PartNumbers : parts'[w][m].key = l => w # u /\ parts[w][m].key = l
      BY <1>0, <1>2, <1>6, <1>7, <3>1
    <3> QED
      BY <1>1, <1>4, <2>2, <3>1, <3>2 DEF RowsInv, LinkedPartsFormObject
  <2> QED
    BY <2>1, <2>2
<1>10. \A c \in Blobs : c \in PartBlobs(u, PartNumbers \ ns) <=>
                        \E n \in PartNumbers \ ns : parts[u][n].blob = c
  BY <1>0 DEF PartBlobs
<1>11. ASSUME NEW c \in Blobs
       PROVE  c \in Referenced' <=> c \in Referenced /\ c \notin old
  <2>1. CASE c \in PartBlobs(u, PartNumbers \ ns)
    <3>1. PICK n \in PartNumbers \ ns : parts[u][n].blob = c
      BY <1>10, <2>1
    <3>2. \A l \in Keys : objects'[l] # c
      BY <1>0, <1>1, <3>1 DEF OneOwner
    <3>3. \A m \in PartNumbers : parts'[u][m].blob # c
      BY <1>0, <1>2, <1>7, <3>1 DEF OneOwner
    <3>4. \A v \in Uploads, m \in PartNumbers : v # u => parts'[v][m].blob # c
      BY <1>0, <1>6, <3>1 DEF OneOwner
    <3> QED
      BY <2>1, <3>2, <3>3, <3>4, ReferencedMeans
  <2>2. CASE c \in BlobsOf(k)
    <3>1. CASE objects[k] \in Blobs
      <4>1. c = objects[k]
        BY <1>3, <2>2, <3>1
      <4>2. \A l \in Keys : objects'[l] # c
        BY <1>0, <1>1, <4>1 DEF OneOwner
      <4>3. \A v \in Uploads, n \in PartNumbers : parts[v][n].blob # c
        BY <1>0, <4>1 DEF OneOwner
      <4>4. \A v \in Uploads, n \in PartNumbers : parts'[v][n].blob # c
        BY <1>0, <1>2, <1>6, <1>7, <4>3
      <4> QED
        BY <2>2, <4>2, <4>4, ReferencedMeans
    <3>2. CASE objects[k] \notin Blobs
      <4>1. PICK v \in Uploads, n \in PartNumbers : parts[v][n].blob = c /\ parts[v][n].key = k
        BY <1>3, <2>2, <3>2
      <4>2. v # u
        BY <1>0, <1>5, <4>1
      <4>3. \A l \in Keys : objects'[l] # c
        BY <1>0, <1>1, <4>1 DEF OneOwner
      <4>4. \A m \in PartNumbers : parts'[u][m].blob # c
        BY <1>0, <1>2, <1>7, <4>1, <4>2 DEF OneOwner
      <4>5. \A w \in Uploads, m \in PartNumbers : w # u => parts'[w][m].blob # c
        BY <1>0, <1>6, <4>1 DEF OneOwner
      <4> QED
        BY <2>2, <4>3, <4>4, <4>5, ReferencedMeans
    <3> QED
      BY <3>1, <3>2
  <2>3. CASE c \notin old
    <3>1. \A l \in Keys : objects'[l] = c <=> objects[l] = c
      BY <1>0, <1>1, <1>3, <2>3
    <3>2. \A n \in PartNumbers : parts'[u][n].blob = c <=> parts[u][n].blob = c
      BY <1>0, <1>2, <1>7, <1>10, <2>3
    <3>3. \A v \in Uploads, n \in PartNumbers : parts[v][n].blob = c => parts[v][n].key # k
      BY <1>0, <1>3, <2>3
    <3>4. \A v \in Uploads, n \in PartNumbers :
            v # u => (parts'[v][n].blob = c <=> parts[v][n].blob = c)
      BY <1>0, <1>6, <3>3
    <3> QED
      BY <2>3, <3>1, <3>2, <3>4, ReferencedMeans
  <2> QED
    BY <2>1, <2>2, <2>3
<1>12. Referenced' \subseteq Blobs /\ Referenced \subseteq Blobs
  BY <1>0, ReferencedMeans
<1>13. old \subseteq Referenced
  <2>1. BlobsOf(k) \subseteq Referenced
    BY <1>3, ReferencedMeans
  <2>2. PartBlobs(u, PartNumbers \ ns) \subseteq Blobs
    BY <1>3 DEF PartBlobs
  <2>3. PartBlobs(u, PartNumbers \ ns) \subseteq Referenced
    BY <1>10, <2>2, ReferencedMeans
  <2> QED
    BY <2>1, <2>3
<1> QED
  BY <1>8, <1>9, <1>11, <1>12, <1>13

-----------------------------------------------------------------------------
(* Rows and blobs. *)

\* The blobs that rows, deletions or the disk know of.
Known == store \cup waiting \cup doomed \cup Referenced

\* A request that writes a value owns the blob, which nothing else knows yet.
WritesOwnBlobs ==
  \A r \in Requests : Writing(r) =>
    /\ requests[r].blob \in used \ Known
    /\ \A s \in Requests : Writing(s) /\ requests[s].blob = requests[r].blob => s = r

\* A deletion waits for a reader.
WaitersHaveReaders == \A b \in waiting : inUse[b] > 0

(* The inductive invariant: a blob id belongs to one row, to one request that
   writes it, or to a deletion, and deletions wait for readers. *)
BlobInv ==
  /\ RowsInv
  /\ Known \subseteq used
  /\ WritesOwnBlobs
  /\ NamedBlobsExist
  /\ WaitersHaveReaders
  /\ NoDanglingBlobs

\* A step that changes no row.
LEMMA SameRows ==
  ASSUME RowsInv, TypeInv', UNCHANGED <<objects, uploads, parts>>
  PROVE  RowsInv' /\ Referenced' = Referenced
<1>1. Referenced' = Referenced
  BY DEF Referenced, ObjectBlobs, UploadedBlobs, PartBlobs
<1>2. BlobsHaveOneOwner'
  BY DEF RowsInv, BlobsHaveOneOwner, ObjectBlobs, UploadedBlobs, PartBlobs
<1>3. LinkedPartsFormObject'
  BY DEF RowsInv, LinkedPartsFormObject
<1> QED
  BY <1>1, <1>2, <1>3 DEF RowsInv

\* A blob that is being read is in use.
LEMMA ReadersUse ==
  ASSUME TypeInv, NEW r \in Requests, NEW b \in requests[r].todo
  PROVE  inUse[b] > 0
<1>1. b \in Blobs
  BY DEF TypeInv, TypeOK, RequestStates
<1>2. Readers(b) # {}
  BY DEF Readers
<1>3. Cardinality(Readers(b)) \in Nat /\ Cardinality(Readers(b)) # 0
  BY <1>2, ReadersFinite, FS_EmptySet
<1> QED
  BY <1>1, <1>3 DEF TypeInv, ReadersCounted

(* Requests that go on writing what they wrote, while the blobs in new become
   known to others. *)
LEMMA WritersStep ==
  ASSUME BlobInv, NEW new, new \subseteq used, used' = used, Known' \subseteq Known \cup new,
         \A s \in Requests : Writing(s)' =>
           /\ Writing(s) /\ requests'[s].blob = requests[s].blob
           /\ requests[s].blob \notin new
  PROVE  (Known \subseteq used)' /\ WritesOwnBlobs'
<1>1. (Known \subseteq used)'
  BY DEF BlobInv
<1>2. ASSUME NEW r \in Requests, Writing(r)'
      PROVE  /\ requests'[r].blob \in used' \ Known'
             /\ \A s \in Requests : Writing(s)' /\ requests'[s].blob = requests'[r].blob => s = r
  BY <1>2 DEF BlobInv, WritesOwnBlobs
<1> QED
  BY <1>1, <1>2 DEF WritesOwnBlobs

LEMMA WritersStay ==
  ASSUME BlobInv, used' = used, Known' \subseteq Known,
         \A s \in Requests : Writing(s)' =>
           Writing(s) /\ requests'[s].blob = requests[s].blob
  PROVE  (Known \subseteq used)' /\ WritesOwnBlobs'
<1> DEFINE new == {}
<1>1. new \subseteq used /\ Known' \subseteq Known \cup new /\ \A b : b \notin new
  OBVIOUS
<1> HIDE DEF new
<1> QED
  BY <1>1, WritersStep

(* A step that stores the blobs in new, fresh ones, and sends the blobs bs to
   background deletion when no row names them any more. *)
LEMMA DeletingStep ==
  ASSUME BlobInv, RowsInv', NEW new \in SUBSET Blobs, NEW bs \in SUBSET Blobs,
         new \subseteq used \ Known, BackgroundDelete(bs),
         bs \subseteq Referenced \cup new,
         Referenced' = (Referenced \cup new) \ bs,
         store' = store \cup new, UNCHANGED <<used, inUse, leaked>>,
         \A s \in Requests : Writing(s)' =>
           /\ Writing(s) /\ requests'[s].blob = requests[s].blob
           /\ requests[s].blob \notin new,
         \A s \in Requests : requests'[s].todo = requests[s].todo
  PROVE  BlobInv'
<1>1. TypeOK /\ TypeInv /\ new \cap (store \cup waiting \cup doomed \cup Referenced) = {}
  BY DEF BlobInv, RowsInv, TypeInv, Known
<1>2. waiting' \cup doomed' = waiting \cup doomed \cup bs
  BY <1>1, BackgroundDeleteType
<1>3. Known' \subseteq Known \cup new
  BY <1>2 DEF Known
<1>4. (Known \subseteq used)' /\ WritesOwnBlobs'
  BY <1>3, WritersStep
<1>5. Referenced' \subseteq store' \ (waiting' \cup doomed')
  BY <1>1, <1>2 DEF BlobInv, NamedBlobsExist
<1>6. ASSUME NEW r \in Requests, NEW b \in requests'[r].todo
      PROVE  b \in store' \ doomed'
  <2>1. b \in requests[r].todo /\ inUse[b] > 0 /\ b \in store \ doomed
    BY <1>1, <1>6, ReadersUse DEF BlobInv, NamedBlobsExist
  <2>2. b \in Blobs
    BY <1>1, <2>1 DEF TypeOK
  <2>3. inUse[b] \in Nat /\ inUse[b] # 0
    BY <1>1, <2>1, <2>2 DEF TypeOK
  <2> QED
    BY <2>1, <2>3 DEF BackgroundDelete
<1>7. NamedBlobsExist'
  BY <1>5, <1>6 DEF NamedBlobsExist
<1>8. WaitersHaveReaders'
  BY DEF BlobInv, WaitersHaveReaders, BackgroundDelete
<1>9. NoDanglingBlobs'
  BY <1>2 DEF BlobInv, NoDanglingBlobs
<1> QED
  BY <1>4, <1>7, <1>8, <1>9 DEF BlobInv

(* A read that releases the blobs bs: only a deletion that no other read keeps
   waiting goes on. *)
LEMMA ReleasingStep ==
  ASSUME BlobInv, TypeInv', NEW r \in Requests, NEW bs \in SUBSET requests[r].todo,
         Release(bs), requests'[r].todo = requests[r].todo \ bs,
         \A s \in Requests : s # r => requests'[s].todo = requests[s].todo,
         \A s \in Requests : Writing(s)' =>
           Writing(s) /\ requests'[s].blob = requests[s].blob,
         UNCHANGED <<objects, uploads, parts, store, used, leaked>>
  PROVE  BlobInv'
<1>1. TypeOK /\ TypeInv /\ RowsInv /\ bs \subseteq Blobs
  BY DEF BlobInv, RowsInv, TypeInv, TypeOK, RequestStates
<1>2. RowsInv' /\ Referenced' = Referenced
  BY <1>1, SameRows
<1>3. \A b \in bs : inUse[b] > 0 /\ (inUse[b] = 1 => Readers(b) = {r})
  BY <1>1, ReleaseCounts
<1>4. /\ waiting' \cup doomed' = waiting \cup doomed /\ doomed \subseteq doomed'
      /\ waiting' \subseteq waiting
  BY DEF Release
<1>5. Known' = Known
  BY <1>2, <1>4 DEF Known
<1>6. (Known \subseteq used)' /\ WritesOwnBlobs'
  BY <1>5, WritersStay
<1>7. Referenced' \subseteq store' \ (waiting' \cup doomed')
  BY <1>2, <1>4 DEF BlobInv, NamedBlobsExist
<1>8. ASSUME NEW s \in Requests, NEW b \in requests'[s].todo
      PROVE  b \in store' \ doomed'
  <2>1. b \in requests[s].todo /\ b \in store \ doomed /\ (s = r => b \notin bs)
    BY <1>8 DEF BlobInv, NamedBlobsExist
  <2>2. ASSUME b \in doomed' PROVE FALSE
    <3>1. b \in bs /\ inUse[b] = 1
      BY <2>1, <2>2 DEF Release
    <3>2. Readers(b) = {r}
      BY <1>3, <3>1
    <3> QED
      BY <2>1, <3>1, <3>2 DEF Readers
  <2> QED
    BY <2>1, <2>2
<1>9. NamedBlobsExist'
  BY <1>7, <1>8 DEF NamedBlobsExist
<1>10. WaitersHaveReaders'
  <2> SUFFICES ASSUME NEW b \in waiting' PROVE inUse'[b] > 0
    BY DEF WaitersHaveReaders
  <2>1. b \in waiting /\ b \in Blobs /\ inUse[b] > 0 /\ inUse[b] \in Nat
    BY <1>1, <1>4 DEF BlobInv, WaitersHaveReaders, TypeOK
  <2>2. CASE b \in bs
    <3>1. inUse[b] # 1
      BY <2>2 DEF Release
    <3>2. inUse'[b] = inUse[b] - 1
      BY <2>1, <2>2 DEF Release
    <3> QED
      BY <2>1, <3>1, <3>2
  <2>3. CASE b \notin bs
    BY <2>1, <2>3 DEF Release
  <2> QED
    BY <2>2, <2>3
<1>11. NoDanglingBlobs'
  BY <1>2, <1>4 DEF BlobInv, NoDanglingBlobs
<1> QED
  BY <1>2, <1>6, <1>9, <1>10, <1>11 DEF BlobInv

\* A step that changes no blob of a row and no deletion.
LEMMA QuietStep ==
  ASSUME BlobInv, RowsInv', Referenced' = Referenced, UNCHANGED <<waiting, doomed>>,
         store \subseteq store', used \subseteq used', store' \subseteq used',
         store' \subseteq store \cup leaked', leaked \subseteq leaked',
         \A b \in waiting : inUse'[b] > 0,
         \A s \in Requests : requests'[s].todo \subseteq requests[s].todo \cup Referenced,
         WritesOwnBlobs'
  PROVE  BlobInv'
<1>1. (Known \subseteq used)'
  BY DEF BlobInv, Known
<1>2. NamedBlobsExist'
  BY DEF BlobInv, NamedBlobsExist
<1>3. WaitersHaveReaders'
  BY DEF WaitersHaveReaders
<1>4. NoDanglingBlobs'
  BY DEF BlobInv, NoDanglingBlobs
<1> QED
  BY <1>1, <1>2, <1>3, <1>4 DEF BlobInv

\* Every step keeps rows and blobs consistent.
LEMMA BlobStep ==
  ASSUME BlobInv, [Next]_vars
  PROVE  BlobInv'
<1> USE DEF database, blobState, history
<1>1. TypeInv /\ TypeOK /\ RowsInv /\ TypeInv'
  BY TypeStep DEF BlobInv, RowsInv, TypeInv
<1>2. Referenced \subseteq Blobs /\ Known \subseteq used /\ store \subseteq used /\ used \subseteq Blobs
  BY <1>1, ReferencedMeans DEF BlobInv, Known, TypeOK
<1>3. ASSUME NEW r \in Requests, Writing(r)
      PROVE  /\ requests[r].blob \in used \ Known /\ requests[r].blob \in Blobs
             /\ requests[r].blob \notin Referenced
             /\ \A s \in Requests : Writing(s) /\ requests[s].blob = requests[r].blob => s = r
  BY <1>2, <1>3 DEF BlobInv, WritesOwnBlobs, Known
<1>4. ASSUME NEW r \in Requests, NEW b \in Blobs, b \notin used, used' = used \cup {b},
             UNCHANGED <<database, blobState, history>>,
             Writing(r)', requests'[r].blob = b, requests'[r].todo = {},
             \A s \in Requests : s # r => requests'[s] = requests[s]
      PROVE  BlobInv'
  <2>1. RowsInv' /\ Referenced' = Referenced
    BY <1>1, <1>4, SameRows
  <2>2. Known' = Known
    BY <1>4, <2>1 DEF Known
  <2>3. \A s \in Requests : s # r /\ Writing(s)' => Writing(s) /\ requests[s].blob # b
    BY <1>3, <1>4 DEF Writing
  <2>4. WritesOwnBlobs'
    BY <1>2, <1>3, <1>4, <2>2, <2>3 DEF WritesOwnBlobs
  <2>5. \A s \in Requests : requests'[s].todo \subseteq requests[s].todo
    BY <1>4
  <2> QED
    BY <1>2, <1>4, <2>1, <2>4, <2>5, QuietStep DEF BlobInv, WaitersHaveReaders
<1>5. ASSUME NEW r \in Requests, NEW k \in Keys, NEW b \in Blobs,
             NEW onlyIf \in Conditions, StartPut(r, k, onlyIf, b)
      PROVE  BlobInv'
  <2> DEFINE q == [Idle EXCEPT !.op = "put", !.key = k, !.blob = b, !.onlyIf = onlyIf]
  <2>1. q \in RequestStates /\ q.op = "put" /\ q.blob = b /\ q.todo = {}
    BY BucketAssumption DEF Idle, RequestStates, Ops
  <2>2. requests' = [requests EXCEPT ![r] = q]
    BY <1>5 DEF StartPut
  <2> HIDE DEF q
  <2>3. requests'[r] = q /\ \A s \in Requests : s # r => requests'[s] = requests[s]
    BY <1>1, <2>1, <2>2, StartsRequest
  <2>4. Writing(r)'
    BY <2>1, <2>3 DEF Writing
  <2> QED
    BY <1>4, <1>5, <2>1, <2>3, <2>4 DEF StartPut
<1>6. ASSUME NEW r \in Requests, NEW k \in Keys, NEW b \in Blobs,
             NEW u \in Uploads, NEW n \in PartNumbers, StartUploadPart(r, u, k, n, b)
      PROVE  BlobInv'
  <2> DEFINE q == [Idle EXCEPT !.op = "part", !.key = k, !.blob = b, !.upload = u, !.part = n]
  <2>1. q \in RequestStates /\ q.op = "part" /\ q.blob = b /\ q.todo = {}
    BY BucketAssumption DEF Idle, RequestStates, Ops
  <2>2. requests' = [requests EXCEPT ![r] = q]
    BY <1>6 DEF StartUploadPart
  <2> HIDE DEF q
  <2>3. requests'[r] = q /\ \A s \in Requests : s # r => requests'[s] = requests[s]
    BY <1>1, <2>1, <2>2, StartsRequest
  <2>4. Writing(r)'
    BY <2>1, <2>3 DEF Writing
  <2> QED
    BY <1>4, <1>6, <2>1, <2>3, <2>4 DEF StartUploadPart
<1>7. ASSUME NEW r \in Requests, requests' = [requests EXCEPT ![r] = Idle]
      PROVE  /\ \A s \in Requests : Writing(s)' =>
                  Writing(s) /\ requests'[s].blob = requests[s].blob /\ s # r
             /\ requests'[r].todo = {}
             /\ \A s \in Requests : s # r => requests'[s] = requests[s]
             /\ requests[r].op # "stream" =>
                  \A s \in Requests : requests'[s].todo = requests[s].todo
  BY <1>1, <1>7, EndsRequest DEF Writing
<1>8. ASSUME NEW r \in Requests, Writing(r), requests' = [requests EXCEPT ![r] = Idle]
      PROVE  /\ \A s \in Requests : Writing(s)' =>
                  /\ Writing(s) /\ requests'[s].blob = requests[s].blob
                  /\ requests[s].blob \notin {requests[r].blob}
             /\ \A s \in Requests : requests'[s].todo = requests[s].todo
  BY <1>3, <1>7, <1>8 DEF Writing
<1>9. ASSUME NEW r \in Requests, InvalidPut(r)
      PROVE  BlobInv'
  <2> DEFINE b == requests[r].blob
  <2>1. Writing(r) /\ requests' = [requests EXCEPT ![r] = Idle]
    BY <1>9 DEF InvalidPut, Writing
  <2>2. RowsInv' /\ Referenced' = Referenced
    BY <1>1, <1>9, SameRows DEF InvalidPut
  <2>3. Known' = Known \cup {b} /\ {b} \subseteq used /\ used' = used
    BY <1>3, <1>9, <2>1, <2>2 DEF InvalidPut, Known
  <2>4. WritesOwnBlobs'
    BY <1>8, <2>1, <2>3, WritersStep
  <2> QED
    BY <1>2, <1>8, <1>9, <2>1, <2>2, <2>3, <2>4, QuietStep
    DEF InvalidPut, BlobInv, WaitersHaveReaders
<1>10. ASSUME NEW r \in Requests, FinishPut(r)
       PROVE  BlobInv'
  <2> DEFINE k == requests[r].key
             b == requests[r].blob
             onlyIf == requests[r].onlyIf
  <2>1. Writing(r) /\ requests' = [requests EXCEPT ![r] = Idle] /\ k \in Keys
    BY <1>1, <1>10 DEF FinishPut, Writing, TypeInv, RequestsTyped
  <2>2. b \in used \ Known /\ b \in Blobs /\ b \notin Referenced
    BY <1>3, <2>1
  <2>3. /\ \A s \in Requests : Writing(s)' =>
              /\ Writing(s) /\ requests'[s].blob = requests[s].blob
              /\ requests[s].blob \notin {b}
        /\ \A s \in Requests : requests'[s].todo = requests[s].todo
    BY <1>8, <2>1
  <2>4. store' = store \cup {b} /\ UNCHANGED <<uploads, used, inUse, leaked>>
    BY <1>10 DEF FinishPut
  <2>5. CASE ConditionHolds(k, onlyIf)
    <3>1. /\ objects' = [objects EXCEPT ![k] = b] /\ parts' = PartsWithout(k)
          /\ BackgroundDelete(BlobsOf(k))
      BY <1>10, <2>5 DEF FinishPut
    <3>2. /\ BlobsHaveOneOwner' /\ LinkedPartsFormObject'
          /\ Referenced' = (Referenced \ BlobsOf(k)) \cup ({b} \cap Blobs)
          /\ BlobsOf(k) \subseteq Referenced
      <4>1. b # Multipart
        BY <2>2, BucketAssumption
      <4> HIDE DEF k, b
      <4> QED
        BY <1>1, <2>1, <2>2, <2>4, <3>1, <4>1, ReplaceRow
    <3>3. RowsInv'
      BY <1>1, <3>2 DEF RowsInv
    <3>4. Referenced' = (Referenced \cup {b}) \ BlobsOf(k) /\ BlobsOf(k) \subseteq Blobs
      BY <1>2, <2>2, <3>2
    <3> QED
      BY <2>2, <2>3, <2>4, <3>1, <3>2, <3>3, <3>4, DeletingStep
  <2>6. CASE ~ConditionHolds(k, onlyIf)
    <3>1. UNCHANGED <<objects, parts>> /\ BackgroundDelete({b})
      BY <1>10, <2>6 DEF FinishPut
    <3>2. RowsInv' /\ Referenced' = Referenced
      BY <1>1, <2>4, <3>1, SameRows
    <3>3. Referenced' = (Referenced \cup {b}) \ {b}
      BY <2>2, <3>2
    <3> QED
      BY <2>2, <2>3, <2>4, <3>1, <3>2, <3>3, DeletingStep
  <2> QED
    BY <2>5, <2>6
<1>11. ASSUME NEW r \in Requests, FinishUploadPart(r)
       PROVE  BlobInv'
  <2> DEFINE u == requests[r].upload
             n == requests[r].part
             b == requests[r].blob
  <2>1. /\ Writing(r) /\ requests' = [requests EXCEPT ![r] = Idle]
        /\ u \in Uploads /\ n \in PartNumbers
    BY <1>1, <1>11 DEF FinishUploadPart, Writing, TypeInv, RequestsTyped
  <2>2. b \in used \ Known /\ b \in Blobs /\ b \notin Referenced
    BY <1>3, <2>1
  <2>3. /\ \A s \in Requests : Writing(s)' =>
              /\ Writing(s) /\ requests'[s].blob = requests[s].blob
              /\ requests[s].blob \notin {b}
        /\ \A s \in Requests : requests'[s].todo = requests[s].todo
    BY <1>8, <2>1
  <2>4. store' = store \cup {b} /\ UNCHANGED <<objects, uploads, used, inUse, leaked>>
    BY <1>11 DEF FinishUploadPart
  <2>5. CASE InProgress(u, requests[r].key)
    <3>1. parts' = PutPart(u, n, b) /\ BackgroundDelete(PartBlobs(u, {n}))
      BY <1>11, <2>5 DEF FinishUploadPart, PutPart
    <3>2. /\ BlobsHaveOneOwner' /\ LinkedPartsFormObject'
          /\ Referenced' = (Referenced \ PartBlobs(u, {n})) \cup {b}
          /\ PartBlobs(u, {n}) \subseteq Referenced
      <4> HIDE DEF u, n, b
      <4> QED
        BY <1>1, <2>1, <2>2, <2>4, <3>1, PutPartRow
    <3>3. RowsInv'
      BY <1>1, <3>2 DEF RowsInv
    <3>4. /\ Referenced' = (Referenced \cup {b}) \ PartBlobs(u, {n})
          /\ PartBlobs(u, {n}) \subseteq Blobs
      BY <1>2, <2>2, <3>2
    <3> QED
      BY <2>2, <2>3, <2>4, <3>1, <3>2, <3>3, <3>4, DeletingStep
  <2>6. CASE ~InProgress(u, requests[r].key)
    <3>1. UNCHANGED parts /\ BackgroundDelete({b})
      BY <1>11, <2>6 DEF FinishUploadPart
    <3>2. RowsInv' /\ Referenced' = Referenced
      BY <1>1, <2>4, <3>1, SameRows
    <3>3. Referenced' = (Referenced \cup {b}) \ {b}
      BY <2>2, <3>2
    <3> QED
      BY <2>2, <2>3, <2>4, <3>1, <3>2, <3>3, DeletingStep
  <2> QED
    BY <2>5, <2>6
<1>12. ASSUME RowsInv', NEW bs, bs \subseteq Referenced, BackgroundDelete(bs),
              Referenced' = Referenced \ bs,
              UNCHANGED <<store, used, inUse, requests, leaked>>
       PROVE  BlobInv'
  <2> DEFINE new == {}
  <2>1. /\ store' = store \cup new /\ Referenced' = (Referenced \cup new) \ bs
        /\ bs \in SUBSET Blobs /\ bs \subseteq Referenced \cup new
        /\ new \in SUBSET Blobs /\ new \subseteq used \ Known /\ \A b : b \notin new
    BY <1>2, <1>12
  <2>2. \A s \in Requests : Writing(s)' => Writing(s)
    BY <1>12 DEF Writing
  <2>3. \A s \in Requests : requests'[s] = requests[s]
    BY <1>12
  <2> HIDE DEF new
  <2> QED
    BY <1>12, <2>1, <2>2, <2>3, DeletingStep
<1>13. ASSUME NEW k \in Keys, Delete(k)
       PROVE  BlobInv'
  <2>1. NoBlob \notin Referenced /\ NoBlob # Multipart /\ {NoBlob} \cap Blobs = {}
    BY <1>2, BucketAssumption
  <2>2. /\ BlobsHaveOneOwner' /\ LinkedPartsFormObject'
        /\ Referenced' = (Referenced \ BlobsOf(k)) \cup ({NoBlob} \cap Blobs)
        /\ BlobsOf(k) \subseteq Referenced
    BY <1>1, <1>13, <2>1, ReplaceRow DEF Delete
  <2>3. RowsInv' /\ Referenced' = Referenced \ BlobsOf(k)
    BY <1>1, <2>1, <2>2 DEF RowsInv
  <2> QED
    BY <1>12, <1>13, <2>2, <2>3 DEF Delete
<1>14. ASSUME NEW u \in Uploads, NEW k \in Keys, AbortMultipartUpload(u, k)
       PROVE  BlobInv'
  <2>1. uploads[u].state = "inProgress"
    BY <1>14 DEF AbortMultipartUpload, InProgress
  <2>2. /\ BlobsHaveOneOwner' /\ LinkedPartsFormObject'
        /\ Referenced' = Referenced \ PartBlobs(u, PartNumbers)
        /\ PartBlobs(u, PartNumbers) \subseteq Referenced
    BY <1>1, <1>14, <2>1, AbortRows DEF AbortMultipartUpload
  <2>3. RowsInv'
    BY <1>1, <2>2 DEF RowsInv
  <2> QED
    BY <1>12, <1>14, <2>2, <2>3 DEF AbortMultipartUpload
<1>15. ASSUME NEW u \in Uploads, NEW k \in Keys, NEW ns \in SUBSET PartNumbers,
              CompleteMultipartUpload(u, k, ns)
       PROVE  BlobInv'
  <2>1. /\ BlobsHaveOneOwner' /\ LinkedPartsFormObject'
        /\ Referenced' = Referenced \ (BlobsOf(k) \cup PartBlobs(u, PartNumbers \ ns))
        /\ BlobsOf(k) \cup PartBlobs(u, PartNumbers \ ns) \subseteq Referenced
    BY <1>1, <1>15, CompleteRows DEF CompleteMultipartUpload
  <2>2. RowsInv'
    BY <1>1, <2>1 DEF RowsInv
  <2> QED
    BY <1>12, <1>15, <2>1, <2>2 DEF CompleteMultipartUpload
<1>16. ASSUME RowsInv', Referenced' = Referenced,
              UNCHANGED <<waiting, doomed, store, used, leaked>>,
              \A b \in waiting : inUse'[b] > 0,
              \A s \in Requests : Writing(s)' =>
                Writing(s) /\ requests'[s].blob = requests[s].blob,
              \A s \in Requests : requests'[s].todo \subseteq requests[s].todo \cup Referenced
       PROVE  BlobInv'
  <2>1. Known' = Known
    BY <1>16 DEF Known
  <2>2. WritesOwnBlobs'
    BY <1>16, <2>1, WritersStay
  <2> QED
    BY <1>2, <1>16, <2>2, QuietStep
<1>17. \A b \in waiting : inUse[b] > 0 /\ b \in Blobs /\ inUse[b] \in Nat
  BY <1>1 DEF BlobInv, WaitersHaveReaders, TypeOK
<1>18. ASSUME NEW u \in Uploads, NEW k \in Keys, CreateMultipartUpload(u, k)
       PROVE  BlobInv'
  <2>1. Referenced' = Referenced
    BY <1>18 DEF CreateMultipartUpload, Referenced, ObjectBlobs, UploadedBlobs, PartBlobs
  <2>2. BlobsHaveOneOwner'
    BY <1>1, <1>18
    DEF CreateMultipartUpload, RowsInv, BlobsHaveOneOwner, ObjectBlobs, UploadedBlobs, PartBlobs
  <2>3. LinkedPartsFormObject'
    <3>1. uploads[u].state = "none" /\ \A v \in Uploads : v # u => uploads'[v] = uploads[v]
      BY <1>1, <1>18 DEF CreateMultipartUpload, NoUpload, TypeOK
    <3>2. ASSUME NEW n \in PartNumbers, NEW l \in Keys, parts[u][n].key = l PROVE FALSE
      <4>1. LinkedPartsFormObject
        BY <1>1 DEF RowsInv
      <4>2. uploads[u] = [key |-> l, state |-> "completed"]
        BY <3>2, <4>1 DEF LinkedPartsFormObject
      <4> QED
        BY <3>1, <4>2
    <3> QED
      BY <1>1, <1>18, <3>1, <3>2 DEF CreateMultipartUpload, RowsInv, LinkedPartsFormObject
  <2>4. RowsInv'
    BY <1>1, <2>2, <2>3 DEF RowsInv
  <2> QED
    BY <1>16, <1>17, <1>18, <2>1, <2>4 DEF CreateMultipartUpload, Writing
<1>19. ASSUME NEW r \in Requests, NEW k \in Keys, StartGet(r, k)
       PROVE  BlobInv'
  <2> DEFINE q == [Idle EXCEPT !.op = "get", !.key = k, !.blob = objects[k]]
  <2>1. q \in RequestStates /\ q.op = "get" /\ q.todo = {}
    BY <1>19, BucketAssumption DEF Idle, RequestStates, Ops, StartGet
  <2>2. requests' = [requests EXCEPT ![r] = q]
    BY <1>19 DEF StartGet
  <2> HIDE DEF q
  <2>3. requests'[r] = q /\ \A s \in Requests : s # r => requests'[s] = requests[s]
    BY <1>1, <2>1, <2>2, StartsRequest
  <2>4. RowsInv' /\ Referenced' = Referenced
    BY <1>1, <1>19, SameRows DEF StartGet
  <2>5. /\ \A s \in Requests : Writing(s)' =>
              Writing(s) /\ requests'[s].blob = requests[s].blob
        /\ \A s \in Requests : requests'[s].todo \subseteq requests[s].todo
    BY <2>1, <2>3 DEF Writing
  <2> QED
    BY <1>16, <1>17, <1>19, <2>4, <2>5 DEF StartGet
<1>20. ASSUME NEW r \in Requests, FinishGet(r)
       PROVE  BlobInv'
  <2>1. RowsInv' /\ Referenced' = Referenced
    BY <1>1, <1>20, SameRows DEF FinishGet
  <2>2. /\ \A s \in Requests : Writing(s)' =>
              Writing(s) /\ requests'[s].blob = requests[s].blob
        /\ \A s \in Requests : requests'[s].todo = requests[s].todo
    BY <1>7, <1>20 DEF FinishGet
  <2> QED
    BY <1>16, <1>17, <1>20, <2>1, <2>2 DEF FinishGet
<1>21. ASSUME NEW r \in Requests, NEW k \in Keys, NEW bs \in SUBSET Blobs,
              StartStream(r, k, bs)
       PROVE  BlobInv'
  <2> DEFINE q == [Idle EXCEPT !.op = "stream", !.key = k, !.todo = bs]
  <2>1. q \in RequestStates /\ q.op = "stream" /\ q.todo = bs
    BY BucketAssumption DEF Idle, RequestStates, Ops
  <2>2. requests' = [requests EXCEPT ![r] = q]
    BY <1>21 DEF StartStream
  <2> HIDE DEF q
  <2>3. requests'[r] = q /\ \A s \in Requests : s # r => requests'[s] = requests[s]
    BY <1>1, <2>1, <2>2, StartsRequest
  <2>4. RowsInv' /\ Referenced' = Referenced
    BY <1>1, <1>21, SameRows DEF StartStream
  <2>5. bs \subseteq Referenced
    <3>1. bs \subseteq LinkedBlobs(k) /\ objects[k] = Multipart
      BY <1>21 DEF StartStream
    <3>2. ASSUME NEW b \in bs PROVE b \in Referenced
      <4>1. PICK u \in Uploads, n \in PartNumbers : parts[u][n] = [blob |-> b, key |-> k]
        BY <3>1 DEF LinkedBlobs
      <4>2. parts[u][n].blob = b
        BY <4>1
      <4> QED
        BY <4>2, ReferencedMeans
    <3> QED
      BY <3>2
  <2>6. /\ \A s \in Requests : Writing(s)' =>
              Writing(s) /\ requests'[s].blob = requests[s].blob
        /\ \A s \in Requests : requests'[s].todo \subseteq requests[s].todo \cup Referenced
    BY <2>1, <2>3, <2>5 DEF Writing
  <2>7. \A b \in waiting : inUse'[b] > 0
    BY <1>17, <1>21 DEF StartStream, Acquire
  <2> QED
    BY <1>16, <1>21, <2>4, <2>6, <2>7 DEF StartStream
<1>22. ASSUME NEW r \in Requests, NEW b \in Blobs, OpenPart(r, b)
       PROVE  BlobInv'
  <2>1. requests[r].op = "stream" /\ requests[r] \in RequestStates
    BY <1>1, <1>22 DEF OpenPart, TypeOK
  <2> DEFINE q == [requests[r] EXCEPT !.blob = b]
  <2>2. q \in RequestStates /\ q.op = "stream" /\ q.todo = requests[r].todo
    BY <2>1 DEF RequestStates
  <2>3. requests' = [requests EXCEPT ![r] = q]
    BY <1>22 DEF OpenPart
  <2> HIDE DEF q
  <2>4. requests'[r] = q /\ \A s \in Requests : s # r => requests'[s] = requests[s]
    BY <1>1, <2>2, <2>3, StartsRequest
  <2>5. RowsInv' /\ Referenced' = Referenced
    BY <1>1, <1>22, SameRows DEF OpenPart
  <2>6. /\ \A s \in Requests : Writing(s)' =>
              Writing(s) /\ requests'[s].blob = requests[s].blob
        /\ \A s \in Requests : requests'[s].todo \subseteq requests[s].todo
    BY <2>2, <2>4 DEF Writing
  <2> QED
    BY <1>16, <1>17, <1>22, <2>5, <2>6 DEF OpenPart
<1>23. ASSUME NEW r \in Requests, PartPiped(r)
       PROVE  BlobInv'
  <2> DEFINE b == requests[r].blob
  <2>1. b \in requests[r].todo /\ requests[r] \in RequestStates /\ requests[r].op = "stream"
    BY <1>1, <1>23 DEF PartPiped, TypeInv, TypeOK, RequestsTyped
  <2>2. /\ ~Writing(r)'
        /\ requests'[r].todo = requests[r].todo \ {b}
        /\ \A s \in Requests : s # r => requests'[s] = requests[s]
    <3>1. CASE requests[r].todo = {b}
      <4>1. requests' = [requests EXCEPT ![r] = Idle]
        BY <1>23, <3>1 DEF PartPiped
      <4> QED
        BY <1>7, <3>1, <4>1
    <3>2. CASE requests[r].todo # {b}
      <4> DEFINE q == [requests[r] EXCEPT !.blob = NoBlob, !.todo = @ \ {b}]
      <4>1. q \in RequestStates /\ q.op = "stream" /\ q.todo = requests[r].todo \ {b}
        BY <2>1 DEF RequestStates
      <4>2. requests' = [requests EXCEPT ![r] = q]
        BY <1>23, <3>2 DEF PartPiped
      <4> HIDE DEF q
      <4>3. requests'[r] = q /\ \A s \in Requests : s # r => requests'[s] = requests[s]
        BY <1>1, <4>1, <4>2, StartsRequest
      <4> QED
        BY <4>1, <4>3 DEF Writing
    <3> QED
      BY <3>1, <3>2
  <2>3. \A s \in Requests : Writing(s)' => Writing(s) /\ requests'[s].blob = requests[s].blob
    BY <2>2 DEF Writing
  <2>4. {b} \in SUBSET requests[r].todo /\ Release({b})
    BY <1>23, <2>1 DEF PartPiped
  <2>5. UNCHANGED <<objects, uploads, parts, store, used, leaked>>
    BY <1>23 DEF PartPiped
  <2> QED
    BY <1>1, <2>2, <2>3, <2>4, <2>5, ReleasingStep
<1>24. ASSUME NEW r \in Requests, StreamFails(r)
       PROVE  BlobInv'
  <2>1. /\ Release(requests[r].todo) /\ requests' = [requests EXCEPT ![r] = Idle]
        /\ UNCHANGED <<objects, uploads, parts, store, used, leaked>>
    BY <1>24 DEF StreamFails
  <2>2. requests'[r].todo = requests[r].todo \ requests[r].todo
    BY <1>7, <2>1
  <2> QED
    BY <1>1, <1>7, <2>1, <2>2, ReleasingStep
<1>25. ASSUME NEW b \in Blobs, DeleteBlob(b)
       PROVE  BlobInv'
  <2>1. RowsInv' /\ Referenced' = Referenced
    BY <1>1, <1>25, SameRows DEF DeleteBlob
  <2>2. Known' \subseteq Known /\ used' = used /\ requests' = requests
    BY <1>25, <2>1 DEF DeleteBlob, Known
  <2>3. \A s \in Requests : Writing(s)' => Writing(s)
    BY <2>2 DEF Writing
  <2>4. (Known \subseteq used)' /\ WritesOwnBlobs'
    BY <2>2, <2>3, WritersStay
  <2>5. NamedBlobsExist'
    BY <1>25, <2>1 DEF DeleteBlob, BlobInv, NamedBlobsExist
  <2>6. WaitersHaveReaders'
    BY <1>25 DEF DeleteBlob, BlobInv, WaitersHaveReaders
  <2>7. NoDanglingBlobs'
    BY <1>25, <2>1 DEF DeleteBlob, BlobInv, NoDanglingBlobs
  <2> QED
    BY <2>1, <2>4, <2>5, <2>6, <2>7 DEF BlobInv
<1>26. ASSUME NEW bs \in SUBSET Blobs, Crash(bs)
       PROVE  BlobInv'
  <2>1. RowsInv' /\ Referenced' = Referenced
    BY <1>1, <1>26, SameRows DEF Crash
  <2>2. bs \subseteq used
    BY <1>3, <1>26 DEF Crash, Writing
  <2>3. \A s \in Requests : ~Writing(s)' /\ requests'[s].todo = {}
    BY <1>26 DEF Crash, Idle, Writing
  <2>4. Known' \subseteq Known \cup bs /\ used' = used
    BY <1>26, <2>1 DEF Crash, Known
  <2>5. (Known \subseteq used)' /\ WritesOwnBlobs'
    BY <2>2, <2>3, <2>4, WritersStep
  <2>6. NamedBlobsExist'
    BY <1>26, <2>1, <2>3 DEF Crash, BlobInv, NamedBlobsExist
  <2>7. WaitersHaveReaders' /\ NoDanglingBlobs'
    BY <1>26, <2>1 DEF Crash, WaitersHaveReaders, NoDanglingBlobs
  <2> QED
    BY <2>1, <2>5, <2>6, <2>7 DEF BlobInv
<1>27. CASE UNCHANGED vars
  <2>1. RowsInv' /\ Referenced' = Referenced
    BY <1>1, <1>27, SameRows DEF vars
  <2> QED
    BY <1>16, <1>17, <1>27, <2>1 DEF vars, Writing
<1> QED
  BY <1>5, <1>6, <1>9, <1>10, <1>11, <1>13, <1>14, <1>15, <1>18, <1>19, <1>20, <1>21,
     <1>22, <1>23, <1>24, <1>25, <1>26, <1>27
  DEF Next, Start, Read, Proceed, Transact

LEMMA InitBlobInv == Init => BlobInv
<1> SUFFICES ASSUME Init PROVE BlobInv
  OBVIOUS
<1>1. TypeInv
  BY InitTypeInv
<1>2. NoBlob \notin Blobs /\ NoKey \notin Keys
  BY BucketAssumption
<1>3. ObjectBlobs = {} /\ UploadedBlobs = {}
  BY <1>2 DEF Init, ObjectBlobs, UploadedBlobs, PartBlobs, NoPart
<1>4. BlobsHaveOneOwner /\ LinkedPartsFormObject
  BY <1>2, <1>3 DEF Init, BlobsHaveOneOwner, LinkedPartsFormObject, NoPart
<1>5. Known = {}
  BY <1>3 DEF Init, Known, Referenced
<1>6. WritesOwnBlobs /\ NamedBlobsExist /\ WaitersHaveReaders /\ NoDanglingBlobs
  BY <1>3
  DEF Init, WritesOwnBlobs, Writing, NamedBlobsExist, WaitersHaveReaders, NoDanglingBlobs,
      Idle, Referenced
<1> QED
  BY <1>1, <1>4, <1>5, <1>6 DEF BlobInv, RowsInv

LEMMA BlobInvHolds == Spec => []BlobInv
BY InitBlobInv, BlobStep, PTL DEF Spec

(* No two rows ever share a blob, however puts, uploads, completions, deletions
   and crashes interleave. *)
THEOREM RowsShareNoBlob == Spec => []BlobsHaveOneOwner
<1>1. BlobInv => BlobsHaveOneOwner
  BY DEF BlobInv, RowsInv
<1> QED
  BY <1>1, BlobInvHolds, PTL

(* A multipart object is made of the parts of one completed upload of its
   key. *)
THEOREM ObjectsAreOneUpload == Spec => []LinkedPartsFormObject
<1>1. BlobInv => LinkedPartsFormObject
  BY DEF BlobInv, RowsInv
<1> QED
  BY <1>1, BlobInvHolds, PTL

(* Rows name blobs that are on disk and not to be deleted, and the parts that
   a multipart read needs stay on disk until it has read them. *)
THEOREM RowsNameStoredBlobs == Spec => []NamedBlobsExist
<1>1. BlobInv => NamedBlobsExist
  BY DEF BlobInv
<1> QED
  BY <1>1, BlobInvHolds, PTL

(* The wait groups count the readers of each blob, and a deletion that waits
   has a reader to wait for. *)
THEOREM ReadersAreCounted == Spec => []WaitGroupsCountReaders
<1>1. BlobInv => WaitGroupsCountReaders
  BY DEF BlobInv, RowsInv, TypeInv, ReadersCounted, Readers, WaitersHaveReaders,
         WaitGroupsCountReaders
<1> QED
  BY <1>1, BlobInvHolds, PTL

(* Only crashes and refused puts leave blobs behind that nothing will ever
   delete. *)
THEOREM NothingDangles == Spec => []NoDanglingBlobs
<1>1. BlobInv => NoDanglingBlobs
  BY DEF BlobInv
<1> QED
  BY <1>1, BlobInvHolds, PTL

-----------------------------------------------------------------------------
(* Conditional puts. *)

(* The ETag a key has now is one that no conditional put has spent. *)
Unspent == \A k \in Keys : EtagOf(k) \in unspent[k]

\* What a key's row is replaced by is what the history says.
LEMMA SwapStep ==
  ASSUME TypeOK, Unspent, NEW k \in Keys, NEW onlyIf, NEW tag, Swap(k, onlyIf, tag),
         NEW x, objects' = [objects EXCEPT ![k] = x],
         tag = IF x \in Blobs THEN Etag[x] ELSE x
  PROVE  Unspent'
<1>1. unspent'[k] = {t \in unspent[k] : ~AcceptsOnly(onlyIf, t)} \cup {tag}
  BY DEF TypeOK, Swap
<1>2. \A l \in Keys : l # k => unspent'[l] = unspent[l] /\ objects'[l] = objects[l]
  BY DEF TypeOK, Swap
<1>3. objects'[k] = x
  BY DEF TypeOK
<1> QED
  BY <1>1, <1>2, <1>3 DEF Unspent, EtagOf

LEMMA UnspentStep ==
  ASSUME TypeInv, Unspent, [Next]_vars
  PROVE  Unspent'
<1> USE DEF database, blobState, history
<1>1. TypeOK /\ NoBlob \notin Blobs /\ Multipart \notin Blobs
  BY BucketAssumption DEF TypeInv
<1>2. ASSUME UNCHANGED <<objects, unspent>>
      PROVE  Unspent'
  BY <1>2 DEF Unspent, EtagOf
<1>3. ASSUME NEW r \in Requests, FinishPut(r)
      PROVE  Unspent'
  <2>1. requests[r].key \in Keys /\ requests[r].blob \in Blobs
    BY <1>3 DEF FinishPut, TypeInv, RequestsTyped, Writing
  <2>2. CASE ConditionHolds(requests[r].key, requests[r].onlyIf)
    <3>1. /\ objects' = [objects EXCEPT ![requests[r].key] = requests[r].blob]
          /\ Swap(requests[r].key, requests[r].onlyIf, Etag[requests[r].blob])
      BY <1>3, <2>2 DEF FinishPut
    <3> QED
      BY <1>1, <2>1, <3>1, SwapStep
  <2>3. CASE ~ConditionHolds(requests[r].key, requests[r].onlyIf)
    BY <1>2, <1>3, <2>3 DEF FinishPut
  <2> QED
    BY <2>2, <2>3
<1>4. ASSUME NEW k \in Keys, Delete(k)
      PROVE  Unspent'
  BY <1>1, <1>4, SwapStep DEF Delete
<1>5. ASSUME NEW u \in Uploads, NEW k \in Keys, NEW ns \in SUBSET PartNumbers,
             CompleteMultipartUpload(u, k, ns)
      PROVE  Unspent'
  BY <1>1, <1>5, SwapStep DEF CompleteMultipartUpload
<1>6. ASSUME NEW r \in Requests, Start(r) \/ Read(r)
      PROVE  Unspent'
  BY <1>2, <1>6 DEF Start, Read, StartPut, StartUploadPart, StartGet, StartStream
<1>7. ASSUME NEW r \in Requests, FinishUploadPart(r) \/ FinishGet(r)
                                 \/ (\E b \in Blobs : OpenPart(r, b)) \/ PartPiped(r)
                                 \/ InvalidPut(r) \/ StreamFails(r)
      PROVE  Unspent'
  BY <1>2, <1>7 DEF FinishUploadPart, FinishGet, OpenPart, PartPiped, InvalidPut, StreamFails
<1>8. ASSUME NEW u \in Uploads, NEW k \in Keys,
              CreateMultipartUpload(u, k) \/ AbortMultipartUpload(u, k)
      PROVE  Unspent'
  BY <1>2, <1>8 DEF CreateMultipartUpload, AbortMultipartUpload
<1>9. ASSUME NEW b \in Blobs, DeleteBlob(b)
      PROVE  Unspent'
  BY <1>2, <1>9 DEF DeleteBlob
<1>10. ASSUME NEW bs \in SUBSET Blobs, Crash(bs)
       PROVE  Unspent'
  BY <1>2, <1>10 DEF Crash
<1>11. CASE UNCHANGED vars
  BY <1>2, <1>11 DEF vars
<1> QED
  BY <1>3, <1>4, <1>5, <1>6, <1>7, <1>8, <1>9, <1>10, <1>11
  DEF Next, Proceed, Transact

\* The put that comes to own key k's row is the one that commits.
LEMMA PutCommits ==
  ASSUME BlobInv, [Next]_vars, NEW r \in Requests, requests[r].op = "put",
         objects'[requests[r].key] = requests[r].blob
  PROVE  ConditionHolds(requests[r].key, requests[r].onlyIf)
<1> USE DEF database, blobState, history
<1>1. /\ TypeOK /\ requests[r].key \in Keys /\ requests[r].blob \in Blobs
      /\ NoBlob \notin Blobs /\ Multipart \notin Blobs
  BY BucketAssumption DEF BlobInv, RowsInv, TypeInv, RequestsTyped, Writing
<1>2. objects[requests[r].key] # requests[r].blob
  BY <1>1, ReferencedMeans DEF BlobInv, WritesOwnBlobs, Known, Writing
<1>3. objects'[requests[r].key] # objects[requests[r].key]
  BY <1>2
<1>4. \A k \in Keys : ~Delete(k)
  BY <1>1, <1>3 DEF Delete, TypeOK
<1>5. \A k \in Keys, u \in Uploads, ns \in SUBSET PartNumbers :
        ~CompleteMultipartUpload(u, k, ns)
  BY <1>1, <1>3 DEF CompleteMultipartUpload, TypeOK
<1>6. PICK s \in Requests : FinishPut(s)
  BY <1>3, <1>4, <1>5
  DEF Next, vars, Start, Read, Proceed, Transact, StartPut, StartUploadPart, StartGet,
      StartStream, FinishUploadPart, FinishGet, OpenPart, PartPiped, InvalidPut, StreamFails,
      CreateMultipartUpload, AbortMultipartUpload, DeleteBlob, Crash
<1>7. /\ ConditionHolds(requests[s].key, requests[s].onlyIf)
      /\ objects' = [objects EXCEPT ![requests[s].key] = requests[s].blob]
      /\ requests[s].op = "put"
  BY <1>3, <1>6 DEF FinishPut
<1>8. requests[s].blob = requests[r].blob
  BY <1>1, <1>3, <1>7 DEF TypeOK
<1>9. s = r
  BY <1>7, <1>8 DEF BlobInv, WritesOwnBlobs, Writing
<1> QED
  BY <1>7, <1>9

(* However many puts overlap and whatever values they write: between two that
   succeed on condition of the same ETag, the key came to have that ETag. *)
THEOREM CompareAndSwap == Spec => ConditionalPutsSwap
<1>1. Init => Unspent
  BY BucketAssumption DEF Init, Unspent, EtagOf
<1>2. BlobInv => TypeInv
  BY DEF BlobInv, RowsInv
<1>3. BlobInv /\ Unspent /\ [Next]_vars =>
        [\A r \in Requests : \A t \in Tags :
           /\ requests[r].op = "put"
           /\ objects'[requests[r].key] = requests[r].blob
           /\ AcceptsOnly(requests[r].onlyIf, t)
           => t \in unspent[requests[r].key]]_vars
  <2> SUFFICES ASSUME BlobInv, Unspent, [Next]_vars, NEW r \in Requests, NEW t \in Tags,
                      requests[r].op = "put",
                      objects'[requests[r].key] = requests[r].blob,
                      AcceptsOnly(requests[r].onlyIf, t)
               PROVE  t \in unspent[requests[r].key]
    OBVIOUS
  <2>1. Accepts(requests[r].onlyIf, EtagOf(requests[r].key))
    BY PutCommits DEF ConditionHolds
  <2>2. requests[r].key \in Keys /\ TypeOK
    BY <1>2 DEF TypeInv, RequestsTyped, Writing
  <2>3. EtagOf(requests[r].key) \in Tags
    BY <2>2, BucketAssumption DEF EtagOf, Tags, TypeOK
  <2>4. EtagOf(requests[r].key) = t
    BY <2>1, <2>3 DEF AcceptsOnly
  <2> QED
    BY <2>2, <2>4 DEF Unspent
<1> QED
  BY <1>1, <1>2, <1>3, InitBlobInv, BlobStep, UnspentStep, PTL DEF Spec, ConditionalPutsSwap

-----------------------------------------------------------------------------
(* Uploads in progress. *)

\* A step leaves the parts of an upload that stays in progress in place.
LEMMA PartsStay ==
  ASSUME RowsInv, [Next]_vars, NEW u \in Uploads, NEW n \in PartNumbers,
         uploads[u].state = "inProgress", uploads'[u].state = "inProgress",
         parts[u][n] # NoPart
  PROVE  parts'[u][n].blob \in Blobs /\ parts'[u][n].key = NoKey
<1> USE DEF database, blobState, history
<1>1. TypeInv /\ TypeOK /\ NoKey \notin Keys
  BY BucketAssumption DEF RowsInv, TypeInv
<1>2. parts[u][n].key = NoKey
  BY InProgressUnlinked
<1>3. parts[u][n].blob \in Blobs
  <2>1. parts[u][n] \in PartRows
    BY <1>1 DEF TypeOK
  <2> QED
    BY <1>2, <2>1 DEF PartRows, NoPart
<1>4. CASE parts'[u][n] = parts[u][n]
  BY <1>2, <1>3, <1>4
<1>5. ASSUME NEW k \in Keys PROVE PartsWithout(k)[u][n] = parts[u][n]
  BY <1>1, <1>2, PartsWithoutType
<1>6. ASSUME NEW r \in Requests, FinishPut(r)
      PROVE  parts'[u][n] = parts[u][n]
  <2>1. requests[r].key \in Keys
    BY <1>1, <1>6 DEF FinishPut, Writing, TypeInv, RequestsTyped
  <2> QED
    BY <1>5, <1>6, <2>1 DEF FinishPut
<1>7. ASSUME NEW k \in Keys, Delete(k)
      PROVE  parts'[u][n] = parts[u][n]
  BY <1>5, <1>7 DEF Delete
<1>8. ASSUME NEW r \in Requests, FinishUploadPart(r)
      PROVE  parts'[u][n].blob \in Blobs /\ parts'[u][n].key = NoKey
  <2> DEFINE v == requests[r].upload
             m == requests[r].part
             b == requests[r].blob
  <2>1. v \in Uploads /\ m \in PartNumbers /\ b \in Blobs
    BY <1>1, <1>8 DEF FinishUploadPart, Writing, TypeInv, RequestsTyped
  <2>2. parts' = parts \/ parts' = PutPart(v, m, b)
    BY <1>8 DEF FinishUploadPart, PutPart
  <2> HIDE DEF v, m, b
  <2>3. CASE parts' = PutPart(v, m, b)
    BY <1>1, <1>4, <2>1, <2>3, PutPartType
  <2> QED
    BY <1>4, <2>2, <2>3
<1>9. ASSUME NEW v \in Uploads, NEW k \in Keys, NEW ns \in SUBSET PartNumbers,
             CompleteMultipartUpload(v, k, ns)
      PROVE  parts'[u][n] = parts[u][n]
  <2>1. v # u
    BY <1>1, <1>9 DEF CompleteMultipartUpload, TypeOK, UploadRows
  <2> QED
    BY <1>1, <1>5, <1>9, <2>1, LinkPartsType DEF CompleteMultipartUpload
<1>10. ASSUME NEW v \in Uploads, NEW k \in Keys, AbortMultipartUpload(v, k)
       PROVE  parts'[u][n] = parts[u][n]
  <2>1. v # u
    BY <1>1, <1>10 DEF AbortMultipartUpload, TypeOK, UploadRows
  <2> QED
    BY <1>1, <1>10, <2>1 DEF AbortMultipartUpload, TypeOK
<1>11. CASE UNCHANGED parts
  BY <1>4, <1>11
<1> QED
  BY <1>4, <1>6, <1>7, <1>8, <1>9, <1>10, <1>11
  DEF Next, vars, Start, Read, Proceed, Transact, StartPut, StartUploadPart, StartGet,
      StartStream, FinishGet, OpenPart, PartPiped, InvalidPut, StreamFails,
      CreateMultipartUpload, DeleteBlob, Crash

(* put() and delete() never take a part of an upload in progress, nor does any
   other step while the upload stays in progress. *)
THEOREM UploadsKeepTheirParts == Spec => InProgressPartsStay
<1>1. RowsInv /\ [Next]_vars =>
        [\A u \in Uploads, n \in PartNumbers :
           uploads[u].state = "inProgress" /\ uploads'[u].state = "inProgress"
             /\ parts[u][n] # NoPart
           => parts'[u][n].blob \in Blobs /\ parts'[u][n].key = NoKey]_vars
  BY PartsStay
<1>2. BlobInv => RowsInv
  BY DEF BlobInv
<1> QED
  BY <1>1, <1>2, BlobInvHolds, PTL DEF Spec, InProgressPartsStay

=============================================================================
