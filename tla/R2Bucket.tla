------------------------------ MODULE R2Bucket ------------------------------
(***************************************************************************)
(* Miniflare's R2 simulator (packages/miniflare/src/workers/r2/            *)
(* bucket.worker.ts): a SQLite database of objects, multipart uploads and  *)
(* parts, beside a store of immutable blobs on disk.                       *)
(*                                                                         *)
(* A value is written to the blob store first and its id committed to the  *)
(* database afterwards; blobs no row names any more are deleted in the     *)
(* background.  Database transactions are atomic; every await of the blob  *)
(* store lets other requests run, so a request that writes or reads a blob *)
(* takes several steps.  A microtask runs with the step that queued it.    *)
(*                                                                         *)
(* Blob ids are random, so every put takes a fresh one.  A part's ETag is  *)
(* as random as its blob's id, which stands for it; an object's ETag is    *)
(* the hash of its value, so blobs that hold the same value give objects   *)
(* of the same ETag.  Requests that are refused before they change         *)
(* anything take no step.                                                  *)
(***************************************************************************)
EXTENDS Naturals, FiniteSets

CONSTANTS
  Keys, Uploads, PartNumbers,
  Blobs,              \* blob ids (bounds the number of values written)
  Requests,           \* requests that await the blob store at the same time
  Size,               \* size of the value written as each blob
  Etags, Etag,        \* MD5 digests; Etag[b]: that of the value written as b
  Conditions,         \* the onlyIf options of puts, NoCondition for none
  MinPartSize,        \* minPartSize of completeMultipartUpload
  NoKey, NoBlob,      \* SQL's NULL and JavaScript's undefined
  Multipart,          \* the NULL blob_id of a multipart object's row, and the
                      \* ETag of such objects, which no single value has
  StickyBlobs,        \* is BlobStore told not to delete blobs?
  BadPuts,            \* may a put fail validation once its blob is stored?
  CanCrash            \* may the process stop and start again?

\* An object's ETag, or NoBlob where there is no object.
Tags == Etags \cup {Multipart, NoBlob}

NoCondition == [etagMatches |-> NoBlob, etagDoesNotMatch |-> {}]

\* _testR2Conditional without dates: may a put with options onlyIf replace an
\* object with ETag tag?  A wildcard is the set of all ETags.
Accepts(onlyIf, tag) ==
  /\ onlyIf.etagMatches # NoBlob => tag \in onlyIf.etagMatches
  /\ tag \notin onlyIf.etagDoesNotMatch

AcceptsOnly(onlyIf, tag) == \A t \in Tags : Accepts(onlyIf, t) <=> t = tag

ASSUME BucketAssumption ==
  /\ PartNumbers \subseteq Nat
  /\ IsFiniteSet(Requests)
  /\ Size \in [Blobs -> Nat]
  /\ Etag \in [Blobs -> Etags]
  /\ Etags \cap {Multipart, NoBlob} = {}
  /\ NoCondition \in Conditions
  /\ MinPartSize \in Nat
  /\ NoKey \notin Keys
  /\ NoBlob \notin Blobs
  /\ Multipart \notin Blobs \cup {NoBlob}
  /\ {StickyBlobs, BadPuts, CanCrash} \subseteq BOOLEAN

VARIABLES
  objects,   \* objects[k]: blob_id of key k's row, NoBlob if it has no row
  uploads,   \* uploads[u]: row of _mf_multipart_uploads
  parts,     \* parts[u][n]: row of _mf_multipart_parts
  store,     \* the blobs on disk
  used,      \* the blob ids generated so far
  inUse,     \* inUse[b]: counter of b's wait group in #inUseBlobs
  waiting,   \* background deletions waiting for a wait group
  doomed,    \* background deletions sent to the blob store
  requests,  \* requests[r]: the request's local variables
  unspent,   \* unspent[k]: the ETags that key k has come to have (NoBlob: no
             \* object) since a put that accepts that ETag alone last
             \* succeeded (history)
  leaked     \* blobs left behind by a refused put or a crash (history)

vars == <<objects, uploads, parts, store, used, inUse, waiting, doomed,
          requests, unspent, leaked>>

history == <<unspent, leaked>>
database == <<objects, uploads, parts>>
blobState == <<store, inUse, waiting, doomed>>

-----------------------------------------------------------------------------
NoUpload == [key |-> NoKey, state |-> "none"]
NoPart == [blob |-> NoBlob, key |-> NoKey]
States == {"none", "inProgress", "completed", "aborted"}

UploadRows == [key : Keys \cup {NoKey}, state : States]
PartRows == [blob : Blobs \cup {NoBlob}, key : Keys \cup {NoKey}]

Ops == {"idle", "put", "part", "get", "stream"}

Idle == [op |-> "idle", key |-> NoKey, blob |-> NoBlob, onlyIf |-> NoCondition,
         upload |-> NoKey, part |-> 0, todo |-> {}]

RequestStates ==
  [op : Ops, key : Keys \cup {NoKey}, blob : Blobs \cup {NoBlob},
   onlyIf : Conditions, upload : Uploads \cup {NoKey},
   part : PartNumbers \cup {0}, todo : SUBSET Blobs]

Init ==
  /\ objects = [k \in Keys |-> NoBlob]
  /\ uploads = [u \in Uploads |-> NoUpload]
  /\ parts = [u \in Uploads |-> [n \in PartNumbers |-> NoPart]]
  /\ store = {}
  /\ used = {}
  /\ inUse = [b \in Blobs |-> 0]
  /\ waiting = {}
  /\ doomed = {}
  /\ requests = [r \in Requests |-> Idle]
  /\ unspent = [k \in Keys |-> {NoBlob}]
  /\ leaked = {}

-----------------------------------------------------------------------------
(* Blob bookkeeping. *)

\* Mutant: the wait group is not consulted.
BackgroundDelete_NoWait(bs) == doomed' = doomed \cup bs /\ UNCHANGED waiting

\* #backgroundDelete: wait for the blob's wait group, if it has one.
BackgroundDelete(bs) ==
  /\ waiting' = waiting \cup {b \in bs : inUse[b] > 0}
  /\ doomed' = doomed \cup {b \in bs : inUse[b] = 0}

\* #acquireBlob
Acquire(bs) == inUse' = [b \in Blobs |-> IF b \in bs THEN inUse[b] + 1 ELSE inUse[b]]

\* #releaseBlob: the last user's release lets a waiting deletion go on.
Release(bs) ==
  LET freed == {b \in bs : inUse[b] = 1}
  IN  /\ inUse' = [b \in Blobs |-> IF b \in bs THEN inUse[b] - 1 ELSE inUse[b]]
      /\ waiting' = waiting \ freed
      /\ doomed' = doomed \cup (waiting \cap freed)

\* BlobStore.delete reaches the disk.
DeleteBlob(b) ==
  /\ b \in doomed
  /\ doomed' = doomed \ {b}
  /\ store' = IF StickyBlobs THEN store ELSE store \ {b}
  /\ UNCHANGED <<objects, uploads, parts, used, inUse, waiting, requests, history>>

-----------------------------------------------------------------------------
(* Database statements. *)

\* stmtListPartsByKey and stmtDeletePartsByKey: the part rows linked to key k.
LinkedBlobs(k) == {b \in Blobs : \E u \in Uploads, n \in PartNumbers :
                                   parts[u][n] = [blob |-> b, key |-> k]}

\* Mutant: the rows are selected by the key of their upload.
Unlinked_ByUpload(k) == [u \in Uploads |-> [n \in PartNumbers |->
                           IF uploads[u].key = k THEN NoPart ELSE parts[u][n]]]

Unlinked(k) == [u \in Uploads |-> [n \in PartNumbers |->
                  IF parts[u][n].key = k THEN NoPart ELSE parts[u][n]]]

\* The blobs of upload u's parts numbered ns.
PartBlobs(u, ns) == {parts[u][n].blob : n \in ns} \ {NoBlob}

\* Mutant: a multipart row's NULL blob_id is taken for no blob at all.
BlobsOf_IgnoresParts(k) == {objects[k]} \cap Blobs

\* What key k's row refers to, to be deleted when the row goes.
BlobsOf(k) == CASE objects[k] = NoBlob -> {}
                [] objects[k] = Multipart -> LinkedBlobs(k)
                [] OTHER -> {objects[k]}

\* Part rows once key k's row is replaced or deleted.
PartsWithout(k) == IF objects[k] = Multipart THEN Unlinked(k) ELSE parts

\* The ETag of key k's object.
EtagOf(k) == IF objects[k] \in Blobs THEN Etag[objects[k]] ELSE objects[k]

\* Mutant: any object satisfies etagMatches.
ConditionHolds_AnyObject(k, onlyIf) == Accepts(onlyIf, EtagOf(k)) \/ objects[k] # NoBlob

\* validate.condition
ConditionHolds(k, onlyIf) == Accepts(onlyIf, EtagOf(k))

\* The history once key k comes to have ETag tag, by a put with options onlyIf.
Swap(k, onlyIf, tag) ==
  unspent' = [unspent EXCEPT ![k] = {t \in @ : ~AcceptsOnly(onlyIf, t)} \cup {tag}]

-----------------------------------------------------------------------------
(* Single values. *)

\* Mutant: a blob id may be generated twice.
StartPut_ReusesId(r, k, onlyIf, b) ==
  /\ requests[r] = Idle
  /\ used' = used \cup {b}
  /\ requests' = [requests EXCEPT ![r] = [Idle EXCEPT !.op = "put", !.key = k,
                                                      !.blob = b, !.onlyIf = onlyIf]]
  /\ UNCHANGED <<database, blobState, history>>

\* #put, until the value is stored as a fresh blob.
StartPut(r, k, onlyIf, b) ==
  /\ requests[r] = Idle
  /\ b \notin used
  /\ used' = used \cup {b}
  /\ requests' = [requests EXCEPT ![r] = [Idle EXCEPT !.op = "put", !.key = k,
                                                      !.blob = b, !.onlyIf = onlyIf]]
  /\ UNCHANGED <<database, blobState, history>>

\* validate rejects the key, size, metadata or digest: #put throws, and the
\* blob it stored stays.
InvalidPut(r) ==
  /\ BadPuts
  /\ requests[r].op = "put"
  /\ store' = store \cup {requests[r].blob}
  /\ leaked' = leaked \cup {requests[r].blob}
  /\ requests' = [requests EXCEPT ![r] = Idle]
  /\ UNCHANGED <<database, used, inUse, waiting, doomed, unspent>>

\* #stmts.put commits or fails its condition.
FinishPut(r) ==
  LET k == requests[r].key
      b == requests[r].blob
      onlyIf == requests[r].onlyIf
  IN  /\ requests[r].op = "put"
      /\ store' = store \cup {b}
      /\ \/ /\ ConditionHolds(k, onlyIf)
            /\ objects' = [objects EXCEPT ![k] = b]
            /\ parts' = PartsWithout(k)
            /\ BackgroundDelete(BlobsOf(k))
            /\ Swap(k, onlyIf, Etag[b])
         \/ /\ ~ConditionHolds(k, onlyIf)
            /\ BackgroundDelete({b})
            /\ UNCHANGED <<objects, parts, unspent>>
      /\ requests' = [requests EXCEPT ![r] = Idle]
      /\ UNCHANGED <<uploads, used, inUse, leaked>>

\* #delete of one key (deleteByKeys does so for each key of its list).
Delete(k) ==
  /\ objects[k] # NoBlob
  /\ objects' = [objects EXCEPT ![k] = NoBlob]
  /\ parts' = PartsWithout(k)
  /\ BackgroundDelete(BlobsOf(k))
  /\ Swap(k, NoCondition, NoBlob)
  /\ UNCHANGED <<uploads, store, used, inUse, requests, leaked>>

-----------------------------------------------------------------------------
(* Multipart uploads. *)

\* #createMultipartUpload
CreateMultipartUpload(u, k) ==
  /\ uploads[u] = NoUpload
  /\ uploads' = [uploads EXCEPT ![u] = [key |-> k, state |-> "inProgress"]]
  /\ UNCHANGED <<objects, parts, blobState, used, requests, history>>

\* #uploadPart, until the part is stored as a fresh blob.
StartUploadPart(r, u, k, n, b) ==
  /\ requests[r] = Idle
  /\ b \notin used
  /\ used' = used \cup {b}
  /\ requests' = [requests EXCEPT ![r] = [Idle EXCEPT !.op = "part", !.key = k,
                                         !.blob = b, !.upload = u, !.part = n]]
  /\ UNCHANGED <<database, blobState, history>>

\* Mutant: the upload's key is not compared.
InProgress_AnyKey(u, k) == uploads[u].state = "inProgress"

InProgress(u, k) == uploads[u] = [key |-> k, state |-> "inProgress"]

\* #stmts.putPart: NoSuchUpload, or upsert the part and drop its old blob.
FinishUploadPart(r) ==
  LET u == requests[r].upload
      n == requests[r].part
      b == requests[r].blob
  IN  /\ requests[r].op = "part"
      /\ store' = store \cup {b}
      /\ \/ /\ InProgress(u, requests[r].key)
            /\ parts' = [parts EXCEPT ![u][n] = [blob |-> b, key |-> NoKey]]
            /\ BackgroundDelete(PartBlobs(u, {n}))
         \/ /\ ~InProgress(u, requests[r].key)
            /\ BackgroundDelete({b})
            /\ UNCHANGED parts
      /\ requests' = [requests EXCEPT ![r] = Idle]
      /\ UNCHANGED <<objects, uploads, used, inUse, history>>

(* The size rules of completeMultipartUpload for the parts numbered ns of upload
   u, the one numbered last being the last argument: all parts but the last
   have the minimum size and the same size, and the last is not larger. *)
ValidSizes(u, ns, last) ==
  LET size(n) == Size[parts[u][n].blob]
      final(n) == \A m \in ns : m <= n
  IN  /\ \A n \in ns : n # last => size(n) >= MinPartSize
      /\ \A n \in ns : ~final(n) => size(n) >= MinPartSize
      /\ \A n, m \in ns : ~final(n) => IF final(m) THEN size(m) <= size(n)
                                                   ELSE size(m) = size(n)

\* Part rows of u once the parts ns belong to k and all others are deleted.
LinkParts(u, k, ns) ==
  [PartsWithout(k) EXCEPT
     ![u] = [n \in PartNumbers |-> IF n \in ns
                                   THEN [blob |-> parts[u][n].blob, key |-> k]
                                   ELSE NoPart]]

\* #completeMultipartUpload with the parts ns, their ETags being current.
CompleteMultipartUpload(u, k, ns) ==
  /\ InProgress(u, k)
  /\ \A n \in ns : parts[u][n] # NoPart
  /\ ns = {} \/ \E last \in ns : ValidSizes(u, ns, last)
  /\ objects' = [objects EXCEPT ![k] = Multipart]
  /\ parts' = LinkParts(u, k, ns)
  /\ uploads' = [uploads EXCEPT ![u].state = "completed"]
  /\ BackgroundDelete(BlobsOf(k) \cup PartBlobs(u, PartNumbers \ ns))
  /\ Swap(k, NoCondition, Multipart)
  /\ UNCHANGED <<store, used, inUse, requests, leaked>>

\* #abortMultipartUpload of an upload that is not finalised.
AbortMultipartUpload(u, k) ==
  /\ InProgress(u, k)
  /\ parts' = [parts EXCEPT ![u] = [n \in PartNumbers |-> NoPart]]
  /\ uploads' = [uploads EXCEPT ![u].state = "aborted"]
  /\ BackgroundDelete(PartBlobs(u, PartNumbers))
  /\ UNCHANGED <<objects, store, used, inUse, requests, history>>

-----------------------------------------------------------------------------
(* Reads.  #head and #list read rows only and change nothing. *)

\* #get of a single value, until the blob store answers.
StartGet(r, k) ==
  /\ requests[r] = Idle
  /\ objects[k] \in Blobs
  /\ requests' = [requests EXCEPT ![r] = [Idle EXCEPT !.op = "get", !.key = k,
                                                      !.blob = objects[k]]]
  /\ UNCHANGED <<database, blobState, used, history>>

\* The blob is opened, or gone and reported as NoSuchKey.
FinishGet(r) ==
  /\ requests[r].op = "get"
  /\ requests' = [requests EXCEPT ![r] = Idle]
  /\ UNCHANGED <<database, blobState, used, history>>

\* #get of a multipart object: acquire the parts bs that the range overlaps.
StartStream(r, k, bs) ==
  /\ requests[r] = Idle
  /\ objects[k] = Multipart
  /\ bs # {}
  /\ bs \subseteq LinkedBlobs(k)
  /\ Acquire(bs)
  /\ requests' = [requests EXCEPT ![r] = [Idle EXCEPT !.op = "stream", !.key = k,
                                                      !.todo = bs]]
  /\ UNCHANGED <<database, store, waiting, doomed, used, history>>

\* The next part is opened (parts are read in order; any order will do here).
OpenPart(r, b) ==
  /\ requests[r].op = "stream"
  /\ requests[r].blob = NoBlob
  /\ b \in requests[r].todo \cap store
  /\ requests' = [requests EXCEPT ![r].blob = b]
  /\ UNCHANGED <<database, blobState, used, history>>

\* The part has been streamed and is released; after the last, so is r.
PartPiped(r) ==
  LET b == requests[r].blob
  IN  /\ requests[r].op = "stream"
      /\ b # NoBlob
      /\ Release({b})
      /\ requests' = [requests EXCEPT ![r] =
                        IF requests[r].todo = {b} THEN Idle
                        ELSE [requests[r] EXCEPT !.blob = NoBlob, !.todo = @ \ {b}]]
      /\ UNCHANGED <<database, store, used, history>>

\* Mutant: no finally block.
StreamFails_NoRelease(r) ==
  /\ requests[r].op = "stream"
  /\ requests' = [requests EXCEPT ![r] = Idle]
  /\ UNCHANGED <<database, blobState, used, history>>

\* A part is missing, or the stream fails: the finally block releases the rest.
StreamFails(r) ==
  /\ requests[r].op = "stream"
  /\ Release(requests[r].todo)
  /\ requests' = [requests EXCEPT ![r] = Idle]
  /\ UNCHANGED <<database, store, used, history>>

-----------------------------------------------------------------------------
\* The blobs that rows of the database name.
ObjectBlobs == {objects[k] : k \in Keys} \cap Blobs
UploadedBlobs == UNION {PartBlobs(u, PartNumbers) : u \in Uploads}
Referenced == ObjectBlobs \cup UploadedBlobs

\* The process stops and starts again: memory is lost, disk and database stay.
\* Of the values being written, those in bs had reached the disk.
Crash(bs) ==
  /\ CanCrash
  /\ bs \subseteq {requests[r].blob :
                     r \in {s \in Requests : requests[s].op \in {"put", "part"}}}
  /\ store' = store \cup bs
  /\ inUse' = [b \in Blobs |-> 0]
  /\ waiting' = {}
  /\ doomed' = {}
  /\ requests' = [r \in Requests |-> Idle]
  /\ leaked' = leaked \cup ((store \cup bs) \ Referenced)
  /\ UNCHANGED <<database, used, unspent>>

Start(r) == \E k \in Keys, b \in Blobs :
              \/ \E onlyIf \in Conditions : StartPut(r, k, onlyIf, b)
              \/ \E u \in Uploads, n \in PartNumbers : StartUploadPart(r, u, k, n, b)

Read(r) == \E k \in Keys : \/ StartGet(r, k)
                           \/ \E bs \in SUBSET Blobs : StartStream(r, k, bs)

Proceed(r) == \/ FinishPut(r)
              \/ FinishUploadPart(r)
              \/ FinishGet(r)
              \/ \E b \in Blobs : OpenPart(r, b)
              \/ PartPiped(r)

Transact == \E k \in Keys :
              \/ Delete(k)
              \/ \E u \in Uploads :
                   \/ CreateMultipartUpload(u, k)
                   \/ AbortMultipartUpload(u, k)
                   \/ \E ns \in SUBSET PartNumbers : CompleteMultipartUpload(u, k, ns)

Next ==
  \/ \E r \in Requests : Start(r) \/ Read(r) \/ Proceed(r)
  \/ \E r \in Requests : InvalidPut(r) \/ StreamFails(r)
  \/ Transact
  \/ \E b \in Blobs : DeleteBlob(b)
  \/ \E bs \in SUBSET Blobs : Crash(bs)

Spec == Init /\ [][Next]_vars

-----------------------------------------------------------------------------
\* Type correctness.
TypeOK ==
  /\ objects \in [Keys -> Blobs \cup {NoBlob, Multipart}]
  /\ uploads \in [Uploads -> UploadRows]
  /\ parts \in [Uploads -> [PartNumbers -> PartRows]]
  /\ store \subseteq Blobs
  /\ used \subseteq Blobs
  /\ inUse \in [Blobs -> Nat]
  /\ waiting \subseteq Blobs
  /\ doomed \subseteq Blobs
  /\ requests \in [Requests -> RequestStates]
  /\ unspent \in [Keys -> SUBSET Tags]
  /\ leaked \subseteq Blobs

(* A row never names a blob that is gone or about to go: the commit of a put,
   a part, a completion or a delete, and a crash between any two steps, keep
   the database and the blob store consistent.  And the parts a multipart read
   still needs are on disk, though the object may be overwritten or deleted
   meanwhile: the assertion "Expected to find blob for multipart value" never
   fails. *)
NamedBlobsExist ==
  /\ Referenced \subseteq store \ (waiting \cup doomed)
  /\ \A r \in Requests : requests[r].todo \subseteq store \ doomed

(* The wait groups count the reads: none is released early, twice or never, and
   a deletion that waits has a reader to wait for, whose release wakes it. *)
WaitGroupsCountReaders ==
  /\ \A b \in Blobs :
       inUse[b] = Cardinality({r \in Requests : b \in requests[r].todo})
  /\ \A b \in waiting : inUse[b] > 0

\* No two rows share a blob, so that deleting one row's blobs harms no other.
BlobsHaveOneOwner ==
  /\ \A k, l \in Keys : objects[k] = objects[l] /\ objects[k] \in Blobs => k = l
  /\ \A u, v \in Uploads : \A m, n \in PartNumbers :
       parts[u][m].blob = parts[v][n].blob /\ parts[u][m].blob # NoBlob
         => u = v /\ m = n
  /\ ObjectBlobs \cap UploadedBlobs = {}

(* Linked parts make up one object: all come from the one completed upload of
   that key, and the key's row is multipart.  #get, which reads the parts by
   key alone, never mixes two uploads nor reads one in progress. *)
LinkedPartsFormObject ==
  \A u \in Uploads, n \in PartNumbers : \A k \in Keys :
    parts[u][n].key = k =>
      /\ objects[k] = Multipart
      /\ uploads[u] = [key |-> k, state |-> "completed"]
      /\ \A v \in Uploads, m \in PartNumbers : parts[v][m].key = k => v = u

(* Compare-and-swap, over ETags that are hashes of values: between two puts to
   a key that succeed on condition of the same ETag, an object with that ETag
   was put there (with the same value, which may be the first one's own); and
   between two that succeed on condition that there is no object, it was
   deleted.  So of several callers who saw the same object and each put another
   value on condition of its ETag, one succeeds and none overwrites another
   unseen, though each put awaits the blob store before it commits. *)
ConditionalPutsSwap ==
  [][\A r \in Requests : \A t \in Tags :
       /\ requests[r].op = "put"
       /\ objects'[requests[r].key] = requests[r].blob
       /\ AcceptsOnly(requests[r].onlyIf, t)
       => t \in unspent[requests[r].key]]_vars

(* put() and delete() "will never delete parts for in-progress uploads": while
   an upload stays in progress its part numbers never become free again. *)
InProgressPartsStay ==
  [][\A u \in Uploads, n \in PartNumbers :
       uploads[u].state = "inProgress" /\ uploads'[u].state = "inProgress"
         /\ parts[u][n] # NoPart
       => parts'[u][n].blob \in Blobs /\ parts'[u][n].key = NoKey]_vars

(* Unless blobs are sticky, every blob on disk is named by a row, about to be
   deleted, or left behind by a crash or a put refused once its value was
   stored: "if we put a blob in the store, then fail to insert the blob ID into
   the SQLite database for some reason [...] we'll just background-delete the
   blob" holds of every other step, whatever other requests do between the
   two. *)
NoDanglingBlobs ==
  ~StickyBlobs => store \subseteq Referenced \cup waiting \cup doomed \cup leaked

=============================================================================
