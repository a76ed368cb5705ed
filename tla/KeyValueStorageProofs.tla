----------------------- MODULE KeyValueStorageProofs -----------------------
(***************************************************************************)
(* For any keys, blobs, page sizes, concurrent requests and listings:      *)
(* rows and blobs agree, only delete removes a live entry, and listings    *)
(* are ordered and complete.                                               *)
(***************************************************************************)
EXTENDS KeyValueStorage, TLAPS

-----------------------------------------------------------------------------
(* Rows and blobs. *)

RowsTyped ==
  /\ now \in Times
  /\ entries \in [Keys -> Entries]
  /\ used \subseteq Blobs
  /\ requests \in [Requests -> RequestStates]

\* No two rows share a blob.
RowsOwnBlobs ==
  \A k, l \in Keys : Present(k) /\ entries[k].blob = entries[l].blob => k = l

\* A put owns the blob that it writes, which is not on disk yet.
PutsOwnBlobs ==
  \A r \in Requests : requests[r].op = "put" =>
    /\ requests[r].key \in Keys
    /\ requests[r].blob \in used \ store
    /\ \A s \in Requests :
         requests[s].op = "put" /\ requests[s].blob = requests[r].blob => s = r

\* What is to be deleted, or was left, is on disk.
DiskInv ==
  /\ doomed \cup dangling \subseteq store /\ doomed \cap dangling = {}
  /\ store \subseteq used

(* What BlobsMatchRows rests on: a blob belongs to one row or to one put, or is
   on its way to deletion, and only once. *)
StoreInv ==
  /\ RowsTyped
  /\ RowsOwnBlobs
  /\ PutsOwnBlobs
  /\ DiskInv
  /\ BlobsMatchRows

\* A row's blob is on disk and is not to be deleted.
LEMMA RowBlobsStored ==
  ASSUME StoreInv, NEW k \in Keys, Present(k)
  PROVE  entries[k].blob \in store \ (doomed \cup dangling)
BY DEF StoreInv, DiskInv, BlobsMatchRows, Referenced, Present

\* Dropping the rows of the keys ks, all present, gives their blobs back.
LEMMA DropRowsStep ==
  ASSUME StoreInv, NEW ks \in SUBSET Keys, \A k \in ks : Present(k),
         DropRows(ks), UNCHANGED <<now, store, used, dangling, requests>>
  PROVE  StoreInv'
<1>1. RowsTyped'
  BY DEF StoreInv, DiskInv, RowsTyped, DropRows, NoEntry, Entries, Never
<1>2. \A k \in Keys : entries'[k] = IF k \in ks THEN NoEntry ELSE entries[k]
  BY DEF DropRows
<1>3. RowsOwnBlobs'
  BY <1>2 DEF StoreInv, DiskInv, RowsOwnBlobs, Present, NoEntry
<1>4. PutsOwnBlobs'
  BY DEF StoreInv, DiskInv, PutsOwnBlobs
<1>5. doomed' = doomed \cup {entries[k].blob : k \in ks}
  BY DEF DropRows, BackgroundDelete
<1>6. DiskInv'
  BY <1>5, RowBlobsStored DEF StoreInv, DiskInv
<1>7. BlobsMatchRows'
  <2>1. Referenced' = Referenced \ {entries[k].blob : k \in ks}
    BY <1>2 DEF Referenced, NoEntry, StoreInv, DiskInv, RowsOwnBlobs, Present
  <2> QED
    BY <2>1, <1>5 DEF StoreInv, DiskInv, BlobsMatchRows
<1> QED
  BY <1>1, <1>3, <1>4, <1>6, <1>7 DEF StoreInv, DiskInv

\* Every step keeps rows and blobs together.
LEMMA StoreStep ==
  ASSUME StoreInv, [Next]_vars
  PROVE  StoreInv'
<1>1. ASSUME NEW r \in Requests, NEW k \in Keys, NEW e \in Times \cup {Never},
             NEW b \in Blobs, StartPut(r, k, e, b)
      PROVE  StoreInv'
  <2>1. /\ requests'[r].op = "put" /\ requests'[r].key = k /\ requests'[r].blob = b
        /\ \A s \in Requests : s # r => requests'[s] = requests[s]
    BY <1>1 DEF StartPut, StoreInv, DiskInv, RowsTyped
  <2>2. RowsTyped'
    BY <1>1 DEF StartPut, StoreInv, DiskInv, RowsTyped, RequestStates
  <2>3. PutsOwnBlobs'
    BY <1>1, <2>1 DEF StartPut, StoreInv, DiskInv, PutsOwnBlobs
  <2>4. RowsOwnBlobs' /\ BlobsMatchRows' /\ DiskInv'
    BY <1>1 DEF StartPut, StoreInv, DiskInv, RowsOwnBlobs, BlobsMatchRows, Referenced, Present
  <2> QED
    BY <2>2, <2>3, <2>4 DEF StoreInv, DiskInv
<1>2. ASSUME NEW r \in Requests, NEW k \in Keys, StartGet(r, k)
      PROVE  StoreInv'
  <2>1. /\ requests'[r].op = "get"
        /\ \A s \in Requests : s # r => requests'[s] = requests[s]
    BY <1>2 DEF StartGet, StoreInv, DiskInv, RowsTyped, Idle
  <2>2. RowsTyped'
    BY <1>2 DEF StartGet, StoreInv, DiskInv, RowsTyped, RequestStates, Idle, Entries
  <2>3. PutsOwnBlobs'
    BY <1>2, <2>1 DEF StartGet, StoreInv, DiskInv, PutsOwnBlobs
  <2>4. RowsOwnBlobs' /\ BlobsMatchRows' /\ DiskInv'
    BY <1>2 DEF StartGet, StoreInv, DiskInv, RowsOwnBlobs, BlobsMatchRows, Referenced, Present
  <2> QED
    BY <2>2, <2>3, <2>4 DEF StoreInv, DiskInv
<1>3. ASSUME NEW r \in Requests, requests' = [requests EXCEPT ![r] = Idle]
      PROVE  /\ requests' \in [Requests -> RequestStates]
             /\ requests'[r].op = "idle"
             /\ \A s \in Requests : s # r => requests'[s] = requests[s]
  BY <1>3 DEF StoreInv, DiskInv, RowsTyped, RequestStates, Idle
<1>4. ASSUME NEW r \in Requests, AbortPut(r)
      PROVE  StoreInv'
  <2> DEFINE b == requests[r].blob
  <2>1. b \in used \ store
    BY <1>4 DEF AbortPut, StoreInv, DiskInv, PutsOwnBlobs
  <2>2. RowsTyped' /\ RowsOwnBlobs'
    BY <1>3, <1>4 DEF AbortPut, StoreInv, DiskInv, RowsTyped, RowsOwnBlobs, Present
  <2>3. PutsOwnBlobs'
    BY <1>3, <1>4 DEF AbortPut, StoreInv, DiskInv, PutsOwnBlobs
  <2>4. /\ store' = store \cup {b} /\ doomed' = doomed \cup {b} /\ used' = used
        /\ dangling' = dangling
    BY <1>4 DEF AbortPut, BackgroundDelete
  <2>5. BlobsMatchRows' /\ DiskInv'
    BY <1>4, <2>1, <2>4 DEF AbortPut, StoreInv, DiskInv, BlobsMatchRows, Referenced
  <2> QED
    BY <2>2, <2>3, <2>5 DEF StoreInv, DiskInv
<1>5. ASSUME NEW r \in Requests, FinishPut(r)
      PROVE  StoreInv'
  <2> DEFINE b == requests[r].blob
             k == requests[r].key
             old == entries[k].blob
  <2>1. b \in used \ store /\ k \in Keys /\ b \in Blobs
    BY <1>5 DEF FinishPut, StoreInv, DiskInv, PutsOwnBlobs, RowsTyped
  <2>2. /\ entries'[k].blob = b
        /\ \A l \in Keys : l # k => entries'[l] = entries[l]
    BY <1>5, <2>1 DEF FinishPut, StoreInv, DiskInv, RowsTyped
  <2>3. RowsTyped'
    BY <1>3, <1>5, <2>1 DEF FinishPut, StoreInv, DiskInv, RowsTyped, Entries, RequestStates
  <2>4. RowsOwnBlobs'
    BY <2>1, <2>2, RowBlobsStored DEF StoreInv, DiskInv, RowsOwnBlobs, Present
  <2>5. PutsOwnBlobs'
    BY <1>3, <1>5 DEF FinishPut, StoreInv, DiskInv, PutsOwnBlobs
  <2>6. /\ store' = store \cup {b} /\ doomed' = doomed \cup ({old} \ {NoBlob})
        /\ used' = used /\ dangling' = dangling
    BY <1>5 DEF FinishPut, BackgroundDelete
  <2>7. DiskInv'
    BY <2>1, <2>6, RowBlobsStored DEF StoreInv, DiskInv, Present
  <2>8. b # NoBlob /\ b # old /\ b \notin doomed \cup dangling
    BY <2>1, RowBlobsStored, StorageAssumption DEF StoreInv, DiskInv, Present
  <2>9. Referenced' = (Referenced \ {old}) \cup {b}
    <3>1. ASSUME NEW l \in Keys, l # k, Present(l)
          PROVE  entries[l].blob # old
      BY <3>1, <2>1 DEF StoreInv, DiskInv, RowsOwnBlobs
    <3> QED
      BY <2>1, <2>2, <2>8, <3>1 DEF Referenced, Present
  <2>10. BlobsMatchRows'
    BY <2>1, <2>6, <2>8, <2>9 DEF StoreInv, DiskInv, BlobsMatchRows, Referenced
  <2> QED
    BY <2>3, <2>4, <2>5, <2>7, <2>10 DEF StoreInv, DiskInv
<1>6. ASSUME NEW r \in Requests, FinishGet(r)
      PROVE  StoreInv'
  <2>1. PutsOwnBlobs'
    BY <1>3, <1>6 DEF FinishGet, StoreInv, DiskInv, PutsOwnBlobs
  <2>2. RowsTyped'
    BY <1>3, <1>6 DEF FinishGet, StoreInv, DiskInv, RowsTyped
  <2>3. RowsOwnBlobs' /\ BlobsMatchRows' /\ DiskInv'
    BY <1>6 DEF FinishGet, StoreInv, DiskInv, RowsOwnBlobs, BlobsMatchRows, Referenced, Present
  <2> QED
    BY <2>1, <2>2, <2>3 DEF StoreInv, DiskInv
<1>7. ASSUME NEW k \in Keys, GetExpired(k) \/ Delete(k)
      PROVE  StoreInv'
  BY <1>7, DropRowsStep DEF GetExpired, Delete
<1>8. ASSUME NEW l \in Listers, NEW rows, List(l, rows)
      PROVE  StoreInv'
  BY <1>8, DropRowsStep DEF List, Expired
<1>9. ASSUME NEW b \in Blobs, DeleteBlob(b) \/ DeleteBlobFails(b)
      PROVE  StoreInv'
  <2>1. /\ UNCHANGED <<now, entries, used, requests>>
        /\ b \in doomed /\ doomed' = doomed \ {b}
        /\ \/ store' = store \ {b} /\ dangling' = dangling
           \/ store' = store /\ dangling' = dangling \cup {b}
    BY <1>9 DEF DeleteBlob, DeleteBlobFails
  <2>2. RowsTyped' /\ RowsOwnBlobs' /\ PutsOwnBlobs'
    BY <2>1 DEF StoreInv, DiskInv, RowsTyped, RowsOwnBlobs, PutsOwnBlobs, Present
  <2>3. dangling \cap doomed = {}
    BY DEF StoreInv, DiskInv
  <2>4. BlobsMatchRows' /\ DiskInv'
    BY <2>1, <2>3 DEF StoreInv, DiskInv, BlobsMatchRows, Referenced
  <2> QED
    BY <2>2, <2>4 DEF StoreInv, DiskInv
<1>10. CASE Tick
  <2>1. now' \in Times /\ UNCHANGED <<entries, store, used, doomed, dangling, requests>>
    BY <1>10, StorageAssumption DEF Tick, StoreInv, DiskInv, RowsTyped, Times
  <2> QED
    BY <2>1
    DEF StoreInv, DiskInv, RowsTyped, RowsOwnBlobs, PutsOwnBlobs, BlobsMatchRows, Referenced, Present
<1>11. CASE UNCHANGED <<now, entries, store, used, doomed, dangling, requests>>
  BY <1>11
  DEF StoreInv, DiskInv, RowsTyped, RowsOwnBlobs, PutsOwnBlobs, BlobsMatchRows,
      Referenced, Present
<1>12. ASSUME NEW bs \in SUBSET Blobs, Crash(bs)
       PROVE  StoreInv'
  <2>1. /\ store' = store \cup bs /\ doomed' = {} /\ dangling' = UNION {dangling, doomed, bs}
        /\ UNCHANGED <<now, entries, used>>
        /\ requests' = [r \in Requests |-> Idle]
    BY <1>12 DEF Crash
  <2>2. bs \subseteq used \ store
    BY <1>12 DEF Crash, StoreInv, DiskInv, PutsOwnBlobs
  <2>3. RowsTyped' /\ RowsOwnBlobs' /\ PutsOwnBlobs'
    BY <2>1 DEF StoreInv, DiskInv, RowsTyped, RowsOwnBlobs, PutsOwnBlobs, Present, Idle, RequestStates
  <2>4. bs \cap Referenced = {}
    BY <2>2 DEF StoreInv, DiskInv, BlobsMatchRows
  <2>5. BlobsMatchRows' /\ DiskInv'
    BY <2>1, <2>2, <2>4 DEF StoreInv, DiskInv, BlobsMatchRows, Referenced
  <2> QED
    BY <2>3, <2>5 DEF StoreInv, DiskInv
<1> QED
  BY <1>1, <1>2, <1>4, <1>5, <1>6, <1>7, <1>8, <1>9, <1>10, <1>11, <1>12
  DEF Next, vars, Start, Finish, StartListing

LEMMA InitStoreInv == Init => StoreInv
BY StorageAssumption
DEF Init, StoreInv, DiskInv, RowsTyped, RowsOwnBlobs, PutsOwnBlobs, BlobsMatchRows, Referenced,
    Present, NoEntry, Entries, Idle, RequestStates, Times, Never

(* However puts, deletes, expirations and crashes overlap, the blobs on disk that
   are not to be deleted are exactly those the rows name and those that a failed
   deletion or a crash left. *)
THEOREM RowsAndBlobsAgree == Spec => []BlobsMatchRows
<1>1. StoreInv => BlobsMatchRows
  BY DEF StoreInv, DiskInv
<1> QED
  BY <1>1, InitStoreInv, StoreStep, PTL DEF Spec

-----------------------------------------------------------------------------
(* Garbage collection. *)

\* A step that takes a live entry away is its delete.
LEMMA RemovalStep ==
  ASSUME StoreInv, [Next]_vars, NEW k \in Keys, Live(k), ~Present(k)'
  PROVE  Delete(k)
<1>1. entries'[k] # entries[k]
  BY DEF Live, Present
<1>2. ASSUME NEW r \in Requests, FinishPut(r) PROVE FALSE
  <2>1. requests[r].blob \in Blobs /\ requests[r].key \in Keys
    BY <1>2 DEF FinishPut, StoreInv, DiskInv, PutsOwnBlobs, RowsTyped
  <2> QED
    BY <1>1, <1>2, <2>1, StorageAssumption DEF FinishPut, StoreInv, DiskInv, RowsTyped, Present
<1>3. ASSUME NEW l \in Keys, GetExpired(l) PROVE FALSE
  <2>1. k = l
    BY <1>1, <1>3 DEF GetExpired, DropRows
  <2> QED
    BY <1>3, <2>1 DEF GetExpired, Live
<1>4. ASSUME NEW l \in Keys, Delete(l) PROVE l = k
  BY <1>1, <1>4 DEF Delete, DropRows
<1>5. ASSUME NEW l \in Listers, NEW rows, List(l, rows) PROVE FALSE
  <2>1. entries[k].expiration < now
    BY <1>1, <1>5 DEF List, DropRows, Expired
  <2>2. entries[k].expiration \in Nat /\ now \in Nat /\ now < Never
    BY StorageAssumption DEF StoreInv, DiskInv, RowsTyped, Entries, Times, Never
  <2> QED
    BY <2>1, <2>2 DEF Live, HasExpired
<1> QED
  BY <1>1, <1>2, <1>3, <1>4, <1>5
  DEF Next, vars, Start, Finish, StartPut, StartGet, AbortPut, FinishGet, StartListing,
      DeleteBlob, DeleteBlobFails, Crash, Tick

(* The sweeps of get and list take expired entries only, whatever the clock and
   the expirations are. *)
THEOREM LiveEntriesStay == Spec => OnlyDeleteRemovesLive
<1>1. StoreInv /\ [Next]_vars => [\A k \in Keys : Live(k) /\ ~Present(k)' => Delete(k)]_vars
  BY RemovalStep
<1> QED
  BY <1>1, InitStoreInv, StoreStep, PTL DEF Spec, OnlyDeleteRemovesLive

-----------------------------------------------------------------------------
(* Listing. *)

(* What a listing has reached: every key up to its cursor that was there all
   along has been returned, and none beyond it. *)
ListingOK(listing) ==
  /\ listing \in Listings
  /\ Ascending(listing.seen)
  /\ listing.state = "paging" =>
       /\ listing.limit \in Limits
       /\ \A i \in DOMAIN listing.seen : listing.seen[i] <= listing.cursor
       /\ \A k \in listing.steady : k <= listing.cursor => k \in ToSet(listing.seen)
  /\ listing.state = "done" => listing.steady \subseteq ToSet(listing.seen)

ListingInv ==
  /\ listers \in [Listers -> Listings]
  /\ \A l \in Listers : ListingOK(listers[l])

\* A larger sequence after a smaller one keeps the order.
LEMMA AscendingConcat ==
  ASSUME NEW s \in Seq(Keys), NEW t \in Seq(Keys), Ascending(s), Ascending(t),
         \A i \in DOMAIN s, j \in DOMAIN t : s[i] < t[j]
  PROVE  /\ s \o t \in Seq(Keys)
         /\ Ascending(s \o t)
         /\ ToSet(s \o t) = ToSet(s) \cup ToSet(t)
<1> DEFINE st == s \o t
<1>1. st \in Seq(Keys) /\ Len(st) = Len(s) + Len(t)
  OBVIOUS
<1>2. \A i \in DOMAIN st : IF i <= Len(s) THEN st[i] = s[i] ELSE st[i] = t[i - Len(s)]
  OBVIOUS
<1>3. DOMAIN st = 1..(Len(s) + Len(t)) /\ DOMAIN s = 1..Len(s) /\ DOMAIN t = 1..Len(t)
  OBVIOUS
<1>4. Len(s) \in Nat /\ Len(t) \in Nat
  OBVIOUS
<1> HIDE DEF st
<1>5. Ascending(st)
  <2> SUFFICES ASSUME NEW i \in DOMAIN st, NEW j \in DOMAIN st, i < j
               PROVE  st[i] < st[j]
    BY DEF Ascending
  <2>1. CASE j <= Len(s)
    BY <1>2, <1>3, <1>4, <2>1 DEF Ascending
  <2>2. CASE i <= Len(s) /\ ~(j <= Len(s))
    BY <1>2, <1>3, <1>4, <2>2
  <2>3. CASE ~(i <= Len(s)) /\ ~(j <= Len(s))
    BY <1>2, <1>3, <1>4, <2>3 DEF Ascending
  <2> QED
    BY <1>3, <1>4, <2>1, <2>2, <2>3
<1>6. ToSet(st) = ToSet(s) \cup ToSet(t)
  <2>1. ToSet(st) \subseteq ToSet(s) \cup ToSet(t)
    BY <1>2, <1>3, <1>4 DEF ToSet
  <2>2. \A i \in DOMAIN s : s[i] = st[i] /\ i \in DOMAIN st
    BY <1>2, <1>3, <1>4
  <2>3. \A i \in DOMAIN t : t[i] = st[i + Len(s)] /\ i + Len(s) \in DOMAIN st
    BY <1>2, <1>3, <1>4
  <2>4. ToSet(s) \subseteq ToSet(st)
    BY <2>2 DEF ToSet
  <2>5. ToSet(t) \subseteq ToSet(st)
    BY <2>3 DEF ToSet
  <2> QED
    BY <2>1, <2>4, <2>5
<1> QED
  BY <1>1, <1>5, <1>6 DEF st

\* A listing only loses steady keys by what others do.
LEMMA StaysListed ==
  ASSUME NEW listing, ListingOK(listing), NEW S \in SUBSET listing.steady
  PROVE  ListingOK([listing EXCEPT !.steady = S])
<1> DEFINE new == [listing EXCEPT !.steady = S]
<1>1. /\ new \in Listings
      /\ new.state = listing.state /\ new.limit = listing.limit
      /\ new.cursor = listing.cursor /\ new.seen = listing.seen /\ new.steady = S
  BY DEF ListingOK, Listings
<1> QED
  BY <1>1 DEF ListingOK

\* A live key after the cursor is selected.
LEMMA LiveSelected ==
  ASSUME RowsTyped, NEW k \in Keys, Live(k), NEW c \in Nat, k > c
  PROVE  k \in Selected(c)
<1>1. entries[k].expiration \in Nat /\ now \in Nat /\ now < Never
  BY StorageAssumption DEF RowsTyped, Entries, Times, Never
<1> QED
  BY <1>1 DEF Live, HasExpired, Selected

(* The next page continues the listing: nothing is repeated, and nothing that
   stays is left out at the boundary of two pages. *)
LEMMA PageStep ==
  ASSUME RowsTyped, NEW listing, ListingOK(listing), listing.state = "paging",
         NEW rows \in Queries(listing.limit + 1),
         IsQueried(rows, listing.cursor, listing.limit + 1),
         NEW S \in SUBSET listing.steady, \A k \in S : Live(k),
         NEW page, page = NextPage(listing, rows)
  PROVE  ListingOK([state |-> IF page.done THEN "done" ELSE "paging",
                    limit |-> listing.limit, cursor |-> page.cursor,
                    seen |-> listing.seen \o page.keys, steady |-> S])
<1> DEFINE n == listing.limit
           c == listing.cursor
           more == Len(rows) = n + 1
<1>0. \A i \in DOMAIN listing.seen : listing.seen[i] <= c /\ listing.seen[i] \in Nat
  <2>1. \A i \in DOMAIN listing.seen : listing.seen[i] <= c
    BY DEF ListingOK
  <2>2. listing.seen \in Seq(Keys)
    BY DEF ListingOK, Listings
  <2>3. \A i \in DOMAIN listing.seen : listing.seen[i] \in Keys
    BY <2>2
  <2> QED
    BY <2>1, <2>3, StorageAssumption
<1>1. /\ n \in Nat /\ n > 0 /\ n \in Limits /\ c \in Nat /\ c \in Keys \cup {0}
      /\ S \subseteq Keys /\ Keys \subseteq Nat /\ listing.seen \in Seq(Keys)
  <2>1. listing \in Listings /\ n \in Limits
    BY DEF ListingOK
  <2>2. c \in Keys \cup {0} /\ S \subseteq Keys /\ listing.seen \in Seq(Keys)
    BY <2>1 DEF Listings
  <2>3. Keys \subseteq Nat /\ Limits \subseteq Nat /\ \A x \in Limits : x > 0
    BY StorageAssumption
  <2>4. n \in Nat /\ n > 0
    BY <2>1, <2>3
  <2>5. c \in Nat
    <3>1. Keys \cup {0} \subseteq Nat
      BY <2>3
    <3> QED
      BY <2>2, <3>1, Zenon
  <2>6. S \subseteq Keys /\ Keys \subseteq Nat
    BY <2>2, <2>3
  <2> QED
    BY <2>1, <2>2, <2>4, <2>5, <2>6, Zenon
<1>2. rows \in Seq(Keys) /\ Len(rows) \in 0..(n + 1) /\ DOMAIN rows = 1..Len(rows)
  BY <1>1 DEF Queries
<1>3. /\ page.keys = IF more THEN SubSeq(rows, 1, n) ELSE rows
      /\ page.done = ~more
      /\ page.cursor = IF more THEN rows[n] ELSE c
  BY DEF NextPage
<1>4. /\ page.keys \in Seq(Keys)
      /\ DOMAIN page.keys = 1..Len(page.keys)
      /\ Len(page.keys) = IF more THEN n ELSE Len(rows)
      /\ \A i \in DOMAIN page.keys : page.keys[i] = rows[i] /\ i \in DOMAIN rows
  <2>1. CASE more
    BY <1>1, <1>2, <1>3, <2>1
  <2>2. CASE ~more
    BY <1>1, <1>2, <1>3, <2>2
  <2> QED
    BY <2>1, <2>2
<1>5. \A i \in DOMAIN rows : rows[i] > c /\ rows[i] \in Nat
  BY <1>1, <1>2 DEF IsQueried, Selected, ToSet
<1>6. Ascending(page.keys)
  BY <1>4 DEF Ascending, IsQueried
<1>7. \A i \in DOMAIN listing.seen, j \in DOMAIN page.keys : listing.seen[i] < page.keys[j]
  <2> SUFFICES ASSUME NEW i \in DOMAIN listing.seen, NEW j \in DOMAIN page.keys
               PROVE  listing.seen[i] < page.keys[j]
    OBVIOUS
  <2>1. listing.seen[i] <= c /\ listing.seen[i] \in Nat
    BY <1>0
  <2>2. page.keys[j] > c /\ page.keys[j] \in Nat
    BY <1>4, <1>5
  <2> QED
    BY <1>1, <2>1, <2>2
<1>8. /\ listing.seen \o page.keys \in Seq(Keys)
      /\ Ascending(listing.seen \o page.keys)
      /\ ToSet(listing.seen \o page.keys) = ToSet(listing.seen) \cup ToSet(page.keys)
  BY <1>1, <1>4, <1>6, <1>7, AscendingConcat DEF ListingOK
<1>9. ASSUME NEW k \in S, more => k <= rows[n]
      PROVE  k \in ToSet(listing.seen \o page.keys)
  <2>1. CASE k <= c
    BY <1>8, <2>1 DEF ListingOK
  <2>2. CASE k > c /\ ~more
    <3>1. k \in ToSet(rows)
      BY <1>1, <1>2, <2>2, LiveSelected DEF IsQueried
    <3> QED
      BY <1>3, <1>8, <2>2, <3>1
  <2>3. CASE k > c /\ more
    <3>1. k \in Selected(c)
      BY <1>1, <2>3, LiveSelected
    <3>2. n \in DOMAIN rows /\ rows[n] \in Nat /\ k \in Nat
      BY <1>1, <1>2, <1>5, <2>3
    <3>3. PICK i \in DOMAIN rows : rows[i] = k
      BY <1>9, <2>3, <3>1, <3>2 DEF IsQueried, ToSet
    <3>4. i <= n
      BY <1>1, <1>2, <1>9, <2>3, <3>2, <3>3 DEF IsQueried, Ascending
    <3>5. i \in DOMAIN page.keys /\ page.keys[i] = k
      BY <1>1, <1>2, <1>4, <2>3, <3>3, <3>4
    <3> QED
      BY <1>8, <3>5 DEF ToSet
  <2>4. k \in Nat
    BY <1>1
  <2>5. k <= c \/ k > c
    BY <1>1, <2>4
  <2> QED
    BY <2>1, <2>2, <2>3, <2>5
<1>10. page.cursor \in Keys \cup {0}
  BY <1>1, <1>2, <1>3
<1>11. ASSUME more, NEW i \in DOMAIN (listing.seen \o page.keys)
       PROVE  (listing.seen \o page.keys)[i] <= page.cursor
  <2>1. n \in DOMAIN rows /\ page.cursor = rows[n] /\ rows[n] > c /\ rows[n] \in Nat
    BY <1>1, <1>2, <1>3, <1>5, <1>11
  <2>2. (listing.seen \o page.keys)[i] \in ToSet(listing.seen) \cup ToSet(page.keys)
    BY <1>8 DEF ToSet
  <2>3. ASSUME NEW x \in ToSet(listing.seen) PROVE x <= rows[n]
    <3>1. x <= c /\ x \in Nat
      BY <1>0 DEF ToSet
    <3> QED
      BY <1>1, <2>1, <3>1
  <2>4. ASSUME NEW x \in ToSet(page.keys) PROVE x <= rows[n]
    <3>1. PICK j \in DOMAIN page.keys : x = page.keys[j]
      BY DEF ToSet
    <3>2. j \in 1..n /\ x = rows[j] /\ j \in DOMAIN rows
      BY <1>4, <1>11, <3>1
    <3> QED
      BY <1>1, <1>5, <2>1, <3>2 DEF IsQueried, Ascending
  <2> QED
    BY <2>1, <2>2, <2>3, <2>4
<1> QED
  BY <1>1, <1>3, <1>8, <1>9, <1>10, <1>11 DEF ListingOK, Listings

\* Every step keeps the listings complete so far.
LEMMA ListingStep ==
  ASSUME RowsTyped, ListingInv, [Next]_vars
  PROVE  ListingInv'
<1>1. ASSUME StillSteady PROVE ListingInv'
  <2>1. ASSUME NEW l \in Listers
        PROVE  listers'[l] \in Listings /\ ListingOK(listers'[l])
    <3> DEFINE S == {k \in listers[l].steady : Live(k) /\ Live(k)'}
    <3>1. listers'[l] = [listers[l] EXCEPT !.steady = S]
      BY <1>1 DEF StillSteady
    <3>2. ListingOK(listers'[l])
      BY <3>1, StaysListed DEF ListingInv
    <3> QED
      BY <3>2 DEF ListingOK
  <2>2. listers' = [l \in Listers |-> listers'[l]]
    BY <1>1 DEF StillSteady
  <2> QED
    BY <2>1, <2>2 DEF ListingInv
<1>2. ASSUME NEW l \in Listers, NEW n \in Limits, StartListing(l, n) PROVE ListingInv'
  <2> DEFINE new == [state |-> "paging", limit |-> n, cursor |-> 0,
                     seen |-> <<>>, steady |-> {k \in Keys : Live(k)}]
  <2>1. ListingOK(new)
    <3>1. new \in Listings
      BY DEF Listings
    <3>2. \A k \in new.steady : ~(k <= 0)
      BY StorageAssumption
    <3> QED
      BY <3>1, <3>2 DEF ListingOK, Ascending
  <2>2. listers' = [listers EXCEPT ![l] = new]
    BY <1>2 DEF StartListing
  <2> QED
    BY <2>1, <2>2 DEF ListingInv, ListingOK
<1>3. ASSUME NEW l \in Listers, NEW rows \in Queries(listers[l].limit + 1), List(l, rows)
      PROVE  ListingInv'
  <2>1. ASSUME NEW m \in Listers, m # l PROVE ListingOK(listers'[m])
    <3> DEFINE S == {k \in listers[m].steady : Live(k) /\ Live(k)'}
    <3>1. listers'[m] = [listers[m] EXCEPT !.steady = S]
      BY <1>3, <2>1 DEF List
    <3> QED
      BY <3>1, StaysListed DEF ListingInv
  <2>2. ListingOK(listers'[l])
    <3> DEFINE S == {k \in listers[l].steady : Live(k) /\ Live(k)'}
               page == NextPage(listers[l], rows)
    <3>1. listers'[l] = [state |-> IF page.done THEN "done" ELSE "paging",
                         limit |-> listers[l].limit, cursor |-> page.cursor,
                         seen |-> listers[l].seen \o page.keys, steady |-> S]
      BY <1>3 DEF List
    <3>2. /\ IsQueried(rows, listers[l].cursor, listers[l].limit + 1)
          /\ listers[l].state = "paging" /\ ListingOK(listers[l])
          /\ S \in SUBSET listers[l].steady /\ \A k \in S : Live(k)
      BY <1>3 DEF List, ListingInv
    <3> HIDE DEF S, page
    <3>3. page = NextPage(listers[l], rows)
      BY DEF page
    <3> QED
      BY <3>1, <3>2, <3>3, PageStep
  <2>3. listers' = [m \in Listers |-> listers'[m]]
    BY <1>3 DEF List
  <2>4. \A m \in Listers : listers'[m] \in Listings /\ ListingOK(listers'[m])
    BY <2>1, <2>2 DEF ListingOK
  <2> QED
    BY <2>3, <2>4 DEF ListingInv
<1>4. CASE UNCHANGED listers
  BY <1>4 DEF ListingInv
<1> QED
  BY <1>1, <1>2, <1>3, <1>4
  DEF Next, vars, Start, Finish, StartPut, StartGet, AbortPut, FinishPut, FinishGet,
      GetExpired, Delete, DeleteBlob, DeleteBlobFails, Crash, Tick

(* Whatever changes between two pages, a listing repeats and reorders nothing,
   and when done it has returned every key that was there all along. *)
THEOREM ListingsAreComplete == Spec => []ListingIsComplete
<1>1. Init => ListingInv
  BY DEF Init, ListingInv, ListingOK, NoListing, Listings, Ascending
<1>2. ListingInv => ListingIsComplete
  BY DEF ListingInv, ListingOK, ListingIsComplete
<1>3. StoreInv => RowsTyped
  BY DEF StoreInv, DiskInv
<1> QED
  BY <1>1, <1>2, <1>3, InitStoreInv, StoreStep, ListingStep, PTL DEF Spec

\* Type correctness of the store, its requests and its listings.
THEOREM StorageTypeCorrect == Spec => []TypeOK
<1>1. Init => ListingInv
  BY DEF Init, ListingInv, ListingOK, NoListing, Listings, Ascending
<1>2. StoreInv /\ ListingInv => TypeOK
  BY DEF StoreInv, DiskInv, RowsTyped, ListingInv, TypeOK
<1>3. StoreInv => RowsTyped
  BY DEF StoreInv, DiskInv
<1> QED
  BY <1>1, <1>2, <1>3, InitStoreInv, StoreStep, ListingStep, PTL DEF Spec

=============================================================================
