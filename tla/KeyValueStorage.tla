-------------------------- MODULE KeyValueStorage --------------------------
(***************************************************************************)
(* KeyValueStorage (packages/miniflare/src/workers/shared/                 *)
(* keyvalue.worker.ts), the store with expiration and paginated listing    *)
(* under Miniflare's KV namespaces and caches: a SQLite table of entries   *)
(* beside a store of immutable blobs.                                      *)
(*                                                                         *)
(* Keys are numbered in their SQL order.  A put awaits the blob store, so  *)
(* other requests and the clock may move before it commits.  A client that *)
(* lists all keys asks for page after page with the cursor of the last.    *)
(***************************************************************************)
EXTENDS Naturals, FiniteSets, Sequences, SequencesExt

CONSTANTS
  Keys,       \* a set of positive numbers
  Blobs,      \* blob ids (bounds the number of values written)
  Requests,   \* requests that await the blob store at the same time
  Listers,    \* clients that page through all keys
  Limits,     \* page sizes they may ask for
  MaxTime,    \* bound of the clock
  NoBlob      \* stands for a missing row

\* NULL expiration: larger than any time, as the queries treat it.
Never == MaxTime + 1
Times == 0..MaxTime

ASSUME StorageAssumption ==
  /\ Keys \subseteq Nat \ {0}
  /\ Limits \subseteq Nat \ {0}
  /\ MaxTime \in Nat
  /\ NoBlob \notin Blobs

VARIABLES
  now,       \* timers.now()
  entries,   \* entries[k]: row of _mf_entries
  store,     \* the blobs on disk
  used,      \* the blob ids generated so far
  doomed,    \* background deletions sent to the blob store
  dangling,  \* blobs left by a deletion that failed, or by a crash (history)
  requests,  \* requests[r]: local variables of a put or a get
  listers    \* listers[l]: a client's progress through the pages

vars == <<now, entries, store, used, doomed, dangling, requests, listers>>

-----------------------------------------------------------------------------
NoEntry == [blob |-> NoBlob, expiration |-> Never]
Entries == [blob : Blobs \cup {NoBlob}, expiration : Times \cup {Never}]

Idle == [op |-> "idle", key |-> 0, blob |-> NoBlob, expiration |-> Never]
RequestStates == [op : {"idle", "put", "get"}, key : Keys \cup {0},
                  blob : Blobs \cup {NoBlob}, expiration : Times \cup {Never}]

(* A client's listing: the page size, the key its cursor encodes (0 is the
   start_after default ""), the keys returned so far, and for the properties
   the keys that have been live and in place ever since it began. *)
NoListing == [state |-> "idle", limit |-> 0, cursor |-> 0, seen |-> <<>>,
              steady |-> {}]
Listings == [state : {"idle", "paging", "done"}, limit : Limits \cup {0},
             cursor : Keys \cup {0}, seen : Seq(Keys), steady : SUBSET Keys]

Init ==
  /\ now = 0
  /\ entries = [k \in Keys |-> NoEntry]
  /\ store = {}
  /\ used = {}
  /\ doomed = {}
  /\ dangling = {}
  /\ requests = [r \in Requests |-> Idle]
  /\ listers = [l \in Listers |-> NoListing]

Present(k) == entries[k].blob # NoBlob

\* #hasExpired
HasExpired(e) == e.expiration # Never /\ e.expiration <= now

Live(k) == Present(k) /\ ~HasExpired(entries[k])

\* A key that is gone or expired after this step is not steady.
StillSteady == listers' = [l \in Listers |-> [listers[l] EXCEPT
                             !.steady = {k \in @ : Live(k) /\ Live(k)'}]]

-----------------------------------------------------------------------------
\* #backgroundDelete
BackgroundDelete(bs) == doomed' = doomed \cup bs

\* BlobStore.delete reaches the disk.
DeleteBlob(b) ==
  /\ b \in doomed
  /\ doomed' = doomed \ {b}
  /\ store' = store \ {b}
  /\ UNCHANGED <<now, entries, used, dangling, requests, listers>>

\* It rejects, and #backgroundDelete ignores the error.
DeleteBlobFails(b) ==
  /\ b \in doomed
  /\ doomed' = doomed \ {b}
  /\ dangling' = dangling \cup {b}
  /\ UNCHANGED <<now, entries, store, used, requests, listers>>

\* The process stops and starts again: memory is lost, disk and database stay.
\* Of the values being written, those in bs had reached the disk.
Crash(bs) ==
  /\ bs \subseteq {requests[r].blob : r \in {s \in Requests : requests[s].op = "put"}}
  /\ store' = store \cup bs
  /\ doomed' = {}
  /\ dangling' = UNION {dangling, doomed, bs}
  /\ requests' = [r \in Requests |-> Idle]
  /\ UNCHANGED <<now, entries, used, listers>>

\* put, until the value is stored as a fresh blob.
StartPut(r, k, expiration, b) ==
  /\ requests[r] = Idle
  /\ expiration > now
  /\ b \notin used
  /\ used' = used \cup {b}
  /\ requests' = [requests EXCEPT ![r] = [op |-> "put", key |-> k, blob |-> b,
                                          expiration |-> expiration]]
  /\ UNCHANGED <<now, entries, store, doomed, dangling, listers>>

\* Mutant: the aborted put's blob is forgotten.
AbortPut_Leaks(r) ==
  /\ requests[r].op = "put"
  /\ store' = store \cup {requests[r].blob}
  /\ requests' = [requests EXCEPT ![r] = Idle]
  /\ UNCHANGED <<now, entries, used, doomed, dangling, listers>>

\* The value turned out too large: the signal aborts the put.
AbortPut(r) ==
  /\ requests[r].op = "put"
  /\ store' = store \cup {requests[r].blob}
  /\ BackgroundDelete({requests[r].blob})
  /\ requests' = [requests EXCEPT ![r] = Idle]
  /\ UNCHANGED <<now, entries, used, dangling, listers>>

\* #stmts.put replaces the key's row; the old row's blob is deleted.
FinishPut(r) ==
  LET k == requests[r].key
  IN  /\ requests[r].op = "put"
      /\ store' = store \cup {requests[r].blob}
      /\ entries' = [entries EXCEPT ![k] = [blob |-> requests[r].blob,
                                            expiration |-> requests[r].expiration]]
      /\ BackgroundDelete({entries[k].blob} \ {NoBlob})
      /\ requests' = [requests EXCEPT ![r] = Idle]
      /\ UNCHANGED <<now, used, dangling>>
      /\ StillSteady

\* get of a row that has not expired, until the blob store answers.
StartGet(r, k) ==
  /\ requests[r] = Idle
  /\ Live(k)
  /\ requests' = [requests EXCEPT ![r] = [Idle EXCEPT !.op = "get", !.key = k,
                                                      !.blob = entries[k].blob]]
  /\ UNCHANGED <<now, entries, store, used, doomed, dangling, listers>>

\* The blob is opened, or gone and reported as a missing value.
FinishGet(r) ==
  /\ requests[r].op = "get"
  /\ requests' = [requests EXCEPT ![r] = Idle]
  /\ UNCHANGED <<now, entries, store, used, doomed, dangling, listers>>

\* The row goes and its blob is deleted.
DropRows(ks) ==
  /\ entries' = [k \in Keys |-> IF k \in ks THEN NoEntry ELSE entries[k]]
  /\ BackgroundDelete({entries[k].blob : k \in ks})

\* get of a row that has expired.
GetExpired(k) ==
  /\ Present(k)
  /\ HasExpired(entries[k])
  /\ DropRows({k})
  /\ UNCHANGED <<now, store, used, dangling, requests>>
  /\ StillSteady

Delete(k) ==
  /\ Present(k)
  /\ DropRows({k})
  /\ UNCHANGED <<now, store, used, dangling, requests>>
  /\ StillSteady

-----------------------------------------------------------------------------
(* Listing. *)

\* Rows the list query selects after a cursor, and its LIMIT.
Selected(cursor) == {k \in Keys : /\ Present(k)
                                  /\ k > cursor
                                  /\ entries[k].expiration >= now}

Ascending(s) == \A i, j \in DOMAIN s : i < j => s[i] < s[j]

\* ORDER BY key LIMIT limit: the first rows selected, and all unless there are
\* more than the limit.
IsQueried(rows, cursor, limit) ==
  /\ Ascending(rows)
  /\ ToSet(rows) \subseteq Selected(cursor)
  /\ \A k \in Selected(cursor) \ ToSet(rows) : \A i \in DOMAIN rows : rows[i] < k
  /\ Len(rows) < limit => ToSet(rows) = Selected(cursor)

\* Mutant: NULL compares as zero.
Expired_NullIsZero == {k \in Keys : /\ Present(k)
                                    /\ \/ entries[k].expiration < now
                                       \/ entries[k].expiration = Never /\ 0 < now}

\* The rows deleteExpired deletes.
Expired == {k \in Keys : Present(k) /\ entries[k].expiration < now}

StartListing(l, limit) ==
  /\ listers[l].state = "idle"
  /\ listers' = [listers EXCEPT ![l] =
                   [state |-> "paging", limit |-> limit, cursor |-> 0,
                    seen |-> <<>>, steady |-> {k \in Keys : Live(k)}]]
  /\ UNCHANGED <<now, entries, store, used, doomed, dangling, requests>>

\* Mutant: the cursor is the first key not returned.
NextPage_SkipsOne(listing, rows) ==
  LET hasMoreRows == Len(rows) = listing.limit + 1
  IN  [keys |-> IF hasMoreRows THEN SubSeq(rows, 1, listing.limit) ELSE rows,
       done |-> ~hasMoreRows,
       cursor |-> IF hasMoreRows THEN rows[listing.limit + 1] ELSE listing.cursor]

\* The page a listing gets of the rows queried, one more than is returned.
NextPage(listing, rows) ==
  LET hasMoreRows == Len(rows) = listing.limit + 1
      page == IF hasMoreRows THEN SubSeq(rows, 1, listing.limit) ELSE rows
  IN  [keys |-> page,
       done |-> ~hasMoreRows,
       cursor |-> IF hasMoreRows THEN rows[listing.limit] ELSE listing.cursor]

\* list, and what its client makes of the answer.
List(l, rows) ==
  LET page == NextPage(listers[l], rows)
  IN  /\ listers[l].state = "paging"
      /\ IsQueried(rows, listers[l].cursor, listers[l].limit + 1)
      /\ DropRows(Expired)
      /\ UNCHANGED <<now, store, used, dangling, requests>>
      /\ listers' = [m \in Listers |->
           LET steady == {k \in listers[m].steady : Live(k) /\ Live(k)'}
           IN  IF m # l THEN [listers[m] EXCEPT !.steady = steady]
               ELSE [state |-> IF page.done THEN "done" ELSE "paging",
                     limit |-> listers[l].limit,
                     cursor |-> page.cursor,
                     seen |-> listers[l].seen \o page.keys,
                     steady |-> steady]]

Tick ==
  /\ now < MaxTime
  /\ now' = now + 1
  /\ UNCHANGED <<entries, store, used, doomed, dangling, requests>>
  /\ StillSteady

-----------------------------------------------------------------------------
Start(r) == \E k \in Keys :
              \/ \E e \in Times \cup {Never}, b \in Blobs : StartPut(r, k, e, b)
              \/ StartGet(r, k)

Finish(r) == AbortPut(r) \/ FinishPut(r) \/ FinishGet(r)

\* The answers a query with this limit may have.
Queries(limit) == UNION {[1..n -> Keys] : n \in 0..limit}

Next ==
  \/ \E r \in Requests : Start(r) \/ Finish(r)
  \/ \E k \in Keys : GetExpired(k) \/ Delete(k)
  \/ \E l \in Listers : \/ \E rows \in Queries(listers[l].limit + 1) : List(l, rows)
                         \/ \E n \in Limits : StartListing(l, n)
  \/ \E b \in Blobs : DeleteBlob(b) \/ DeleteBlobFails(b)
  \/ \E bs \in SUBSET Blobs : Crash(bs)
  \/ Tick

Spec == Init /\ [][Next]_vars

-----------------------------------------------------------------------------
\* Type correctness.
TypeOK ==
  /\ now \in Times
  /\ entries \in [Keys -> Entries]
  /\ store \subseteq Blobs
  /\ used \subseteq Blobs
  /\ doomed \cup dangling \subseteq Blobs
  /\ requests \in [Requests -> RequestStates]
  /\ listers \in [Listers -> Listings]

\* The blobs the rows name.
Referenced == {entries[k].blob : k \in Keys} \ {NoBlob}

(* However puts, deletes and expirations of one key overlap, the blob of a row
   is on disk and not about to be deleted, and nothing else is left there but
   what a failed deletion or a crash left ("we'll just have a dangling file
   taking up disk space"): aborted puts, replaced, deleted and expired entries
   give their blob back. *)
BlobsMatchRows == store \ (doomed \cup dangling) = Referenced

(* Whatever is put, deleted or expires between two list() calls, pages neither
   repeat nor reorder keys, and a finished listing has returned every key that
   was there all along: the extra row queried, the truncation and the cursor
   lose none at a page boundary, even when the key the cursor encodes has been
   deleted. *)
ListingIsComplete ==
  \A l \in Listers :
    /\ Ascending(listers[l].seen)
    /\ listers[l].state = "done" => listers[l].steady \subseteq ToSet(listers[l].seen)

(* Garbage collection of expired entries in get and list never takes an entry
   that is still live, such as one without expiration ("`expiration` may be
   `NULL`, but `NULL < ...` should be falsy"). *)
OnlyDeleteRemovesLive ==
  [][\A k \in Keys : Live(k) /\ ~Present(k)' => Delete(k)]_vars

=============================================================================
