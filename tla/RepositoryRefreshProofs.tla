---------------------- MODULE RepositoryRefreshProofs ----------------------
(***************************************************************************)
(* For any number of repositories, refreshes and edits: as long as a       *)
(* request decides on the row as it is under the lock, and no edit of the  *)
(* URL falls into a fetch, what a snapshot shows is that of the project's  *)
(* repository, complete when it claims to be fresh, and vouched for by its *)
(* ETag, even if fetches outlast their leases.                             *)
(***************************************************************************)
EXTENDS RepositoryRefresh, FiniteSetTheorems, TLAPS

Serial == ~StaleReads /\ ~EditsOverlap

\* What a row, or a copy that is being refreshed, holds is of one repository.
Holds(snapshot) ==
    /\ snapshot.identity \in {url, None}
    /\ snapshot.etag # None => snapshot.fetched /\ snapshot.identity = snapshot.etag
    /\ snapshot.fetched <=> snapshot.identity # None
    /\ snapshot.status = "fresh" => snapshot.fetched /\ snapshot.stale_after # "none"
    /\ snapshot.status = "absent" => ~snapshot.fetched

\* The copy of a refresh that asks the provider is not ahead of the row, so
\* a column that its flush leaves out has the value it was to write.
FetchInv(t) ==
    pc[t] = "fetching" =>
        /\ target[t] = url
        /\ Holds(mine[t])
        /\ mine[t].status = "refreshing"
        /\ mine[t].identity # None => row.identity = url

IInv ==
    /\ TypeOK
    /\ Holds(row)
    /\ \A t \in Refreshers : FetchInv(t)

-----------------------------------------------------------------------------

\* A flush writes into each column the object's value or leaves the row's.
LEMMA FlushColumns ==
    ASSUME NEW r \in Snapshot, NEW loaded \in Snapshot, NEW object \in Snapshot, NEW stamped
    PROVE  /\ Flush(r, loaded, object, stamped) \in Snapshot
           /\ \A c \in DOMAIN r :
                Flush(r, loaded, object, stamped)[c] =
                    IF object[c] # loaded[c] \/ c \in stamped THEN object[c] ELSE r[c]
           /\ DOMAIN r = {"identity", "etag", "fetched", "stale_after",
                          "status", "retry_after", "token", "lease"}
  <1> DEFINE f == Flush(r, loaded, object, stamped)
  <1>1. DOMAIN r = {"identity", "etag", "fetched", "stale_after",
                    "status", "retry_after", "token", "lease"}
    BY DEF Snapshot
  <1>2. f = [identity |-> f.identity, etag |-> f.etag, fetched |-> f.fetched,
             stale_after |-> f.stale_after, status |-> f.status,
             retry_after |-> f.retry_after, token |-> f.token, lease |-> f.lease]
    BY <1>1 DEF Flush
  <1>3. /\ f.identity \in {r.identity, object.identity}
        /\ f.etag \in {r.etag, object.etag}
        /\ f.fetched \in {r.fetched, object.fetched}
        /\ f.stale_after \in {r.stale_after, object.stale_after}
        /\ f.status \in {r.status, object.status}
        /\ f.retry_after \in {r.retry_after, object.retry_after}
        /\ f.token \in {r.token, object.token}
        /\ f.lease \in {r.lease, object.lease}
    BY <1>1 DEF Flush
  <1>4. f \in Snapshot
    BY <1>2, <1>3 DEF Snapshot
  <1> QED BY <1>1, <1>4 DEF Flush

\* The row before there is one, column by column.
LEMMA NoRowColumns ==
    /\ NoRow \in Snapshot
    /\ NoRow.identity = None /\ NoRow.etag = None
    /\ NoRow.fetched = FALSE /\ NoRow.status = "absent"
  BY DEF NoRow, Blank, Snapshot, Instant, RefreshStatus

\* Nothing is held at first.
LEMMA InitIInv == Init => IInv
  <1> SUFFICES ASSUME Init PROVE IInv OBVIOUS
  <1>1. TypeOK
    BY NoRowColumns DEF Init, TypeOK
  <1>2. Holds(row)
    BY NoRowColumns DEF Init, Holds
  <1>3. \A t \in Refreshers : FetchInv(t)
    BY DEF Init, FetchInv, Requests
  <1> QED BY <1>1, <1>2, <1>3 DEF IInv

\* Ending a request disturbs no other refresh.
LEMMA EndPreserves ==
    ASSUME IInv, NEW r \in Requests, End(r), UNCHANGED <<url, overran>>,
           row' \in Snapshot, Holds(row)', row.identity # None => row'.identity = row.identity
    PROVE  IInv'
  <1>1. TypeOK'
    BY NoRowColumns DEF End, IInv, TypeOK
  <1>2. ASSUME NEW t \in Refreshers PROVE FetchInv(t)'
    <2>1. CASE t = r
      BY <2>1 DEF End, IInv, TypeOK, FetchInv, Requests
    <2>2. CASE t # r
      <3>1. /\ pc'[t] = pc[t]
            /\ mine'[t] = mine[t]
            /\ target'[t] = target[t]
        BY <2>2 DEF End, IInv, TypeOK, Requests
      <3>2. FetchInv(t) BY DEF IInv
      <3>3. url # None BY RefreshAssumption DEF IInv, TypeOK
      <3> QED BY <3>1, <3>2, <3>3 DEF FetchInv, Holds
    <2> QED BY <2>1, <2>2
  <1> QED BY <1>1, <1>2 DEF IInv

\* A request's first query changes nothing that is shared.
LEMMA LoadPreserves ==
    ASSUME IInv, NEW r \in Requests, Load(r)
    PROVE  IInv'
  <1>1. TypeOK'
    BY DEF Load, IInv, TypeOK, Requests
  <1>2. Holds(row)'
    BY DEF Load, IInv, Holds
  <1>3. ASSUME NEW t \in Refreshers PROVE FetchInv(t)'
    <2>1. CASE t = r
      BY <2>1 DEF Load, IInv, TypeOK, FetchInv, Requests
    <2>2. CASE t # r
      BY <2>2 DEF Load, IInv, TypeOK, FetchInv, Holds, Requests
    <2> QED BY <2>1, <2>2
  <1> QED BY <1>1, <1>2, <1>3 DEF IInv

\* Taking the lease keeps what the row holds.
LEMMA BeginPreserves ==
    ASSUME IInv, Serial, NEW t \in Refreshers, NEW force \in BOOLEAN, Begin(t, force)
    PROVE  IInv'
  <1> DEFINE object == [Basis(t) EXCEPT !.status = "refreshing", !.token = t, !.lease = "live"]
  <1>1. mine[t] = row BY DEF Begin, Locked, Serial
  <1>2. Basis(t) = IF row.status # "absent" THEN row ELSE Blank
    BY <1>1 DEF Basis
  <1>3. Basis(t) \in Snapshot /\ object \in Snapshot
    <2>1. row \in Snapshot BY DEF IInv, TypeOK
    <2>2. Blank \in Snapshot BY DEF Blank, Snapshot, Instant, RefreshStatus
    <2>3. Basis(t) \in Snapshot BY <1>2, <2>1, <2>2
    <2> QED BY <2>3 DEF Snapshot, Instant, RefreshStatus
  <1>4. Holds(Basis(t))
    BY <1>2 DEF IInv, Holds, Blank
  <1>5. /\ Holds(object)
        /\ object.status = "refreshing"
        /\ object.identity = Basis(t).identity
    BY <1>3, <1>4 DEF Holds, Snapshot
  <1> HIDE DEF object
  <1>6. /\ row' \in Snapshot
        /\ Holds(row')
        /\ row'.identity = object.identity
    <2>1. CASE row.status = "absent"
      BY <2>1, <1>3, <1>5 DEF Begin, object
    <2>2. CASE row.status # "absent"
      <3>1. row' = Flush(row, row, object, {"token", "lease"})
        BY <1>2, <2>2 DEF Begin, object
      <3>2. row \in Snapshot BY DEF IInv, TypeOK
      <3>3. row' \in Snapshot
        BY <1>3, <3>1, <3>2, FlushColumns
      <3>4. /\ row'.identity = object.identity
            /\ row'.etag = object.etag
            /\ row'.fetched = object.fetched
            /\ row'.stale_after = object.stale_after
            /\ row'.status = object.status
        BY <1>3, <3>1, <3>2, FlushColumns
      <3> QED BY <1>5, <3>3, <3>4 DEF Holds
    <2> QED BY <2>1, <2>2
  <1>7. /\ url' = url
        /\ pc' = [pc EXCEPT ![t] = "fetching"]
        /\ mine' = [mine EXCEPT ![t] = object]
        /\ target' = [target EXCEPT ![t] = url]
        /\ overran' = overran
    BY DEF Begin, object
  <1>8. TypeOK'
    BY <1>3, <1>6, <1>7 DEF IInv, TypeOK, Requests
  <1>9. Holds(row)'
    BY <1>6, <1>7 DEF Holds
  <1>10. ASSUME NEW u \in Refreshers PROVE FetchInv(u)'
    <2>1. CASE u = t
      BY <2>1, <1>5, <1>6, <1>7, RefreshAssumption DEF IInv, TypeOK, FetchInv, Holds, Requests
    <2>2. CASE u # t
      <3>1. FetchInv(u) /\ pc'[u] = pc[u] /\ mine'[u] = mine[u] /\ target'[u] = target[u]
        BY <2>2, <1>7 DEF IInv, TypeOK, Requests
      <3>2. row.identity # None => row.status # "absent"
        BY DEF IInv, Holds
      <3>3. url # None
        BY RefreshAssumption DEF IInv, TypeOK
      <3>4. row.identity = url => row'.identity = url
        BY <1>2, <1>5, <1>6, <3>2, <3>3
      <3> QED BY <3>1, <3>4, <1>7, <3>3 DEF FetchInv, Holds
    <2> QED BY <2>1, <2>2
  <1> QED BY <1>8, <1>9, <1>10 DEF IInv

\* What an answer leaves in the row: the columns whose value changed since
\* the refresh began, and those that are stamped.
LEMMA StoreColumns ==
    ASSUME IInv, NEW t \in Refreshers, NEW object \in Snapshot, NEW stamped,
           Store(t, object, stamped), stamped \subseteq {"fetched", "stale_after", "retry_after"}
    PROVE  /\ url' = url /\ overran' = overran
           /\ row' \in Snapshot
           /\ \/ row' = row
              \/ \A c \in {"identity", "etag", "fetched", "stale_after", "status"} :
                    row'[c] = IF object[c] # mine[t][c] \/ c \in stamped
                                THEN object[c] ELSE row[c]
  <1> DEFINE released == [object EXCEPT !.token = None, !.lease = "none"]
  <1>1. /\ row \in Snapshot
        /\ mine[t] \in Snapshot
    BY DEF IInv, TypeOK, Requests
  <1>2. released \in Snapshot
    BY DEF Snapshot, Instant
  <1>3. \A c \in {"identity", "etag", "fetched", "stale_after", "status"} :
            released[c] = object[c]
    BY DEF Snapshot
  <1>4. row' = row \/ row' = Flush(row, mine[t], released, stamped)
    BY DEF Store
  <1> HIDE DEF released
  <1> QED BY <1>1, <1>2, <1>3, <1>4, FlushColumns DEF Store

\* An answer, or a failure, is stored without mixing two repositories.
LEMMA ModifiedPreserves ==
    ASSUME IInv, NEW t \in Refreshers, Modified(t)
    PROVE  IInv'
  <1>1. PICK etag \in {target[t], None} :
            Store(t, [Fresh(mine[t]) EXCEPT !.identity = target[t], !.etag = etag],
                  {"fetched", "stale_after"})
    BY DEF Modified
  <1> DEFINE object == [Fresh(mine[t]) EXCEPT !.identity = target[t], !.etag = etag]
  <1>2. /\ pc[t] = "fetching"
        /\ End(t)
    BY <1>1 DEF Store
  <1>3. /\ target[t] = url /\ url \in Repos /\ url # None
        /\ mine[t] \in Snapshot
        /\ Holds(mine[t])
        /\ mine[t].status = "refreshing"
        /\ mine[t].identity # None => row.identity = url
    BY <1>2, RefreshAssumption DEF IInv, TypeOK, FetchInv, Requests
  <1>4. /\ object \in Snapshot
        /\ object.identity = url
        /\ object.etag \in {url, None}
        /\ object.fetched = TRUE
        /\ object.stale_after = "live"
        /\ object.status = "fresh"
    BY <1>3 DEF Fresh, Snapshot, Instant, RefreshStatus
  <1>5. Store(t, object, {"fetched", "stale_after"})
    BY <1>1
  <1> HIDE DEF object
  <1>6. /\ url' = url /\ overran' = overran
        /\ row' \in Snapshot
        /\ \/ row' = row
           \/ \A c \in {"identity", "etag", "fetched", "stale_after", "status"} :
                 row'[c] = IF object[c] # mine[t][c] \/ c \in {"fetched", "stale_after"}
                             THEN object[c] ELSE row[c]
    BY <1>4, <1>5, StoreColumns
  <1>7. Holds(row)' /\ (row.identity # None => row'.identity = row.identity)
    <2>1. CASE row' = row
      BY <1>6, <2>1 DEF IInv, Holds
    <2>2. CASE row' # row
      <3>1. /\ row'.identity = url
            /\ row'.fetched = TRUE
            /\ row'.stale_after = "live"
            /\ row'.status = "fresh"
            /\ row'.etag \in {object.etag, row.etag}
        BY <1>3, <1>4, <1>6, <2>2 DEF Holds
      <3>2. row.etag \in {url, None} BY DEF IInv, Holds
      <3> QED BY <1>3, <1>4, <1>6, <3>1, <3>2 DEF IInv, Holds
    <2> QED BY <2>1, <2>2
  <1> QED BY <1>2, <1>6, <1>7, EndPreserves DEF Requests

\* A 304 confirms what is held; for nothing held it is a failure.
LEMMA NotModifiedPreserves ==
    ASSUME IInv, NEW t \in Refreshers, NotModified(t)
    PROVE  IInv'
  <1>1. pc[t] = "fetching" /\ mine[t].etag = target[t]
    BY DEF NotModified
  <1>2. /\ target[t] = url /\ url # None
        /\ mine[t] \in Snapshot
        /\ Holds(mine[t])
        /\ mine[t].status = "refreshing"
        /\ mine[t].identity # None => row.identity = url
    BY <1>1, RefreshAssumption DEF IInv, TypeOK, FetchInv, Requests
  <1>3. mine[t].fetched /\ mine[t].identity # None
    BY <1>1, <1>2 DEF Holds
  <1> DEFINE object == Fresh(mine[t])
  <1>4. Store(t, object, {"fetched", "stale_after"})
    BY <1>3 DEF NotModified
  <1>5. End(t)
    BY <1>4 DEF Store
  <1>6. /\ object \in Snapshot
        /\ object.identity = mine[t].identity
        /\ object.etag = mine[t].etag
        /\ object.fetched = TRUE
        /\ object.stale_after = "live"
        /\ object.status = "fresh"
    BY <1>2 DEF Fresh, Snapshot, Instant, RefreshStatus
  <1> HIDE DEF object
  <1>7. /\ url' = url /\ overran' = overran
        /\ row' \in Snapshot
        /\ \/ row' = row
           \/ \A c \in {"identity", "etag", "fetched", "stale_after", "status"} :
                 row'[c] = IF object[c] # mine[t][c] \/ c \in {"fetched", "stale_after"}
                             THEN object[c] ELSE row[c]
    BY <1>4, <1>6, StoreColumns
  <1>8. Holds(row)' /\ (row.identity # None => row'.identity = row.identity)
    <2>1. CASE row' = row
      BY <1>7, <2>1 DEF IInv, Holds
    <2>2. CASE row' # row
      <3>1. /\ row'.identity = row.identity
            /\ row'.etag = row.etag
            /\ row'.fetched = TRUE
            /\ row'.stale_after = "live"
            /\ row'.status = "fresh"
        BY <1>2, <1>6, <1>7, <2>2
      <3>2. row.identity = url BY <1>2, <1>3
      <3>3. row.etag # None => row.identity = row.etag
        BY DEF IInv, Holds
      <3> QED BY <1>2, <1>7, <3>1, <3>2, <3>3 DEF Holds
    <2> QED BY <2>1, <2>2
  <1> QED BY <1>5, <1>7, <1>8, EndPreserves DEF Requests

\* A failure leaves everything but the status and the retry window.
LEMMA FailPreserves ==
    ASSUME IInv, NEW t \in Refreshers, Fail(t)
    PROVE  IInv'
  <1> DEFINE object == [mine[t] EXCEPT !.status = "failed", !.retry_after = "live"]
  <1>1. Store(t, object, {"retry_after"})
    BY DEF Fail
  <1>2. /\ pc[t] = "fetching"
        /\ End(t)
    BY <1>1 DEF Store
  <1>3. /\ mine[t] \in Snapshot
        /\ mine[t].status = "refreshing"
    BY <1>2 DEF IInv, TypeOK, FetchInv, Requests
  <1>4. /\ object \in Snapshot
        /\ \A c \in {"identity", "etag", "fetched", "stale_after"} : object[c] = mine[t][c]
        /\ object.status = "failed"
    BY <1>3 DEF Snapshot, Instant, RefreshStatus
  <1> HIDE DEF object
  <1>5. /\ url' = url /\ overran' = overran
        /\ row' \in Snapshot
        /\ \/ row' = row
           \/ \A c \in {"identity", "etag", "fetched", "stale_after", "status"} :
                 row'[c] = IF object[c] # mine[t][c] \/ c \in {"retry_after"}
                             THEN object[c] ELSE row[c]
    BY <1>1, <1>4, StoreColumns
  <1>6. Holds(row)' /\ (row.identity # None => row'.identity = row.identity)
    <2>1. CASE row' = row
      BY <1>5, <2>1 DEF IInv, Holds
    <2>2. CASE row' # row
      <3>1. /\ row'.identity = row.identity
            /\ row'.etag = row.etag
            /\ row'.fetched = row.fetched
            /\ row'.status = "failed"
        BY <1>3, <1>4, <1>5, <2>2
      <3> QED BY <1>5, <3>1 DEF IInv, Holds
    <2> QED BY <2>1, <2>2
  <1> QED BY <1>2, <1>5, <1>6, EndPreserves DEF Requests

\* An edit of the URL falls into no fetch, and clears the row.
LEMMA EditPreserves ==
    ASSUME IInv, Serial, NEW e \in Editors, NEW repo \in Repos, Edit(e, repo)
    PROVE  IInv'
  <1>1. /\ mine[e] = row
        /\ \A t \in Refreshers : pc[t] # "fetching"
        /\ e \in Requests
        /\ End(e)
        /\ url' = repo /\ overran' = overran
    BY DEF Edit, Locked, Serial, Requests
  <1>2. /\ row \in Snapshot
        /\ Blank \in Snapshot
        /\ Blank.identity = None /\ Blank.etag = None
        /\ Blank.fetched = FALSE /\ Blank.status = "stale"
    BY DEF IInv, TypeOK, Blank, Snapshot, Instant, RefreshStatus
  <1>3. row' \in Snapshot /\ Holds(row)'
    <2>1. CASE repo # url /\ row.status # "absent"
      <3>1. row' = Flush(row, row, Blank, {})
        BY <1>1, <2>1 DEF Edit, Cleared
      <3>2. row' \in Snapshot
        BY <1>2, <3>1, FlushColumns
      <3>3. \A c \in {"identity", "etag", "fetched", "status"} : row'[c] = Blank[c]
        BY <1>2, <3>1, FlushColumns
      <3> QED BY <1>1, <1>2, <3>2, <3>3 DEF Holds
    <2>2. CASE repo = url
      BY <1>1, <1>2, <2>2 DEF Edit, IInv, Holds
    <2>3. CASE row.status = "absent"
      BY <1>1, <1>2, <2>3 DEF Edit, IInv, Holds
    <2> QED BY <2>1, <2>2, <2>3
  <1>4. TypeOK'
    BY <1>1, <1>3, NoRowColumns DEF End, IInv, TypeOK
  <1>5. ASSUME NEW t \in Refreshers PROVE FetchInv(t)'
    BY <1>1 DEF End, IInv, TypeOK, FetchInv, Requests
  <1> QED BY <1>3, <1>4, <1>5 DEF IInv

\* Time only turns instants that are set into instants that have passed.
LEMMA InstantPreserves ==
    ASSUME IInv, NEW column \in {"lease", "stale_after", "retry_after"},
           row' = [row EXCEPT ![column] = "past"], UNCHANGED <<url, pc, mine, target>>,
           overran' \in BOOLEAN
    PROVE  IInv'
  <1>1. row \in Snapshot BY DEF IInv, TypeOK
  <1>2. row' \in Snapshot /\ Holds(row)' /\ row'.identity = row.identity
    <2>1. CASE column = "lease"
      BY <1>1, <2>1 DEF IInv, Holds, Snapshot, Instant
    <2>2. CASE column = "stale_after"
      BY <1>1, <2>2 DEF IInv, Holds, Snapshot, Instant
    <2>3. CASE column = "retry_after"
      BY <1>1, <2>3 DEF IInv, Holds, Snapshot, Instant
    <2> QED BY <2>1, <2>2, <2>3
  <1> QED BY <1>2 DEF IInv, TypeOK, FetchInv, Holds

\* Every step preserves the invariant; a request that ends without an answer
\* leaves the row alone.
LEMMA NextPreserves ==
    ASSUME IInv, Serial, [Next]_vars
    PROVE  IInv'
  <1>1. ASSUME NEW r \in Requests, Load(r) PROVE IInv'
    BY <1>1, LoadPreserves
  <1>2. ASSUME NEW r \in Requests, End(r), UNCHANGED <<url, row, overran>> PROVE IInv'
    BY <1>2, EndPreserves DEF IInv, TypeOK, Holds
  <1>3. ASSUME NEW t \in Refreshers, NEW force \in BOOLEAN, Begin(t, force) PROVE IInv'
    BY <1>3, BeginPreserves
  <1>4. ASSUME NEW t \in Refreshers, Modified(t) \/ NotModified(t) \/ Fail(t) PROVE IInv'
    BY <1>4, ModifiedPreserves, NotModifiedPreserves, FailPreserves
  <1>5. ASSUME NEW e \in Editors, NEW repo \in Repos, Edit(e, repo) PROVE IInv'
    BY <1>5, EditPreserves
  <1>6. CASE LeasePasses
    BY <1>6, InstantPreserves DEF LeasePasses, IInv, TypeOK
  <1>7. ASSUME NEW column \in {"stale_after", "retry_after"}, InstantPasses(column)
        PROVE  IInv'
    BY <1>7, InstantPreserves DEF InstantPasses, IInv, TypeOK
  <1>8. CASE UNCHANGED vars
    BY <1>8 DEF vars, IInv, TypeOK, Holds, FetchInv
  <1> QED
    BY <1>1, <1>2, <1>3, <1>4, <1>5, <1>6, <1>7, <1>8 DEF Next, Abort, Decline, Requests

-----------------------------------------------------------------------------

\* The invariant holds of every behaviour of service.py's refresh and edit in
\* which loads are not overtaken and URLs are not edited during a fetch.
THEOREM Invariance == Serial => (Spec => []IInv)
  <1> SUFFICES ASSUME Serial PROVE Spec => []IInv OBVIOUS
  <1>1. Init => IInv BY InitIInv
  <1>2. IInv /\ [Next]_vars => IInv' BY NextPreserves
  <1> QED BY <1>1, <1>2, PTL DEF Spec

\* refresh_repository_metadata and update_project never store a value that is
\* not of the row's columns.
THEOREM RefreshTypeCorrect == Serial => (Spec => []TypeOK)
  <1>1. IInv => TypeOK BY DEF IInv
  <1> QED BY <1>1, Invariance, PTL

\* The metadata shown is that of the repository the project names, whatever
\* fetches overlap, outlast their leases, fail or are cut off.
THEOREM ShowsOwnRepository == Serial => (Spec => []SnapshotDescribesProject)
  <1>1. IInv => SnapshotDescribesProject BY DEF IInv, Holds, SnapshotDescribesProject
  <1> QED BY <1>1, Invariance, PTL

\* A snapshot that claims to be fresh has been fetched and will become stale.
THEOREM FreshHasData == Serial => (Spec => []FreshIsComplete)
  <1>1. IInv => FreshIsComplete BY DEF IInv, Holds, FreshIsComplete
  <1> QED BY <1>1, Invariance, PTL

\* A request is conditional only when the data it is about is held, so the
\* branch for an invalid 304 answer is never taken.
THEOREM ConditionalOnHeldData == Serial => (Spec => []ETagVouchesForData)
  <1>1. IInv => ETagVouchesForData
    BY RefreshAssumption DEF IInv, TypeOK, Holds, FetchInv, ETagVouchesForData
  <1> QED BY <1>1, Invariance, PTL

-----------------------------------------------------------------------------

\* Until a fetch outlives its lease, whoever asks the provider is the one whose
\* token is on the row, and the row is leased.
LeaseInv ==
    ~overran => \A t \in Refreshers :
        pc[t] = "fetching" => row.token = t /\ Leased(row)

\* A request that ends, and held the lease if it was fetching, leaves no one
\* fetching who does not hold it.
LEMMA EndKeepsLease ==
    ASSUME TypeOK, LeaseInv, NEW r \in Requests, End(r), overran' = overran,
           row' = row \/ (r \in Refreshers /\ pc[r] = "fetching")
    PROVE  LeaseInv'
  <1> SUFFICES ASSUME ~overran, NEW t \in Refreshers, pc'[t] = "fetching"
               PROVE  row'.token = t /\ Leased(row')
    BY DEF LeaseInv, Leased
  <1>1. t # r /\ pc[t] = "fetching"
    BY DEF End, TypeOK, Requests
  <1>2. row.token = t /\ Leased(row)
    BY <1>1 DEF LeaseInv
  <1>3. row' = row
    BY <1>1, <1>2 DEF LeaseInv
  <1> QED BY <1>2, <1>3

\* A refresh begins only on a row that is not leased, and leases it.
LEMMA BeginKeepsLease ==
    ASSUME IInv, LeaseInv, Serial,
           NEW t \in Refreshers, NEW force \in BOOLEAN, Begin(t, force)
    PROVE  LeaseInv'
  <1> SUFFICES ASSUME ~overran, NEW u \in Refreshers, pc'[u] = "fetching"
               PROVE  row'.token = u /\ Leased(row')
    BY DEF LeaseInv, Leased, Begin
  <1> DEFINE object == [Basis(t) EXCEPT !.status = "refreshing", !.token = t, !.lease = "live"]
  <1>1. mine[t] = row BY DEF Begin, Locked, Serial
  <1>2. Basis(t) = IF row.status # "absent" THEN row ELSE Blank
    BY <1>1 DEF Basis
  <1>3. ~Leased(row)
    BY <1>2 DEF Begin, Leased
  <1>4. u = t
    BY <1>3 DEF Begin, LeaseInv, IInv, TypeOK, Requests
  <1>5. Basis(t) \in Snapshot /\ object \in Snapshot /\ row \in Snapshot
    <2>1. row \in Snapshot BY DEF IInv, TypeOK
    <2>2. Blank \in Snapshot BY DEF Blank, Snapshot, Instant, RefreshStatus
    <2>3. Basis(t) \in Snapshot BY <1>2, <2>1, <2>2
    <2> QED BY <2>1, <2>3 DEF Snapshot, Instant, RefreshStatus
  <1>6. object.status = "refreshing" /\ object.token = t /\ object.lease = "live"
    BY <1>5 DEF Snapshot
  <1> HIDE DEF object
  <1>7. row'.token = t /\ row'.lease = "live" /\ row'.status = "refreshing"
    <2>1. CASE row.status = "absent"
      BY <2>1, <1>6 DEF Begin, object
    <2>2. CASE row.status # "absent"
      <3>1. row' = Flush(row, row, object, {"token", "lease"})
        BY <1>2, <2>2 DEF Begin, object
      <3> QED BY <1>5, <1>6, <3>1, FlushColumns
    <2> QED BY <2>1, <2>2
  <1> QED BY <1>4, <1>7 DEF Leased

\* Every step keeps the lease with whoever is fetching.
LEMMA NextKeepsLease ==
    ASSUME IInv, LeaseInv, Serial, [Next]_vars
    PROVE  LeaseInv'
  <1>0. TypeOK BY DEF IInv
  <1>1. ASSUME NEW r \in Requests, Load(r) PROVE LeaseInv'
    BY <1>0, <1>1 DEF Load, LeaseInv, Leased, TypeOK, Requests
  <1>2. ASSUME NEW r \in Requests, End(r), UNCHANGED <<url, row, overran>> PROVE LeaseInv'
    BY <1>0, <1>2, EndKeepsLease
  <1>3. ASSUME NEW t \in Refreshers, NEW force \in BOOLEAN, Begin(t, force) PROVE LeaseInv'
    BY <1>3, BeginKeepsLease
  <1>4. ASSUME NEW t \in Refreshers, Modified(t) \/ NotModified(t) \/ Fail(t) PROVE LeaseInv'
    <2>1. pc[t] = "fetching" /\ End(t) /\ overran' = overran
      BY <1>4 DEF Modified, NotModified, Fail, Store
    <2> QED BY <1>0, <2>1, EndKeepsLease DEF Requests
  <1>5. ASSUME NEW e \in Editors, NEW repo \in Repos, Edit(e, repo) PROVE LeaseInv'
    BY <1>0, <1>5 DEF Edit, Serial, End, LeaseInv, TypeOK, Requests
  <1>6. CASE LeasePasses
    BY <1>6 DEF LeasePasses, LeaseInv
  <1>7. ASSUME NEW column \in {"stale_after", "retry_after"}, InstantPasses(column)
        PROVE  LeaseInv'
    BY <1>0, <1>7 DEF InstantPasses, LeaseInv, Leased, TypeOK, Snapshot
  <1>8. CASE UNCHANGED vars
    BY <1>8 DEF vars, LeaseInv, Leased
  <1> QED
    BY <1>1, <1>2, <1>3, <1>4, <1>5, <1>6, <1>7, <1>8 DEF Next, Abort, Decline, Requests

\* As long as no fetch outlives its lease, no second refresh of the project
\* asks the provider while one is under way.
THEOREM LeaseKeepsOthersOut == Serial => (Spec => []OneFetchAtATime)
  <1> SUFFICES ASSUME Serial PROVE Spec => []OneFetchAtATime OBVIOUS
  <1>1. Init => LeaseInv
    BY DEF Init, LeaseInv, Requests
  <1>2. IInv /\ LeaseInv /\ [Next]_vars => LeaseInv'
    BY NextKeepsLease
  <1>3. LeaseInv => OneFetchAtATime
    <2> SUFFICES ASSUME LeaseInv, ~overran
                 PROVE  Cardinality({t \in Refreshers : pc[t] = "fetching"}) <= 1
      BY DEF OneFetchAtATime
    <2> DEFINE fetching == {t \in Refreshers : pc[t] = "fetching"}
    <2>1. fetching \subseteq {row.token}
      BY DEF LeaseInv
    <2>2. fetching = {} \/ fetching = {row.token}
      BY <2>1
    <2>3. Cardinality({}) = 0 /\ Cardinality({row.token}) = 1
      BY FS_EmptySet, FS_Singleton
    <2> QED BY <2>2, <2>3
  <1> QED BY <1>1, <1>2, <1>3, Invariance, PTL DEF Spec

\* The lease and the two stages of refresh_repository_metadata do together what
\* they are for.
THEOREM RefreshStaysSound == Serial => (Spec => []RefreshIsSound)
  <1> SUFFICES ASSUME Serial PROVE Spec => []RefreshIsSound OBVIOUS
  <1>1. FreshIsComplete /\ ETagVouchesForData /\ OneFetchAtATime => RefreshIsSound
    BY DEF RefreshIsSound
  <1> QED
    BY <1>1, FreshHasData, ConditionalOnHeldData, LeaseKeepsOthersOut, PTL

=============================================================================
