------------------------- MODULE RepositoryRefresh --------------------------
(***************************************************************************)
(* The cached repository metadata of one open-source project.  A refresh   *)
(* takes a lease on the snapshot row under the project's lock, asks the    *)
(* provider with no lock held, and stores the answer if its token is still *)
(* on the row; an edit of the project's repository URL clears the row.     *)
(*                                                                         *)
(* Every request has a session of its own.  Its first query loads the      *)
(* snapshot together with the project while it may still have to wait for  *)
(* the project's lock, and later queries return what was loaded then (see  *)
(* UnitOfWork): `mine' is that copy.  Instants are kept as "none" (NULL),  *)
(* "live" (in the future) or "past".                                       *)
(***************************************************************************)
EXTENDS UnitOfWork, Naturals, FiniteSets

CONSTANTS
    Repos,      \* repositories a project may name
    None,       \* NULL
    Refreshers, \* refresh requests
    Editors,    \* project edits
    StaleReads,         \* may others commit between a request's load and its lock?
    EditsOverlap        \* may the URL be edited while a refresh asks the provider?

ASSUME RefreshAssumption ==
    /\ None \notin Repos \union Refreshers
    /\ Refreshers \intersect Editors = {}
    /\ StaleReads \in BOOLEAN
    /\ EditsOverlap \in BOOLEAN

VARIABLES
    url,        \* projects.repository_url
    row,        \* repository_metadata_snapshots
    pc,
    mine,       \* each session's copy of the row
    target,     \* the repository each refresher asks about
    overran     \* history: has a fetch outlived its lease?

vars == <<url, row, pc, mine, target, overran>>

Requests == Refreshers \union Editors

-----------------------------------------------------------------------------

Instant == {"none", "live", "past"}

\* "failed" stands for rate_limited and unavailable, which nothing tells apart.
RefreshStatus == {"absent", "stale", "refreshing", "fresh", "failed"}

Snapshot ==
    [identity : Repos \union {None}, etag : Repos \union {None}, fetched : BOOLEAN,
     stale_after : Instant, status : RefreshStatus, retry_after : Instant,
     token : Refreshers \union {None}, lease : Instant]

\* A row as it is inserted, and as an edit of the URL leaves it.
Blank == [identity |-> None, etag |-> None, fetched |-> FALSE, stale_after |-> "none",
          status |-> "stale", retry_after |-> "none", token |-> None, lease |-> "none"]

NoRow == [Blank EXCEPT !.status = "absent"]

TypeOK ==
    /\ url \in Repos
    /\ row \in Snapshot
    /\ pc \in [Requests -> {"ready", "loaded", "fetching"}]
    /\ mine \in [Requests -> Snapshot]
    /\ target \in [Refreshers -> Repos \union {None}]
    /\ overran \in BOOLEAN

Init ==
    /\ url \in Repos
    /\ row = NoRow
    /\ pc = [r \in Requests |-> "ready"]
    /\ mine = [r \in Requests |-> NoRow]
    /\ target = [t \in Refreshers |-> None]
    /\ overran = FALSE

\* A request ends, and its session with it.
End(r) ==
    /\ pc' = [pc EXCEPT ![r] = "ready"]
    /\ mine' = [mine EXCEPT ![r] = NoRow]
    /\ target' = [t \in Refreshers |-> IF t = r THEN None ELSE target[t]]

\* The query that loads the project, its snapshot, and locks the project.
Load(r) ==
    /\ pc[r] = "ready"
    /\ pc' = [pc EXCEPT ![r] = "loaded"]
    /\ mine' = [mine EXCEPT ![r] = row]
    /\ UNCHANGED <<url, row, target, overran>>

\* What the request works on once it holds the project's lock.
Locked(r) == pc[r] = "loaded" /\ (StaleReads \/ mine[r] = row)

-----------------------------------------------------------------------------
(* Refreshing.                                                             *)

\* The snapshot a refresh decides on: its own copy, or, if there was no row
\* when it loaded the project, the one it finds or inserts now.
Basis(t) ==
    IF mine[t].status # "absent" THEN mine[t]
    ELSE IF row.status # "absent" THEN row ELSE Blank

Current(snapshot) ==
    snapshot.status = "fresh" /\ snapshot.fetched /\ snapshot.stale_after = "live"

\* Mutant: the lease is not looked at.
Leased_Never(snapshot) == FALSE

Leased(snapshot) == snapshot.status = "refreshing" /\ snapshot.lease = "live"

Begin(t, force) ==
    LET basis == Basis(t)
        object == [basis EXCEPT !.status = "refreshing", !.token = t, !.lease = "live"]
    IN /\ Locked(t)
       /\ force \/ ~Current(basis)
       /\ ~Leased(basis)
       /\ basis.retry_after # "live"
       /\ row' = IF row.status = "absent" THEN object
                 ELSE Flush(row, basis, object, {"token", "lease"})
       /\ mine' = [mine EXCEPT ![t] = object]
       /\ target' = [target EXCEPT ![t] = url]
       /\ pc' = [pc EXCEPT ![t] = "fetching"]
       /\ UNCHANGED <<url, overran>>

\* The snapshot is fresh, leased, or in the provider's retry window.
Decline(t) ==
    /\ Locked(t)
    /\ \/ Current(Basis(t))
       \/ Leased(Basis(t))
       \/ Basis(t).retry_after = "live"
    /\ End(t)
    /\ UNCHANGED <<url, row, overran>>

\* The row is locked and returned again, so this compares the session's copy.
Owns(t) == mine[t].token = t

\* The provider's answer is stored, or given up when another token is found.
Store(t, object, stamped) ==
    /\ pc[t] = "fetching"
    /\ row' = IF Owns(t)
                THEN Flush(row, mine[t],
                           [object EXCEPT !.token = None, !.lease = "none"], stamped)
                ELSE row
    /\ End(t)
    /\ UNCHANGED <<url, overran>>

Fresh(snapshot) ==
    [snapshot EXCEPT !.fetched = TRUE, !.stale_after = "live", !.status = "fresh",
                     !.retry_after = "none"]

\* The provider sends an ETag of what it answers, or none.
Modified(t) ==
    \E etag \in {target[t], None} :
        Store(t, [Fresh(mine[t]) EXCEPT !.identity = target[t], !.etag = etag],
              {"fetched", "stale_after"})

\* Only an ETag of the repository that is asked about is answered by 304.
NotModified(t) ==
    /\ pc[t] = "fetching" /\ mine[t].etag = target[t]
    /\ IF mine[t].fetched /\ mine[t].identity # None
         THEN Store(t, Fresh(mine[t]), {"fetched", "stale_after"})
         ELSE Store(t, [mine[t] EXCEPT !.status = "failed"], {})

Fail(t) ==
    Store(t, [mine[t] EXCEPT !.status = "failed", !.retry_after = "live"], {"retry_after"})

-----------------------------------------------------------------------------
(* Editing the project.                                                    *)

\* Mutant: the edit leaves the data of the snapshot as it was.
Cleared_KeepsData(snapshot) ==
    [Blank EXCEPT !.identity = snapshot.identity, !.fetched = snapshot.fetched]

Cleared(snapshot) == Blank

Edit(e, repo) ==
    /\ Locked(e)
    /\ EditsOverlap \/ \A t \in Refreshers : pc[t] # "fetching"
    /\ url' = repo
    /\ row' = IF repo # url /\ mine[e].status # "absent"
                THEN Flush(row, mine[e], Cleared(mine[e]), {})
                ELSE row
    /\ End(e)
    /\ UNCHANGED overran

-----------------------------------------------------------------------------
(* The environment.                                                        *)

\* A request is cut off, by a crash or an error the service does not handle.
Abort(r) ==
    /\ pc[r] # "ready"
    /\ End(r)
    /\ UNCHANGED <<url, row, overran>>

LeasePasses ==
    /\ row.lease = "live"
    /\ row' = [row EXCEPT !.lease = "past"]
    /\ overran' = (overran \/ \E t \in Refreshers : row.token = t /\ pc[t] = "fetching")
    /\ UNCHANGED <<url, pc, mine, target>>

InstantPasses(column) ==
    /\ row[column] = "live"
    /\ row' = [row EXCEPT ![column] = "past"]
    /\ UNCHANGED <<url, pc, mine, target, overran>>

Next ==
    \/ \E r \in Requests : Load(r) \/ Abort(r)
    \/ \E t \in Refreshers :
        \/ \E force \in BOOLEAN : Begin(t, force)
        \/ Decline(t)
        \/ Modified(t)
        \/ NotModified(t)
        \/ Fail(t)
    \/ \E e \in Editors, repo \in Repos : Edit(e, repo)
    \/ LeasePasses
    \/ \E column \in {"stale_after", "retry_after"} : InstantPasses(column)

Spec == Init /\ [][Next]_vars

-----------------------------------------------------------------------------
(* Properties.                                                             *)

\* The metadata shown for a project is that of the repository it names.
SnapshotDescribesProject == row.identity \in {url, None}

\* A snapshot that claims to be fresh has something to show.
FreshIsComplete ==
    row.status = "fresh" => row.fetched /\ row.identity # None /\ row.stale_after # "none"

\* A conditional request is only made for data that is held, so that a 304
\* always confirms something: the branch for an invalid 304 is never taken.
ETagVouchesForData ==
    /\ row.etag # None => row.fetched /\ row.identity = row.etag
    /\ \A t \in Refreshers : pc[t] = "fetching" /\ mine[t].etag = target[t]
                                => mine[t].fetched /\ mine[t].identity # None

\* The lease keeps a second refresh from asking the provider, as long as no
\* fetch outlives its lease.
OneFetchAtATime == ~overran => Cardinality({t \in Refreshers : pc[t] = "fetching"}) <= 1

\* What the lease and the two stages of a refresh are for: one provider call at
\* a time, data behind every "fresh", and an ETag only for data that is held.
RefreshIsSound == FreshIsComplete /\ ETagVouchesForData /\ OneFetchAtATime

=============================================================================
