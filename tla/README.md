# A formal model of the portfolio platform

TLA+ modules, TLC configurations and TLAPS proofs for the Python services of
this repository (`services/`, `apps/api/`, `packages/python/`).  Every
definition is translated from the code; `PROJECT.json` maps each one to the
lines it stands for.

The system is a FastAPI process, possibly several of them, over one PostgreSQL
database and a directory of files.  Requests are asyncio tasks that share
nothing but the database, and a session (SQLAlchemy, `autoflush=False`,
`expire_on_commit=False`) keeps what it has loaded.  The hard behaviours follow
from that:

- requests decide on rows they read without a lock, or whose lock does not
  cover everything the query returned, and write them later;
- a flush writes only the columns that differ from what the session loaded;
- work continues over several transactions (limiter, then insert, then
  delivery; lease, then fetch, then store), so that crashes, lost replies and
  timeouts fall between them;
- files, mail and the metadata provider take part in no transaction.

## 1. Inventory

| Component | State | Operations | Talks to | Hard | Correct when | Module |
|---|---|---|---|---|---|---|
| Notification outbox (`services/engagement`, worker in `apps/api/main.py`) | outbox rows, `notification_status` of submissions | create, poll, claim, send, complete, retry, admin reset | database, SMTP | leases, stale tasks, lost replies, crashes, fairness | claims exclusive, `sent` means mailed, both tables agree, settled in the end | `NotificationOutbox`, `NotificationPromise` |
| Rate limiter (`common/rate_limit.py`) | buckets (count, window start) | consume several, reset | intake, login | clocks read before the commit, partial denial | limit per window, disjoint windows, all or nothing | `FixedWindow`, `RateLimiter` |
| Contact intake (`ContactService.submit`) | contacts, requests in flight | lookup by key, charge, store, answer | limiter, outbox | idempotency races, retries after lost answers | one key one receipt, stored is never denied, quota kept | `ContactIntake` |
| Repository metadata (`services/portfolio`) | snapshot row, lease, token | lease, conditional fetch, store, URL edit | GitHub | lease shorter than fetch, stale session copies | snapshot is of the project's repository, complete, vouched for by its ETag | `RepositoryRefresh` |
| Résumé versions (`services/identity`) | version rows, files | upload, publish as current, archive | storage | file and row are not one transaction, unlocked reads | current is public, has its file, is only replaced | `ResumeVersions` |
| Evidence approval (`services/portfolio`) | subject, evidence row, approval hash | approve, revoke, edit text or evidence, change the asset | public readers | locks that cover one of two rows read | shown is what was reviewed | `EvidenceApproval` |
| Featured order (`services/portfolio`) | ranks, visibility | replace the order, rank, publish, withdraw | public readers | rows locked one by one after a query | the stored order is what was asked, public | `FeaturedOrder` |
| Manifest seeding (`apps/api/seed.py`, `services/*/seeding.py`) | rows under seed keys, files | look up, create, flush by group, commit | database, storage, administrators | overlapping runs, files outlive a rollback | repeating creates nothing, files match rows | `ManifestSeeding` |
| Publication policy (`common/policies.py`) | – | status change, `is_public` | all readers | – | – | `Publication` |
| Database sessions (`clients/database.py`) | identity map | load, flush | all services | stale copies | – | `UnitOfWork` |
| Login throttle (`apps/api/auth/service.py`) | stored failures, two buckets | fail a login, answer with or without delay | limiter | counts read before the verification, raised after it | guessing is slowed down in every window, overruns are bounded | `LoginThrottle` |
| Sessions and credentials (`apps/api/auth`, `manage.py`) | administrators, sessions | login, authenticate, rehash, logout, create, rotate | database | a login overlaps a rotation | a session does not outlive its password, credentials are of one command | `AdminSessions` |
| Profiles, portraits, media (`services/identity`, `services/portfolio`) | rows, files, selections | create, upload, select, archive, hide | storage | clearing and selecting are two statements, file and row are not one transaction | one primary, which can be shown; files follow rows | `PrimaryAssets` |
| Homepage (`services/content`) | sections with positions | replace the composition, create, edit, withdraw | readers | unlocked replacement under a unique index | the composition is what was asked for, in order | `HomepageComposition` |
| Seed importers (`apps/api/seed_importers.py`) | – | document or archive to manifest | seeding | places and names in keys, dates, folding | references resolve, periods in order, growth keeps keys | `SeedImport` |
| Migrations (`db/migrations/versions` 0005, 0006) | five tables | upgrade, downgrade | everything stored | constraints over moved data | no migration fails, nothing due, referred to or ranked is lost | `SchemaUpgrade` |
| Public catalog (`services/public_catalog`) | rows, a snapshot in three sessions | read statement by statement, assemble documents | administrators | rows and relations come from different instants | – (its readers' properties) | `PublicCatalog` |
| Discovery (`services/discovery`) | last good documents | pages, sitemap, robots, llms.txt | catalog, crawlers | stale on error, requests share the list | nothing withdrawn lingers, no hidden page is to be indexed | `DiscoveryService` |
| Assistant (`services/assistant`) | one question, audit events | admit, search, cut a context, ask, check claims, audit | catalog, AI provider | truncation, failures of provider and audit | claims stand in what was sent, sources were indexable, audit tells the answer | `AssistantService` |
| HTTP files, settings, middleware, web application, deployment | – | – | – | – | – | not modelled, see section 8 |

Correctness needs some words of its own in these components:

- *Outbox.*  Delivery is at least once.  A row is the only memory of what is
  owed; two tables say how it stands and are written by different statements.
- *Intake.*  A client that got no answer sends the same key again, and must
  get the contact it has already stored, whatever the limiter thinks by now.
- *Refresh, résumés, approval, featured order.*  Each lets an administrator
  decide on something visitors then see; what they see must be what was
  decided, not a mixture of two requests.
- *Primaries.*  Selecting is clearing and setting; in between another request
  may select or archive.  The index admits no second one, but it does not
  require one.
- *Seeding, importing, migrating.*  Operators repeat the first two, over data
  that people have edited and sources that have grown; a migration must accept
  whatever any sequence of legal calls has stored.
- *Readers.*  Visitors, crawlers and the AI provider see copies, and each copy
  has an age; what was withdrawn must be gone when that age is over.

`PROJECT.json` lists every hazard with its line and the properties that would
catch it; those not covered yet say why.

## 2. Plan

Done, in this order: the outbox and its promise; the limiter; intake as their
composition; refresh, résumés, evidence and featured order, which combine locks
with session copies; seeding; logins and sessions on top of the limiter's
buckets; the homepage; importers and migrations, at the two ends of the stored
data; the catalog with its two readers; profiles, portraits and media.

What could follow, most useful first:

1. `EvidenceApproval` column by column, for two editors of one evidence
   (`portfolio/service.py:1261`).
2. The dry run of seeding against the run it announces.
3. Several profiles with portraits, and evidence deleted with its media.

## 3. Modules

**NotificationOutbox.**  One action per database transaction of
`services/engagement/repository.py`: `CreateContact`, `ListDue`, `Claim`,
`LoseClaim`, `Complete`, `Retry`, `ResetRead`, `ResetWrite`; the mail call is
`SendSucceeds`, `SendFails` (refused) or `SendTimesOut` (the task gives up on
a thread whose mail goes out all the same).  A reset reads in one transaction
step and writes in a later one, as the code does.  `Crash` is the loss of a
task with what it had in hand.  Instants are kept as the time left, so that
"due" is a timer at 0; `Tick` advances them.  `mailed` is a history of the
attempts the server accepted.

**NotificationPromise.**  What a contact's author is promised, without rows,
leases or tasks.  `NotificationOutbox!KeepsPromise` is the refinement: the
states in which delivery is still due are all "owed".

**FixedWindow, RateLimiter.**  The arithmetic of one bucket, and callers that
read the clock in one step (`Ask`) and write buckets in another (`Consume`),
not in that order.  `admitted` is a history, for each bucket that is never
reset, of the instants it was consumed at.

**ContactIntake** extends both: `Begin`, `Lookup`, `Charge`, `Store`,
`Finish`, with the outbox's actions beside them.  Its specification implements
`NotificationOutbox!Spec`.

**UnitOfWork** is external to the repository: what a flush writes, given what
the session loaded and what it assigned.  **Publication** is `is_public` and
the status change of `common/policies.py`.

**RepositoryRefresh.**  `Load` is the query that waits for the project's lock
and brings the snapshot with it, `Begin`/`Decline` decide on that copy,
`Modified`, `NotModified` and `Fail` are the answers as stored by
`Store`, which contains the token check; `Edit` is the change of the URL.

**ResumeVersions.**  `SaveFile`, `StoreRow`, `RefuseRow`, `AbandonUpload`,
`DeleteFile` are the steps of an upload; `Load`, `Clear`, `Publish`,
`Archive` those of a request.  An upload is "misled" when its commit succeeded
and raised.

**EvidenceApproval.**  `Query` returns subject and evidence, `LockSubject`
takes the lock the query was waiting for; approvals, revocations and edits
write under it, while a change of the asset locks the evidence and reads the
subject.

**FeaturedOrder.**  `Query` selects the rows of a replacement, `Lock` takes
them one at a time and drops those that no longer match, `Replace` writes.
`late` is a history of the projects that became featured after the query.

**ManifestSeeding.**  Portfolio, identity and content seeders are one
algorithm over different tables: a record has a seed key, and where the table
has them a natural name that is unique and looked up, a rank that is unique
only, a file, a reference, a selection.  Keys and names carry their table.
`Skip`, `Create`, `Flush`, `Conflict`, `Commit`, `Abort` are the run;
`Author`, `Edit`, `Delete` the administrators.

**LoginThrottle** takes `FixedWindow` for the two buckets of failures.  `Begin`
counts the client's stored failures, `FailVerification` those of the account;
`ChargeClient` and `ChargeAccount` are transactions of their own, and the
failure is stored last, with the answer.  `failures` are the rows of
`login_attempts` that did not succeed; `told` is a history of the instants at
which an account answered without delay.

**AdminSessions.**  A login verifies what it read and commits its session, the
rehashed password and the time of login as a flush of its own copy; a rotation
revokes in one statement and commits later.  `issued` is a history of the
credentials a command committed last, `crossed` of the administrators about
whom requests overlapped.

**HomepageComposition.**  A replacement reads, moves its rows behind all
others in a first flush (`Staged`) and writes what was asked in a second
(`Assigned`); both must fit the index on the way.  Single sections are
created, edited and withdrawn beside it.

**PrimaryAssets** treats profiles and portraits alike: `ClearOthers` is the
statement that clears whoever is primary, `SelectItem` the flush of the
loaded item.  Creations do the same with `ClearForCreation` and `StoreItem`,
after a file is saved; `FailItem`, `DeleteUpload` and `CutCreation` are what
can go wrong.  `overtaken` is a history of the items that were written while
another request had them loaded.  Project media have the same upload and no
selection.

**SeedImport** builds a source entry by entry (or member by member) and
defines the manifest as a function of it: keys with their places, skills of
two lists by folded name, slugs, dates with their first and last days, what is
skipped, what is refused, and the validation that a manifest meets.  The code
collects in loops; the module says what they leave.  The place of an entry is a
number of entries up to it (`Counted`, `Place`), a skill is the first mention of
its folded name (`Earlier`, `NewSkills`), and a group is a function from what
its records are made of to the records, so that two alike are still two.

**SchemaUpgrade.**  The tables that migrations 0005 and 0006 touch, under the
constraints of the revision they are at; `Upgrade5`, `Downgrade5`, `Upgrade6`
and `Downgrade6` each are one transaction, the `Store...` actions put in a row
anything the application may store at that revision.

**PublicCatalog** is the snapshot, statement by statement, in three sessions
that interleave, and the documents made of it, with their relations' filters.
`last` is a history of when each row was last public and last indexable.
**DiscoveryService** and **AssistantService** extend it: the former keeps the
last good documents and serves them while reading fails, the latter takes a
question from admission to its audit event, with a provider that may claim
anything.  A text is a sequence of facts, a fact is a row and a number.  The
statements of a snapshot are numbered and `Plan` says which of them a reading
executes.  Documents of equal relevance may come in any order, so a search has
a set of outcomes (`Ranked`, `BestOfPage`, `Search`), and so has the context
(`Contexts`).  There is at most one profile, since a snapshot holds only the
one that `get_public_profile` returns.

The `MC...` modules hold symmetry sets and small instances.  `MCLimits`,
`MCEdits`, `MCDataMoves`, `MCAssets` and `MCReading` put several modules that
share no state side by side; each behaviour runs one of them (`part`).  The
proofs follow the same grouping: `LimitsProofs`, `EditsProofs`,
`DataMovesProofs`, `AssetsProofs` and `ReadingProofs`, and for the three others
`NotificationOutboxProofs`, `ContactIntakeProofs`, `RepositoryRefreshProofs`.

Left out of the modelled components: wording and formatting, list and read
endpoints, and the audit trail of approvals (`PortfolioApprovalEvent`), which
no decision reads.

## 4. Runs

| Run | Module, configuration | Expected | Properties | Shows |
|---|---|---|---|---|
| outbox | `MCNotificationOutbox`, `outbox.cfg` | passes | `TypeOK`, `AttemptsAreExclusive`, `SettledIsTrue`, `NoticeMirrorsOutbox`, `MailedOnceUnlessFaulty`, `OnlyAStaleResetReopensSent`, `EventuallySettled`, `KeepsPromise` | A poller, an inline delivery and an administrator share rows while sends outlast leases, replies get lost and tasks crash: attempts stay exclusive, what the row says is what was mailed, a contact is mailed once if no fault happens, every notification is settled in the end, and the delivery promise is implemented. |
| outbox_duplicate | `MCNotificationOutbox`, `outbox_duplicate.cfg` | fails | `MailedAtMostOnce` | A send whose reply is lost is repeated under a fresh message id, so that one contact is mailed twice. |
| limits | `MCLimits`, `limits.cfg` | passes | `WithinLimit`, `BurstsAreBounded`, `CredentialsHold`, `WindowsDoNotOverlap`, `AllOrNothing` | What requests that overlap can overrun is bounded: callers with late clock readings share buckets; logins fail at one time; logins, rotations and creations run at one time. No window exceeds its limit, guessing is slowed down, and a session outlives its password, or credentials mix, only where requests about one administrator overlapped. |
| intake | `MCContactIntake`, `intake.cfg` | passes | `ReceiptsAgree`, `ReceiptsAreStored`, `KnownIsNeverDenied`, `QuotaIsKept` | Two requests race for one idempotency key around the limiter and the outbox, and are lost and sent again: one key yields one receipt, and stored contacts stay within the quota. |
| edits | `MCEdits`, `edits.cfg` | passes | `ShownIsReviewed`, `TextIsReviewed`, `ReviewIsInvalidated`, `CompositionsFit`, `RevisionMovesOn`, `FeaturedAsAsked`, `CompositionAsAsked` | Two administrators' requests overlap in every order, on a reviewed subject and its evidence, on the order of featured projects, or on the sections of the homepage: visitors see what was approved, and a replacement that succeeds shows what it was asked for, but for what the run says came late or crossed it. |
| approval_stale | `MCEvidenceApproval`, `approval_stale.cfg` | fails | `ShownIsReviewed` | An approval that waited for an editor's lock approves the evidence from before the edit, and visitors see the edited one. |
| featured_mixed | `MCFeaturedOrder`, `featured_mixed.cfg` | fails | `OrderIsWhole` | A project that another request featured after the query keeps its slot beside the new order. |
| data | `MCDataMoves`, `data.cfg` | passes | `FilesMatchRows`, `ImportsAreSound`, `GrowthKeepsKeys`, `SchemaFits`, `RepeatsCreateNothing`, `ConflictIsWithStored`, `MigrationsLoseNothing` | Documents and archives of up to three entries, in every order, become manifests; two runs of manifests that share keys, names and files are applied, cut off and applied again among an administrator's changes; migrations 0005 and 0006 go up and down over whatever the application stores in between. Imports resolve and stay in order and are refused only for what the source says itself; a repeated manifest creates nothing, a reported conflict is with a stored record, and until two runs meet, files match rows; migrations never fail on stored data and lose no notification, reference or rank. |
| refresh | `MCRepositoryRefresh`, `refresh.cfg` | passes | `SnapshotDescribesProject`, `RefreshIsSound` | Two refreshes whose fetches may outlast their leases, fail or be cut off, and URL edits between them: what is stored is one repository's, complete and vouched for by its ETag, and until a fetch outlasts its lease one refresh at a time asks the provider. |
| refresh_replaced | `MCRepositoryRefresh`, `refresh_replaced.cfg` | fails | `SnapshotDescribesProject` | An edit of the URL during a fetch: the token check compares the session's own copy, so the old repository's metadata is stored for the new URL. |
| assets | `MCAssets`, `assets.cfg` | passes | `CurrentCanBeShown`, `CurrentIsOnlyReplaced`, `PrimariesAreSound` | Résumé versions are published and archived, profiles and portraits created, selected and archived, media uploaded and hidden, by overlapping requests whose uploads fail, are cut off or learn a wrong outcome: as long as no request overwrites what it has not seen, the current résumé stays public, keeps its file and is only replaced, and there is one primary profile and no archived primary portrait; files follow their rows. |
| reading | `MCReading`, `reading.cfg` | passes | `CrawlersAreCurrent`, `SourcesWereIndexable`, `AnswersHold`, `ContextIsBounded` | Two crawlers' requests that share the last good documents, or a question to the assistant, read the catalog statement by statement while an administrator withdraws or hides a row, statements fail and time passes. |

Bounds, and why they are enough:

- *outbox*: one poller and one handler are the smallest set in which every
  pair of steps (worker/worker, worker/reset, inline/poll) meets, since a
  handler also plays the administrator; two rows make the batch limit of 1
  bite.  Two attempts with a limit of four claims let a row be claimed past
  `MaxAttempts` by stale leases and resets.  Two faults suffice for a crash
  followed by a reset of what it left, or for two lost replies.
- *limits*: for the limiter, windows of 2 and a clock to 5 give two full
  windows and a lag that crosses their border; `BurstIsBounded` is the general
  bound `(3 * Window + MaxLag - 2) \div Window` windows per stretch.  For the
  throttle, two logins of one client for one account, which may overlap, at
  instants of two windows.  For sessions, one administrator, one login and two
  commands: two addresses and two secrets are enough to tell old from new and
  one command's credentials from another's.
- *intake*: two handlers race for one key with two payloads; a limit of 1
  makes the second charge fail; a handler that is lost begins again.
- *refresh*: two repositories, two refreshes, one editor, each of whom may
  begin again.
- *edits*: for evidence, revisions to 3 and two rows inserted one after another;
  for the featured order, two projects and two slots, so that orders can be
  swapped, and two replacements (with three projects the same properties hold
  over 1.5 million states); for the homepage, two types of section, every order
  of them, two edits, and an occupied position that a single section can be
  given.
- *assets*: three versions (current, next, one more) and two requests; two
  profiles, two portraits, one medium and two editors.  The three tables are
  apart, so in each behaviour the items of one of them can be created.
- *data*: for seeding, two manifests that share a key with different files
  (`Illustrated`, `Revised`; the first holds a reference and a rank), one
  whose records share a name (`Ambiguous`) and one with two records that ask to be selected (`Rivals`);
  two runs and an administrator who may do anything.  For imports,
  sources of up to three entries: a skill met again needs two, a key that moves
  needs one before and one after; dates stand around the end of a February of a
  leap year and of another.  For migrations, as many rows of a table as its
  constraints and statements relate (three projects for one rank and the choice
  between those that share it).
- *reading*: a profile, a project, a skill, a sector that is noindex and a
  metric, so that each way of quoting another row occurs; two requests and one
  edit; a reading takes at most one tick, the last good documents may be one
  tick old, and the clock ends after three, which lets every age pass.  The
  context has room for one document and part of another.

Deadlock is not checked where a bound stops the model (claims, faults, clock,
revisions, entries), where every upload may have failed for good (`assets`), or
where the system may rest.

A property that joins several (`CredentialsHold`, `CrawlersAreCurrent`,
`ImportsAreSound`, `PrimariesAreSound`, ...) states what one component promises as
a whole; its conjuncts are defined, and commented, just above it.

`StaleReads = FALSE` (refresh, assets for résumés, edits for evidence) restricts
a request to write only if what its session loaded is still so;
`EditsOverlap = FALSE` keeps URL edits out of a fetch.  These are assumptions
about use (one administrator, one request at a time on a row), not about the
code, and the violation runs show what happens without them.  Where an
assumption could be a history variable instead (`faults`, `overran`, `late`,
`crowded`, `crossed`, `overtaken`), nothing is restricted: the property says
until when it holds.

### Fairness

Only the outbox has liveness.  `Fairness` assumes of every polling task what
`_run_contact_notification_worker` (`apps/api/main.py:75-101`) does: it loops
for as long as the process lives, catches every exception of a poll, and
begins again; `docker-compose.yml` restarts a process that ends
(`restart: unless-stopped`).  A send ends within `wait_for`, and time passes.
Of every task, pollers and handlers, weak fairness of `Deliver` says that it
goes on with a delivery it has begun unless it crashes, as an asyncio task
does.  Nothing makes a visitor submit or an administrator retry.  Faults are
finitely many: infinitely many crashes do keep a row from being settled, as
the code has no bound on reclaims.

## 5. Disagreements found

Runs that are expected to fail state what the repository says of itself and
show the code doing something else:

- `outbox_duplicate`: a send whose reply is lost is mailed again under a fresh
  message id, although `architecture.md` speaks of provider idempotency.
- `refresh_replaced`: the ownership check after a fetch compares the session's
  own copy, so the metadata of the old repository is stored for the new URL.
- `approval_stale`: an approval that waited for an editor's lock approves the
  evidence from before the edit, and visitors see the edited one.
- `featured_mixed`: a project featured after the query of a replacement keeps
  its slot beside the new order.

Seen while modelling, reproducible by changing one line of a configuration
or of a module:

- `SentIsFinal` as a PROPERTY with `outbox.cfg`: an administrator's retry that
  read the row before it was sent turns it back to retrying
  (`engagement/repository.py:404`).
- `OneFetchAtATime` with `StaleReads = TRUE` in `refresh.cfg`: a refresh that
  waited for another one decides on the snapshot from before its lease
  (`portfolio/service.py:331`).
- `CurrentIsPublic` and `CurrentIsOnlyReplaced` with `StaleReads = TRUE` in
  `assets.cfg`: archiving and publishing one version interleave
  (`identity/service.py:260`), and publishing the current version again while
  another is published leaves none (`:254`).  The "misled" exception of
  `CurrentHasFile` is the upload that deletes the file of a row it did store
  (`:234`).
- `ReviewIsInvalidated` with `StaleReads = TRUE` in `edits.cfg`: an asset is
  archived while its evidence is approved (`portfolio/service.py:1411`).
- `FilesMatchRows` without its `~crowded`: a refused run has replaced the file
  of the record a concurrent run stored (`identity/seeding.py:210`).
- `ConflictIsWithStored` without `BothSelected`: two records of a manifest that
  ask to be current are refused as if they conflicted with stored ones
  (`identity/seeding.py:226`, where the lookup does not see unflushed rows).
- `PrimaryIsActive` and `AProfileIsPrimary` without `overtaken`: a portrait that
  is archived while it is selected stays primary (`identity/service.py:181`),
  and selecting a profile that was primary when it was loaded, while another is
  selected, leaves no primary profile (`:75-77`).  A failing clearing statement
  leaves the file of a portrait, because the `try` covers only the commit
  (`:168`).
- Going down from 0005 and up again makes notifications due that had been given
  up (`NoticesSurvive` leaves those out).
- An import is refused when two names of its source have one slug, or none, or
  when a certificate and an award are the same in the same place
  (`AcceptedUnlessNamesMeet`).
- A slow discovery request may replace newer last-good documents by its older
  ones; their age counts from its own end (`CrawlersAreCurrent` includes
  `ReadTime` for that).
- The documents of collections are never noindex and may quote rows that are;
  the search cuts its list to the limit before documents that must not be used
  are dropped (`AssistantService!Search`); experience relations are filtered by
  `is_public` alone, those of projects by `noindex` too.
- Documents without a page of their own cite the home page, even if no profile
  is public, and of several that do so one is used.
- The dry run looks records up by key only (`apps/api/seed.py:242-321`), the
  seeders by name too, so it announces creations that do not happen.  It is not
  modelled.

## 6. Proofs

Checked by TLAPS for every value of the constants that satisfies the named
assumptions (`OutboxAssumption`, `LimiterAssumption`, ... in the modules).

| Theorem | Module | Property | Says |
|---|---|---|---|
| `TypeCorrect` | `NotificationOutboxProofs` | `TypeOK` | Rows, notices and the memory of every task keep their types. |
| `ExclusiveAttempts` | `NotificationOutboxProofs` | `AttemptsAreExclusive` | Claims are exclusive for any number of replicas: no two tasks deliver under one attempt of a row. |
| `SentIsMailed` | `NotificationOutboxProofs` |  | A row that says sent was mailed under its last attempt, whatever crashes, stale completions and resets did. |
| `NoticeAgrees` | `NotificationOutboxProofs` | `NoticeMirrorsOutbox` | The submission's status always agrees with its outbox row, a reset that overwrites a concurrent step included. |
| `TerminalOnlyExhausted` | `NotificationOutboxProofs` |  | Delivery is given up only after MaxAttempts claims. |
| `SettledRowsAreTrue` | `NotificationOutboxProofs` | `SettledIsTrue` | What a settled row says is what happened: sent was mailed, terminal was exhausted. |
| `SentReopening` | `NotificationOutboxProofs` | `OnlyAStaleResetReopensSent` | Only the write of a reset that had read the row before it was sent makes a sent row due again. |
| `PromiseIsKept` | `NotificationOutboxProofs` |  | The outbox implements the safety part of the delivery promise: a promise is kept only for mail that was accepted, and only a stale reset reopens it. |
| `QuotaHolds` | `LimitsProofs` | `WithinLimit` | No window counts more requests than the limit, for every limit, window and lag. |
| `WindowsAreDisjoint` | `LimitsProofs` | `WindowsDoNotOverlap` | A window restarts only after its full length, although clock readings arrive late. |
| `IntakeImplementsOutbox` | `ContactIntakeProofs` |  | The composition with intake is an implementation of the outbox, so the outbox's theorems hold while requests race, retry and get lost around it. |
| `ReceiptsStayStored` | `ContactIntakeProofs` | `ReceiptsAreStored` | Every receipt names a stored contact with that key and payload and an outbox row. |
| `ReceiptsStayAgreed` | `ContactIntakeProofs` | `ReceiptsAgree` | All receipts for one idempotency key are the same, however often the request raced or was repeated. |
| `RetriesAreAnswered` | `ContactIntakeProofs` | `KnownIsNeverDenied` | A retry of a stored submission is never denied by the rate limiter. |
| `ApprovalTypeCorrect` | `EditsProofs` |  | Types, and a lock is held only by a request that is past its query and has not ended. |
| `ApprovedTextStands` | `EditsProofs` | `TextIsReviewed` | For any number of racing requests, an approval is of the text the subject has. |
| `ShownWasReviewed` | `EditsProofs` | `ShownIsReviewed` | If no request writes over what it has not seen, visitors are shown the revision that was approved. |
| `ArchivedMeansRevoked` | `EditsProofs` | `ReviewIsInvalidated` | Under the same condition archived evidence leaves no approval. |
| `RevisionsGrow` | `EditsProofs` | `RevisionMovesOn` | Under the same condition a row of evidence changes only with a new revision. |
| `ShowsOwnRepository` | `RepositoryRefreshProofs` | `SnapshotDescribesProject` | Without an edit during a fetch or a stale load, the snapshot is always that of the repository the project names, however fetches overlap, outlast their leases or fail. |
| `FreshHasData` | `RepositoryRefreshProofs` |  | Under the same conditions a snapshot that claims to be fresh has data and a time at which it becomes stale. |
| `ConditionalOnHeldData` | `RepositoryRefreshProofs` |  | Under the same conditions a refresh is conditional only on data that is held, so the branch for an invalid 304 answer is dead. |
| `LeaseKeepsOthersOut` | `RepositoryRefreshProofs` |  | Under the same conditions, until a fetch outlives its lease, one refresh at most asks the provider. |
| `RefreshStaysSound` | `RepositoryRefreshProofs` | `RefreshIsSound` | Under the same conditions the lease, what is called fresh and the ETag keep their promises together. |
| `CurrentIsServed` | `AssetsProofs` | `CurrentCanBeShown` | If no request overwrites what it has not seen, the current version is public and, unless its upload learned a wrong outcome of its commit, has its file, for any number of racing requests. |
| `CurrentIsReplaced` | `AssetsProofs` | `CurrentIsOnlyReplaced` | Under the same condition there is always a current version once there was one. |
| `PrimariesStaySound` | `AssetsProofs` | `PrimariesAreSound` | For any numbers of profiles, portraits, media and requests: uploaded files follow their rows, what is primary can be shown, a primary profile is only replaced, and a selection takes effect, unless requests about one item overlapped. |
| `CrawlersStayCurrent` | `ReadingProofs` | `CrawlersAreCurrent` | For any catalog, statements, readers and edits: what a crawler is answered names nothing that was withdrawn longer ago than the age of the last good documents and the time of a read, and indexes only pages that were indexable within that time. |
| `CitedSourcesWereIndexable` | `ReadingProofs` | `SourcesWereIndexable` | Every document that is sent to the provider is of a row that was indexable at some moment since the question was asked, however the catalog is edited between the statements of its snapshot. |
| `AnswersStand` | `ReadingProofs` | `AnswersHold` | An answer's claims are supported by text that was sent, and the audit tells what the visitor was told, whichever of provider, parsing and recording fails. |
| `ContextsStayBounded` | `ReadingProofs` | `ContextIsBounded` | What is sent to the provider stays within the budget wherever the last document is cut, and of the documents of one page one is sent, for any scores, excerpts and budget. |
| `SeedingTypeCorrect` | `DataMovesProofs` |  | Rows, files and what every run has in hand keep their types. |
| `SeedingIsIdempotent` | `DataMovesProofs` | `RepeatsCreateNothing` | Applying a manifest again creates nothing, for any manifests, any number of overlapping runs and any edits. |
| `SeedingKeepsFiles` | `DataMovesProofs` | `FilesMatchRows` | Until two runs have been under way at once, the file of every stored record is the one its row describes, although aborted runs leave files behind and administrators edit meanwhile. |
| `MailedOnce` | `NotificationOutboxProofs` | `MailedOnceUnlessFaulty` | For any numbers of rows, pollers and handlers: before the first crash, reset, lost reply or overrun lease, each contact was mailed at most once. |
| `QuotasAreKept` | `ContactIntakeProofs` | `QuotaIsKept` | For any limits and any number of racing, retried and lost requests: the contacts charged to one window of a client address stay within its limit. |
| `ChargesAreWhole` | `LimitsProofs` | `AllOrNothing` | A request that names several buckets is counted in all of them or in none. |
| `CredentialsAlwaysHold` | `LimitsProofs` | `CredentialsHold` | For any administrators, logins and commands: an accepted session was opened with the password in force, and address and password are those of one command, unless requests about the administrator overlapped. |
| `BurstsStayBounded` | `LimitsProofs` | `BurstsAreBounded` | For every limit, window, lag and number of requests: in any stretch of time as long as a window a bucket admits no more than the windows it can touch have room, and failed logins are refused or delayed in time. |
| `GuessingIsSlowed` | `LimitsProofs` |  | For any accounts, clients and concurrent logins: a client's failures stay below the limit plus the logins under way, and an account answers plainly at most as often as two windows allow. |
| `ConflictsAreWithStored` | `DataMovesProofs` | `ConflictIsWithStored` | A run that reports a conflict with existing records does conflict with one that is stored, unless its manifest asks for two selected records. |
| `SchemaAlwaysFits` | `DataMovesProofs` | `SchemaFits` | Whatever the application stores at a revision, the statements of the next migration repair all that its constraints refuse. |
| `MigrationsKeepData` | `DataMovesProofs` | `MigrationsLoseNothing` | No migration in either direction loses a notification that is due, a reference or a rank that is shown. |
| `OrdersAreFeatured` | `EditsProofs` | `FeaturedAsAsked` | For any number of replacements: a stored order is featured as it was asked, and what else is featured became so after the query. |
| `CompositionsAlwaysFit` | `EditsProofs` | `CompositionsFit` | For any numbers of sections and editors: positions of stored sections differ, and a replacement that is alone is not refused for the positions it passes through. |
| `CompositionsAreAsAsked` | `EditsProofs` | `CompositionAsAsked` | A replacement that ran alone shows exactly what it lists, in that order; any other puts what it lists in the places it asked for. |
| `ImportsStaySound` | `DataMovesProofs` | `ImportsAreSound` | For any texts, entries and members, whatever a source holds: what is read becomes drafts with places and days, references resolve in groups seeded before, no period that some reading of its texts puts in order is refused, and validation refuses only names that meet or a period out of order. |
| `GrowthLeavesKeys` | `DataMovesProofs` | `GrowthKeepsKeys` | However a source grew, what was added last leaves the keys of what it held before, except voluntary work behind work and skills behind those of the document. |

The inductive invariants, and why the property alone is not inductive:

- *NotificationOutboxProofs* `IInv`: `TypeOK`; `WorkOK` (a task in delivery
  holds an attempt its row has reached, one whose mail went out holds an
  attempt in `mailed`, and a reset holds a status and the notice that belonged
  to it); `Exclusive`; `Mirrors`; `SentWasMailed`; `TerminalIsExhausted`.
  `SentWasMailed` alone is not inductive, because a completion writes "sent"
  on the word of the task: `WorkOK` ties what the task holds to the mail.
  `Mirrors` needs what a pending reset holds, since the reset writes both
  tables from its copy.  `PromiseIsKept` maps each action to a step or a
  stutter of the promise under this invariant.
- *NotificationOutboxProofs* `OnceInv`, for `MailedOnceUnlessFaulty`: before the
  first fault or overrun lease every delivery is in one pair of hands
  (`Unbroken`).  A row that is processing is held by a task (`RowsAreHeld`), so
  that nobody claims it a second time, and what was mailed went out under the
  row's last attempt and is settled, or its task is about to (`MailIsKnown`).
- *LimitsProofs*, limiter: types and `WithinLimit` are inductive together;
  `WindowsAreDisjoint` and `ChargesAreWhole` follow from the shape of the upsert
  for a late reading.  For bursts the invariant has to look back at windows
  whose bucket is overwritten: a bucket "accounts" for its log (`Accounted`) if
  of the instants since `k` windows before its start the log has at most
  `limit * k` plus the bucket's count, allowing for the lag.  A bucket that
  restarts moves what it counted one window further back
  (`RestartKeepsAccount`), a stretch of time meets `WindowsTouched` of them
  (`StretchIsBounded`), and one that ends before the present window is not
  written any more.
- *LimitsProofs*, throttle: the same account, without a lag, for the plain
  answers (`AnswersAreCounted`).  `OverrunIsBounded` alone is not inductive, as a
  request stores its failure long after it was let in; `OverrunIsCounted`
  counts such requests with the failures, and the sum grows only where a client
  is let in, when the failures alone are below the limit.  That needs the set
  `Attempts` to be finite, like the tasks of a process.
- *LimitsProofs*, sessions: a session or a login in progress carries the
  credentials in force or its administrator is in `crossed` (`SessionsIInv`).
- *ContactIntakeProofs*: `IntakeSpec => Spec` first, so that the outbox's
  theorems carry over.  Then `IntakeInv`: contacts are stored with their rows
  (`StoredTogether`), keys are unique (`KeysAreUnique`), and what a request
  learned from an earlier transaction is still so (`RequestsAgree`) although
  others ran in between.  The last is what makes the answers agree.
  `QuotaInv` counts, for every address and window, the contacts stored and the
  requests charged that will store one; together they stay within what the
  bucket has let through (`Allowance`).
- *AssetsProofs* `PrimaryIInv`: `CreationInv` (a creation under way has no row
  yet; one that ended has its file, unless it was misled or never stored a row)
  gives `FilesFollowRows`; `EditInv` ties the copy of an editor to the row it
  was loaded from, unless that was overtaken since, which is what
  `PrimaryIsActive` and `AProfileIsPrimary` need when the copy is flushed.
- *RepositoryRefreshProofs* assumes `Serial` (no stale load, no edit inside a
  fetch).  `Holds` says that a row is of one repository and complete, `FetchInv`
  that the copy of a fetching refresh is, too, and is not ahead of the row:
  otherwise a column that its flush leaves out, because the session's value
  did not change, would keep what another refresh wrote.  `LeaseInv` adds that a
  refresh which is asking holds the row's lease until it outlives it; two that
  ask at once would hold one lease, so `LeaseKeepsOthersOut`.
- *AssetsProofs* `ResumeIInv`: a stored row is the end of its upload, so its file is
  not deleted any more (`StoredInv`), and a request is about a stored version
  (`RequestInv`); `CurrentIsPublic` joins the invariant if there are no stale
  reads.  `CurrentIsServed` joins the two.
- *EditsProofs*, evidence: the holder of the subject's lock has the subject as
  it is (`HolderAgrees`), which gives `TextIsReviewed` however requests
  interleave; `HeldRefers` and `EvidenceIsReviewed` say the same of the
  evidence, the latter only if no request writes over what it has not seen.
- *EditsProofs*, featured order: `Covered` says which occupants of slots a
  replacement may have missed; once it has its locks they are in `late`, which
  is what `FeaturedAsAsked` excepts.
- *EditsProofs*, homepage: the positions that a replacement assigns are ranks in
  an order of what it lists and what stands before it.  A rank is a cardinality,
  so that lower means fewer (`RankBelow`, `RankGrows`) and each number up to the
  size is reached (`RankReached`); from these follows that both flushes fit the
  index and that what is shown is what was asked.  `HomepageIInv` ties the copy
  of an edit to the stored sections as long as nobody crossed it.
- *DataMovesProofs*, seeding: `Fenced` (what a run flushed clashes with nothing
  stored or flushed by others, and belongs to its manifest), `Resting`,
  `Remembered`; a repeated run would have to flush a key that is stored.  For
  the files, `Alone` (one run, whose unreached records have keys of their own)
  holds until two runs meet.  For conflicts, `RowsDiffer`: rows of one run differ
  as the records do they are made of.
- *DataMovesProofs*, migrations: `SchemaIInv` says of every row that the
  application of this revision stores it or a migration made it of such a row;
  the constraints alone say less, and a migration down and up again would not
  preserve them.
- *ReadingProofs*: what a snapshot in progress holds was public, and what it
  would let be indexed was indexable, at some moment since it began
  (`CatalogIInv`); what the last good documents and the answers carry was so at
  the instant they are dated by (`AsOf`, `DiscoveryIInv`), so that their age
  bounds how long a withdrawn page lingers.  For the assistant
  (`AssistantIInv`), the context only selects from the documents of such a
  snapshot (`ContextSelects`), and question, audit trail and reading agree in
  every phase (`Consistent`).

- *DataMovesProofs*, importers: `ImportShape` (the source's type, and one picture
  and one paper at most) is inductive; the rest is about the manifest of any
  source of that shape.  Keys differ because places do (`CountedGrows`,
  `PlacesDiffer`, for rows: one member per table), skills because of two
  mentions one is earlier (`MentionsAreOrdered`), and a group has a category
  since some entry is its first (`LeastNumber`).  `DatesAreExtreme` puts the
  first and the last day of a text around every day it can mean, which gives
  `PeriodsStayInOrder`.  For `GrowthKeepsKeys`, what is counted up to an entry
  stays the same set (`PlaceStays`, `SkillsStay`), except in the two cases that
  the property names.
- *ReadingProofs*, context: a text is as long as it has places, so that the sum
  of lengths is the cardinality of a set of pairs (`ContextFits`), and a page
  that is sent twice would be two documents of one page, of which the search
  keeps one.

Assumptions that a proof needs beyond the shapes of the constants: that `NoKey`
is not a key (`IntakeAssumption`), that `Idle`
is no edit of the homepage
(`HomepageAssumption`), that there are finitely many concurrent logins
(`ThrottleAssumption`), that there is one profile (`CatalogAssumption`) and that
there are finitely many rows (`AssistantAssumption`).

Model-checked only: liveness (`EventuallySettled` and the fair part of
`KeepsPromise`) and ENABLED, which the prover does not do.  The violation runs refute their
properties on an instance and prove nothing.  There are no RECURSIVE operators.

## 7. Running

    tlc -workers 2 -config outbox.cfg MCNotificationOutbox.tla
    tlapm NotificationOutboxProofs.tla

## 8. Not modelled

- *HTTP ranges and entity tags, upload validation, the ranking of search*: pure
  functions of one input, without state, which unit tests reach; search appears
  as the set of rows it finds and a score.
- *Redaction and the provider's HTTP exchange* of the assistant, the exchanges
  with GitHub and SMTP: only the kinds of outcome are modelled.
- *Social links, feature settings, articles, experience, education,
  certifications, sponsorship*: creations and edits of single rows, which
  decide on nothing another request writes; their publication is in
  `PublicCatalog`.
- *Media with an external address* (`create_project_media`) have no file.
- *The initial schema*: its constraints are the guards of the modules.
- *Settings, logging, security helpers, middleware, web application,
  containers*: configuration, wrappers and presentation without state of their
  own.
- *Within the modelled components*: provenance and visibility columns of
  evidence, events of approvals, limits of text lengths in importers; the basics
  of a JSON Resume document are assumed to have a name.
