---------------------------- MODULE SchemaUpgrade ----------------------------
(***************************************************************************)
(* Migrations 0005 and 0006, up and down, over whatever the application    *)
(* has stored.  A migration is one transaction that moves data and then    *)
(* creates the constraints of its revision, which the data must meet, or   *)
(* the database cannot be brought to that revision at all.                 *)
(***************************************************************************)
EXTENDS Naturals, FiniteSets

CONSTANTS
    Contacts, Metrics, Projects,  \* rows
    Buttons, Items,               \* calls to action of the profile, and items of its menus
    Null,
    MaxRank, MaxUpdated                    \* bounds on ranks and on instants

VARIABLES
    revision,  \* the last migration applied: 4, 5 or 6
    contacts,  \* contact_submissions, with the rows of their outbox
    metrics,   \* impact_metrics, with their evidence; testimonials are alike
    projects,
    buttons,   \* label and address of the profile's calls to action
    menu       \* where each navigation item is shown

tables == <<contacts, metrics, projects, buttons, menu>>

schemaVars == <<revision, tables>>

-----------------------------------------------------------------------------
(* Rows, and what each revision requires of them.                          *)

\* Text in a column: absent, blank or something.
Text == {Null, "blank", "text"}

\* contact_notification_outbox
Outbox == [status : {"pending", "processing", "retrying", "sent", "terminal", "disabled"},
           attempts : Nat]

Contact == [notice : {"pending", "disabled", "sent", "failed", "retrying", "terminal"},
            outbox : Outbox \union {Null}]

\* ck_contact_notification_status
ContactFits(r, row) ==
    IF r = 4 THEN row.notice \in {"pending", "disabled", "sent", "failed"} /\ row.outbox = Null
    ELSE row.notice \in {"pending", "disabled", "sent", "failed", "retrying", "terminal"}

\* portfolio_evidence
Evidence == [kind : {"public_url", "managed_media", "document_reference"},
             url : Text, media : Text, text : Text, public : BOOLEAN, label : Text]

\* ck_portfolio_evidence_locator, ck_portfolio_evidence_public_label
EvidenceFits(row) ==
    /\ (row.url # Null) = (row.kind = "public_url")
    /\ (row.media # Null) = (row.kind = "managed_media")
    /\ (row.text # Null) = (row.kind = "document_reference")
    /\ row.public => row.label = "text"

\* `hash' and `approver' are what an approval stamps, `reference' is the
\* column that evidence took the place of.
Metric == [approved : BOOLEAN, hash : Text, approver : Text, reference : Text,
           evidence : Evidence \union {Null}]

\* ck_metric_approval_evidence, ck_metric_approval_revision
MetricFits(r, row) ==
    /\ row.approved => CASE r = 4 -> row.reference = "text"
                         [] r = 5 -> row.hash # Null
                         [] r = 6 -> row.hash # Null /\ row.approver # Null
    /\ row.evidence # Null => r > 4 /\ EvidenceFits(row.evidence)
    /\ row.reference # Null => r = 4

\* `active' is published, visible and not archived; a rank of 0 is none.
Project == [rank : 0..MaxRank, active : BOOLEAN, updated : 0..MaxUpdated]

\* projects_featured_rank_key, uq_projects_active_featured_rank
ProjectsFit(r, table) ==
    \A p, q \in Projects :
        table[p].rank > 0 /\ table[p].rank = table[q].rank
          /\ (r > 4 => table[p].active /\ table[q].active) => p = q

Button == [label : Text, url : Text]

\* An absent value is no text and no row.
ASSUME SchemaAssumption ==
    /\ MaxRank \in Nat /\ MaxUpdated \in Nat
    /\ Null \notin {"blank", "text"} \union Outbox \union Evidence

\* ck_profile_primary_cta_pair, ck_profile_secondary_cta_pair
ButtonFits(r, row) == r = 6 => (row.label = "text") = (row.url # Null) /\ row.label # "blank"

\* A navigation item has a place: two that every revision knows, or another
\* word that was free text once.
Locations == {"header", "footer", "elsewhere"}

\* navigationlocation
ItemFits(r, location) == r > 4 => location \in {"header", "footer"}

-----------------------------------------------------------------------------
(* What the application stores beyond what the constraints ask.            *)

Due(row) == row.outbox # Null /\ row.outbox.status \in {"pending", "processing", "retrying"}

\* The two tables agree, as NotificationOutbox has it: a submission from
\* before there was an outbox has no row in it.
ContactStored(r, row) ==
    /\ ContactFits(r, row)
    /\ row.outbox # Null =>
          row.notice = CASE row.outbox.status = "processing" -> "pending"
                         [] OTHER -> row.outbox.status
    /\ r > 4 => (row.notice \in {"pending", "retrying"} => Due(row)) /\ row.notice # "failed"

\* An approval stamps everything at once, and needs evidence.
MetricStored(r, row) ==
    /\ MetricFits(r, row)
    /\ (row.hash # Null) = (row.approved /\ r > 4) /\ row.approver = row.hash
    /\ row.hash # "blank" /\ row.reference # "blank"
    /\ row.approved /\ r > 4 => row.evidence # Null
    /\ row.evidence # Null =>
          {row.evidence.url, row.evidence.media, row.evidence.text} \subseteq {Null, "text"}
          /\ row.evidence.label \in {Null, "text"}

-----------------------------------------------------------------------------
(* 0005                                                                    *)

\* Mutant: what has failed before is left alone.
ContactUp_PendingOnly(row) ==
    IF row.notice = "pending"
      THEN [row EXCEPT !.outbox = [status |-> "pending", attempts |-> 0]]
    ELSE row

\* What is unsent joins the outbox.
ContactUp(row) ==
    CASE row.notice = "pending" -> [row EXCEPT !.outbox = [status |-> "pending", attempts |-> 0]]
      [] row.notice = "failed" ->
            [notice |-> "retrying", outbox |-> [status |-> "retrying", attempts |-> 1]]
      [] OTHER -> row

ContactDown(row) ==
    [notice |-> IF row.notice \in {"retrying", "terminal"} THEN "failed" ELSE row.notice,
     outbox |-> Null]

\* A reference becomes private evidence, and approvals are revoked.
MetricUp(row) ==
    [approved |-> FALSE, hash |-> Null, approver |-> Null, reference |-> Null,
     evidence |-> IF row.reference = "text"
                    THEN [kind |-> "document_reference", url |-> Null, media |-> Null,
                          text |-> "text", public |-> FALSE, label |-> Null]
                    ELSE Null]

\* The reference is made of whatever locates the evidence.  The old schema
\* knows who approved, but not for which text.
MetricDown(row) ==
    [row EXCEPT !.hash = Null, !.approver = Null, !.evidence = Null,
                !.reference = IF row.evidence = Null THEN Null ELSE "text"]

\* What was shown nowhere is shown in the header.
ItemUp(location) == IF location \in {"header", "footer"} THEN location ELSE "header"

\* Mutant: whatever was updated last keeps the rank.
Outranks_ByUpdate(p, q) == projects[p].updated > projects[q].updated

\* Of two projects with one rank the active one comes first, then the one
\* that was updated later.
Outranks(p, q) ==
    \/ projects[p].active /\ ~projects[q].active
    \/ projects[p].active = projects[q].active /\ projects[p].updated > projects[q].updated

\* One project keeps each rank that is in use: one that no other outranks.
\* Between equals the identifiers decide.
Keepers ==
    {K \in SUBSET Projects :
        /\ \A p, q \in K : projects[p].rank = projects[q].rank => p = q
        /\ \A p \in K : \A q \in Projects :
              projects[p].rank = projects[q].rank => ~Outranks(q, p)
        /\ \A p \in Projects : \E q \in K : projects[p].rank = projects[q].rank}

RanksDown(K) == [p \in Projects |-> IF p \in K THEN projects[p] ELSE [projects[p] EXCEPT !.rank = 0]]

Upgrade5 ==
    /\ revision = 4
    /\ revision' = 5
    /\ contacts' = [c \in Contacts |-> ContactUp(contacts[c])]
    /\ metrics' = [m \in Metrics |-> MetricUp(metrics[m])]
    /\ menu' = [i \in Items |-> ItemUp(menu[i])]
    /\ UNCHANGED <<projects, buttons>>

Downgrade5 ==
    /\ revision = 5
    /\ revision' = 4
    /\ contacts' = [c \in Contacts |-> ContactDown(contacts[c])]
    /\ metrics' = [m \in Metrics |-> MetricDown(metrics[m])]
    /\ \E K \in Keepers : projects' = RanksDown(K)
    /\ UNCHANGED <<buttons, menu>>

-----------------------------------------------------------------------------
(* 0006                                                                    *)

\* An address without a label gets one, a label without an address goes.
ButtonUp(row) ==
    IF row.url = Null THEN [row EXCEPT !.label = Null]
    ELSE IF row.label # "text" THEN [row EXCEPT !.label = "text"]
    ELSE row

Upgrade6 ==
    /\ revision = 5
    /\ revision' = 6
    /\ buttons' = [b \in Buttons |-> ButtonUp(buttons[b])]
    /\ UNCHANGED <<contacts, metrics, projects, menu>>

Downgrade6 ==
    /\ revision = 6
    /\ revision' = 5
    /\ UNCHANGED tables

-----------------------------------------------------------------------------
(* The application of each revision.                                       *)

StoreContact(c, row) ==
    /\ ContactStored(revision, row)
    /\ contacts' = [contacts EXCEPT ![c] = row]
    /\ UNCHANGED <<revision, metrics, projects, buttons, menu>>

StoreMetric(m, row) ==
    /\ MetricStored(revision, row)
    /\ metrics' = [metrics EXCEPT ![m] = row]
    /\ UNCHANGED <<revision, contacts, projects, buttons, menu>>

StoreProject(p, row) ==
    /\ ProjectsFit(revision, [projects EXCEPT ![p] = row])
    /\ projects' = [projects EXCEPT ![p] = row]
    /\ UNCHANGED <<revision, contacts, metrics, buttons, menu>>

StoreButton(b, row) ==
    /\ ButtonFits(revision, row)
    /\ buttons' = [buttons EXCEPT ![b] = row]
    /\ UNCHANGED <<revision, contacts, metrics, projects, menu>>

StoreItem(i, location) ==
    /\ ItemFits(revision, location)
    /\ menu' = [menu EXCEPT ![i] = location]
    /\ UNCHANGED <<revision, contacts, metrics, projects, buttons>>

SchemaInit ==
    /\ revision = 4
    /\ contacts = [c \in Contacts |-> [notice |-> "pending", outbox |-> Null]]
    /\ metrics = [m \in Metrics |-> [approved |-> FALSE, hash |-> Null, approver |-> Null,
                                     reference |-> Null, evidence |-> Null]]
    /\ projects = [p \in Projects |-> [rank |-> 0, active |-> FALSE, updated |-> 0]]
    /\ buttons = [b \in Buttons |-> [label |-> Null, url |-> Null]]
    /\ menu = [i \in Items |-> "header"]

Migrate == Upgrade5 \/ Downgrade5 \/ Upgrade6 \/ Downgrade6

\* Requests and commands write rows between the migrations.
Store ==
    \/ \E c \in Contacts, row \in Contact : StoreContact(c, row)
    \/ \E m \in Metrics, row \in Metric : StoreMetric(m, row)
    \/ \E p \in Projects, row \in Project : StoreProject(p, row)
    \/ \E b \in Buttons, row \in Button : StoreButton(b, row)
    \/ \E i \in Items, location \in Locations : StoreItem(i, location)

SchemaNext == Migrate \/ Store

SchemaSpec == SchemaInit /\ [][SchemaNext]_schemaVars

-----------------------------------------------------------------------------
(* Properties.                                                             *)

\* Each table has its columns.
SchemaTypeOK ==
    /\ revision \in 4..6
    /\ \A c \in Contacts : contacts[c] \in Contact
    /\ \A m \in Metrics : metrics[m] \in Metric
    /\ projects \in [Projects -> Project]
    /\ \A b \in Buttons : buttons[b] \in Button
    /\ menu \in [Items -> Locations]

\* The constraints of a revision hold of the data that its migration has moved,
\* up or down, so that no migration fails on what the application has stored.
MigrationsFit ==
    /\ \A c \in Contacts : ContactFits(revision, contacts[c])
    /\ \A m \in Metrics : MetricFits(revision, metrics[m])
    /\ ProjectsFit(revision, projects)
    /\ \A b \in Buttons : ButtonFits(revision, buttons[b])
    /\ \A i \in Items : ItemFits(revision, menu[i])

\* With the outbox in place, what is to be sent is due in it and nothing else
\* is: the worker will find what the old schema had left unsent.
DeliveryAgrees ==
    revision > 4 => \A c \in Contacts :
        Due(contacts[c]) <=> contacts[c].notice \in {"pending", "failed", "retrying"}

\* A migration neither forgets a notification that is to be sent nor revives
\* one that was sent or switched off.  (One that was given up is revived when
\* the outbox is taken down and put up again.)
NoticesSurvive ==
    [][Migrate => \A c \in Contacts :
          LET Pending(row) == row.notice \in {"pending", "failed", "retrying"}
          IN  /\ Pending(contacts[c]) => Pending(contacts'[c])
              /\ contacts[c].notice \in {"sent", "disabled"} =>
                    contacts'[c].notice = contacts[c].notice]_schemaVars

\* What an approval rested on is still named after a migration.
ReferencesSurvive ==
    [][Migrate => \A m \in Metrics :
          LET Named(row) == row.reference = "text" \/ row.evidence # Null
          IN  Named(metrics[m]) => Named(metrics'[m])]_schemaVars

\* A project that visitors see at a rank keeps the rank.
ActiveKeepsRank ==
    [][Migrate => \A p \in Projects :
          projects[p].active => projects'[p].rank = projects[p].rank]_schemaVars

\* At every revision the stored rows fit its columns and constraints, and the
\* worker will deliver what the submissions say is to be delivered.
SchemaFits == SchemaTypeOK /\ MigrationsFit /\ DeliveryAgrees

\* What upgrade() and downgrade() move they keep: notifications, what
\* approvals rested on, and the ranks that visitors see.
MigrationsLoseNothing == NoticesSurvive /\ ReferencesSurvive /\ ActiveKeepsRank

=============================================================================
