-------------------------- MODULE EvidenceApproval --------------------------
(***************************************************************************)
(* The review of a metric or a testimonial of the portfolio service: its   *)
(* text, the row of its evidence, and the approval, which is bound to a    *)
(* hash of both.  Requests on the subject lock its row; the query that     *)
(* does so reads the evidence along with it, but from the snapshot the     *)
(* query started with, before it waited for the lock.  Changing a media    *)
(* asset invalidates the evidence that refers to it: that request locks    *)
(* the row of the evidence and reads the subject from its snapshot.        *)
(***************************************************************************)
EXTENDS UnitOfWork, Naturals

CONSTANTS
    Requests,    \* administration requests that may run at one time
    Texts,       \* what a subject can say
    Sources,     \* what evidence can refer to
    Asset,       \* the source that is a managed media asset
    None,        \* no request, no source, nothing approved, nothing given
    MaxRevision, \* bound on the revisions of evidence
    MaxRows,     \* bound on the rows of evidence inserted one after another
    StaleReads   \* may another request commit between a request's query and its write?

ASSUME ApprovalAssumption ==
    /\ Asset \in Sources
    /\ None \notin Requests \union Texts \union Sources
    /\ MaxRevision \in Nat /\ MaxRows \in Nat
    /\ StaleReads \in BOOLEAN

VARIABLES
    text,           \* what the subject says
    approval,       \* the revision hash that is approved, or NotApproved
    evidence,       \* the subject's row in portfolio_evidence, or NoEvidence
    inserted,       \* rows of evidence inserted so far
    visible,        \* is the media asset visible?
    listed,         \* are the subject and what it is linked to public?
    pc,
    mine,           \* what each request's query returned
    subjectHolder,  \* the request that holds the lock of the subject's row
    evidenceHolder  \* the request that holds the lock of the evidence's row

vars == <<text, approval, evidence, inserted, visible, listed, pc, mine,
          subjectHolder, evidenceHolder>>
subject == <<text, approval>>
locks == <<subjectHolder, evidenceHolder>>

-----------------------------------------------------------------------------

Evidence == [id : Nat, source : Sources \union {None}, revision : Nat, archived : BOOLEAN]

NoEvidence == [id |-> 0, source |-> None, revision |-> 0, archived |-> FALSE]

\* What the hash is computed from.  It is injective as far as the service
\* relies on it; the row's identity and its archiving are not part of it.
RevisionHash(said, shown) ==
    [text |-> said, source |-> shown.source, revision |-> shown.revision]

Hash == [text : Texts, source : Sources \union {None}, revision : Nat]

NotApproved == [text |-> None, source |-> None, revision |-> 0]

\* A query reads what is committed.
Read == [text |-> text, approval |-> approval, evidence |-> evidence,
         visible |-> visible, listed |-> listed]

Nothing == [text |-> None, approval |-> NotApproved, evidence |-> NoEvidence,
            visible |-> FALSE, listed |-> FALSE]

Reviewing == {"approving", "revoking", "editing"}

TypeOK ==
    /\ text \in Texts
    /\ approval \in Hash \union {NotApproved}
    /\ evidence \in Evidence
    /\ inserted \in Nat /\ evidence.id <= inserted
    /\ visible \in BOOLEAN /\ listed \in BOOLEAN
    /\ pc \in [Requests -> Reviewing \union {"ready", "finding", "changing"}]
    /\ mine \in [Requests -> [text : Texts \union {None}, approval : Hash \union {NotApproved},
                              evidence : Evidence, visible : BOOLEAN, listed : BOOLEAN]]
    /\ subjectHolder \in {r \in Requests : pc[r] \in Reviewing} \union {None}
    /\ evidenceHolder \in {r \in Requests : pc[r] = "changing"} \union {None}

-----------------------------------------------------------------------------

NewEvidence(id, source) ==
    [id |-> id, source |-> source, revision |-> 1, archived |-> FALSE]

\* The subject has just been created, with evidence or without.
Init ==
    /\ text \in Texts
    /\ approval = NotApproved
    /\ evidence \in {NoEvidence} \union {NewEvidence(1, source) : source \in Sources}
    /\ inserted = evidence.id
    /\ visible \in BOOLEAN /\ listed \in BOOLEAN
    /\ pc = [r \in Requests |-> "ready"]
    /\ mine = [r \in Requests |-> Nothing]
    /\ subjectHolder = None /\ evidenceHolder = None

\* A locking query starts.
Query(r, step) ==
    /\ pc[r] = "ready"
    /\ pc' = [pc EXCEPT ![r] = step]
    /\ mine' = [mine EXCEPT ![r] = Read]
    /\ UNCHANGED <<subject, evidence, inserted, visible, listed, locks>>

\* The query has the lock: it returns the subject's row as it now is, and
\* the evidence as it was.
LockSubject(r) ==
    /\ pc[r] \in Reviewing /\ subjectHolder = None
    /\ subjectHolder' = r
    /\ mine' = [mine EXCEPT ![r].text = text, ![r].approval = approval]
    /\ UNCHANGED <<subject, evidence, inserted, visible, listed, pc, evidenceHolder>>

\* The request ends and its locks are released.
End(r) ==
    /\ pc' = [pc EXCEPT ![r] = "ready"]
    /\ mine' = [mine EXCEPT ![r] = Nothing]
    /\ subjectHolder' = IF subjectHolder = r THEN None ELSE subjectHolder
    /\ evidenceHolder' = IF evidenceHolder = r THEN None ELSE evidenceHolder

\* A request writes what its query still agrees with.
Unchanged(r) ==
    \/ StaleReads
    \/ mine[r].evidence = evidence /\ mine[r].approval = approval

\* Mutant: an editor goes on with a query that took no lock.
Holds_NotEditing(r, step) ==
    pc[r] = step /\ (step = "editing" \/ subjectHolder = r) /\ Unchanged(r)

\* A request that has the subject's lock goes on.
Holds(r, step) == pc[r] = step /\ subjectHolder = r /\ Unchanged(r)

-----------------------------------------------------------------------------
(* Requests on the subject.                                                *)

Approve(r) ==
    /\ Holds(r, "approving")
    /\ mine[r].listed
    /\ mine[r].evidence # NoEvidence /\ ~mine[r].evidence.archived
    /\ approval' = RevisionHash(mine[r].text, mine[r].evidence)
    /\ End(r)
    /\ UNCHANGED <<text, evidence, inserted, visible, listed>>

Revoke(r) ==
    /\ Holds(r, "revoking")
    /\ approval' = NotApproved
    /\ End(r)
    /\ UNCHANGED <<text, evidence, inserted, visible, listed>>

\* Mutant: the revision is not counted.
Replacement_SameRevision(old, source) ==
    [old EXCEPT !.source = source, !.archived = FALSE]

Replacement(old, source) ==
    [old EXCEPT !.source = source, !.archived = FALSE, !.revision = @ + 1]

\* The evidence is replaced.  The unique constraint refuses a second row,
\* and the flush of a row that is gone fails.
Replace(r, source) ==
    /\ mine[r].evidence.id = evidence.id
    /\ IF evidence = NoEvidence
       THEN /\ inserted < MaxRows
            /\ evidence' = NewEvidence(inserted + 1, source)
            /\ inserted' = inserted + 1
       ELSE /\ mine[r].evidence.revision < MaxRevision
            /\ evidence' = Flush(evidence, mine[r].evidence,
                                 Replacement(mine[r].evidence, source), {})
            /\ UNCHANGED inserted

Remove(r) ==
    /\ evidence' = IF mine[r].evidence.id = evidence.id THEN NoEvidence ELSE evidence
    /\ UNCHANGED inserted

\* Mutant: only a change of the text revokes the approval.
Material_Text(said, given) == said # None

\* Is anything that was reviewed given anew?
Material(said, given) == said # None \/ given

\* Update the subject: its text, its evidence, or both.
Edit(r, said, given) ==
    /\ Holds(r, "editing")
    /\ given => evidenceHolder = None
    /\ \/ ~given /\ UNCHANGED <<evidence, inserted>>
       \/ given /\ (Remove(r) \/ \E source \in Sources : Replace(r, source))
    /\ approval' = IF Material(said, given) THEN NotApproved ELSE mine[r].approval
    /\ text' = IF said = None THEN mine[r].text ELSE said
    /\ End(r)
    /\ UNCHANGED <<visible, listed>>

-----------------------------------------------------------------------------
(* Requests on the media asset.                                            *)

\* Is the row still the one the query found?
StillRefers(r) == evidence.id = mine[r].evidence.id /\ evidence.source = Asset

\* The query finds evidence that refers to the asset, locks it and returns
\* the row as it now is, with the subject as it was; or it finds none.
LockEvidence(r) ==
    /\ pc[r] = "finding"
    /\ pc' = [pc EXCEPT ![r] = "changing"]
    /\ IF mine[r].evidence.source = Asset
       THEN /\ evidenceHolder = None
            /\ IF StillRefers(r)
               THEN /\ evidenceHolder' = r
                    /\ mine' = [mine EXCEPT ![r].evidence = evidence]
               ELSE UNCHANGED <<mine, evidenceHolder>>
       ELSE UNCHANGED <<mine, evidenceHolder>>
    /\ UNCHANGED <<subject, evidence, inserted, visible, listed, subjectHolder>>

\* Mutant: a change of the asset leaves the approval.
Invalidated_KeepsApproval(r) == approval

\* The approval after the evidence is invalidated: it is revoked if the
\* subject was approved when the query started.
Invalidated(r) == IF mine[r].approval = NotApproved THEN approval ELSE NotApproved

\* Archive the asset (seen = FALSE), or change it materially.
ChangeMedia(r, seen) ==
    /\ pc[r] = "changing"
    /\ Unchanged(r)
    /\ IF evidenceHolder = r
       THEN /\ mine[r].approval # NotApproved => subjectHolder = None
            /\ evidence.revision < MaxRevision
            /\ evidence' = IF evidence.archived THEN evidence
                           ELSE [evidence EXCEPT !.archived = TRUE, !.revision = @ + 1]
            /\ approval' = Invalidated(r)
       ELSE UNCHANGED <<evidence, approval>>
    /\ visible' = IF seen = mine[r].visible THEN visible ELSE seen
    /\ End(r)
    /\ UNCHANGED <<text, inserted, listed>>

-----------------------------------------------------------------------------

\* A check fails, a constraint refuses the flush, the database breaks a
\* deadlock, or the request is cut off.
Refuse(r) ==
    /\ pc[r] # "ready"
    /\ End(r)
    /\ UNCHANGED <<subject, evidence, inserted, visible, listed>>

\* Somebody publishes the subject or what it is linked to, or hides it.
SetListed ==
    /\ listed' = ~listed
    /\ UNCHANGED <<subject, evidence, inserted, visible, pc, mine, locks>>

Next ==
    \/ \E r \in Requests :
        \/ \E step \in Reviewing \union {"finding"} : Query(r, step)
        \/ LockSubject(r)
        \/ Approve(r)
        \/ Revoke(r)
        \/ \E said \in Texts \union {None}, given \in BOOLEAN : Edit(r, said, given)
        \/ LockEvidence(r)
        \/ \E seen \in BOOLEAN : ChangeMedia(r, seen)
        \/ Refuse(r)
    \/ SetListed

Spec == Init /\ [][Next]_vars

-----------------------------------------------------------------------------
(* Properties.                                                             *)

\* The public readers show the subject as approved.
Shown ==
    /\ listed
    /\ approval # NotApproved
    /\ evidence # NoEvidence /\ ~evidence.archived
    /\ evidence.source = Asset => visible

\* Visitors are shown what was reviewed: the revision that is approved is
\* the one that the subject and its evidence have.
ShownIsReviewed == Shown => approval = RevisionHash(text, evidence)

\* The text that was approved is the text of the subject: approving and
\* editing serialize on the subject's row.
TextIsReviewed == approval # NotApproved => approval.text = text

\* No approval outlives the archiving of the evidence that it rests on.
ReviewIsInvalidated == evidence.archived => approval = NotApproved

\* A row of evidence never changes without a new revision.
RevisionMovesOn ==
    [][evidence'.id = evidence.id /\ evidence' # evidence
           => evidence'.revision > evidence.revision]_evidence

=============================================================================
