---------------------------- MODULE EditsProofs -----------------------------
(***************************************************************************)
(* What overlapping requests of administrators leave, proved for any       *)
(* number of requests.  EvidenceApproval: an approval always is of the     *)
(* text the subject has; that it is of the evidence as well, and that      *)
(* revisions only grow, needs that no request writes after another one     *)
(* changed what its query returned.  FeaturedOrder: a stored order is      *)
(* featured as it was asked, and what else is featured came late.          *)
(* HomepageComposition: the two flushes of a replacement find their        *)
(* positions free, and leave the sections where the list has them.         *)
(***************************************************************************)
EXTENDS EvidenceApproval, FeaturedOrder, HomepageComposition, FiniteSetTheorems,
        TLAPS

-----------------------------------------------------------------------------
(* EvidenceApproval.                                                       *)

\* The request that holds the subject's lock has the subject as it is.
HolderAgrees ==
    \A r \in Requests :
        subjectHolder = r => mine[r].text = text /\ mine[r].approval = approval

\* Evidence that a request holds for a change of the asset refers to it.
HeldRefers == evidenceHolder # None => evidence.source = Asset

\* An approval is of the evidence there is.
EvidenceIsReviewed ==
    approval # NotApproved =>
        /\ approval = RevisionHash(text, evidence)
        /\ evidence # NoEvidence /\ ~evidence.archived

ApprovalIInv ==
    /\ TypeOK
    /\ HolderAgrees
    /\ HeldRefers
    /\ evidence.id = 0 => evidence = NoEvidence
    /\ TextIsReviewed
    /\ ~StaleReads => EvidenceIsReviewed

-----------------------------------------------------------------------------

\* A record of what a query returned.
Copy == [text : Texts \union {None}, approval : Hash \union {NotApproved},
         evidence : Evidence, visible : BOOLEAN, listed : BOOLEAN]

\* The rows that are written out, column by column.
LEMMA Constructed ==
    /\ NoEvidence \in Evidence /\ NoEvidence.id = 0 /\ ~NoEvidence.archived
    /\ NotApproved.text = None /\ NotApproved \notin Hash
    /\ Nothing \in Copy
  BY ApprovalAssumption
     DEF NoEvidence, Evidence, NotApproved, Hash, Nothing, Copy

\* A flush yields a row of evidence with the identity it had, and what the
\* session holds if nobody else wrote.
LEMMA FlushEvidence ==
    ASSUME NEW row \in Evidence, NEW loaded \in Evidence, NEW object \in Evidence,
           object.id = loaded.id
    PROVE  /\ Flush(row, loaded, object, {}) \in Evidence
           /\ Flush(row, loaded, object, {}).id = row.id
           /\ row = loaded => Flush(row, loaded, object, {}) = object
  <1> DEFINE f == Flush(row, loaded, object, {})
  <1>1. DOMAIN row = {"id", "source", "revision", "archived"}
    BY DEF Evidence
  <1>2. f = [id |-> f.id, source |-> f.source, revision |-> f.revision, archived |-> f.archived]
    BY <1>1 DEF Flush
  <1>3. /\ f.id \in {row.id, object.id}
        /\ f.source \in {row.source, object.source}
        /\ f.revision \in {row.revision, object.revision}
        /\ f.archived \in {row.archived, object.archived}
    BY <1>1 DEF Flush
  <1>4. f \in Evidence
    BY <1>2, <1>3 DEF Evidence
  <1>5. f.id = row.id
    BY <1>1 DEF Flush
  <1>6. ASSUME row = loaded PROVE f = object
    <2>1. /\ f.id = object.id /\ f.source = object.source
          /\ f.revision = object.revision /\ f.archived = object.archived
      BY <1>1, <1>6 DEF Flush
    <2> QED BY <2>1, <1>4 DEF Evidence
  <1> QED BY <1>4, <1>5, <1>6

\* The evidence that replaces a row's.
LEMMA ReplacementOf ==
    ASSUME NEW old \in Evidence, NEW source \in Sources
    PROVE  /\ Replacement(old, source) \in Evidence
           /\ Replacement(old, source).id = old.id
           /\ Replacement(old, source).revision = old.revision + 1
  <1> DEFINE new == Replacement(old, source)
  <1>1. DOMAIN old = {"id", "source", "revision", "archived"}
    BY DEF Evidence
  <1>2. /\ DOMAIN new = DOMAIN old
        /\ new.id = old.id /\ new.source = source
        /\ new.revision = old.revision + 1 /\ new.archived = FALSE
    BY <1>1 DEF Replacement
  <1>3. new \in [id : {old.id}, source : {source}, revision : {old.revision + 1},
                 archived : {FALSE}]
    BY <1>1 DEF Replacement, Evidence
  <1>4. old.id \in Nat /\ old.revision + 1 \in Nat
    BY DEF Evidence
  <1> QED BY <1>2, <1>3, <1>4 DEF Evidence

\* The request that ends leaves its copy and its locks, and no other's.
LEMMA ApprovalEndPreserves ==
    ASSUME ApprovalIInv, NEW r \in Requests, End(r)
    PROVE  /\ pc' \in [Requests -> Reviewing \union {"ready", "finding", "changing"}]
           /\ mine' \in [Requests -> Copy]
           /\ subjectHolder' \in {q \in Requests : pc'[q] \in Reviewing} \union {None}
           /\ evidenceHolder' \in {q \in Requests : pc'[q] = "changing"} \union {None}
           /\ \A q \in Requests : subjectHolder' = q => subjectHolder = q /\ mine'[q] = mine[q]
  <1>1. /\ pc' = [pc EXCEPT ![r] = "ready"]
        /\ mine' = [mine EXCEPT ![r] = Nothing]
        /\ subjectHolder' = IF subjectHolder = r THEN None ELSE subjectHolder
        /\ evidenceHolder' = IF evidenceHolder = r THEN None ELSE evidenceHolder
    BY DEF End
  <1>2. mine \in [Requests -> Copy] /\ None \notin Requests
    BY ApprovalAssumption DEF ApprovalIInv, TypeOK, Copy
  <1> QED BY <1>1, <1>2, Constructed DEF ApprovalIInv, TypeOK

-----------------------------------------------------------------------------

\* Nothing is approved and nobody holds a lock at first.
LEMMA ApprovalInitIInv == Init => ApprovalIInv
  <1> SUFFICES ASSUME Init PROVE ApprovalIInv OBVIOUS
  <1>1. evidence \in Evidence /\ evidence.id \in {0, 1} /\ (evidence.id = 0 => evidence = NoEvidence)
    <2>1. CASE evidence = NoEvidence
      BY <2>1, Constructed
    <2>2. ASSUME NEW source \in Sources, evidence = NewEvidence(1, source)
          PROVE  evidence \in Evidence /\ evidence.id = 1
      BY <2>2 DEF NewEvidence, Evidence
    <2> QED BY <2>1, <2>2 DEF Init
  <1>2. TypeOK
    BY <1>1, Constructed DEF Init, TypeOK, Copy
  <1>3. \A r \in Requests : subjectHolder # r
    BY ApprovalAssumption DEF Init
  <1> QED
    BY <1>1, <1>2, <1>3
       DEF Init, ApprovalIInv, HolderAgrees, HeldRefers, TextIsReviewed, EvidenceIsReviewed

\* Queries, locks and what ends without a write.
LEMMA ApprovalReadPreserves ==
    ASSUME ApprovalIInv, NEW r \in Requests,
           \/ \E step \in Reviewing \union {"finding"} : Query(r, step)
           \/ LockSubject(r)
           \/ LockEvidence(r)
           \/ Refuse(r)
    PROVE  ApprovalIInv' /\ UNCHANGED <<subject, evidence>>
  <1>1. UNCHANGED <<subject, evidence, inserted, visible, listed>>
    BY DEF Query, LockSubject, LockEvidence, Refuse
  <1>2. ~StaleReads => EvidenceIsReviewed'
    BY <1>1 DEF ApprovalIInv, EvidenceIsReviewed, RevisionHash, subject
  <1>3. TextIsReviewed' /\ (evidence.id = 0 => evidence = NoEvidence)'
    BY <1>1 DEF ApprovalIInv, TextIsReviewed, subject
  <1>4. mine \in [Requests -> Copy] /\ None \notin Requests
    BY ApprovalAssumption DEF ApprovalIInv, TypeOK, Copy
  <1>5. CASE Refuse(r)
    BY <1>1, <1>2, <1>3, <1>5, ApprovalEndPreserves
       DEF Refuse, End, ApprovalIInv, TypeOK, HolderAgrees, HeldRefers, Copy, subject
  <1>6. ASSUME NEW step \in Reviewing \union {"finding"}, Query(r, step) PROVE ApprovalIInv'
    <2>1. Read \in Copy
      BY DEF ApprovalIInv, TypeOK, Read, Copy
    <2>2. mine' \in [Requests -> Copy] /\ subjectHolder # r /\ evidenceHolder # r
      BY <1>4, <1>6, <2>1 DEF Query, ApprovalIInv, TypeOK, Reviewing
    <2>3. /\ pc' \in [Requests -> Reviewing \union {"ready", "finding", "changing"}]
          /\ \A q \in Requests : q # r => pc'[q] = pc[q] /\ mine'[q] = mine[q]
      BY <1>4, <1>6 DEF Query, ApprovalIInv, TypeOK
    <2>4. TypeOK'
      BY <1>1, <1>6, <2>2, <2>3 DEF Query, ApprovalIInv, TypeOK, Copy, subject, locks
    <2>5. HolderAgrees'
      BY <1>1, <1>6, <2>2, <2>3 DEF Query, ApprovalIInv, HolderAgrees, subject, locks
    <2>6. HeldRefers'
      BY <1>1, <1>6 DEF ApprovalIInv, HeldRefers, Query, locks
    <2> QED BY <1>2, <1>3, <2>4, <2>5, <2>6 DEF ApprovalIInv
  <1>7. CASE LockSubject(r)
    <2>1. mine' \in [Requests -> Copy] /\ mine'[r].text = text /\ mine'[r].approval = approval
      BY <1>4, <1>7 DEF LockSubject, ApprovalIInv, TypeOK, Copy
    <2>2. TypeOK'
      BY <1>1, <1>7, <2>1 DEF LockSubject, ApprovalIInv, TypeOK, Copy, subject
    <2>3. subjectHolder' = r /\ UNCHANGED <<text, approval>>
      BY <1>1, <1>7 DEF LockSubject, subject
    <2>4. HolderAgrees'
      BY <2>1, <2>3 DEF HolderAgrees
    <2>5. HeldRefers'
      BY <1>1, <1>7 DEF ApprovalIInv, HeldRefers, LockSubject
    <2> QED BY <1>1, <1>2, <1>3, <2>2, <2>4, <2>5 DEF ApprovalIInv
  <1>8. CASE LockEvidence(r)
    <2>1. /\ pc[r] = "finding" /\ pc' = [pc EXCEPT ![r] = "changing"]
          /\ UNCHANGED subjectHolder
          /\ \/ UNCHANGED <<mine, evidenceHolder>>
             \/ evidenceHolder' = r /\ mine' = [mine EXCEPT ![r].evidence = evidence]
      BY <1>8 DEF LockEvidence
    <2>2. mine' \in [Requests -> Copy] /\ subjectHolder # r /\ evidenceHolder # r
      BY <1>4, <2>1 DEF ApprovalIInv, TypeOK, Reviewing, Copy
    <2>3. TypeOK'
      BY <1>1, <2>1, <2>2 DEF ApprovalIInv, TypeOK, Copy, subject
    <2>4. mine'[r].text = mine[r].text /\ \A q \in Requests : q # r => mine'[q] = mine[q]
      BY <1>4, <2>1 DEF Copy
    <2>5. HolderAgrees'
      BY <1>1, <2>1, <2>2, <2>4 DEF ApprovalIInv, HolderAgrees, subject
    <2>6. HeldRefers'
      BY <1>1, <1>8 DEF ApprovalIInv, HeldRefers, LockEvidence, StillRefers
    <2> QED BY <1>1, <1>2, <1>3, <2>3, <2>5, <2>6 DEF ApprovalIInv
  <1> QED BY <1>1, <1>5, <1>6, <1>7, <1>8

\* A request that wrote ends: what is left to show is about the rows.
LEMMA ApprovalWritePreserves ==
    ASSUME ApprovalIInv, NEW r \in Requests, End(r),
           subjectHolder = r \/ UNCHANGED subject \/ subjectHolder = None,
           evidenceHolder \in {r, None} \/ evidence'.source = evidence.source,
           text' \in Texts, approval' \in Hash \union {NotApproved}, TextIsReviewed',
           evidence' \in Evidence, inserted' \in Nat, evidence'.id <= inserted',
           evidence'.id = 0 => evidence' = NoEvidence,
           visible' \in BOOLEAN, listed' \in BOOLEAN,
           ~StaleReads => EvidenceIsReviewed'
    PROVE  ApprovalIInv'
  <1>1. TypeOK'
    BY ApprovalEndPreserves DEF TypeOK, Copy
  <1>2. HolderAgrees'
    <2> SUFFICES ASSUME NEW q \in Requests, subjectHolder' = q
                 PROVE  mine'[q].text = text' /\ mine'[q].approval = approval'
      BY DEF HolderAgrees
    <2>1. subjectHolder = q /\ mine'[q] = mine[q] /\ None \notin Requests
      BY ApprovalEndPreserves, ApprovalAssumption
    <2>2. q # r
      BY <2>1, ApprovalAssumption DEF End
    <2> QED BY <2>1, <2>2 DEF ApprovalIInv, HolderAgrees, subject
  <1>3. HeldRefers'
    BY ApprovalAssumption DEF ApprovalIInv, HeldRefers, End
  <1> QED BY <1>1, <1>2, <1>3 DEF ApprovalIInv

\* What holds of a request that goes on with the lock.
LEMMA HolderHas ==
    ASSUME ApprovalIInv, NEW r \in Requests, NEW step, Holds(r, step)
    PROVE  /\ mine[r] \in Copy /\ subjectHolder = r
           /\ mine[r].text = text /\ mine[r].approval = approval
           /\ ~StaleReads => mine[r].evidence = evidence
  BY DEF ApprovalIInv, TypeOK, Copy, HolderAgrees, Holds, Unchanged

\* Approving and revoking.
LEMMA ReviewPreserves ==
    ASSUME ApprovalIInv, NEW r \in Requests, Approve(r) \/ Revoke(r)
    PROVE  ApprovalIInv' /\ UNCHANGED evidence
  <1>1. UNCHANGED <<text, evidence, inserted, visible, listed>> /\ End(r)
    BY DEF Approve, Revoke
  <1>2. CASE Approve(r)
    <2>1. /\ mine[r] \in Copy /\ mine[r].text = text /\ subjectHolder = r
          /\ ~StaleReads => mine[r].evidence = evidence
      BY <1>2, HolderHas DEF Approve
    <2>2. /\ approval' = RevisionHash(text, mine[r].evidence)
          /\ mine[r].evidence # NoEvidence /\ ~mine[r].evidence.archived
      BY <1>2, <2>1 DEF Approve
    <2>3. approval' \in Hash /\ approval'.text = text
      BY <2>1, <2>2 DEF RevisionHash, Hash, Copy, Evidence, ApprovalIInv, TypeOK
    <2>4. ~StaleReads => EvidenceIsReviewed'
      BY <1>1, <2>1, <2>2 DEF EvidenceIsReviewed, RevisionHash
    <2> QED
      BY <1>1, <2>1, <2>3, <2>4, ApprovalWritePreserves DEF ApprovalIInv, TypeOK, TextIsReviewed
  <1>3. CASE Revoke(r)
    <2>1. approval' = NotApproved /\ subjectHolder = r
      BY <1>3 DEF Revoke, Holds
    <2> QED
      BY <1>1, <2>1, ApprovalWritePreserves DEF ApprovalIInv, TypeOK, TextIsReviewed, EvidenceIsReviewed
  <1> QED BY <1>1, <1>2, <1>3

\* Editing: the evidence that is there afterwards, and its revision.
LEMMA EditEvidence ==
    ASSUME ApprovalIInv, NEW r \in Requests, NEW said, NEW given \in BOOLEAN, Edit(r, said, given)
    PROVE  /\ evidence' \in Evidence /\ inserted' \in Nat /\ evidence'.id <= inserted'
           /\ evidence'.id = 0 => evidence' = NoEvidence
           /\ ~given => UNCHANGED evidence
           /\ given => evidenceHolder = None
           /\ ~StaleReads /\ evidence'.id = evidence.id /\ evidence' # evidence
                => evidence'.revision > evidence.revision
  <1>1. /\ mine[r] \in Copy /\ mine[r].evidence \in Evidence
        /\ ~StaleReads => mine[r].evidence = evidence
    BY HolderHas DEF Edit, Copy
  <1>2. /\ evidence \in Evidence /\ inserted \in Nat /\ evidence.id <= inserted
        /\ evidence.id \in Nat /\ evidence.revision \in Nat
        /\ evidence.id = 0 => evidence = NoEvidence
    BY DEF ApprovalIInv, TypeOK, Evidence
  <1>3. CASE ~given
    BY <1>2, <1>3 DEF Edit
  <1>4. CASE given /\ Remove(r)
    BY <1>2, <1>4, Constructed DEF Remove, Edit
  <1>5. ASSUME given, NEW source \in Sources, Replace(r, source), evidence = NoEvidence
        PROVE  /\ evidence' \in Evidence /\ inserted' \in Nat
               /\ evidence'.id <= inserted' /\ evidence'.id # 0 /\ evidence'.id # evidence.id
    <2> DEFINE new == NewEvidence(inserted + 1, source)
    <2>1. new \in Evidence /\ new.id = inserted + 1
      BY <1>2 DEF NewEvidence, Evidence
    <2>2. evidence' = new /\ inserted' = inserted + 1
      BY <1>5 DEF Replace
    <2> HIDE DEF new
    <2> QED BY <1>2, <2>1, <2>2
  <1>6. ASSUME given, NEW source \in Sources, Replace(r, source), evidence # NoEvidence
        PROVE  /\ evidence' \in Evidence /\ UNCHANGED inserted
               /\ evidence'.id = evidence.id
               /\ ~StaleReads => evidence'.revision = evidence.revision + 1
    <2> DEFINE new == Replacement(mine[r].evidence, source)
    <2>1. /\ new \in Evidence /\ new.id = mine[r].evidence.id
          /\ new.revision = mine[r].evidence.revision + 1
      BY <1>1, ReplacementOf
    <2>2. evidence' = Flush(evidence, mine[r].evidence, new, {}) /\ UNCHANGED inserted
      BY <1>6 DEF Replace
    <2> HIDE DEF new
    <2> QED BY <1>1, <1>2, <2>1, <2>2, FlushEvidence
  <1> QED
    BY <1>2, <1>3, <1>4, <1>5, <1>6 DEF Edit

\* Each half of the invariant survives an edit, so all of it does.
LEMMA EditPreserves ==
    ASSUME ApprovalIInv, NEW r \in Requests, NEW said \in Texts \union {None},
           NEW given \in BOOLEAN, Edit(r, said, given)
    PROVE  ApprovalIInv'
  <1>1. /\ mine[r].text = text /\ mine[r].approval = approval /\ subjectHolder = r
        /\ text \in Texts /\ approval \in Hash \union {NotApproved}
    BY HolderHas DEF Edit, ApprovalIInv, TypeOK
  <1>2. /\ approval' = IF Material(said, given) THEN NotApproved ELSE approval
        /\ text' = IF said = None THEN text ELSE said
        /\ End(r) /\ UNCHANGED <<visible, listed>>
    BY <1>1 DEF Edit
  <1>3. text' \in Texts /\ approval' \in Hash \union {NotApproved}
    BY <1>1, <1>2
  <1>4. approval' # NotApproved => approval' = approval /\ text' = text /\ ~given
    BY <1>2 DEF Material
  <1>5. TextIsReviewed'
    BY <1>4 DEF ApprovalIInv, TextIsReviewed
  <1>6. ~StaleReads => EvidenceIsReviewed'
    BY <1>4, EditEvidence DEF ApprovalIInv, EvidenceIsReviewed, RevisionHash
  <1>7. visible' \in BOOLEAN /\ listed' \in BOOLEAN
    BY <1>2 DEF ApprovalIInv, TypeOK
  <1> QED BY <1>1, <1>2, <1>3, <1>5, <1>6, <1>7, EditEvidence, ApprovalWritePreserves

\* Changing the asset: the evidence is archived with a new revision, or left.
LEMMA MediaPreserves ==
    ASSUME ApprovalIInv, NEW r \in Requests, NEW seen \in BOOLEAN, ChangeMedia(r, seen)
    PROVE  /\ ApprovalIInv'
           /\ evidence' # evidence => evidence'.revision > evidence.revision
  <1>1. /\ End(r) /\ UNCHANGED <<text, inserted, listed>>
        /\ visible' \in BOOLEAN /\ listed \in BOOLEAN /\ text \in Texts
        /\ ~StaleReads => mine[r].approval = approval
    BY DEF ChangeMedia, ApprovalIInv, TypeOK, Unchanged
  <1>2. /\ evidence \in Evidence /\ inserted \in Nat /\ evidence.id <= inserted
        /\ evidence.revision \in Nat
        /\ DOMAIN evidence = {"id", "source", "revision", "archived"}
        /\ evidence.id = 0 => evidence = NoEvidence
    BY DEF ApprovalIInv, TypeOK, Evidence
  <1>3. CASE evidenceHolder # r
    <2>1. UNCHANGED <<evidence, approval>>
      BY <1>3 DEF ChangeMedia
    <2> QED
      BY <1>1, <1>2, <2>1, ApprovalWritePreserves
         DEF ApprovalIInv, TypeOK, TextIsReviewed, EvidenceIsReviewed, RevisionHash, subject
  <1>4. CASE evidenceHolder = r
    <2>1. /\ mine[r].approval # NotApproved => subjectHolder = None
          /\ evidence' = IF evidence.archived THEN evidence
                         ELSE [evidence EXCEPT !.archived = TRUE, !.revision = @ + 1]
          /\ approval' = IF mine[r].approval = NotApproved THEN approval ELSE NotApproved
      BY <1>4 DEF ChangeMedia, Invalidated
    <2>2. evidence.source = Asset /\ evidence.id # 0
      BY <1>2, <1>4, ApprovalAssumption DEF ApprovalIInv, HeldRefers, NoEvidence
    <2> DEFINE new == [evidence EXCEPT !.archived = TRUE, !.revision = @ + 1]
    <2>3. /\ new \in Evidence /\ new.id = evidence.id /\ new.source = evidence.source
          /\ new.revision = evidence.revision + 1
      <3>1. new \in [id : {evidence.id}, source : {evidence.source},
                     revision : {evidence.revision + 1}, archived : {TRUE}]
        BY <1>2 DEF Evidence
      <3>2. evidence.id \in Nat /\ evidence.source \in Sources \union {None}
        BY <1>2 DEF Evidence
      <3>3. /\ new.id = evidence.id /\ new.source = evidence.source
            /\ new.revision = evidence.revision + 1 /\ evidence.revision + 1 \in Nat
        BY <1>2
      <3>4. [id : {evidence.id}, source : {evidence.source},
             revision : {evidence.revision + 1}, archived : {TRUE}] \subseteq Evidence
        BY <3>2, <3>3 DEF Evidence
      <3> QED BY <3>1, <3>3, <3>4
    <2>4. evidence' \in {evidence, new}
      BY <2>1
    <2> HIDE DEF new
    <2>5. /\ evidence' \in Evidence /\ evidence'.id = evidence.id
          /\ evidence'.source = evidence.source
          /\ evidence' # evidence => evidence'.revision > evidence.revision
      BY <1>2, <2>3, <2>4
    <2>6. /\ UNCHANGED subject \/ subjectHolder = None
          /\ approval' \in {approval, NotApproved}
          /\ ~StaleReads => approval' = NotApproved
      BY <1>1, <2>1 DEF subject
    <2>7. approval' \in Hash \union {NotApproved} /\ TextIsReviewed'
      BY <1>1, <2>6 DEF ApprovalIInv, TypeOK, TextIsReviewed
    <2>8. ~StaleReads => EvidenceIsReviewed'
      BY <2>6 DEF EvidenceIsReviewed
    <2>9. visible' \in BOOLEAN /\ listed' \in BOOLEAN /\ inserted' \in Nat
      BY <1>1, <1>2
    <2> QED BY <1>1, <1>2, <2>2, <2>5, <2>6, <2>7, <2>8, <2>9, ApprovalWritePreserves
  <1> QED BY <1>3, <1>4

\* Publishing or hiding the subject touches nothing that was reviewed.
LEMMA ListedPreserves == ASSUME ApprovalIInv, SetListed \/ UNCHANGED vars PROVE ApprovalIInv'
  BY DEF SetListed, vars, subject, locks, ApprovalIInv, TypeOK, HolderAgrees, HeldRefers,
         TextIsReviewed, EvidenceIsReviewed, RevisionHash

-----------------------------------------------------------------------------

\* The invariant holds in every state of every run.
LEMMA ApprovalInvariance == Spec => []ApprovalIInv
  <1>1. ASSUME ApprovalIInv, [Next]_vars PROVE ApprovalIInv'
    <2>1. CASE SetListed \/ UNCHANGED vars
      BY <1>1, <2>1, ListedPreserves
    <2>2. ASSUME NEW r \in Requests,
                 \/ \E step \in Reviewing \union {"finding"} : Query(r, step)
                 \/ LockSubject(r)
                 \/ LockEvidence(r)
                 \/ Refuse(r)
          PROVE  ApprovalIInv'
      BY <1>1, <2>2, ApprovalReadPreserves
    <2>3. ASSUME NEW r \in Requests, Approve(r) \/ Revoke(r) PROVE ApprovalIInv'
      BY <1>1, <2>3, ReviewPreserves
    <2>4. ASSUME NEW r \in Requests, NEW said \in Texts \union {None},
                 NEW given \in BOOLEAN, Edit(r, said, given)
          PROVE  ApprovalIInv'
      BY <1>1, <2>4, EditPreserves
    <2>5. ASSUME NEW r \in Requests, NEW seen \in BOOLEAN, ChangeMedia(r, seen) PROVE ApprovalIInv'
      BY <1>1, <2>5, MediaPreserves
    <2> QED BY <1>1, <2>1, <2>2, <2>3, <2>4, <2>5 DEF Next
  <1> QED BY <1>1, ApprovalInitIInv, PTL DEF Spec

\* Every variable keeps its type, and a lock is held only by a request that
\* is past the query that took it and has not ended.
THEOREM ApprovalTypeCorrect == Spec => []TypeOK
  BY ApprovalInvariance, PTL DEF ApprovalIInv

\* However requests interleave, the text an approval was given for is the
\* text the subject has: approvals and edits serialize on the subject's row.
THEOREM ApprovedTextStands == Spec => []TextIsReviewed
  BY ApprovalInvariance, PTL DEF ApprovalIInv

\* If no request writes after another changed what it read, visitors are
\* shown the revision that was approved.
THEOREM ShownWasReviewed == ~StaleReads => (Spec => []ShownIsReviewed)
  <1> SUFFICES ASSUME ~StaleReads PROVE Spec => []ShownIsReviewed OBVIOUS
  <1>1. ApprovalIInv => ShownIsReviewed
    BY DEF ApprovalIInv, EvidenceIsReviewed, ShownIsReviewed, Shown
  <1> QED BY <1>1, ApprovalInvariance, PTL

\* Under the same condition no approval outlives its evidence.
THEOREM ArchivedMeansRevoked == ~StaleReads => (Spec => []ReviewIsInvalidated)
  <1> SUFFICES ASSUME ~StaleReads PROVE Spec => []ReviewIsInvalidated OBVIOUS
  <1>1. ApprovalIInv => ReviewIsInvalidated
    BY DEF ApprovalIInv, EvidenceIsReviewed, ReviewIsInvalidated
  <1> QED BY <1>1, ApprovalInvariance, PTL

\* Under the same condition a row of evidence that changes has a new revision.
THEOREM RevisionsGrow == ~StaleReads => (Spec => RevisionMovesOn)
  <1> DEFINE Moves == evidence'.id = evidence.id /\ evidence' # evidence
                         => evidence'.revision > evidence.revision
  <1> SUFFICES ASSUME ~StaleReads PROVE Spec => RevisionMovesOn OBVIOUS
  <1>1. ASSUME ApprovalIInv, [Next]_vars PROVE [Moves]_evidence
    <2>1. CASE SetListed \/ UNCHANGED vars
      BY <2>1 DEF SetListed, vars
    <2>2. ASSUME NEW r \in Requests,
                 \/ \E step \in Reviewing \union {"finding"} : Query(r, step)
                 \/ LockSubject(r)
                 \/ LockEvidence(r)
                 \/ Refuse(r)
                 \/ Approve(r)
                 \/ Revoke(r)
          PROVE  UNCHANGED evidence
      BY <1>1, <2>2 DEF Query, LockSubject, LockEvidence, Refuse, Approve, Revoke
    <2>3. ASSUME NEW r \in Requests, NEW said \in Texts \union {None},
                 NEW given \in BOOLEAN, Edit(r, said, given)
          PROVE  Moves
      BY <1>1, <2>3, EditEvidence
    <2>4. ASSUME NEW r \in Requests, NEW seen \in BOOLEAN, ChangeMedia(r, seen) PROVE Moves
      BY <1>1, <2>4, MediaPreserves
    <2> QED BY <1>1, <2>1, <2>2, <2>3, <2>4 DEF Next
  <1> QED BY <1>1, ApprovalInvariance, PTL DEF Spec, RevisionMovesOn

-----------------------------------------------------------------------------
(* FeaturedOrder.                                                          *)

\* A replacement has the projects of its order before it or locked; of those
\* that are featured it has missed only the ones that came late.
Covered(r) ==
    \A p \in Projects \ found[r] : holder[p] # r =>
        /\ p \notin Range(order[r])
        /\ p \in Occupants => p \in late[r]

FeaturedIInv ==
    /\ FeaturedTypeOK
    /\ \A r \in Replacements : stage[r] = "locking" => Covered(r)

\* An order names projects, each once, and no more than the limit.
LEMMA OrderType ==
  ASSUME NEW o \in Orders
  PROVE  /\ Range(o) \subseteq Projects
         /\ \A i, j \in DOMAIN o : o[i] = o[j] => i = j
         /\ DOMAIN o \subseteq Nat \ {0}
  <1>1. PICK n \in 0..Limit : o \in Injection(1..n, Projects)
    BY DEF Orders
  <1>2. /\ o \in [1..n -> Projects] /\ n \in Nat
        /\ \A i, j \in 1..n : o[i] = o[j] => i = j
    BY <1>1, FeaturedAssumption DEF Injection, IsInjective
  <1>3. QED
    BY <1>2 DEF Range

\* The empty order is one.
LEMMA EmptyOrder == <<>> \in Orders
  <1>1. <<>> \in [1..0 -> Projects]
    OBVIOUS
  <1>2. <<>> \in Injection(1..0, Projects)
    BY <1>1 DEF Injection, IsInjective
  <1>3. 0 \in 0..Limit
    BY FeaturedAssumption
  <1>4. QED
    BY <1>2, <1>3 DEF Orders

\* The slot of a listed project is its place in the order.
LEMMA SlotType ==
  ASSUME NEW o \in Orders, NEW p
  PROVE  /\ Slot(o, p) \in Nat
         /\ Slot(o, p) # 0 => p \in Range(o)
         /\ \A i \in DOMAIN o : Slot(o, o[i]) = i
  <1>1. ASSUME NEW q \in Range(o)
        PROVE  Slot(o, q) \in DOMAIN o /\ o[Slot(o, q)] = q
    <2>1. \E i \in DOMAIN o : o[i] = q
      BY DEF Range
    <2>2. QED
      BY <2>1 DEF Slot
  <1>2. \A i \in DOMAIN o : o[i] \in Range(o)
    BY DEF Range
  <1>3. p \notin Range(o) => Slot(o, p) = 0
    BY DEF Slot
  <1>4. QED
    BY <1>1, <1>2, <1>3, OrderType

\* A replacement is covered after a step that leaves its own request alone and
\* no row that it holds.
LEMMA CoveredPreserved ==
  ASSUME FeaturedTypeOK, NEW r \in Replacements, stage[r] = "locking", Covered(r),
         stage'[r] = "locking", late' = Missed, order'[r] = order[r], found'[r] = found[r],
         \A p \in Projects : holder'[p] = r <=> holder[p] = r
  PROVE  Covered(r)'
  <1>1. late'[r] = late[r] \union (Occupants' \ Occupants)
    BY DEF Missed
  <1>2. QED
    BY <1>1 DEF Covered

\* A request that ends leaves the rows to the others.
LEMMA EndReplacementType ==
  ASSUME FeaturedTypeOK, NEW r \in Replacements, EndReplacement(r)
  PROVE  /\ holder' \in [Projects -> Replacements \union {NoOne}]
         /\ stage' \in [Replacements -> {"ready", "locking"}]
         /\ order' \in [Replacements -> Orders]
         /\ found' \in [Replacements -> SUBSET Projects]
         /\ \A p \in Projects : holder'[p] # NoOne => stage'[holder'[p]] = "locking"
         /\ \A s \in Replacements \ {r} :
              /\ stage'[s] = stage[s] /\ order'[s] = order[s] /\ found'[s] = found[s]
              /\ \A p \in Projects : holder'[p] = s <=> holder[p] = s
         /\ stage'[r] = "ready"
  BY EmptyOrder, FeaturedAssumption DEF EndReplacement, FeaturedTypeOK

\* What a step misses is a set of projects.
LEMMA MissedType ==
  ASSUME FeaturedTypeOK, late' = Missed
  PROVE  late' \in [Replacements -> SUBSET Projects]
  BY DEF Missed, FeaturedTypeOK, Occupants

\* Selecting the rows covers all that is featured and all that is to be.
LEMMA QueryFeaturedPreserves ==
  ASSUME FeaturedIInv, NEW r \in Replacements, NEW o \in Orders, QueryFeatured(r, o), late' = Missed
  PROVE  FeaturedIInv'
  <1>1. Selected(o) \subseteq Projects
    BY OrderType DEF Selected, Occupants
  <1>2. FeaturedTypeOK'
    BY <1>1, MissedType, FeaturedAssumption
    DEF QueryFeatured, projects, FeaturedIInv, FeaturedTypeOK
  <1>3. Covered(r)'
    <2>1. order'[r] = o /\ found'[r] = Selected(o) /\ Occupants' = Occupants
      BY DEF QueryFeatured, projects, FeaturedIInv, FeaturedTypeOK, Occupants
    <2>2. QED
      BY <2>1 DEF Covered, Selected
  <1>4. ASSUME NEW s \in Replacements \ {r}, stage'[s] = "locking" PROVE Covered(s)'
    BY <1>4, CoveredPreserved DEF QueryFeatured, FeaturedIInv, FeaturedTypeOK
  <1>5. QED
    BY <1>2, <1>3, <1>4 DEF FeaturedIInv

\* A row that is locked is held, or neither featured nor to be.
LEMMA LockPreserves ==
  ASSUME FeaturedIInv, NEW r \in Replacements, NEW p \in Projects, Lock(r, p), late' = Missed
  PROVE  FeaturedIInv'
  <1>1. FeaturedTypeOK'
    <2>1. /\ holder' \in [Projects -> Replacements \union {NoOne}]
          /\ \A q \in Projects : holder'[q] # NoOne => stage[holder'[q]] = "locking"
      BY DEF Lock, FeaturedIInv, FeaturedTypeOK
    <2>2. QED
      BY <2>1, MissedType DEF Lock, projects, FeaturedIInv, FeaturedTypeOK
  <1>2. ASSUME NEW s \in Replacements \ {r}, stage'[s] = "locking" PROVE Covered(s)'
    BY <1>2, CoveredPreserved, FeaturedAssumption DEF Lock, FeaturedIInv, FeaturedTypeOK
  <1>3. Covered(r)'
    <2>1. /\ found'[r] = found[r] \ {p} /\ order'[r] = order[r]
          /\ Occupants' = Occupants /\ late[r] \subseteq late'[r]
      BY DEF Lock, projects, Occupants, Missed, FeaturedIInv, FeaturedTypeOK
    <2>2. \A q \in Projects : holder[q] = r => holder'[q] = r
      BY DEF Lock, FeaturedIInv, FeaturedTypeOK
    <2>3. p \in Selected(order[r]) => holder'[p] = r
      BY DEF Lock, FeaturedIInv, FeaturedTypeOK
    <2>4. Covered(r)
      BY DEF Lock, FeaturedIInv
    <2>5. QED
      BY <2>1, <2>2, <2>3, <2>4 DEF Covered, Selected
  <1>4. QED
    BY <1>1, <1>2, <1>3 DEF FeaturedIInv

\* A request that ends, and what it stores, is late for the others.
LEMMA EndPreserves ==
  ASSUME FeaturedIInv, NEW r \in Replacements, EndReplacement(r), late' = Missed,
         rank' \in [Projects -> Nat], active' = active
  PROVE  FeaturedIInv'
  <1>1. FeaturedTypeOK'
    BY EndReplacementType, MissedType DEF FeaturedIInv, FeaturedTypeOK
  <1>2. ASSUME NEW s \in Replacements, stage'[s] = "locking" PROVE Covered(s)'
    <2>1. s # r
      BY <1>2, EndReplacementType DEF FeaturedIInv
    <2>2. QED
      BY <1>2, <2>1, EndReplacementType, CoveredPreserved DEF FeaturedIInv
  <1>3. QED
    BY <1>1, <1>2 DEF FeaturedIInv

\* The operations on one project write rows that nobody holds.
LEMMA WritePreserves ==
  ASSUME FeaturedIInv, NEW p \in Projects, NEW k \in Nat, NEW a \in BOOLEAN, Write(p, k, a),
         late' = Missed
  PROVE  FeaturedIInv'
  <1>1. FeaturedTypeOK'
    BY MissedType DEF Write, underway, FeaturedIInv, FeaturedTypeOK
  <1>2. ASSUME NEW s \in Replacements, stage'[s] = "locking" PROVE Covered(s)'
    BY <1>2, CoveredPreserved DEF Write, underway, FeaturedIInv
  <1>3. QED
    BY <1>1, <1>2 DEF FeaturedIInv

\* Every step keeps replacements covered.
LEMMA FeaturedInvariance == FeaturedSpec => []FeaturedIInv
  <1>1. FeaturedInit => FeaturedIInv
    BY EmptyOrder DEF FeaturedInit, FeaturedIInv, FeaturedTypeOK
  <1>2. FeaturedIInv /\ [FeaturedNext]_featuredVars => FeaturedIInv'
    <2> SUFFICES ASSUME FeaturedIInv, [FeaturedNext]_featuredVars PROVE FeaturedIInv'
      OBVIOUS
    <2>1. CASE UNCHANGED featuredVars
      BY <2>1 DEF featuredVars, FeaturedIInv, FeaturedTypeOK, Covered, Occupants
    <2>2. ASSUME late' = Missed, NEW p \in Projects,
                 (\E k \in Ranks \union {0} : SetRank(p, k)) \/ Publish(p) \/ Withdraw(p)
          PROVE  FeaturedIInv'
      <3>1. rank[p] \in Nat /\ active[p] \in BOOLEAN /\ Ranks \union {0} \subseteq Nat
        BY FeaturedAssumption DEF FeaturedIInv, FeaturedTypeOK
      <3>2. \E k \in Nat, a \in BOOLEAN : Write(p, k, a)
        BY <2>2, <3>1 DEF SetRank, Publish, Withdraw
      <3>3. QED
        BY <2>2, <3>2, WritePreserves
    <2>3. ASSUME late' = Missed, NEW r \in Replacements, ReplaceOrder(r) PROVE FeaturedIInv'
      <3>1. Ranked(r) \in [Projects -> Nat]
        BY SlotType DEF Ranked, FeaturedIInv, FeaturedTypeOK
      <3>2. QED
        BY <2>3, <3>1, EndPreserves DEF ReplaceOrder
    <2>4. ASSUME late' = Missed, NEW r \in Replacements, RefuseOrder(r) PROVE FeaturedIInv'
      BY <2>4, EndPreserves DEF RefuseOrder, projects, FeaturedIInv, FeaturedTypeOK
    <2>5. QED
      BY <2>1, <2>2, <2>3, <2>4, QueryFeaturedPreserves, LockPreserves DEF FeaturedNext
  <1>3. QED
    BY <1>1, <1>2, PTL DEF FeaturedSpec

\* Only the write of a replacement stores its order.
LEMMA StoredByReplaceOrder ==
  ASSUME FeaturedIInv, FeaturedNext, NEW r \in Replacements, OrderStored(r)
  PROVE  ReplaceOrder(r)
  <1>1. stage' # stage /\ rank' # rank /\ stage[r] = "locking" /\ stage'[r] = "ready"
    BY DEF OrderStored
  <1>2. PICK s \in Replacements :
          \/ \E o \in Orders : QueryFeatured(s, o)
          \/ \E p \in Projects : Lock(s, p)
          \/ ReplaceOrder(s)
          \/ RefuseOrder(s)
    BY <1>1 DEF FeaturedNext, SetRank, Publish, Withdraw, Write, underway
  <1>3. ReplaceOrder(s)
    BY <1>1, <1>2 DEF QueryFeatured, Lock, RefuseOrder, projects
  <1>4. s = r
    BY <1>1, <1>3 DEF ReplaceOrder, EndReplacement, FeaturedIInv, FeaturedTypeOK
  <1>5. QED
    BY <1>3, <1>4

\* A stored order is featured as it was asked, and public; beside it only
\* projects are featured that became so after the replacement's query.
THEOREM OrdersAreFeatured == FeaturedSpec => FeaturedAsAsked
  <1> DEFINE Kept(r) == OrderStored(r) =>
               \A i \in DOMAIN order[r] : rank'[order[r][i]] = i /\ active'[order[r][i]]
             Rest(r) == OrderStored(r) => Occupants' \subseteq Range(order[r]) \union late[r]
  <1>1. ASSUME FeaturedIInv, FeaturedNext, NEW r \in Replacements, OrderStored(r)
        PROVE  /\ \A i \in DOMAIN order[r] : rank'[order[r][i]] = i /\ active'[order[r][i]]
               /\ Occupants' \subseteq Range(order[r]) \union late[r]
    <2>1. ReplaceOrder(r) /\ Covered(r) /\ order[r] \in Orders
      BY <1>1, StoredByReplaceOrder DEF ReplaceOrder, FeaturedIInv, FeaturedTypeOK
    <2>2. /\ rank' = [p \in Projects |->
                       IF holder[p] = r THEN Slot(order[r], p) ELSE rank[p]]
          /\ active' = active /\ found[r] = {}
          /\ \A p \in Range(order[r]) : active[p]
      BY <2>1 DEF ReplaceOrder, Ranked, MayFeature
    <2>3. ASSUME NEW i \in DOMAIN order[r]
          PROVE  rank'[order[r][i]] = i /\ active'[order[r][i]]
      <3>1. order[r][i] \in Range(order[r]) /\ order[r][i] \in Projects
        BY <2>1, OrderType DEF Range
      <3>2. holder[order[r][i]] = r
        BY <2>1, <2>2, <3>1 DEF Covered
      <3>3. QED
        BY <2>1, <2>2, <3>1, <3>2, SlotType
    <2>4. ASSUME NEW p \in Occupants' PROVE p \in Range(order[r]) \union late[r]
      <3>1. p \in Projects /\ active[p] /\ rank'[p] # 0
        BY <2>2 DEF Occupants
      <3>2. CASE holder[p] = r
        BY <2>1, <2>2, <3>1, <3>2, SlotType
      <3>3. CASE holder[p] # r
        BY <2>1, <2>2, <3>1, <3>3 DEF Covered, Occupants
      <3>4. QED
        BY <3>2, <3>3
    <2>5. QED
      BY <2>3, <2>4
  <1>2. FeaturedIInv /\ [FeaturedNext]_featuredVars =>
          /\ [\A r \in Replacements : Kept(r)]_featuredVars
          /\ [\A r \in Replacements : Rest(r)]_featuredVars
    BY <1>1
  <1>3. FeaturedIInv => FeaturedTypeOK
    BY DEF FeaturedIInv
  <1> HIDE DEF Kept, Rest
  <1>4. FeaturedSpec =>
          /\ [][\A r \in Replacements : Kept(r)]_featuredVars
          /\ [][\A r \in Replacements : Rest(r)]_featuredVars
          /\ []FeaturedTypeOK
    BY <1>2, <1>3, FeaturedInvariance, PTL DEF FeaturedSpec
  <1>5. QED
    BY <1>4 DEF FeaturedAsAsked, OrderIsFeatured, OnlyLatecomersRemain, Kept, Rest

-----------------------------------------------------------------------------
(* HomepageComposition.  Ranks in finite sets of numbers.                  *)

Rank(U, s) == Cardinality({z \in U : z < s})

\* A member's rank is below the number of members.
LEMMA RankBelow ==
  ASSUME NEW U \in SUBSET Nat, IsFiniteSet(U), NEW s \in U
  PROVE  Rank(U, s) \in 0..(Cardinality(U) - 1)
  <1> DEFINE L == {z \in U : z < s}
  <1>1. L \in SUBSET (U \ {s})
    OBVIOUS
  <1>2. IsFiniteSet(U \ {s}) /\ Cardinality(U \ {s}) = Cardinality(U) - 1
    BY FS_RemoveElement
  <1>3. IsFiniteSet(L) /\ Cardinality(L) <= Cardinality(U \ {s})
    BY <1>1, <1>2, FS_Subset
  <1>4. Cardinality(L) \in Nat /\ Cardinality(U) \in Nat
    BY <1>3, FS_CardinalityType
  <1>5. QED
    BY <1>2, <1>3, <1>4 DEF Rank

\* Ranks grow with the members.
LEMMA RankGrows ==
  ASSUME NEW U \in SUBSET Nat, IsFiniteSet(U), NEW s \in U, NEW t \in U, s < t
  PROVE  Rank(U, s) < Rank(U, t)
  <1> DEFINE K == {z \in U : z < s}
             L == {z \in U : z < t}
  <1>1. K \cup {s} \in SUBSET L /\ L \in SUBSET U /\ s \notin K
    <2>1. \A z \in U : z < s => z < t
      OBVIOUS
    <2>2. K \subseteq L /\ s \in L
      BY <2>1
    <2>3. QED
      BY <2>2
  <1>2. IsFiniteSet(L) /\ IsFiniteSet(K)
    BY <1>1, FS_Subset
  <1>3. Cardinality(K \cup {s}) <= Cardinality(L)
    BY <1>1, <1>2, FS_Subset
  <1>4. Cardinality(K \cup {s}) = Cardinality(K) + 1
    BY <1>1, <1>2, FS_AddElement
  <1>5. Cardinality(K) \in Nat /\ Cardinality(L) \in Nat
    BY <1>2, FS_CardinalityType
  <1>6. QED
    BY <1>3, <1>4, <1>5 DEF Rank

\* Members of one rank are one.
LEMMA RankNames ==
  ASSUME NEW U \in SUBSET Nat, IsFiniteSet(U), NEW s \in U, NEW t \in U, Rank(U, s) = Rank(U, t)
  PROVE  s = t
  <1>1. ~(s < t) /\ ~(t < s)
    <2>1. Rank(U, s) \in Int /\ Rank(U, t) \in Int
      BY RankBelow
    <2>2. QED
      BY <2>1, RankGrows
  <1>2. QED
    BY <1>1

\* There is a member of every rank.
LEMMA RankReached ==
  ASSUME NEW U \in SUBSET Nat, IsFiniteSet(U), NEW k \in 0..(Cardinality(U) - 1)
  PROVE  \E s \in U : Rank(U, s) = k
  <1> DEFINE n == Cardinality(U)
             R == 0..(n - 1)
             f == [s \in U |-> Rank(U, s)]
  <1>1. n \in Nat
    BY FS_CardinalityType
  <1>2. f \in Injection(U, R)
    BY RankBelow, RankNames DEF Injection, IsInjective
  <1>3. IsFiniteSet(R) /\ Cardinality(R) = n
    <2>1. PICK m \in Int : m = n - 1
      BY <1>1
    <2>2. IsFiniteSet(0..m) /\ Cardinality(0..m) = IF 0 > m THEN 0 ELSE m - 0 + 1
      BY FS_Interval
    <2>3. QED
      BY <1>1, <2>1, <2>2
  <1>4. f \in Surjection(U, R)
    BY <1>2, <1>3, FS_Injection
  <1>5. k \in R
    OBVIOUS
  <1>6. \E s \in U : f[s] = k
    BY <1>4, <1>5 DEF Surjection
  <1>7. QED
    BY <1>6

\* A finite set of numbers has a least and a greatest member.
LEMMA MinOf ==
  ASSUME NEW U \in SUBSET Nat, IsFiniteSet(U), U # {}
  PROVE  Min(U) \in U
  <1>1. Cardinality(U) \in Nat /\ Cardinality(U) # 0
    BY FS_CardinalityType, FS_EmptySet
  <1>2. PICK s \in U : Rank(U, s) = 0
    BY <1>1, RankReached
  <1>3. {z \in U : z < s} \in SUBSET U
    OBVIOUS
  <1>4. {z \in U : z < s} = {}
    BY <1>2, <1>3, FS_Subset, FS_EmptySet DEF Rank
  <1>5. \A y \in U : s <= y
    BY <1>4
  <1>6. QED
    BY <1>5 DEF Min

\* A finite set of numbers that is not empty has a greatest member.
LEMMA MaxOf ==
  ASSUME NEW U \in SUBSET Nat, IsFiniteSet(U), U # {}
  PROVE  Max(U) \in U /\ \A y \in U : Max(U) >= y
  <1>1. Cardinality(U) \in Nat /\ Cardinality(U) # 0
    BY FS_CardinalityType, FS_EmptySet
  <1>2. PICK s \in U : Rank(U, s) = Cardinality(U) - 1
    BY <1>1, RankReached
  <1>3. \A y \in U : s >= y
    <2> SUFFICES ASSUME NEW y \in U, s < y PROVE FALSE
      OBVIOUS
    <2>1. Rank(U, s) < Rank(U, y) /\ Rank(U, y) \in 0..(Cardinality(U) - 1)
      BY RankGrows, RankBelow
    <2>2. QED
      BY <1>1, <1>2, <2>1
  <1>4. QED
    BY <1>3 DEF Max

-----------------------------------------------------------------------------
(* Positions of a replacement.                                             *)

IsTable(base) == base \in Tables /\ PositionsDiffer(base)

\* The items of a composition name different sections, which were read.
IsAsked(base, asked) ==
    /\ asked \in Seq(Item)
    /\ \A i, j \in DOMAIN asked : asked[i].id = asked[j].id /\ asked[i].id # 0 => i = j
    /\ \A i \in DOMAIN asked : asked[i].id # 0 =>
         asked[i].id \in DOMAIN base /\ base[asked[i].id].type = asked[i].type

\* The facts about a table that the lemmas below use.
LEMMA TableFacts ==
  ASSUME NEW base, IsTable(base)
  PROVE  /\ DOMAIN base \in SUBSET Sections
         /\ \A s \in DOMAIN base : base[s] \in Section /\ base[s].position \in Nat
         /\ base = [s \in DOMAIN base |-> base[s]]
         /\ IsFiniteSet(DOMAIN base)
         /\ Cardinality(DOMAIN base) \in Nat
         /\ \A s, z \in DOMAIN base : base[s].position = base[z].position => s = z
  <1>1. PICK S \in SUBSET Sections : base \in [S -> Section]
    BY DEF IsTable, Tables
  <1>2. /\ DOMAIN base = S /\ base = [s \in S |-> base[s]]
        /\ \A s \in S : base[s] \in Section /\ base[s].position \in Nat
    BY <1>1 DEF Section
  <1>3. IsFiniteSet(Sections)
    BY FS_Interval, HomepageAssumption DEF Sections
  <1>4. IsFiniteSet(S) /\ Cardinality(S) \in Nat
    BY <1>3, FS_Subset, FS_CardinalityType
  <1>5. \A s, z \in S : base[s].position = base[z].position => s = z
    BY <1>2 DEF IsTable, PositionsDiffer, IsInjective
  <1>6. QED
    BY <1>2, <1>4, <1>5

\* What was asked is a list of items, and the sections it names were loaded.
LEMMA AskedFacts ==
  ASSUME NEW base, NEW asked, IsTable(base), IsAsked(base, asked)
  PROVE  /\ Len(asked) \in Nat /\ DOMAIN asked = 1..Len(asked)
         /\ \A i \in DOMAIN asked : asked[i] \in Item
         /\ Listed(asked) \in SUBSET (DOMAIN base)
         /\ \A s \in Listed(asked) : \E i \in DOMAIN asked : asked[i].id = s
         /\ \A i \in DOMAIN asked : asked[i].id # 0 => asked[i].id \in Listed(asked)
         /\ 0 \notin DOMAIN base
  <1>1. /\ Len(asked) \in Nat /\ DOMAIN asked = 1..Len(asked)
        /\ \A i \in DOMAIN asked : asked[i] \in Item
    BY DEF IsAsked
  <1>2. 0 \notin DOMAIN base
    BY TableFacts, HomepageAssumption DEF Sections
  <1>3. QED
    BY <1>1, <1>2 DEF Listed, IsAsked

\* A listed section takes the place of the item that names it.
LEMMA FinalOfItem ==
  ASSUME NEW base, NEW asked, IsTable(base), IsAsked(base, asked),
         NEW i \in DOMAIN asked, asked[i].id # 0
  PROVE  Final(base, asked, asked[i].id) = i - 1
  <1>1. asked[i].id \in Listed(asked)
    BY AskedFacts
  <1>2. \A j \in DOMAIN asked : asked[j].id = asked[i].id => j = i
    BY DEF IsAsked
  <1>3. (CHOOSE j \in DOMAIN asked : asked[j].id = asked[i].id) = i
    BY <1>2
  <1>4. QED
    BY <1>1, <1>3 DEF Final

\* The unlisted sections in front of another one.
InFront(base, asked, s) == Before(base, s) \ Listed(asked)

\* The sections that are not listed are ranked by their positions.
LEMMA InFrontFacts ==
  ASSUME NEW base, NEW asked, IsTable(base), NEW s \in DOMAIN base, s \notin Listed(asked)
  PROVE  /\ Cardinality(InFront(base, asked, s)) \in Nat
         /\ Cardinality(InFront(base, asked, s)) < Cardinality(DOMAIN base \ Listed(asked))
         /\ \A z \in DOMAIN base \ Listed(asked) : base[s].position < base[z].position
              => Cardinality(InFront(base, asked, s)) < Cardinality(InFront(base, asked, z))
  <1> DEFINE K == InFront(base, asked, s)
             D == DOMAIN base \ Listed(asked)
  <1>1. /\ \A z \in DOMAIN base : base[z].position \in Nat
        /\ IsFiniteSet(DOMAIN base)
    BY TableFacts
  <1>2. IsFiniteSet(D) /\ K \in SUBSET D /\ s \in D /\ s \notin K
    <2>1. IsFiniteSet(D)
      BY <1>1, FS_Difference
    <2>2. K \in SUBSET D /\ s \in D /\ s \notin K
      BY <1>1 DEF InFront, Before
    <2>3. QED
      BY <2>1, <2>2
  <1>3. IsFiniteSet(K) /\ Cardinality(K) \in Nat /\ Cardinality(D) \in Nat
    BY <1>2, FS_Subset, FS_CardinalityType
  <1>4. Cardinality(K \cup {s}) = Cardinality(K) + 1
    BY <1>2, <1>3, FS_AddElement
  <1>5. \A L \in SUBSET D : K \cup {s} \in SUBSET L =>
            Cardinality(L) \in Nat /\ Cardinality(K) < Cardinality(L)
    <2> SUFFICES ASSUME NEW L \in SUBSET D, K \cup {s} \in SUBSET L
                 PROVE  Cardinality(L) \in Nat /\ Cardinality(K) < Cardinality(L)
      OBVIOUS
    <2>1. IsFiniteSet(L) /\ Cardinality(L) \in Nat
      BY <1>2, FS_Subset, FS_CardinalityType
    <2>2. Cardinality(K \cup {s}) <= Cardinality(L)
      BY <2>1, FS_Subset
    <2>3. QED
      BY <1>3, <1>4, <2>1, <2>2
  <1>6. Cardinality(K) < Cardinality(D)
    BY <1>2, <1>5
  <1>7. ASSUME NEW z \in D, base[s].position < base[z].position
        PROVE  Cardinality(K) < Cardinality(InFront(base, asked, z))
    <2>1. InFront(base, asked, z) \in SUBSET D /\ K \cup {s} \in SUBSET InFront(base, asked, z)
      BY <1>1, <1>7 DEF InFront, Before
    <2>2. QED
      BY <1>5, <2>1
  <1>8. QED
    BY <1>3, <1>6, <1>7

\* An unlisted section comes behind the list.
LEMMA FinalOfOther ==
  ASSUME NEW base, NEW asked, NEW s, s \notin Listed(asked)
  PROVE  Final(base, asked, s) = Len(asked) + Cardinality(InFront(base, asked, s))
  BY DEF Final, InFront

\* Final positions are numbers; those behind the list are unlisted sections'.
LEMMA FinalType ==
  ASSUME NEW base, NEW asked, IsTable(base), IsAsked(base, asked), NEW s \in DOMAIN base
  PROVE  /\ Final(base, asked, s) \in Nat
         /\ s \in Listed(asked) <=> Final(base, asked, s) < Len(asked)
         /\ s \in Listed(asked) => \E i \in DOMAIN asked : /\ asked[i].id = s
                                                           /\ Final(base, asked, s) = i - 1
  <1>1. /\ Len(asked) \in Nat /\ DOMAIN asked = 1..Len(asked)
        /\ \A z \in Listed(asked) : \E i \in DOMAIN asked : asked[i].id = z
        /\ 0 \notin DOMAIN base
    BY AskedFacts
  <1>2. CASE s \in Listed(asked)
    <2>1. PICK i \in DOMAIN asked : asked[i].id = s
      BY <1>1, <1>2
    <2>2. Final(base, asked, s) = i - 1
      BY <1>1, <2>1, FinalOfItem
    <2>3. QED
      BY <1>1, <1>2, <2>1, <2>2
  <1>3. CASE s \notin Listed(asked)
    <2>1. Final(base, asked, s) = Len(asked) + Cardinality(InFront(base, asked, s))
      BY <1>3, FinalOfOther
    <2>2. Cardinality(InFront(base, asked, s)) \in Nat
      BY <1>3, InFrontFacts
    <2>3. QED
      BY <1>1, <1>3, <2>1, <2>2
  <1>4. QED
    BY <1>2, <1>3

\* Different sections get different positions.
LEMMA FinalsDiffer ==
  ASSUME NEW base, NEW asked, IsTable(base), IsAsked(base, asked),
         NEW s \in DOMAIN base, NEW z \in DOMAIN base,
         Final(base, asked, s) = Final(base, asked, z)
  PROVE  s = z
  <1>1. CASE s \in Listed(asked) \/ z \in Listed(asked)
    <2>1. s \in Listed(asked) /\ z \in Listed(asked)
      BY <1>1, FinalType
    <2>2. PICK i \in DOMAIN asked : asked[i].id = s /\ Final(base, asked, s) = i - 1
      BY <2>1, FinalType
    <2>3. PICK j \in DOMAIN asked : asked[j].id = z /\ Final(base, asked, z) = j - 1
      BY <2>1, FinalType
    <2>4. i \in Int /\ j \in Int
      BY AskedFacts
    <2>5. i - 1 = j - 1
      BY <2>2, <2>3
    <2>6. i = j
      BY <2>4, <2>5
    <2>7. QED
      BY <2>2, <2>3, <2>6
  <1>2. CASE s \notin Listed(asked) /\ z \notin Listed(asked)
    <2> DEFINE k == Cardinality(InFront(base, asked, s))
               l == Cardinality(InFront(base, asked, z))
    <2>1. Len(asked) + k = Len(asked) + l /\ Len(asked) \in Nat
      BY <1>2, FinalOfOther, AskedFacts
    <2>2. /\ k \in Nat /\ l \in Nat
          /\ base[s].position < base[z].position => k < l
          /\ base[z].position < base[s].position => l < k
      BY <1>2, InFrontFacts
    <2>3. base[s].position = base[z].position
      BY <2>1, <2>2, TableFacts
    <2>4. QED
      BY <2>3, TableFacts
  <1>3. QED
    BY <1>1, <1>2
\* No position exceeds what the sections that were read and the new ones need.
LEMMA FinalBelow ==
  ASSUME NEW base, NEW asked, IsTable(base), IsAsked(base, asked), NEW s \in DOMAIN base
  PROVE  /\ Cardinality(NewItems(asked)) \in Nat
         /\ Final(base, asked, s) < Cardinality(NewItems(asked)) + Cardinality(DOMAIN base)
  <1> DEFINE D == DOMAIN asked
             N == NewItems(asked)
             L == Listed(asked)
             B == DOMAIN base
             f == [i \in D \ N |-> asked[i].id]
  <1>1. /\ Len(asked) \in Nat /\ D = 1..Len(asked) /\ N \in SUBSET D
        /\ L \in SUBSET B /\ IsFiniteSet(B) /\ Cardinality(B) \in Nat
        /\ \A i \in D : asked[i].id # 0 => asked[i].id \in L
    BY AskedFacts, TableFacts DEF NewItems
  <1>2. IsFiniteSet(D) /\ Cardinality(D) = Len(asked)
    <2>1. PICK n \in Nat : n = Len(asked)
      BY <1>1
    <2>2. IsFiniteSet(1..n) /\ Cardinality(1..n) = IF 1 > n THEN 0 ELSE n - 1 + 1
      BY FS_Interval
    <2>3. QED
      BY <1>1, <2>1, <2>2
  <1>3. /\ IsFiniteSet(N) /\ Cardinality(N) \in Nat
        /\ IsFiniteSet(L) /\ Cardinality(L) \in Nat /\ Cardinality(L) <= Cardinality(B)
    BY <1>1, <1>2, FS_Subset, FS_CardinalityType
  <1>4. Cardinality(D \ N) = Len(asked) - Cardinality(N) /\ Cardinality(D \ N) \in Nat
    <2>1. /\ IsFiniteSet(D \ N)
          /\ Cardinality(D \ N) = Cardinality(D) - Cardinality(D \cap N)
      BY <1>2, FS_Difference
    <2>2. D \cap N = N
      BY <1>1
    <2>3. QED
      BY <1>2, <2>1, <2>2, FS_CardinalityType
  <1>5. f \in Injection(D \ N, L)
    BY <1>1 DEF NewItems, IsAsked, Injection, IsInjective
  <1>6. Cardinality(D \ N) <= Cardinality(L)
    BY <1>3, <1>5, FS_Injection
  <1>7. CASE s \in L
    <2>1. Final(base, asked, s) \in Nat /\ Final(base, asked, s) < Len(asked)
      BY <1>7, FinalType
    <2>2. QED
      BY <1>1, <1>3, <1>4, <1>6, <2>1
  <1>8. CASE s \notin L
    <2>1. /\ Final(base, asked, s) = Len(asked) + Cardinality(InFront(base, asked, s))
          /\ Cardinality(InFront(base, asked, s)) \in Nat
          /\ Cardinality(InFront(base, asked, s)) < Cardinality(B \ L)
      BY <1>8, FinalOfOther, InFrontFacts
    <2>2. Cardinality(B \ L) = Cardinality(B) - Cardinality(L)
      <3>1. Cardinality(B \ L) = Cardinality(B) - Cardinality(B \cap L)
        BY <1>1, FS_Difference
      <3>2. B \cap L = L
        BY <1>1
      <3>3. QED
        BY <3>1, <3>2
    <2>3. QED
      BY <1>1, <1>3, <1>4, <1>6, <2>1, <2>2
  <1>9. QED
    BY <1>3, <1>7, <1>8

\* The interim positions are beyond all others: the sections that were read
\* have different ones, so the greatest is as large as their number allows.
LEMMA StagedAbove ==
  ASSUME NEW base, IsTable(base), NEW z \in DOMAIN base
  PROVE  /\ Staged(base, z) \in Nat
         /\ Staged(base, z) >= Cardinality(DOMAIN base) + Cardinality(DOMAIN base)
  <1> DEFINE B == DOMAIN base
             f == [s \in B |-> base[s].position]
             P == {base[s].position : s \in B}
             M == Max(P)
  <1>1. /\ IsFiniteSet(B) /\ Cardinality(B) \in Nat
        /\ \A s \in B : base[s].position \in Nat
        /\ \A s, t \in B : base[s].position = base[t].position => s = t
    BY TableFacts
  <1>2. P \in SUBSET Nat /\ P # {}
    BY <1>1
  <1>3. IsFiniteSet(P)
    <2>1. f \in Surjection(B, P)
      BY DEF Surjection
    <2>2. QED
      BY <1>1, <2>1, FS_Surjection
  <1>4. M \in Nat /\ \A y \in P : M >= y
    BY <1>2, <1>3, MaxOf
  <1> HIDE DEF M
  <1>5. f \in Injection(B, 0..M)
    BY <1>1, <1>4 DEF Injection, IsInjective
  <1>6. IsFiniteSet(0..M) /\ Cardinality(0..M) = M + 1
    <2>1. IsFiniteSet(0..M) /\ Cardinality(0..M) = IF 0 > M THEN 0 ELSE M - 0 + 1
      BY <1>4, FS_Interval
    <2>2. QED
      BY <1>4, <2>1
  <1>7. Cardinality(B) <= M + 1
    BY <1>5, <1>6, FS_Injection
  <1>8. Cardinality(Before(base, z)) \in Nat
    <2>1. Before(base, z) \in SUBSET B
      BY DEF Before
    <2>2. QED
      BY <1>1, <2>1, FS_Subset, FS_CardinalityType
  <1>9. Staged(base, z) = M + Cardinality(B) + 1 + Cardinality(Before(base, z))
    BY DEF Staged, M
  <1>10. QED
    BY <1>1, <1>4, <1>7, <1>8, <1>9

\* Rows of a table of the second flush.
NewItemsAreFew(asked) == Cardinality(NewItems(asked)) <= Cardinality(Unused)

\* The items without a section are finitely many.
LEMMA NewItemsFacts ==
  ASSUME NEW base, NEW asked, IsTable(base), IsAsked(base, asked)
  PROVE  NewItems(asked) \in SUBSET Nat /\ IsFiniteSet(NewItems(asked))
  <1>1. Len(asked) \in Nat /\ DOMAIN asked = 1..Len(asked)
    BY AskedFacts
  <1>2. IsFiniteSet(1..Len(asked))
    BY <1>1, FS_Interval
  <1>3. NewItems(asked) \in SUBSET (1..Len(asked))
    BY <1>1 DEF NewItems
  <1>4. QED
    BY <1>2, <1>3, FS_Subset

\* The keys that are left are finitely many.
LEMMA UnusedFacts ==
  /\ Unused \in SUBSET Sections /\ Unused \in SUBSET Nat /\ IsFiniteSet(Unused)
  /\ Cardinality(Unused) \in Nat
  <1>1. IsFiniteSet(Sections) /\ Sections \in SUBSET Nat
    BY FS_Interval, HomepageAssumption DEF Sections
  <1>2. Unused \in SUBSET Sections
    BY DEF Unused
  <1>3. QED
    BY <1>1, <1>2, FS_Subset, FS_CardinalityType

\* The new items get sections of their own.
LEMMA NewSectionFacts ==
  ASSUME NEW base, NEW asked, IsTable(base), IsAsked(base, asked), NewItemsAreFew(asked),
         NEW i \in NewItems(asked)
  PROVE  /\ NewSection(asked, i) \in Unused
         /\ \A j \in NewItems(asked) : NewSection(asked, j) = NewSection(asked, i) => j = i
  <1> DEFINE N == NewItems(asked)
  <1>1. /\ N \in SUBSET Nat /\ IsFiniteSet(N) /\ Unused \in SUBSET Nat /\ IsFiniteSet(Unused)
        /\ Cardinality(N) \in Nat /\ Cardinality(Unused) \in Nat
    BY NewItemsFacts, UnusedFacts, FS_CardinalityType
  <1>2. \A j \in N : /\ NewSection(asked, j) \in Unused
                     /\ Rank(Unused, NewSection(asked, j)) = Rank(N, j)
    <2> SUFFICES ASSUME NEW j \in N
                 PROVE  /\ NewSection(asked, j) \in Unused
                        /\ Rank(Unused, NewSection(asked, j)) = Rank(N, j)
      OBVIOUS
    <2>1. Rank(N, j) \in 0..(Cardinality(N) - 1)
      BY <1>1, RankBelow
    <2>2. Rank(N, j) \in 0..(Cardinality(Unused) - 1)
      BY <1>1, <2>1 DEF NewItemsAreFew
    <2>3. \E s \in Unused : Rank(Unused, s) = Rank(N, j)
      BY <1>1, <2>2, RankReached
    <2>4. NewSection(asked, j) = CHOOSE s \in Unused : Rank(Unused, s) = Rank(N, j)
      BY DEF NewSection, Rank
    <2>5. QED
      BY <2>3, <2>4
  <1>3. \A j \in N : NewSection(asked, j) = NewSection(asked, i) => j = i
    BY <1>1, <1>2, RankNames
  <1>4. QED
    BY <1>2, <1>3

-----------------------------------------------------------------------------
(* The table after a replacement.                                          *)

\* A flush keeps a row a section.
LEMMA FlushSection ==
  ASSUME NEW row \in Section, NEW loaded \in Section, NEW object \in Section,
         NEW stamped \in SUBSET {"position"}
  PROVE  /\ Flush(row, loaded, object, stamped) \in Section
         /\ stamped = {"position"} => Flush(row, loaded, object, stamped).position = object.position
         /\ row = loaded => Flush(row, loaded, object, stamped) = object
         /\ Flush(row, loaded, object, stamped).position \in {row.position, object.position}
  <1> DEFINE new == Flush(row, loaded, object, stamped)
  <1>1. DOMAIN row = {"type", "position", "shown"}
    BY DEF Section
  <1>2. new = [type |-> new.type, position |-> new.position, shown |-> new.shown]
    BY <1>1 DEF Flush
  <1>3. /\ new.type \in {row.type, object.type}
        /\ new.position \in {row.position, object.position}
        /\ new.shown \in {row.shown, object.shown}
        /\ stamped = {"position"} => new.position = object.position
    BY <1>1 DEF Flush
  <1>4. row = loaded => /\ new.type = object.type
                        /\ new.position = object.position
                        /\ new.shown = object.shown
    BY <1>1 DEF Flush
  <1>5. object = [type |-> object.type, position |-> object.position, shown |-> object.shown]
    BY DEF Section
  <1> HIDE DEF new
  <1>6. new \in Section
    BY <1>2, <1>3 DEF Section
  <1>7. QED
    BY <1>2, <1>3, <1>4, <1>5, <1>6 DEF new

\* The object of the second flush.
LEMMA AssignedFacts ==
  ASSUME NEW base, NEW asked, IsTable(base), IsAsked(base, asked), NEW s \in DOMAIN base
  PROVE  /\ Assigned(base, asked, s) \in Section
         /\ Assigned(base, asked, s).type = base[s].type
         /\ Assigned(base, asked, s).position = Final(base, asked, s)
         /\ Assigned(base, asked, s).shown = (s \in Listed(asked))
  <1>1. base[s] \in Section /\ Final(base, asked, s) \in Nat
    BY TableFacts, FinalType
  <1> DEFINE shown == s \in Listed(asked)
             new == [base[s] EXCEPT !.position = Final(base, asked, s), !.shown = shown]
  <1>2. shown \in BOOLEAN
    OBVIOUS
  <1>3. Assigned(base, asked, s) = new
    BY DEF Assigned
  <1> HIDE DEF shown
  <1>4. /\ new.type = base[s].type /\ new.position = Final(base, asked, s) /\ new.shown = shown
        /\ new \in Section
    BY <1>1, <1>2 DEF Section
  <1>5. QED
    BY <1>3, <1>4 DEF shown

IsStored(base, asked) ==
    /\ IsTable(rows) /\ IsTable(base) /\ IsAsked(base, asked)
    /\ DOMAIN base \subseteq DOMAIN rows
    /\ NewItemsAreFew(asked)

\* What a replacement leaves: each section where it belongs.
HasReplaced(new, base, asked) ==
    /\ DOMAIN new = DOMAIN rows \union Inserted(asked)
    /\ Inserted(asked) \in SUBSET Unused
    /\ \A s \in DOMAIN base : new[s] = Written(base, asked, s)
    /\ \A s \in DOMAIN rows \ DOMAIN base : new[s] = rows[s]
    /\ \A i \in NewItems(asked) :
         new[NewSection(asked, i)] = [type |-> asked[i].type, position |-> i - 1, shown |-> TRUE]

\* The table of a replacement, row by row.
LEMMA ReplacedFacts ==
  ASSUME NEW base, NEW asked, IsStored(base, asked)
  PROVE  HasReplaced(Replaced(base, asked), base, asked)
  <1> DEFINE new == Replaced(base, asked)
             item(s) == CHOOSE i \in NewItems(asked) : NewSection(asked, i) = s
  <1>1. Inserted(asked) \in SUBSET Unused
    BY NewSectionFacts DEF IsStored, Inserted
  <1>2. DOMAIN base \subseteq DOMAIN rows /\ Unused \cap DOMAIN rows = {}
    BY DEF IsStored, Unused
  <1>3. DOMAIN new = DOMAIN rows \union Inserted(asked)
    BY DEF Replaced
  <1>4. \A s \in DOMAIN base : new[s] = Written(base, asked, s)
    BY <1>2 DEF Replaced
  <1>5. \A s \in DOMAIN rows \ DOMAIN base : new[s] = rows[s]
    BY DEF Replaced
  <1>6. ASSUME NEW i \in NewItems(asked)
        PROVE  new[NewSection(asked, i)] = [type |-> asked[i].type, position |-> i - 1, shown |-> TRUE]
    <2> DEFINE s == NewSection(asked, i)
    <2>1. s \in Inserted(asked) /\ s \notin DOMAIN rows /\ s \notin DOMAIN base
      BY <1>1, <1>2 DEF Inserted
    <2>2. item(s) = i
      BY NewSectionFacts DEF IsStored
    <2>3. new[s] = [type |-> asked[item(s)].type, position |-> item(s) - 1, shown |-> TRUE]
      BY <2>1 DEF Replaced
    <2>4. QED
      BY <2>2, <2>3
  <1>7. QED
    BY <1>1, <1>3, <1>4, <1>5, <1>6 DEF HasReplaced

\* Every section of a table after a replacement is one that was read, one that
\* was not, or a new one.
LEMMA ReplacedCases ==
  ASSUME NEW base, NEW asked, IsStored(base, asked), NEW s \in DOMAIN Replaced(base, asked)
  PROVE  \/ s \in DOMAIN base
         \/ s \in DOMAIN rows \ DOMAIN base
         \/ \E i \in NewItems(asked) : s = NewSection(asked, i)
  BY ReplacedFacts DEF Inserted, HasReplaced

\* The row of a section that was loaded.
LEMMA WrittenFacts ==
  ASSUME NEW base, NEW asked, IsStored(base, asked), NEW s \in DOMAIN base
  PROVE  /\ Written(base, asked, s) \in Section
         /\ Written(base, asked, s).position = Final(base, asked, s)
         /\ rows[s] = base[s] => Written(base, asked, s) = Assigned(base, asked, s)
  <1>1. rows[s] \in Section /\ base[s] \in Section
    BY TableFacts DEF IsStored
  <1>2. /\ Assigned(base, asked, s) \in Section
        /\ Assigned(base, asked, s).position = Final(base, asked, s)
    BY AssignedFacts DEF IsStored
  <1>3. QED
    BY <1>1, <1>2, FlushSection DEF Written

\* The new table is one, if nothing is in the way of its positions.
LEMMA ReplacedIsTable ==
  ASSUME NEW base, NEW asked, IsStored(base, asked),
         \A s \in DOMAIN base, z \in DOMAIN rows \ DOMAIN base :
            rows[z].position # Final(base, asked, s),
         \A i \in NewItems(asked), z \in DOMAIN rows \ DOMAIN base : rows[z].position # i - 1
  PROVE  IsTable(Replaced(base, asked))
  <1> DEFINE new == Replaced(base, asked)
             old == DOMAIN rows \ DOMAIN base
             N == NewItems(asked)
  <1>0. /\ DOMAIN new = DOMAIN rows \union Inserted(asked)
        /\ Inserted(asked) \in SUBSET Unused
        /\ \A s \in DOMAIN base : new[s] = Written(base, asked, s)
        /\ \A s \in old : new[s] = rows[s]
        /\ \A i \in N : new[NewSection(asked, i)] =
              [type |-> asked[i].type, position |-> i - 1, shown |-> TRUE]
    <2>1. HasReplaced(new, base, asked)
      BY ReplacedFacts
    <2> HIDE DEF new
    <2>2. QED
      BY <2>1 DEF HasReplaced
  <1>1. /\ \A s \in DOMAIN base : /\ new[s] \in Section
                                  /\ new[s].position = Final(base, asked, s)
        /\ \A s \in old : new[s] = rows[s] /\ new[s] \in Section
    <2>1. \A s \in DOMAIN base : new[s] = Written(base, asked, s)
      BY <1>0
    <2>2. \A s \in old : new[s] = rows[s]
      BY <1>0
    <2>3. \A s \in DOMAIN rows : rows[s] \in Section
      BY TableFacts DEF IsStored
    <2>4. QED
      BY <2>1, <2>2, <2>3, WrittenFacts
  <1>2. \A i \in N : i \in DOMAIN asked /\ i \in Nat /\ i >= 1 /\ i <= Len(asked)
                     /\ asked[i].id = 0 /\ asked[i].type \in Types
    BY AskedFacts DEF NewItems, IsStored, Item
  <1>3. \A i \in N : /\ new[NewSection(asked, i)] \in Section
                     /\ new[NewSection(asked, i)].position = i - 1
    <2> SUFFICES ASSUME NEW i \in N
                 PROVE  /\ new[NewSection(asked, i)] \in Section
                        /\ new[NewSection(asked, i)].position = i - 1
      OBVIOUS
    <2>1. new[NewSection(asked, i)] = [type |-> asked[i].type, position |-> i - 1, shown |-> TRUE]
      BY <1>0
    <2>2. i - 1 \in Nat /\ asked[i].type \in Types
      BY <1>2
    <2> HIDE DEF new
    <2>3. QED
      BY <2>1, <2>2 DEF Section
  <1>4. \A s \in DOMAIN new : \/ s \in DOMAIN base
                              \/ s \in old
                              \/ \E i \in N : s = NewSection(asked, i)
    BY ReplacedCases
  <1>5. DOMAIN new \in SUBSET Sections
    <2>1. DOMAIN new = DOMAIN rows \union Inserted(asked) /\ Inserted(asked) \in SUBSET Unused
      BY <1>0
    <2>2. DOMAIN rows \in SUBSET Sections /\ Unused \in SUBSET Sections
      BY UnusedFacts, TableFacts DEF IsStored
    <2>3. QED
      BY <2>1, <2>2
  <1>6. new \in Tables
    <2>1. new = [s \in DOMAIN new |-> new[s]]
      BY DEF Replaced
    <2>2. \A s \in DOMAIN new : new[s] \in Section
      BY <1>1, <1>3, <1>4
    <2> HIDE DEF new
    <2>3. new \in [DOMAIN new -> Section]
      BY <2>1, <2>2
    <2>4. QED
      BY <1>5, <2>3 DEF Tables
  <1>7. ASSUME NEW s \in DOMAIN base, NEW i \in N PROVE Final(base, asked, s) # i - 1
    <2>1. /\ Len(asked) \in Nat /\ i \in DOMAIN asked /\ i \in Nat /\ i <= Len(asked)
          /\ asked[i].id = 0
      BY <1>2, AskedFacts DEF IsStored
    <2>2. SUFFICES ASSUME Final(base, asked, s) = i - 1 PROVE FALSE
      OBVIOUS
    <2>3. Final(base, asked, s) < Len(asked)
      BY <2>1, <2>2
    <2>4. PICK j \in DOMAIN asked : asked[j].id = s /\ Final(base, asked, s) = j - 1
      BY <2>3, FinalType DEF IsStored
    <2>5. j \in Nat /\ 0 \notin DOMAIN base
      BY AskedFacts DEF IsStored
    <2>6. QED
      BY <2>1, <2>2, <2>4, <2>5
  <1>8. ASSUME NEW s \in DOMAIN new, NEW z \in DOMAIN new, new[s].position = new[z].position
        PROVE  s = z
    <2>1. CASE s \in DOMAIN base /\ z \in DOMAIN base
      BY <1>1, <1>8, <2>1, FinalsDiffer DEF IsStored
    <2>2. CASE s \in old /\ z \in old
      BY <1>1, <1>8, <2>2, TableFacts DEF IsStored
    <2>3. ASSUME NEW i \in N, NEW j \in N, s = NewSection(asked, i), z = NewSection(asked, j)
          PROVE  s = z
      BY <1>2, <1>3, <1>8, <2>3
    <2>4. CASE \/ s \in DOMAIN base /\ z \in old
               \/ s \in old /\ z \in DOMAIN base
      BY <1>1, <1>8, <2>4
    <2>5. ASSUME NEW i \in N, \/ s = NewSection(asked, i) /\ z \in old
                              \/ z = NewSection(asked, i) /\ s \in old
          PROVE  FALSE
      BY <1>1, <1>3, <1>8, <2>5
    <2>6. ASSUME NEW i \in N, \/ s = NewSection(asked, i) /\ z \in DOMAIN base
                              \/ z = NewSection(asked, i) /\ s \in DOMAIN base
          PROVE  FALSE
      BY <1>1, <1>3, <1>7, <1>8, <2>6
    <2>7. QED
      BY <1>4, <2>1, <2>2, <2>3, <2>4, <2>5, <2>6
  <1>9. PositionsDiffer(new)
    BY <1>8 DEF PositionsDiffer, IsInjective
  <1>10. QED
    BY <1>6, <1>9 DEF IsTable
-----------------------------------------------------------------------------
(* The invariant of the homepage.                                          *)

\* What an edit has read is a table of sections that still exist; a
\* replacement beside which nothing was written has read the table as it is.
EditIsSound(r) ==
    /\ IsTable(edits[r].base)
    /\ DOMAIN edits[r].base \subseteq DOMAIN rows
    /\ edits[r].phase # "single" =>
         /\ IsAsked(edits[r].base, edits[r].asked)
         /\ r \notin crossed => edits[r].base = rows

HomepageIInv ==
    /\ IsTable(rows)
    /\ edits \in [Editors -> {Idle} \union HomepageEdit]
    /\ crossed \subseteq {r \in Editors : edits[r] # Idle}
    /\ \A r \in Editors : edits[r] # Idle => EditIsSound(r)
    /\ \A r, z \in Editors : r # z => Locked(r) \intersect Locked(z) = {}

\* No section exists and no request runs at first.
LEMMA HomepageInitIInv == HomepageInit => HomepageIInv
  <1> SUFFICES ASSUME HomepageInit PROVE HomepageIInv
    OBVIOUS
  <1>1. IsTable(rows)
    <2>1. rows \in [{} -> Section] /\ {} \in SUBSET Sections
      BY DEF HomepageInit
    <2>2. rows \in Tables
      BY <2>1 DEF Tables
    <2>3. DOMAIN rows = {}
      BY <2>1
    <2>4. QED
      BY <2>2, <2>3 DEF IsTable, PositionsDiffer, IsInjective
  <1>2. QED
    BY <1>1 DEF HomepageInit, HomepageIInv, Locked

\* The end of an edit: what the others have read is crossed if rows changed.
LEMMA EndPreserves_Homepage ==
  ASSUME HomepageIInv, NEW r \in Editors, EndEdit(r), IsTable(rows'),
         DOMAIN rows \subseteq DOMAIN rows'
  PROVE  HomepageIInv'
  <1>1. /\ edits' \in [Editors -> {Idle} \union HomepageEdit]
        /\ edits'[r] = Idle
        /\ \A z \in Editors \ {r} : edits'[z] = edits[z]
    BY DEF EndEdit, HomepageIInv
  <1>2. /\ r \notin crossed'
        /\ crossed \ {r} \subseteq crossed'
        /\ \A z \in crossed' : z \in crossed \/ (z \in Editors \ {r} /\ edits[z] # Idle)
        /\ rows' # rows => \A z \in Editors \ {r} : edits[z] # Idle => z \in crossed'
    BY DEF EndEdit, Crossing
  <1>3. ASSUME NEW z \in Editors, edits'[z] # Idle PROVE EditIsSound(z)'
    <2>1. z # r /\ edits'[z] = edits[z] /\ EditIsSound(z)
      BY <1>1, <1>3 DEF HomepageIInv
    <2>2. z \notin crossed' => rows' = rows /\ z \notin crossed
      BY <1>1, <1>2, <1>3, <2>1
    <2>3. QED
      BY <2>1, <2>2 DEF EditIsSound, IsTable, PositionsDiffer, IsAsked
  <1>4. \A z \in Editors : (Locked(z)' = IF z = r THEN {} ELSE Locked(z))
    BY <1>1 DEF Locked
  <1>5. crossed' \subseteq {z \in Editors : edits'[z] # Idle}
    BY <1>1, <1>2 DEF HomepageIInv
  <1>6. QED
    BY <1>1, <1>3, <1>4, <1>5 DEF HomepageIInv

\* A request begins with a sound edit, and locks nothing yet.
LEMMA BeginPreserves_Homepage ==
  ASSUME HomepageIInv, NEW r \in Editors, edits[r] = Idle, NEW e \in HomepageEdit,
         edits' = [edits EXCEPT ![r] = e], UNCHANGED <<rows, crossed>>,
         IsTable(e.base), DOMAIN e.base \subseteq DOMAIN rows, e.phase # "staged",
         e.phase # "single" => IsAsked(e.base, e.asked) /\ e.base = rows
  PROVE  HomepageIInv'
  <1>1. /\ edits' \in [Editors -> {Idle} \union HomepageEdit]
        /\ edits'[r] = e
        /\ \A z \in Editors \ {r} : edits'[z] = edits[z]
    BY DEF HomepageIInv
  <1>2. e # Idle
    BY HomepageAssumption
  <1>3. ASSUME NEW z \in Editors, edits'[z] # Idle PROVE EditIsSound(z)'
    BY <1>1, <1>3 DEF HomepageIInv, EditIsSound, IsTable, PositionsDiffer, IsAsked
  <1>4. \A z \in Editors : Locked(z)' = Locked(z)
    BY <1>1 DEF Locked
  <1>5. IsTable(rows)' /\ crossed' \subseteq {z \in Editors : edits'[z] # Idle}
    BY <1>1, <1>2 DEF HomepageIInv, IsTable, PositionsDiffer
  <1>6. QED
    BY <1>1, <1>3, <1>4, <1>5 DEF HomepageIInv

\* Loading copies the table and checks the items against it.
LEMMA LoadPreserves ==
  ASSUME HomepageIInv, NEW r \in Editors, NEW types \in Compositions, Load(r, types)
  PROVE  HomepageIInv'
  <1>1. PICK ids \in [DOMAIN types -> {0} \union DOMAIN rows] :
            /\ \A i, j \in DOMAIN ids : ids[i] = ids[j] /\ ids[i] # 0 => i = j
            /\ \A i \in DOMAIN ids : ids[i] # 0 => rows[ids[i]].type = types[i]
            /\ edits' = [edits EXCEPT ![r] =
                 [phase |-> "loaded", base |-> rows,
                  asked |-> [i \in DOMAIN types |-> [id |-> ids[i], type |-> types[i]]]]]
    BY DEF Load
  <1> DEFINE asked == [i \in DOMAIN types |-> [id |-> ids[i], type |-> types[i]]]
             e == [phase |-> "loaded", base |-> rows, asked |-> asked]
  <1>2. types \in Seq(Types) /\ IsTable(rows)
    BY HomepageAssumption DEF HomepageIInv
  <1>3. DOMAIN rows \in SUBSET Sections
    BY <1>2, TableFacts
  <1>4. \A i \in DOMAIN types : [id |-> ids[i], type |-> types[i]] \in Item
    BY <1>1, <1>2, <1>3 DEF Item
  <1>5. asked \in Seq(Item)
    <2>1. PICK n \in Nat : DOMAIN types = 1..n
      BY <1>2
    <2>2. asked \in [1..n -> Item]
      BY <1>4, <2>1
    <2> HIDE DEF asked
    <2>3. QED
      BY <2>1, <2>2
  <1>6. IsAsked(rows, asked)
    <2>1. /\ DOMAIN asked = DOMAIN ids
          /\ \A i \in DOMAIN ids : asked[i].id = ids[i] /\ asked[i].type = types[i]
      BY <1>1
    <2> HIDE DEF asked
    <2>2. QED
      BY <1>1, <1>5, <2>1 DEF IsAsked
  <1>7. e \in HomepageEdit
    BY <1>2, <1>5 DEF HomepageEdit, IsTable
  <1>8. edits' = [edits EXCEPT ![r] = e]
    BY <1>1
  <1>9. e.phase = "loaded" /\ e.base = rows /\ e.asked = asked
    OBVIOUS
  <1> HIDE DEF e, asked
  <1>10. QED
    BY <1>2, <1>6, <1>7, <1>8, <1>9, BeginPreserves_Homepage DEF Load

\* The first flush changes no row that others see.
LEMMA StagePreserves ==
  ASSUME HomepageIInv, NEW r \in Editors, Stage(r)
  PROVE  HomepageIInv'
  <1>1. edits[r] \in HomepageEdit /\ edits[r] # Idle /\ edits[r].phase = "loaded"
    BY DEF Stage, HomepageIInv
  <1> DEFINE old == edits[r]
             e == [old EXCEPT !.phase = "staged"]
  <1>2. /\ e \in HomepageEdit /\ e.phase = "staged" /\ e.base = edits[r].base
        /\ e.asked = edits[r].asked
    BY <1>1 DEF HomepageEdit
  <1>3. edits' = [edits EXCEPT ![r] = e] /\ UNCHANGED <<rows, crossed>>
    BY DEF Stage
  <1> HIDE DEF e, old
  <1>4. /\ edits' \in [Editors -> {Idle} \union HomepageEdit]
        /\ edits'[r] = e /\ e # Idle
        /\ \A z \in Editors \ {r} : edits'[z] = edits[z]
    BY <1>2, <1>3, HomepageAssumption DEF HomepageIInv
  <1>5. ASSUME NEW z \in Editors, edits'[z] # Idle PROVE EditIsSound(z)'
    BY <1>1, <1>2, <1>3, <1>4, <1>5
    DEF HomepageIInv, EditIsSound, IsTable, PositionsDiffer, IsAsked
  <1>6. /\ Locked(r)' = DOMAIN edits[r].base
        /\ \A z \in Editors \ {r} : Locked(z)' = Locked(z)
        /\ \A z \in Editors \ {r} : Locked(z) \intersect DOMAIN edits[r].base = {}
    BY <1>2, <1>4 DEF Stage, OthersLock, Locked
  <1>7. IsTable(rows)' /\ crossed' \subseteq {z \in Editors : edits'[z] # Idle}
    BY <1>1, <1>3, <1>4 DEF HomepageIInv, IsTable, PositionsDiffer
  <1>8. QED
    BY <1>4, <1>5, <1>6, <1>7 DEF HomepageIInv

\* The table that a replacement leaves.
LEMMA ReplacementStored ==
  ASSUME HomepageIInv, NEW r \in Editors, ReplaceComposition(r)
  PROVE  /\ IsStored(edits[r].base, edits[r].asked)
         /\ IsTable(Replaced(edits[r].base, edits[r].asked))
         /\ rows' = Replaced(edits[r].base, edits[r].asked)
         /\ EndEdit(r)
         /\ r \notin crossed => edits[r].base = rows
  <1> DEFINE base == edits[r].base
             asked == edits[r].asked
  <1>1. /\ IsTable(base) /\ IsAsked(base, asked) /\ DOMAIN base \subseteq DOMAIN rows
        /\ r \notin crossed => base = rows
        /\ NewItemsAreFew(asked)
        /\ IsTable(rows)
    BY DEF ReplaceComposition, HomepageIInv, EditIsSound, NewItemsAreFew
  <1>2. IsStored(base, asked)
    BY <1>1 DEF IsStored
  <1>3. /\ \A s \in DOMAIN base : ~Taken(r, Final(base, asked, s), DOMAIN base)
        /\ \A i \in NewItems(asked) : ~Taken(r, i - 1, DOMAIN base)
        /\ rows' = Replaced(base, asked) /\ EndEdit(r)
    BY DEF ReplaceComposition, Fits
  <1> HIDE DEF base, asked
  <1>4. /\ \A s \in DOMAIN base, z \in DOMAIN rows \ DOMAIN base :
              rows[z].position # Final(base, asked, s)
        /\ \A i \in NewItems(asked), z \in DOMAIN rows \ DOMAIN base : rows[z].position # i - 1
    BY <1>3 DEF Taken
  <1>5. IsTable(Replaced(base, asked))
    BY <1>2, <1>4, ReplacedIsTable
  <1>6. QED
    BY <1>1, <1>2, <1>3, <1>5 DEF base, asked

\* The second flush leaves positions that differ.
LEMMA ReplacePreserves ==
  ASSUME HomepageIInv, NEW r \in Editors, ReplaceComposition(r)
  PROVE  HomepageIInv'
  <1>1. /\ IsStored(edits[r].base, edits[r].asked)
        /\ rows' = Replaced(edits[r].base, edits[r].asked)
        /\ IsTable(Replaced(edits[r].base, edits[r].asked))
        /\ EndEdit(r)
    BY ReplacementStored
  <1>2. DOMAIN rows \subseteq DOMAIN rows'
    <2> DEFINE base == edits[r].base
               asked == edits[r].asked
               new == Replaced(base, asked)
    <2>1. HasReplaced(new, base, asked) /\ rows' = new
      BY <1>1, ReplacedFacts
    <2> HIDE DEF base, asked, new
    <2>2. QED
      BY <2>1 DEF HasReplaced
  <1>3. IsTable(rows')
    BY <1>1
  <1>4. QED
    BY <1>1, <1>2, <1>3, EndPreserves_Homepage

\* Loading one section copies its row.
LEMMA LoadOnePreserves ==
  ASSUME HomepageIInv, NEW r \in Editors, NEW s \in DOMAIN rows, LoadOne(r, s)
  PROVE  HomepageIInv'
  <1> DEFINE base == [z \in {s} |-> rows[z]]
             e == [phase |-> "single", base |-> base, asked |-> <<>>]
  <1>1. rows[s] \in Section /\ s \in Sections
    BY TableFacts DEF HomepageIInv
  <1>2. base \in [{s} -> Section] /\ {s} \in SUBSET Sections
    BY <1>1
  <1>3. base \in Tables /\ DOMAIN base = {s}
    BY <1>2 DEF Tables
  <1> HIDE DEF base
  <1>4. IsTable(base)
    BY <1>3 DEF IsTable, PositionsDiffer, IsInjective
  <1>5. e \in HomepageEdit /\ e.phase = "single" /\ e.base = base
    BY <1>3 DEF HomepageEdit
  <1>6. edits[r] = Idle /\ edits' = [edits EXCEPT ![r] = e] /\ UNCHANGED <<rows, crossed>>
    BY DEF LoadOne, base
  <1> HIDE DEF e
  <1>7. QED
    BY <1>3, <1>4, <1>5, <1>6, BeginPreserves_Homepage

\* One section is written, at a position that is free or its own.
LEMMA SavePreserves ==
  ASSUME HomepageIInv, NEW r \in Editors, NEW s \in Loaded(r), NEW object \in Section,
         SaveOne(r, s, object)
  PROVE  HomepageIInv'
  <1> DEFINE row == Flush(rows[s], edits[r].base[s], object, {})
  <1>1. /\ edits[r] # Idle /\ s \in DOMAIN edits[r].base
        /\ IsTable(edits[r].base) /\ s \in DOMAIN rows /\ IsTable(rows)
    BY DEF Loaded, HomepageIInv, EditIsSound
  <1>2. rows[s] \in Section /\ edits[r].base[s] \in Section
    BY <1>1, TableFacts
  <1>3. row \in Section
    BY <1>2, FlushSection
  <1>4. /\ row.position # rows[s].position => ~Taken(r, row.position, {s})
        /\ rows' = [rows EXCEPT ![s] = row]
        /\ EndEdit(r)
    BY DEF SaveOne
  <1> HIDE DEF row
  <1>5. /\ DOMAIN rows' = DOMAIN rows /\ rows'[s] = row
        /\ \A z \in DOMAIN rows \ {s} : rows'[z] = rows[z]
    BY <1>1, <1>4
  <1>6. PICK S \in SUBSET Sections : rows \in [S -> Section]
    BY <1>1 DEF IsTable, Tables
  <1>7. rows' \in [S -> Section]
    BY <1>1, <1>3, <1>4, <1>6
  <1>8. rows' \in Tables
    BY <1>7 DEF Tables
  <1>9. \A z \in DOMAIN rows \ {s} : row.position # rows[z].position
    <2>1. \A z \in DOMAIN rows \ {s} : rows[s].position # rows[z].position
      BY <1>1, TableFacts
    <2>2. QED
      BY <1>4, <2>1 DEF Taken
  <1>10. \A y, z \in DOMAIN rows' : rows'[y].position = rows'[z].position => y = z
    BY <1>1, <1>5, <1>9, TableFacts
  <1>11. IsTable(rows')
    BY <1>8, <1>10 DEF IsTable, PositionsDiffer, IsInjective
  <1>12. QED
    BY <1>4, <1>5, <1>11, EndPreserves_Homepage

\* A new section takes a key and a position that are free.
LEMMA CreatePreserves_Homepage ==
  ASSUME HomepageIInv, NEW r \in Editors, NEW type \in Types, NEW position \in Positions,
         CreateSection(r, type, position)
  PROVE  HomepageIInv'
  <1> DEFINE new == Min(Unused)
             row == [type |-> type, position |-> position, shown |-> TRUE]
  <1>1. new \in Unused /\ new \in Sections /\ new \notin DOMAIN rows
    BY UnusedFacts, MinOf DEF CreateSection, Unused
  <1>2. row \in Section /\ row.position = position
    BY HomepageAssumption DEF Section
  <1>3. /\ ~Taken(r, position, {}) /\ EndEdit(r)
        /\ rows' = [s \in DOMAIN rows \union {new} |-> IF s \in DOMAIN rows THEN rows[s] ELSE row]
    BY DEF CreateSection
  <1> HIDE DEF new, row
  <1>4. /\ DOMAIN rows' = DOMAIN rows \union {new} /\ rows'[new] = row
        /\ \A s \in DOMAIN rows : rows'[s] = rows[s]
    BY <1>1, <1>3
  <1>5. /\ DOMAIN rows \in SUBSET Sections
        /\ \A s \in DOMAIN rows : rows[s] \in Section
        /\ \A y, z \in DOMAIN rows : rows[y].position = rows[z].position => y = z
    BY TableFacts DEF HomepageIInv
  <1>6. rows' \in [DOMAIN rows' -> Section] /\ DOMAIN rows' \in SUBSET Sections
    BY <1>1, <1>2, <1>3, <1>4, <1>5
  <1>7. rows' \in Tables
    BY <1>6 DEF Tables
  <1>8. \A s \in DOMAIN rows : rows[s].position # row.position
    BY <1>2, <1>3 DEF Taken
  <1>9. \A y, z \in DOMAIN rows' : rows'[y].position = rows'[z].position => y = z
    BY <1>4, <1>5, <1>8
  <1>10. IsTable(rows')
    BY <1>7, <1>9 DEF IsTable, PositionsDiffer, IsInjective
  <1>11. QED
    BY <1>3, <1>4, <1>10, EndPreserves_Homepage

\* Every step preserves the invariant.
LEMMA HomepageNextIInv == HomepageIInv /\ [HomepageNext]_homepageVars => HomepageIInv'
  <1> SUFFICES ASSUME HomepageIInv, [HomepageNext]_homepageVars PROVE HomepageIInv'
    OBVIOUS
  <1>1. CASE UNCHANGED homepageVars
    BY <1>1 DEF homepageVars, HomepageIInv, EditIsSound, Locked, IsTable, PositionsDiffer, IsAsked
  <1>2. ASSUME NEW r \in Editors, RefuseEdit(r) PROVE HomepageIInv'
    <2>1. rows' = rows /\ EndEdit(r) /\ IsTable(rows)
      BY <1>2 DEF RefuseEdit, HomepageIInv
    <2>2. IsTable(rows')
      BY <2>1
    <2>3. QED
      BY <2>1, <2>2, EndPreserves_Homepage
  <1>3. ASSUME NEW r \in Editors, NEW s \in Loaded(r) PROVE edits[r].base[s] \in Section
    BY <1>3, TableFacts DEF Loaded, HomepageIInv, EditIsSound
  <1>4. ASSUME NEW r \in Editors, NEW p \in Positions, UpdateSection(r, p) PROVE HomepageIInv'
    <2>1. PICK s \in Loaded(r) : SaveOne(r, s, [edits[r].base[s] EXCEPT !.position = p])
      BY <1>4 DEF UpdateSection
    <2> DEFINE old == edits[r].base[s]
    <2>2. old \in Section /\ p \in Nat
      BY <1>3, HomepageAssumption
    <2> HIDE DEF old
    <2>3. [old EXCEPT !.position = p] \in Section
      BY <2>2 DEF Section
    <2>4. QED
      BY <2>1, <2>3, SavePreserves DEF old
  <1>5. ASSUME NEW r \in Editors, NEW shown \in BOOLEAN, SetStatus(r, shown) PROVE HomepageIInv'
    <2>1. PICK s \in Loaded(r) : SaveOne(r, s, [edits[r].base[s] EXCEPT !.shown = shown])
      BY <1>5 DEF SetStatus
    <2> DEFINE old == edits[r].base[s]
    <2>2. old \in Section
      BY <1>3
    <2> HIDE DEF old
    <2>3. [old EXCEPT !.shown = shown] \in Section
      BY <2>2 DEF Section
    <2>4. QED
      BY <2>1, <2>3, SavePreserves DEF old
  <1>6. QED
    BY <1>1, <1>2, <1>4, <1>5, LoadPreserves, StagePreserves, ReplacePreserves,
       LoadOnePreserves, CreatePreserves_Homepage DEF HomepageNext

\* The invariant always holds.
LEMMA HomepageInvariance == HomepageSpec => []HomepageIInv
  BY HomepageInitIInv, HomepageNextIInv, PTL DEF HomepageSpec

\* Sections have types and different positions, and a replacement beside which
\* nothing was written finds room for its interim and its final positions.
THEOREM CompositionsAlwaysFit == HomepageSpec => []CompositionsFit
  <1>1. HomepageIInv => HomepageTypeOK
    <2> SUFFICES ASSUME HomepageIInv PROVE HomepageTypeOK
      OBVIOUS
    <2>1. DOMAIN rows \subseteq Sections /\ \A s \in DOMAIN rows : rows[s] \in Section
      BY TableFacts DEF HomepageIInv
    <2>2. \A r \in Editors : edits[r] # Idle => edits[r].phase \in {"single", "loaded", "staged"}
      BY DEF HomepageIInv, HomepageEdit
    <2>3. QED
      BY <2>1, <2>2 DEF HomepageIInv, EditIsSound, IsTable, HomepageTypeOK
  <1>2. ASSUME HomepageIInv, NEW r \in Editors, edits[r] # Idle, edits[r].phase = "staged",
               r \notin crossed,
               Cardinality(NewItems(edits[r].asked)) <= Cardinality(DOMAIN edits[r].base)
        PROVE  Fits(r)
    <2> DEFINE base == edits[r].base
               asked == edits[r].asked
    <2>1. IsTable(base) /\ IsAsked(base, asked) /\ base = rows
      BY <1>2 DEF HomepageIInv, EditIsSound
    <2>2. \A z \in Editors \ {r} : Interim(z) = {}
      <3>1. \A z \in Editors \ {r} : Locked(z) = {}
        BY <1>2, <2>1 DEF HomepageIInv, EditIsSound, Locked
      <3>2. QED
        BY <3>1 DEF Interim
    <2>3. \A p : ~Taken(r, p, DOMAIN base)
      BY <2>1, <2>2 DEF Taken
    <2>4. Cardinality(NewItems(asked)) <= Cardinality(DOMAIN base)
      BY <1>2
    <2> HIDE DEF base, asked
    <2>5. ASSUME NEW s \in DOMAIN base, NEW z \in DOMAIN base
          PROVE  Final(base, asked, s) # Staged(base, z)
      <3>1. /\ Final(base, asked, s) \in Nat
            /\ Final(base, asked, s) < Cardinality(NewItems(asked)) + Cardinality(DOMAIN base)
            /\ Cardinality(NewItems(asked)) \in Nat
        BY <2>1, FinalType, FinalBelow
      <3>2. /\ Staged(base, z) \in Nat
            /\ Staged(base, z) >= Cardinality(DOMAIN base) + Cardinality(DOMAIN base)
            /\ Cardinality(DOMAIN base) \in Nat
        BY <2>1, StagedAbove, TableFacts
      <3>3. QED
        BY <2>4, <3>1, <3>2
    <2>6. ~Collides(base, asked)
      BY <2>5 DEF Collides
    <2>7. QED
      BY <2>3, <2>6 DEF Fits, base, asked
  <1>3. HomepageIInv => CompositionsFit
    BY <1>1, <1>2 DEF CompositionsFit, AloneItFits
  <1>4. QED
    BY <1>3, HomepageInvariance, PTL

\* Only its own last flush ends a replacement with other rows.
LEMMA StoredByReplacement ==
  ASSUME HomepageIInv, HomepageNext, NEW r \in Editors, CompositionStored(r)
  PROVE  ReplaceComposition(r)
  <1>1. edits[r] # Idle /\ edits[r].phase = "staged" /\ edits'[r] = Idle /\ rows' # rows
    BY DEF CompositionStored
  <1>2. PICK z \in Editors :
            \/ ReplaceComposition(z)
            \/ \E p \in Positions : UpdateSection(z, p)
            \/ \E shown \in BOOLEAN : SetStatus(z, shown)
            \/ \E t \in Types, p \in Positions : CreateSection(z, t, p)
    BY <1>1 DEF HomepageNext, Load, Stage, RefuseEdit, LoadOne
  <1>3. EndEdit(z)
    BY <1>2 DEF ReplaceComposition, UpdateSection, SetStatus, SaveOne, CreateSection
  <1>4. z = r
    BY <1>1, <1>3 DEF EndEdit, HomepageIInv
  <1>5. Loaded(r) = {}
    BY <1>1 DEF Loaded
  <1>6. QED
    BY <1>1, <1>2, <1>4, <1>5 DEF UpdateSection, SetStatus, CreateSection

\* The row that an item without a section gets.
LEMMA NewRowFacts ==
  ASSUME NEW new, NEW base, NEW asked, HasReplaced(new, base, asked),
         NEW i \in NewItems(asked)
  PROVE  /\ NewSection(asked, i) \in Inserted(asked)
         /\ NewSection(asked, i) \in DOMAIN new
         /\ new[NewSection(asked, i)].type = asked[i].type
         /\ new[NewSection(asked, i)].position = i - 1
         /\ new[NewSection(asked, i)].shown
  <1> DEFINE s == NewSection(asked, i)
  <1>1. s \in Inserted(asked)
    BY DEF Inserted
  <1>2. s \in DOMAIN new
    BY <1>1 DEF HasReplaced
  <1>3. new[s] = [type |-> asked[i].type, position |-> i - 1, shown |-> TRUE]
    BY DEF HasReplaced
  <1> HIDE DEF s
  <1>4. /\ new[s].type = asked[i].type
        /\ new[s].position = i - 1
        /\ new[s].shown
    BY <1>3
  <1>5. QED
    BY <1>1, <1>2, <1>4 DEF s

\* A replacement that ran alone shows what it lists and nothing else, and any
\* replacement puts what it lists where it was asked to.
THEOREM CompositionsAreAsAsked == HomepageSpec => CompositionAsAsked
  <1>1. ASSUME HomepageIInv, HomepageNext, NEW r \in Editors, CompositionStored(r), r \notin crossed
        PROVE  Public(rows') = Asked(edits[r].asked)
    <2> DEFINE base == edits[r].base
               asked == edits[r].asked
               new == Replaced(base, asked)
    <2>1. IsStored(base, asked) /\ rows' = new /\ base = rows
      BY <1>1, StoredByReplacement, ReplacementStored
    <2>2. HasReplaced(new, base, asked)
      BY <2>1, ReplacedFacts
    <2> HIDE DEF new, asked, base
    <2>3. \A s \in DOMAIN base :
              /\ new[s].type = base[s].type
              /\ new[s].position = Final(base, asked, s)
              /\ new[s].shown = (s \in Listed(asked))
      BY <2>1, <2>2, WrittenFacts, AssignedFacts DEF HasReplaced, IsStored
    <2>4. \A i \in NewItems(asked) :
              /\ new[NewSection(asked, i)].type = asked[i].type
              /\ new[NewSection(asked, i)].position = i - 1
              /\ new[NewSection(asked, i)].shown
              /\ NewSection(asked, i) \in DOMAIN new
      BY <2>2, NewRowFacts
    <2>5. \A s \in DOMAIN new : \/ s \in DOMAIN base
                                \/ \E i \in NewItems(asked) : s = NewSection(asked, i)
      BY <2>1, <2>2 DEF HasReplaced, Inserted
    <2>6. ASSUME NEW s \in DOMAIN new, new[s].shown
          PROVE  \E i \in DOMAIN asked :
                    new[s].position = i - 1 /\ new[s].type = asked[i].type
      <3>1. CASE s \in DOMAIN base
        <4>1. s \in Listed(asked)
          BY <2>3, <2>6, <3>1
        <4>2. PICK i \in DOMAIN asked : asked[i].id = s /\ Final(base, asked, s) = i - 1
          BY <2>1, <3>1, <4>1, FinalType DEF IsStored
        <4>3. s # 0
          BY <2>1, <3>1, AskedFacts DEF IsStored
        <4>4. base[s].type = asked[i].type
          BY <2>1, <4>2, <4>3 DEF IsStored, IsAsked
        <4>5. QED
          BY <2>3, <3>1, <4>2, <4>4
      <3>2. ASSUME NEW i \in NewItems(asked), s = NewSection(asked, i)
            PROVE  \E j \in DOMAIN asked :
                      new[s].position = j - 1 /\ new[s].type = asked[j].type
        <4>1. i \in DOMAIN asked
          BY DEF NewItems
        <4>2. QED
          BY <2>4, <3>2, <4>1
      <3>3. QED
        BY <2>5, <3>1, <3>2
    <2>7. ASSUME NEW i \in DOMAIN asked
          PROVE  \E s \in DOMAIN new :
                    new[s].shown /\ new[s].position = i - 1 /\ new[s].type = asked[i].type
      <3>1. CASE asked[i].id = 0
        <4>1. i \in NewItems(asked)
          BY <3>1 DEF NewItems
        <4>2. QED
          BY <2>4, <4>1
      <3>2. CASE asked[i].id # 0
        <4> DEFINE s == asked[i].id
        <4>1. s \in DOMAIN base /\ base[s].type = asked[i].type /\ s \in Listed(asked)
          BY <2>1, <3>2, AskedFacts DEF IsStored, IsAsked
        <4>2. Final(base, asked, s) = i - 1
          BY <2>1, <3>2, FinalOfItem DEF IsStored
        <4>3. s \in DOMAIN new
          BY <2>1, <2>2, <4>1 DEF HasReplaced
        <4>4. QED
          BY <2>3, <4>1, <4>2, <4>3
      <3>3. QED
        BY <3>1, <3>2
    <2>8. Public(new) = Asked(asked)
      BY <2>6, <2>7 DEF Public, Asked
    <2>9. QED
      BY <2>1, <2>8 DEF asked
  <1>2. ASSUME HomepageIInv, HomepageNext, NEW r \in Editors, CompositionStored(r),
               NEW i \in DOMAIN edits[r].asked
        PROVE  \E s \in DOMAIN rows' :
                  /\ rows'[s].position = i - 1
                  /\ s \in Inserted(edits[r].asked) \union {edits[r].asked[i].id}
    <2> DEFINE base == edits[r].base
               asked == edits[r].asked
               new == Replaced(base, asked)
    <2>1. IsStored(base, asked) /\ rows' = new
      BY <1>2, StoredByReplacement, ReplacementStored
    <2>2. HasReplaced(new, base, asked)
      BY <2>1, ReplacedFacts
    <2>3. i \in DOMAIN asked
      BY <1>2
    <2> HIDE DEF new, asked, base
    <2>4. CASE asked[i].id = 0
      <3>1. i \in NewItems(asked)
        BY <2>3, <2>4 DEF NewItems
      <3>2. /\ NewSection(asked, i) \in Inserted(asked)
            /\ NewSection(asked, i) \in DOMAIN new
            /\ new[NewSection(asked, i)].position = i - 1
        BY <2>2, <3>1, NewRowFacts
      <3>3. QED
        BY <2>1, <3>2 DEF asked
    <2>5. CASE asked[i].id # 0
      <3> DEFINE s == asked[i].id
      <3>1. s \in DOMAIN base /\ Final(base, asked, s) = i - 1
        BY <2>1, <2>3, <2>5, FinalOfItem DEF IsStored, IsAsked
      <3>2. s \in DOMAIN new /\ new[s].position = i - 1
        BY <2>1, <2>2, <3>1, WrittenFacts DEF HasReplaced, IsStored
      <3>3. QED
        BY <2>1, <3>2 DEF asked
    <2>6. QED
      BY <2>4, <2>5
  <1>3. HomepageIInv /\ [HomepageNext]_homepageVars =>
            [\A r \in Editors : CompositionStored(r) /\ r \notin crossed =>
                Public(rows') = Asked(edits[r].asked)]_homepageVars
    BY <1>1 DEF homepageVars
  <1>4. HomepageIInv /\ [HomepageNext]_homepageVars =>
            [\A r \in Editors : CompositionStored(r) =>
                \A i \in DOMAIN edits[r].asked :
                   \E s \in DOMAIN rows' :
                      /\ rows'[s].position = i - 1
                      /\ s \in Inserted(edits[r].asked) \union {edits[r].asked[i].id}]_homepageVars
    BY <1>2 DEF homepageVars
  <1>5. QED
    BY <1>3, <1>4, HomepageInvariance, PTL
    DEF HomepageSpec, CompositionAsAsked, CompositionIsWhole, ListedInOrder

=============================================================================
