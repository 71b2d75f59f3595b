---------------------------- MODULE AssetsProofs ----------------------------
(***************************************************************************)
(* Files, the rows that describe them, and the rows that are current or    *)
(* primary, for any number of rows and requests.  ResumeVersions: the      *)
(* current version has its file unless a commit's reply is lost, and it is *)
(* public and only ever replaced if no request writes over what it has not *)
(* seen.  PrimaryAssets: files follow their rows, and unless two requests  *)
(* about one item overlap, what is primary can be shown, a site that has   *)
(* profiles has a primary one, and a selection that succeeds takes effect. *)
(***************************************************************************)
EXTENDS ResumeVersions, PrimaryAssets, TLAPS

-----------------------------------------------------------------------------
(* ResumeVersions.                                                         *)

\* A current version has been stored, and a request is about a stored one.
\* Storing a version is the end of its upload, or the start of its clean-up.
RequestInv(r) ==
    /\ pc[r] # "ready" => chosen[r] \in Versions /\ Exists(chosen[r])
    /\ pc[r] # "clearing" => seen[r] = {}
    /\ chosen[r] \notin seen[r]

StoredInv ==
    /\ \A v \in Current : Exists(v)
    /\ \A r \in Requests : RequestInv(r)
    /\ \A v \in Versions :
        Exists(v) => upload[v] = "misled" \/ (upload[v] = "done" /\ v \in files)

ResumeIInv ==
    /\ TypeOK
    /\ StoredInv
    /\ ~StaleReads => CurrentIsPublic

-----------------------------------------------------------------------------

\* The columns of a row after a flush.
LEMMA FlushColumns ==
    ASSUME NEW row \in Row, NEW loaded \in Row, NEW object \in Row, NEW stamped
    PROVE  /\ Flush(row, loaded, object, stamped) \in Row
           /\ \A c \in {"status", "visible", "archived", "current"} :
                Flush(row, loaded, object, stamped)[c] =
                    IF object[c] # loaded[c] \/ c \in stamped THEN object[c] ELSE row[c]
  <1> DEFINE f == Flush(row, loaded, object, stamped)
  <1>1. DOMAIN row = {"status", "visible", "archived", "current"}
    BY DEF Row
  <1>2. f = [status |-> f.status, visible |-> f.visible,
             archived |-> f.archived, current |-> f.current]
    BY <1>1 DEF Flush
  <1>3. /\ f.status \in {row.status, object.status}
        /\ f.visible \in {row.visible, object.visible}
        /\ f.archived \in {row.archived, object.archived}
        /\ f.current \in {row.current, object.current}
    BY <1>1 DEF Flush
  <1>4. f \in Row
    BY <1>2, <1>3 DEF Row
  <1> QED BY <1>1, <1>4 DEF Flush

\* The two rows that are written out, column by column.
LEMMA RowColumns ==
    /\ Draft \in Row /\ NoRow \in Row
    /\ Draft.status = "draft" /\ Draft.current = FALSE
    /\ NoRow.status = "absent" /\ NoRow.current = FALSE
  BY DEF Draft, NoRow, Row, PublicationStatus

\* Where versions stay stored, a request that ends or does nothing keeps its part.
LEMMA ResumeOthersPreserve ==
    ASSUME ResumeIInv, NEW r \in Requests,
           \A v \in Versions : Exists(v) => Exists(v)',
           \/ End(r)
           \/ UNCHANGED requests
    PROVE  \A q \in Requests : RequestInv(q)'
  <1> SUFFICES ASSUME NEW q \in Requests PROVE RequestInv(q)' OBVIOUS
  <1>1. CASE UNCHANGED <<pc[q], chosen[q], seen[q]>>
    BY <1>1 DEF ResumeIInv, StoredInv, RequestInv, Exists
  <1>2. CASE q = r /\ End(r)
    BY <1>2 DEF ResumeIInv, TypeOK, End, RequestInv
  <1> QED BY <1>1, <1>2 DEF ResumeIInv, TypeOK, End, requests

\* Nothing is stored at first.
LEMMA ResumeInitIInv == Init => ResumeIInv
  <1> SUFFICES ASSUME Init PROVE ResumeIInv OBVIOUS
  <1>1. TypeOK BY RowColumns DEF Init, TypeOK, Exists
  <1>2. Current = {} BY RowColumns DEF Init, Current
  <1>3. StoredInv BY <1>2, RowColumns DEF Init, StoredInv, RequestInv, Exists
  <1> QED BY <1>1, <1>2, <1>3 DEF ResumeIInv, CurrentIsPublic

\* A step of an upload makes no version current.
LEMMA ResumeUploadPreserves ==
    ASSUME ResumeIInv, NEW v \in Versions,
           SaveFile(v) \/ StoreRow(v) \/ RefuseRow(v) \/ DeleteFile(v) \/ AbandonUpload(v)
    PROVE  ResumeIInv' /\ Current' = Current
  <1>1. CASE UNCHANGED rows
    <2>1. UNCHANGED <<profile, requests>>
      BY DEF SaveFile, StoreRow, RefuseRow, DeleteFile, AbandonUpload, Insert
    <2>2. UNCHANGED Current /\ \A w \in Versions : Exists(w)' = Exists(w)
      BY <1>1 DEF Current, Exists
    <2>3. TypeOK'
      BY <1>1, <2>1 DEF ResumeIInv, TypeOK, SaveFile, StoreRow, RefuseRow, DeleteFile,
                        AbandonUpload, Insert, requests, Exists
    <2>4. \A w \in Versions \ {v} : upload'[w] = upload[w] /\ (w \in files <=> w \in files')
      BY DEF SaveFile, StoreRow, RefuseRow, DeleteFile, AbandonUpload, Insert, ResumeIInv, TypeOK
    <2>5. ~Insert(v, "done") /\ ~Insert(v, "misled")
      BY <1>1, RowColumns DEF Insert, ResumeIInv, TypeOK, Exists
    <2>6. Exists(v) => upload'[v] = "misled"
      <3>1. \/ SaveFile(v) \/ DeleteFile(v) \/ AbandonUpload(v)
            \/ /\ upload[v] = "saved"
               /\ upload' = [upload EXCEPT ![v] = "refused"]
        BY <2>5 DEF StoreRow, RefuseRow
      <3> QED BY <3>1 DEF SaveFile, DeleteFile, AbandonUpload, ResumeIInv, TypeOK
    <2>7. StoredInv'
      BY <1>1, <2>1, <2>2, <2>4, <2>6 DEF ResumeIInv, StoredInv, RequestInv, requests, Exists
    <2> QED BY <1>1, <2>2, <2>3, <2>7 DEF ResumeIInv, CurrentIsPublic, Current
  <1>2. ASSUME NEW outcome \in {"done", "misled"}, Insert(v, outcome)
        PROVE  ResumeIInv' /\ Current' = Current
    <2>1. ~Exists(v) /\ v \in files /\ v \notin Current
      BY <1>2 DEF Insert, ResumeIInv, TypeOK, StoredInv
    <2>2. /\ rows' = [rows EXCEPT ![v] = Draft]
          /\ upload' = [upload EXCEPT ![v] = outcome]
          /\ UNCHANGED <<files, profile, requests>>
      BY <1>2 DEF Insert
    <2>3. UNCHANGED Current
      BY <2>1, <2>2, RowColumns DEF ResumeIInv, TypeOK, Current
    <2>4. TypeOK'
      BY <2>1, <2>2, RowColumns DEF ResumeIInv, TypeOK, requests, Exists
    <2>5. StoredInv'
      BY <1>2, <2>1, <2>2, <2>3, RowColumns DEF ResumeIInv, TypeOK, StoredInv, RequestInv,
                                                requests, Exists, Current
    <2>6. CurrentIsPublic => CurrentIsPublic'
      BY <2>1, <2>2, <2>3 DEF ResumeIInv, TypeOK, CurrentIsPublic, Current
    <2> QED BY <2>3, <2>4, <2>5, <2>6 DEF ResumeIInv
  <1> QED
    BY <1>1, <1>2 DEF SaveFile, StoreRow, RefuseRow, DeleteFile, AbandonUpload

\* A step of a request that writes nothing.
LEMMA ResumeReadPreserves ==
    ASSUME ResumeIInv, NEW r \in Requests,
           \/ \E v \in Versions : Load(r, v, "publishing") \/ Load(r, v, "archiving")
           \/ Clear(r)
           \/ Refuse(r)
    PROVE  ResumeIInv' /\ Current' = Current
  <1>1. UNCHANGED <<rows, uploads, profile>> /\ UNCHANGED Current
    BY DEF Load, Clear, Refuse, Current
  <1>2. TypeOK'
    BY <1>1, RowColumns DEF ResumeIInv, TypeOK, Load, Clear, Refuse, End, Others, Current,
                            uploads, Exists
  <1>3. StoredInv'
    <2>1. \A v \in Versions : Exists(v)' = Exists(v)
      BY <1>1 DEF Exists
    <2>2. CASE Refuse(r)
      BY <1>1, <2>1, <2>2, ResumeOthersPreserve DEF ResumeIInv, StoredInv, Refuse, uploads, Current
    <2>3. ASSUME NEW v \in Versions, Load(r, v, "publishing") \/ Load(r, v, "archiving")
          PROVE  StoredInv'
      BY <1>1, <2>1, <2>3 DEF ResumeIInv, TypeOK, StoredInv, RequestInv, Load, uploads, Current
    <2>4. CASE Clear(r)
      BY <1>1, <2>1, <2>4 DEF ResumeIInv, TypeOK, StoredInv, RequestInv, Clear, Others,
                              uploads, Current
    <2> QED BY <2>2, <2>3, <2>4
  <1> QED BY <1>1, <1>2, <1>3 DEF ResumeIInv, CurrentIsPublic

\* Publishing makes the chosen version current, and no other.
LEMMA ResumePublishPreserves ==
    ASSUME ResumeIInv, NEW r \in Requests, Publish(r)
    PROVE  ResumeIInv' /\ (~StaleReads => Current' # {})
  <1> DEFINE v == chosen[r]
             cleared == [w \in Versions |->
                            [rows[w] EXCEPT !.current = @ /\ w \notin seen[r]]]
             object == Published(mine[r])
             row == Flush(cleared[v], mine[r], object, {})
  <1>1. v \in Versions /\ Exists(v) /\ mine[r] \in Row
    BY DEF Publish, ResumeIInv, TypeOK, StoredInv, RequestInv
  <1>2. /\ rows' = [cleared EXCEPT ![v] = row]
        /\ UNCHANGED <<profile, uploads>>
        /\ End(r)
        /\ StaleReads \/ mine[r] = rows[v]
    BY DEF Publish, Unchanged
  <1>3. /\ cleared \in [Versions -> Row]
        /\ \A w \in Versions : /\ cleared[w].status = rows[w].status
                               /\ cleared[w].visible = rows[w].visible
                               /\ cleared[w].archived = rows[w].archived
                               /\ cleared[w].current => rows[w].current
                               /\ w \notin seen[r] => cleared[w].current = rows[w].current
    <2> SUFFICES ASSUME NEW w \in Versions
                 PROVE  LET row_ == [rows[w] EXCEPT !.current = @ /\ w \notin seen[r]]
                        IN  /\ row_ \in Row
                            /\ row_.status = rows[w].status
                            /\ row_.visible = rows[w].visible
                            /\ row_.archived = rows[w].archived
                            /\ row_.current => rows[w].current
                            /\ w \notin seen[r] => row_.current = rows[w].current
      OBVIOUS
    <2>1. rows[w] \in Row BY DEF ResumeIInv, TypeOK
    <2>2. CASE w \in seen[r] BY <2>1, <2>2 DEF Row
    <2>3. CASE w \notin seen[r] BY <2>1, <2>3 DEF Row
    <2> QED BY <2>2, <2>3
  <1>4. /\ object \in Row
        /\ object.status = "published" /\ object.visible = TRUE
        /\ object.archived = FALSE /\ object.current = TRUE
    BY <1>1 DEF Published, Apply, Row, PublicationStatus
  <1> HIDE DEF cleared, object
  <1>5. /\ row \in Row
        /\ row.status # "absent"
        /\ ~StaleReads => row.current /\ IsPublic(row)
    <2>1. /\ row \in Row
          /\ \A c \in {"status", "visible", "archived", "current"} :
                row[c] = IF object[c] # mine[r][c] THEN object[c] ELSE cleared[v][c]
      BY <1>1, <1>3, <1>4, FlushColumns
    <2>2. row.status # "absent"
      BY <1>1, <1>3, <1>4, <2>1 DEF Exists
    <2>3. ASSUME ~StaleReads PROVE row.current /\ IsPublic(row)
      <3>1. row.current
        BY <1>1, <1>2, <1>3, <1>4, <2>1, <2>3 DEF ResumeIInv, StoredInv, RequestInv
      <3>2. row.status = "published" /\ row.visible /\ ~row.archived
        BY <1>1, <1>2, <1>3, <1>4, <2>1, <2>3
      <3> QED BY <3>1, <3>2 DEF IsPublic
    <2> QED BY <2>1, <2>2, <2>3
  <1> HIDE DEF row
  <1>6. rows' \in [Versions -> Row] /\ rows'[v] = row
        /\ \A w \in Versions \ {v} : rows'[w] = cleared[w]
    BY <1>1, <1>2, <1>3, <1>5
  <1>7. /\ \A w \in Versions : Exists(w) <=> Exists(w)'
        /\ Current' \subseteq Current \union {v}
        /\ row.current => v \in Current'
    BY <1>1, <1>3, <1>5, <1>6 DEF Exists, Current
  <1>8. TypeOK'
    BY <1>2, <1>6, <1>7, RowColumns DEF ResumeIInv, TypeOK, End, uploads
  <1>9. StoredInv'
    <2>1. \A w \in Current' : Exists(w)'
      BY <1>1, <1>7 DEF ResumeIInv, StoredInv, Current
    <2>2. \A q \in Requests : RequestInv(q)'
      BY <1>2, <1>7, ResumeOthersPreserve
    <2> QED BY <1>2, <1>7, <2>1, <2>2 DEF ResumeIInv, StoredInv, uploads
  <1>10. ASSUME ~StaleReads PROVE CurrentIsPublic' /\ Current' # {}
    <2>1. \A w \in Current' \ {v} : w \in Current /\ IsPublic(rows'[w])
      BY <1>3, <1>6, <1>7, <1>10 DEF ResumeIInv, CurrentIsPublic, Current, IsPublic
    <2> QED BY <1>1, <1>5, <1>6, <1>7, <1>10, <2>1 DEF CurrentIsPublic
  <1> QED BY <1>8, <1>9, <1>10 DEF ResumeIInv

\* Archiving changes one version that the request saw not to be current.
LEMMA ResumeArchivePreserves ==
    ASSUME ResumeIInv, NEW r \in Requests, Archive(r)
    PROVE  ResumeIInv' /\ (~StaleReads => Current' = Current)
  <1> DEFINE v == chosen[r]
             object == Apply(mine[r], "archived")
             row == Flush(rows[v], mine[r], object, Stamps("archived"))
  <1>1. v \in Versions /\ Exists(v) /\ mine[r] \in Row /\ rows[v] \in Row
    BY DEF Archive, ResumeIInv, TypeOK, StoredInv, RequestInv
  <1>2. /\ rows' = [rows EXCEPT ![v] = row]
        /\ UNCHANGED <<profile, uploads>>
        /\ End(r)
        /\ StaleReads \/ mine[r] = rows[v]
        /\ ~mine[r].current
    BY DEF Archive, Unchanged, MayArchive
  <1>3. object \in Row /\ object.status = "archived" /\ object.current = mine[r].current
    BY <1>1 DEF Apply, Row, PublicationStatus
  <1> HIDE DEF object
  <1>4. /\ row \in Row
        /\ row.status # "absent"
        /\ row.current = rows[v].current
    BY <1>1, <1>3, FlushColumns DEF Exists, Stamps
  <1> HIDE DEF row
  <1>5. rows' \in [Versions -> Row] /\ rows'[v] = row
        /\ \A w \in Versions \ {v} : rows'[w] = rows[w]
    BY <1>1, <1>2, <1>4 DEF ResumeIInv, TypeOK
  <1>6. (\A w \in Versions : Exists(w) <=> Exists(w)') /\ Current' = Current
    BY <1>1, <1>4, <1>5 DEF Exists, Current
  <1>7. TypeOK'
    BY <1>2, <1>5, <1>6, RowColumns DEF ResumeIInv, TypeOK, End, uploads
  <1>8. StoredInv'
    <2>1. \A w \in Current' : Exists(w)'
      BY <1>6 DEF ResumeIInv, StoredInv, Current
    <2>2. \A q \in Requests : RequestInv(q)'
      BY <1>2, <1>6, ResumeOthersPreserve
    <2> QED BY <1>2, <1>6, <2>1, <2>2 DEF ResumeIInv, StoredInv, uploads
  <1>9. ASSUME ~StaleReads PROVE CurrentIsPublic'
    <2>1. v \notin Current
      BY <1>2, <1>9 DEF Current
    <2> QED BY <1>5, <1>6, <1>9, <2>1 DEF ResumeIInv, CurrentIsPublic, Current
  <1> QED BY <1>6, <1>7, <1>8, <1>9 DEF ResumeIInv

\* Every step preserves the invariant, and takes no current version away.
LEMMA ResumeNextPreserves ==
    ASSUME ResumeIInv, [Next]_vars
    PROVE  ResumeIInv' /\ (~StaleReads => (Current # {} => Current' # {}))
  <1> USE DEF Current
  <1>1. ASSUME NEW v \in Versions,
               SaveFile(v) \/ StoreRow(v) \/ RefuseRow(v) \/ DeleteFile(v) \/ AbandonUpload(v)
        PROVE  ResumeIInv' /\ Current' = Current
    BY <1>1, ResumeUploadPreserves
  <1>2. ASSUME NEW r \in Requests,
               \/ \E v \in Versions : Load(r, v, "publishing") \/ Load(r, v, "archiving")
               \/ Clear(r)
               \/ Refuse(r)
        PROVE  ResumeIInv' /\ Current' = Current
    BY <1>2, ResumeReadPreserves
  <1>3. ASSUME NEW r \in Requests, Publish(r)
        PROVE  ResumeIInv' /\ (~StaleReads => Current' # {})
    BY <1>3, ResumePublishPreserves
  <1>4. ASSUME NEW r \in Requests, Archive(r)
        PROVE  ResumeIInv' /\ (~StaleReads => Current' = Current)
    BY <1>4, ResumeArchivePreserves
  <1>5. CASE SetProfileStatus
    BY <1>5 DEF SetProfileStatus, ResumeIInv, TypeOK, StoredInv, RequestInv, Exists,
                CurrentIsPublic, uploads, requests
  <1>6. CASE UNCHANGED vars
    BY <1>6 DEF vars, ResumeIInv, TypeOK, StoredInv, RequestInv, Exists, CurrentIsPublic
  <1> QED BY <1>1, <1>2, <1>3, <1>4, <1>5, <1>6 DEF Next

-----------------------------------------------------------------------------

\* The invariant holds of every behaviour of the résumé's service methods.
THEOREM ResumeInvariance == Spec => []ResumeIInv
  <1>1. Init => ResumeIInv BY ResumeInitIInv
  <1>2. ResumeIInv /\ [Next]_vars => ResumeIInv' BY ResumeNextPreserves
  <1> QED BY <1>1, <1>2, PTL DEF Spec

\* No upload, publication or archiving stores what is not of the columns'
\* types, or leaves file and row of an upload out of step.
THEOREM ResumeTypeCorrect == Spec => []TypeOK
  <1>1. ResumeIInv => TypeOK BY DEF ResumeIInv
  <1> QED BY <1>1, ResumeInvariance, PTL

\* If upload_resume learns the true outcome of its commit, the file of the
\* current version is never deleted, however requests race.
THEOREM CurrentKeepsFile == Spec => []CurrentHasFile
  <1>1. ResumeIInv => CurrentHasFile
    BY DEF ResumeIInv, StoredInv, CurrentHasFile, Current
  <1> QED BY <1>1, ResumeInvariance, PTL

\* If no request overwrites what another committed since it loaded the
\* version, archive_resume never hides the current version.
THEOREM CurrentStaysPublic == ~StaleReads => (Spec => []CurrentIsPublic)
  <1> SUFFICES ASSUME ~StaleReads PROVE Spec => []CurrentIsPublic OBVIOUS
  <1>1. ResumeIInv => CurrentIsPublic BY DEF ResumeIInv
  <1> QED BY <1>1, ResumeInvariance, PTL

\* Under the same condition publish_and_set_current_resume only ever replaces
\* the current version.
THEOREM CurrentIsReplaced == ~StaleReads => (Spec => CurrentIsOnlyReplaced)
  <1> SUFFICES ASSUME ~StaleReads PROVE Spec => CurrentIsOnlyReplaced OBVIOUS
  <1>1. ResumeIInv /\ [Next]_vars => [Current # {} => Current' # {}]_vars
    BY ResumeNextPreserves
  <1> QED BY <1>1, ResumeInvariance, PTL DEF Spec, CurrentIsOnlyReplaced

\* Both together: get_public_current_resume has something to serve for the
\* version that is current.
THEOREM CurrentIsServed == ~StaleReads => (Spec => []CurrentCanBeShown)
  <1> SUFFICES ASSUME ~StaleReads PROVE Spec => []CurrentCanBeShown OBVIOUS
  <1>1. CurrentIsPublic /\ CurrentHasFile => CurrentCanBeShown
    BY DEF CurrentCanBeShown
  <1> QED BY <1>1, CurrentKeepsFile, CurrentStaysPublic, PTL

-----------------------------------------------------------------------------
(* PrimaryAssets.                                                          *)

\* An item is not there before its row is committed; until then its file is,
\* if it has one.
CreationInv(x) ==
    /\ creation[x].stage \in {"none", "open", "cleared", "refused"} => ~items[x].exists
    /\ creation[x].stage \in {"open", "cleared"} /\ x \in Uploads => x \in stored
    /\ creation[x].stage = "misled" => items[x].exists
    /\ creation[x].found \subseteq Table(x)
    /\ creation[x].stage # "cleared" => creation[x].found = {}
    /\ creation[x].stage = "cleared" => creation[x].primary
    /\ x \in Media => ~creation[x].primary
    /\ creation[x].stage = "open" /\ x \in Profiles /\ ~creation[x].primary =>
            \E p \in Profiles : items[p].exists

\* A request has its item as it is, or the item counts as overtaken.
EditInv(e) ==
    edit[e].step # "idle" =>
        /\ edit[e].item \in Profiles \union Portraits
        /\ items[edit[e].item].exists
        /\ edit[e].copy = items[edit[e].item] \/ edit[e].item \in overtaken
        /\ edit[e].found \subseteq Table(edit[e].item) \ {edit[e].item}
        /\ edit[e].step = "archiving" => edit[e].item \in Portraits
        /\ edit[e].step = "cleared" => edit[e].copy.active

PrimaryIInv ==
    /\ PrimaryTypeOK
    /\ \A x \in Items : items[x].primary => items[x].exists /\ x \notin Media
    /\ \A x \in Items : CreationInv(x)
    /\ \A e \in Editors : EditInv(e)
    /\ FilesFollowRows
    /\ PrimaryIsActive
    /\ AProfileIsPrimary

-----------------------------------------------------------------------------

\* A flush of an item, column by column.
LEMMA FlushItem ==
    ASSUME NEW r \in Item, NEW loaded \in Item, NEW object \in Item
    PROVE  /\ Flush(r, loaded, object, {}) \in Item
           /\ \A c \in {"exists", "active", "primary"} :
                Flush(r, loaded, object, {})[c] =
                    IF object[c] # loaded[c] THEN object[c] ELSE r[c]
  <1> DEFINE f == Flush(r, loaded, object, {})
  <1>1. DOMAIN r = {"exists", "active", "primary"}
    BY DEF Item
  <1>2. f = [exists |-> f.exists, active |-> f.active, primary |-> f.primary]
    BY <1>1 DEF Flush
  <1>3. /\ f.exists \in {r.exists, object.exists}
        /\ f.active \in {r.active, object.active}
        /\ f.primary \in {r.primary, object.primary}
    BY <1>1 DEF Flush
  <1>4. f \in Item
    BY <1>2, <1>3 DEF Item
  <1> QED BY <1>1, <1>4 DEF Flush

\* What a creation's record may become.
LEMMA StageSets ==
    ASSUME NEW c \in [Items -> Creation], NEW x \in Items,
           NEW s \in Stage, NEW p \in BOOLEAN, NEW f \in SUBSET Items
    PROVE  /\ [c EXCEPT ![x].stage = s] \in [Items -> Creation]
           /\ [c EXCEPT ![x].stage = s, ![x].primary = p] \in [Items -> Creation]
           /\ [c EXCEPT ![x].stage = s, ![x].found = f] \in [Items -> Creation]
  <1>1. c[x] \in Creation OBVIOUS
  <1>2. /\ [c[x] EXCEPT !.stage = s] \in Creation
        /\ [c[x] EXCEPT !.stage = s, !.primary = p] \in Creation
        /\ [c[x] EXCEPT !.stage = s, !.found = f] \in Creation
    BY <1>1 DEF Creation
  <1>3. /\ [c EXCEPT ![x].stage = s, ![x].primary = p]
            = [c EXCEPT ![x] = [c[x] EXCEPT !.stage = s, !.primary = p]]
        /\ [c EXCEPT ![x].stage = s, ![x].found = f]
            = [c EXCEPT ![x] = [c[x] EXCEPT !.stage = s, !.found = f]]
    OBVIOUS
  <1> QED BY <1>2, <1>3

\* Releasing what a request found changes nothing but who is primary.
LEMMA ReleasedItems ==
    ASSUME PrimaryTypeOK, NEW found
    PROVE  /\ Released(found) \in [Items -> Item]
           /\ \A x \in Items :
                /\ x \notin found => Released(found)[x] = items[x]
                /\ Released(found)[x].exists = items[x].exists
                /\ Released(found)[x].active = items[x].active
                /\ Released(found)[x].primary => items[x].primary
  <1>1. ASSUME NEW x \in Items
        PROVE  /\ Released(found)[x] = IF x \in found THEN [items[x] EXCEPT !.primary = FALSE]
                                                     ELSE items[x]
               /\ items[x] \in Item
    BY DEF Released, PrimaryTypeOK
  <1>2. \A x \in Items : [items[x] EXCEPT !.primary = FALSE] \in Item
    BY <1>1 DEF Item
  <1>3. Released(found) \in [Items -> Item]
    BY <1>1, <1>2 DEF Released
  <1>4. \A x \in Items :
            /\ [items[x] EXCEPT !.primary = FALSE].exists = items[x].exists
            /\ [items[x] EXCEPT !.primary = FALSE].active = items[x].active
            /\ ~[items[x] EXCEPT !.primary = FALSE].primary
    BY <1>1 DEF Item
  <1> QED BY <1>1, <1>3, <1>4

\* A commit leaves the copies of the other requests good, or what they are of
\* counts as overtaken.
LEMMA CommitKeepsEdits ==
    ASSUME PrimaryIInv, NEW table \in [Items -> Item], NEW e, CommitItems(table, e),
           \A x \in Items : items[x].exists => table[x].exists,
           \/ UNCHANGED edit /\ e \notin Editors
           \/ e \in Editors /\ edit' = [edit EXCEPT ![e] = Idle]
    PROVE  \A d \in Editors : EditInv(d)'
  <1> SUFFICES ASSUME NEW d \in Editors, edit'[d].step # "idle"
               PROVE  EditInv(d)'
    BY DEF EditInv
  <1>1. d # e /\ edit'[d] = edit[d]
    BY DEF PrimaryIInv, PrimaryTypeOK, Idle
  <1>2. EditInv(d)
    BY DEF PrimaryIInv
  <1>3. /\ items' = table
        /\ overtaken \subseteq overtaken'
        /\ items'[edit[d].item] = items[edit[d].item] \/ edit[d].item \in overtaken'
        /\ items'[edit[d].item].exists
    BY <1>1, <1>2 DEF CommitItems, EditInv, Items
  <1> QED BY <1>1, <1>2, <1>3 DEF EditInv, Table

\* Nothing is there at first.
LEMMA PrimaryInitIInv == PrimaryInit => PrimaryIInv
  <1> SUFFICES ASSUME PrimaryInit PROVE PrimaryIInv OBVIOUS
  <1>1. PrimaryTypeOK
    BY DEF PrimaryInit, PrimaryTypeOK, NoItem, Item, Unborn, Idle, Stage, Creation, Edit
  <1>2. \A x \in Items : CreationInv(x)
    BY DEF PrimaryInit, CreationInv, NoItem, Unborn
  <1>3. \A e \in Editors : EditInv(e)
    BY DEF PrimaryInit, EditInv, Idle
  <1>4. FilesFollowRows /\ PrimaryIsActive /\ AProfileIsPrimary
    BY DEF PrimaryInit, FilesFollowRows, PrimaryIsActive, AProfileIsPrimary,
           NoItem, Items, Uploads
  <1>5. \A x \in Items : items[x].primary => items[x].exists /\ x \notin Media
    BY DEF PrimaryInit, NoItem
  <1> QED BY <1>1, <1>2, <1>3, <1>4, <1>5 DEF PrimaryIInv

\* A step of a creation that commits nothing.
LEMMA CreationPreserves ==
    ASSUME PrimaryIInv, NEW x \in Items,
           \/ \E primary \in BOOLEAN : BeginCreation(x, primary)
           \/ ClearForCreation(x)
           \/ DeleteUpload(x)
           \/ CutCreation(x)
           \/ /\ creation[x].stage = IF creation[x].primary THEN "cleared" ELSE "open"
              /\ creation' = [creation EXCEPT ![x].stage = "refused", ![x].found = {}]
              /\ UNCHANGED <<items, stored, edit, overtaken>>
    PROVE  PrimaryIInv'
  <1>1. UNCHANGED <<items, edit, overtaken>>
    BY DEF BeginCreation, ClearForCreation, DeleteUpload, CutCreation
  <1>2. \A y \in Items \ {x} :
            creation'[y] = creation[y] /\ (y \in stored' <=> y \in stored)
    BY DEF BeginCreation, ClearForCreation, DeleteUpload, CutCreation, PrimaryIInv, PrimaryTypeOK
  <1>3. CreationInv(x) /\ x \in Items
    BY DEF PrimaryIInv
  <1>4. Primaries(x) \subseteq Table(x) /\ Table(x) \subseteq Items
    BY DEF Primaries, Table, Items
  <1>5. /\ creation' \in [Items -> Creation]
        /\ stored' \subseteq Uploads
    <2>0. /\ creation \in [Items -> Creation] /\ stored \subseteq Uploads
          /\ {"open", "cleared", "misled", "refused", "done", "cut"} \subseteq Stage
          /\ {} \in SUBSET Items /\ Primaries(x) \in SUBSET Items
          /\ creation[x].stage \in Stage
      BY <1>4 DEF PrimaryIInv, PrimaryTypeOK, Stage, Creation
    <2>1. ASSUME NEW primary \in BOOLEAN, BeginCreation(x, primary)
          PROVE  creation' \in [Items -> Creation] /\ stored' \subseteq Uploads
      <3> DEFINE wanted == \/ primary
                           \/ x \in Profiles /\ \A p \in Profiles : ~items[p].exists
      <3>1. wanted \in BOOLEAN OBVIOUS
      <3>2. creation' = [creation EXCEPT ![x].stage = "open", ![x].primary = wanted]
                /\ stored' = stored \union ({x} \intersect Uploads)
        BY <2>1 DEF BeginCreation
      <3> HIDE DEF wanted
      <3>3. [creation EXCEPT ![x].stage = "open", ![x].primary = wanted] \in [Items -> Creation]
        BY <2>0, <3>1, StageSets
      <3> QED BY <2>0, <3>2, <3>3
    <2>2. CASE ClearForCreation(x)
      <3>1. [creation EXCEPT ![x].stage = "cleared", ![x].found = Primaries(x)]
                \in [Items -> Creation]
        BY <2>0, StageSets
      <3> QED BY <2>0, <2>2, <3>1 DEF ClearForCreation
    <2>3. CASE DeleteUpload(x)
      <3> DEFINE stage == IF creation[x].stage = "misled" THEN "misled" ELSE "done"
      <3>1. creation' = [creation EXCEPT ![x].stage = stage] /\ stored' = stored \ {x}
        BY <2>0, <2>3 DEF DeleteUpload
      <3>2. stage \in Stage BY <2>0
      <3> HIDE DEF stage
      <3>3. [creation EXCEPT ![x].stage = stage] \in [Items -> Creation]
        BY <2>0, <3>2, StageSets
      <3> QED BY <2>0, <3>1, <3>3
    <2>4. CASE CutCreation(x)
      <3>1. [creation EXCEPT ![x].stage = "cut", ![x].found = {}] \in [Items -> Creation]
        BY <2>0, StageSets
      <3> QED BY <2>0, <2>4, <3>1 DEF CutCreation
    <2>5. CASE /\ creation' = [creation EXCEPT ![x].stage = "refused", ![x].found = {}]
               /\ UNCHANGED <<items, stored, edit, overtaken>>
      <3>1. [creation EXCEPT ![x].stage = "refused", ![x].found = {}] \in [Items -> Creation]
        BY <2>0, StageSets
      <3> QED BY <2>0, <2>5, <3>1
    <2> QED BY <2>1, <2>2, <2>3, <2>4, <2>5
  <1>6. CreationInv(x)' /\ (items[x].exists /\ x \in Uploads
                                => x \in stored' \/ creation'[x].stage = "misled")
                        /\ (x \in stored' /\ ~items[x].exists
                                => creation'[x].stage \in {"open", "cleared", "refused", "cut"})
    <2>0. /\ creation \in [Items -> Creation]
          /\ stored \subseteq Uploads
          /\ items[x].exists /\ x \in Uploads => x \in stored \/ creation[x].stage = "misled"
          /\ x \in stored /\ ~items[x].exists
                => creation[x].stage \in {"open", "cleared", "refused", "cut"}
      BY DEF PrimaryIInv, PrimaryTypeOK, FilesFollowRows
    <2>1. CASE \E primary \in BOOLEAN : BeginCreation(x, primary)
      <3>1. PICK primary \in BOOLEAN : BeginCreation(x, primary)
        BY <2>1
      <3>2. /\ creation'[x].stage = "open"
            /\ creation'[x].found = creation[x].found
            /\ creation[x].found = {}
            /\ ~items[x].exists
            /\ creation'[x].primary = \/ primary
                                      \/ /\ x \in Profiles
                                         /\ \A p \in Profiles : ~items[p].exists
            /\ x \in Media => ~primary
            /\ x \in Uploads => x \in stored'
        BY <1>3, <2>0, <3>1 DEF BeginCreation, CreationInv, Creation, Stage
      <3>3. x \in Media => x \notin Profiles
        BY PrimaryAssumption
      <3> QED BY <1>1, <3>2, <3>3 DEF CreationInv, Table
    <2>2. CASE ClearForCreation(x)
      BY <1>1, <1>3, <1>4, <2>0, <2>2 DEF ClearForCreation, CreationInv, Table
    <2>3. CASE DeleteUpload(x)
      BY <1>1, <1>3, <2>0, <2>3 DEF DeleteUpload, CreationInv, Table
    <2>4. CASE CutCreation(x)
      BY <1>1, <1>3, <2>0, <2>4 DEF CutCreation, CreationInv, Table
    <2>5. CASE /\ creation[x].stage = IF creation[x].primary THEN "cleared" ELSE "open"
               /\ creation' = [creation EXCEPT ![x].stage = "refused", ![x].found = {}]
               /\ UNCHANGED <<items, stored, edit, overtaken>>
      BY <1>1, <1>3, <2>0, <2>5 DEF CreationInv, Table
    <2> QED BY <2>1, <2>2, <2>3, <2>4, <2>5
  <1>7. ASSUME NEW y \in Items PROVE CreationInv(y)'
    <2>1. CASE y = x BY <1>6, <2>1
    <2>2. CASE y # x BY <1>1, <1>2, <2>2 DEF PrimaryIInv, CreationInv, Table
    <2> QED BY <2>1, <2>2
  <1>8. FilesFollowRows'
    BY <1>1, <1>2, <1>6 DEF PrimaryIInv, FilesFollowRows, Items, Uploads
  <1>9. PrimaryTypeOK' BY <1>1, <1>5 DEF PrimaryIInv, PrimaryTypeOK
  <1>10. \A e \in Editors : EditInv(e)' BY <1>1 DEF PrimaryIInv, EditInv, Table
  <1> QED BY <1>1, <1>7, <1>8, <1>9, <1>10 DEF PrimaryIInv, PrimaryIsActive, AProfileIsPrimary

\* Committing the row of an item.
LEMMA InsertPreserves ==
    ASSUME PrimaryIInv, NEW x \in Items, NEW outcome \in {"done", "misled"}, InsertItem(x, outcome)
    PROVE  PrimaryIInv'
  <1> DEFINE table == [Released(creation[x].found) EXCEPT
                   ![x] = [exists |-> TRUE, active |-> TRUE, primary |-> creation[x].primary]]
  <1>0. /\ creation[x].stage = IF creation[x].primary THEN "cleared" ELSE "open"
        /\ CommitItems(table, Nobody)
        /\ creation' = [creation EXCEPT ![x].stage = outcome, ![x].found = {}]
        /\ UNCHANGED <<stored, edit>>
    BY DEF InsertItem
  <1>1. PrimaryTypeOK /\ CreationInv(x)
    BY DEF PrimaryIInv
  <1>2. /\ Released(creation[x].found) \in [Items -> Item]
        /\ \A y \in Items :
            /\ y \notin creation[x].found => Released(creation[x].found)[y] = items[y]
            /\ Released(creation[x].found)[y].exists = items[y].exists
            /\ Released(creation[x].found)[y].active = items[y].active
            /\ Released(creation[x].found)[y].primary => items[y].primary
    BY <1>1, ReleasedItems
  <1>3. /\ table \in [Items -> Item]
        /\ table[x].exists /\ table[x].active
        /\ table[x].primary = creation[x].primary
        /\ \A y \in Items \ {x} :
            /\ y \notin creation[x].found => table[y] = items[y]
            /\ table[y].exists = items[y].exists
            /\ table[y].active = items[y].active
            /\ table[y].primary => items[y].primary
    BY <1>1, <1>2 DEF Item, PrimaryTypeOK, Creation
  <1> HIDE DEF table
  <1>4. items' = table /\ overtaken \subseteq overtaken' /\ overtaken' \subseteq Items
    BY <1>0, <1>1 DEF CommitItems, PrimaryTypeOK
  <1>5. PrimaryTypeOK'
    <2>1. creation' \in [Items -> Creation]
      BY <1>0, <1>1, StageSets DEF PrimaryTypeOK, Stage
    <2> QED BY <1>0, <1>1, <1>3, <1>4, <2>1 DEF PrimaryTypeOK
  <1>6. \A e \in Editors : EditInv(e)'
    <2>1. ASSUME NEW d \in Editors, edit[d].step # "idle" PROVE EditInv(d)'
      <3>1. EditInv(d) BY DEF PrimaryIInv
      <3>2. edit[d].item \in Items BY <2>1, <3>1 DEF EditInv, Items
      <3>3. items'[edit[d].item] = items[edit[d].item] \/ edit[d].item \in overtaken'
        BY <1>0, <1>4, <3>2, PrimaryAssumption DEF CommitItems
      <3>4. items'[edit[d].item].exists
        BY <1>3, <1>4, <2>1, <3>1, <3>2 DEF EditInv
      <3>5. edit'[d] = edit[d] BY <1>0
      <3> QED BY <1>4, <2>1, <3>1, <3>3, <3>4, <3>5 DEF EditInv, Table
    <2> QED BY <1>0, <2>1 DEF EditInv
  <1>7. ASSUME NEW y \in Items PROVE CreationInv(y)'
    <2>1. CASE y = x
      BY <1>0, <1>1, <1>3, <1>4, <2>1 DEF PrimaryTypeOK, CreationInv, Table
    <2>2. CASE y # x
      <3>1. CreationInv(y) /\ creation'[y] = creation[y] /\ items'[y].exists = items[y].exists
        BY <1>0, <1>1, <1>3, <1>4, <2>2 DEF PrimaryIInv, PrimaryTypeOK
      <3>2. \A p \in Profiles : items[p].exists => items'[p].exists
        BY <1>3, <1>4 DEF Items
      <3> QED BY <1>0, <3>1, <3>2 DEF CreationInv, Table
    <2> QED BY <2>1, <2>2
  <1>8. FilesFollowRows'
    <2>1. ASSUME NEW y \in Uploads, y # x
          PROVE  /\ creation'[y] = creation[y]
                 /\ items'[y].exists = items[y].exists
      BY <1>0, <1>1, <1>3, <1>4, <2>1 DEF PrimaryTypeOK, Items, Uploads
    <2>2. x \in Uploads => x \in stored
      BY <1>0, <1>1 DEF CreationInv
    <2> QED BY <1>0, <1>3, <1>4, <2>1, <2>2 DEF PrimaryIInv, FilesFollowRows
  <1>9. PrimaryIsActive'
    BY <1>3, <1>4 DEF PrimaryIInv, PrimaryIsActive
  <1>10. \A y \in Items : items'[y].primary => items'[y].exists /\ y \notin Media
    BY <1>1, <1>3, <1>4 DEF PrimaryIInv, CreationInv
  <1>11. AProfileIsPrimary'
    <2>1. CASE x \in Profiles /\ creation[x].primary
      BY <1>3, <1>4, <2>1 DEF AProfileIsPrimary
    <2>2. CASE x \in Profiles /\ ~creation[x].primary
      <3>1. creation[x].found = {} /\ \E p \in Profiles : items[p].exists
        BY <1>0, <1>1, <2>2 DEF CreationInv
      <3>2. (\E p \in Profiles : items[p].primary) \/ overtaken \intersect Profiles # {}
        BY <3>1 DEF PrimaryIInv, AProfileIsPrimary
      <3>3. ~items[x].exists /\ ~items[x].primary
        BY <1>0, <1>1, <2>2 DEF PrimaryIInv, CreationInv
      <3> QED BY <1>3, <1>4, <3>1, <3>2, <3>3 DEF AProfileIsPrimary, Items
    <2>3. CASE x \notin Profiles
      <3>1. \A p \in Profiles : items'[p] = items[p]
        BY <1>1, <1>3, <1>4, <2>3, PrimaryAssumption DEF CreationInv, Table, Items
      <3> QED BY <1>4, <3>1 DEF PrimaryIInv, AProfileIsPrimary
    <2> QED BY <2>1, <2>2, <2>3
  <1> QED BY <1>5, <1>6, <1>7, <1>8, <1>9, <1>10, <1>11 DEF PrimaryIInv

\* What a request commits, as a table: the item is flushed, what it found is
\* released, and nothing else changes.
LEMMA WritePreserves ==
    ASSUME PrimaryIInv, NEW e \in Editors, edit[e].step # "idle",
           NEW found, found \subseteq Table(edit[e].item) \ {edit[e].item},
           NEW object \in Item, WriteItem(e, Released(found), object),
           object.exists = edit[e].copy.exists,
           object.primary /\ edit[e].item \notin overtaken => object.active,
           edit[e].item \in Profiles /\ edit[e].item \notin overtaken => object.primary
    PROVE  /\ PrimaryIInv'
           /\ edit[e].item \notin overtaken => items'[edit[e].item] = object
  <1> DEFINE x == edit[e].item
             row == Flush(items[x], edit[e].copy, object, {})
             table == [Released(found) EXCEPT ![x] = Flush(@, edit[e].copy, object, {})]
  <1>0. /\ CommitItems(table, e)
        /\ edit' = [edit EXCEPT ![e] = Idle]
        /\ UNCHANGED <<stored, creation>>
    BY DEF WriteItem
  <1>1. PrimaryTypeOK /\ EditInv(e)
    BY DEF PrimaryIInv
  <1>2. /\ x \in Profiles \union Portraits /\ x \in Items
        /\ edit[e].copy = items[x] \/ x \in overtaken
        /\ edit[e].copy \in Item /\ items[x] \in Item
    BY <1>1 DEF EditInv, PrimaryTypeOK, Items, Edit
  <1>3. /\ Released(found) \in [Items -> Item]
        /\ \A y \in Items :
            /\ y \notin found => Released(found)[y] = items[y]
            /\ Released(found)[y].exists = items[y].exists
            /\ Released(found)[y].active = items[y].active
            /\ Released(found)[y].primary => items[y].primary
    BY <1>1, ReleasedItems
  <1>4. /\ row \in Item
        /\ row.exists = items[x].exists
        /\ x \notin overtaken => row = object
    <2>1. /\ row \in Item
          /\ \A c \in {"exists", "active", "primary"} :
                row[c] = IF object[c] # edit[e].copy[c] THEN object[c] ELSE items[x][c]
      BY <1>2, FlushItem
    <2>2. row.exists = items[x].exists BY <2>1
    <2>3. ASSUME x \notin overtaken PROVE row = object
      <3>1. edit[e].copy = items[x] BY <1>2, <2>3
      <3>2. row.exists = object.exists /\ row.active = object.active
                /\ row.primary = object.primary
        BY <2>1, <3>1
      <3> HIDE DEF row
      <3> QED BY <2>1, <3>2 DEF Item
    <2> QED BY <2>1, <2>2, <2>3
  <1>5. /\ table \in [Items -> Item]
        /\ table[x] = row
        /\ \A y \in Items \ {x} :
            /\ y \notin found => table[y] = items[y]
            /\ table[y].exists = items[y].exists
            /\ table[y].active = items[y].active
            /\ table[y].primary => items[y].primary
    <2>1. Released(found)[x] = items[x] BY <1>2, <1>3
    <2> QED BY <1>2, <1>3, <1>4, <2>1
  <1> HIDE DEF table, row
  <1>6. items' = table /\ overtaken \subseteq overtaken' /\ overtaken' \subseteq Items
    BY <1>0, <1>1 DEF CommitItems, PrimaryTypeOK
  <1>7. PrimaryTypeOK'
    BY <1>0, <1>1, <1>5, <1>6 DEF PrimaryTypeOK, Idle, NoItem, Item, Edit
  <1>8. \A d \in Editors : EditInv(d)'
    <2>1. \A y \in Items : items[y].exists => table[y].exists
      BY <1>4, <1>5
    <2> QED BY <1>0, <1>5, <2>1, CommitKeepsEdits
  <1>9. \A y \in Items : items'[y].exists = items[y].exists
    BY <1>4, <1>5, <1>6
  <1>10. ASSUME NEW y \in Items PROVE CreationInv(y)'
    BY <1>0, <1>9 DEF PrimaryIInv, CreationInv, Table, Items
  <1>11. FilesFollowRows'
    BY <1>0, <1>9 DEF PrimaryIInv, FilesFollowRows, Items, Uploads
  <1>12. PrimaryIsActive'
    BY <1>2, <1>4, <1>5, <1>6 DEF PrimaryIInv, PrimaryIsActive
  <1>13. \A y \in Items : items'[y].primary => items'[y].exists /\ y \notin Media
    <2>1. items[x].exists /\ x \notin Media
      BY <1>0, <1>1, <1>2, PrimaryAssumption DEF EditInv
    <2> QED BY <1>4, <1>5, <1>6, <1>9, <2>1 DEF PrimaryIInv
  <1>14. AProfileIsPrimary'
    <2>1. CASE x \in Profiles
      BY <1>4, <1>5, <1>6, <2>1 DEF AProfileIsPrimary
    <2>2. CASE x \notin Profiles
      <3>1. \A p \in Profiles : items'[p] = items[p]
        BY <1>2, <1>5, <1>6, <2>2, PrimaryAssumption DEF Table, Items
      <3> QED BY <1>6, <3>1 DEF PrimaryIInv, AProfileIsPrimary
    <2> QED BY <2>1, <2>2
  <1> QED BY <1>4, <1>5, <1>6, <1>7, <1>8, <1>10, <1>11, <1>12, <1>13, <1>14 DEF PrimaryIInv

\* Selecting an item: unless it is overtaken, it is primary and shown then.
LEMMA SelectPreserves ==
    ASSUME PrimaryIInv, NEW e \in Editors, SelectItem(e)
    PROVE  /\ PrimaryIInv'
           /\ \/ items'[edit[e].item].primary /\ items'[edit[e].item].active
              \/ edit[e].item \in overtaken
  <1> DEFINE object == [edit[e].copy EXCEPT !.primary = TRUE]
  <1>1. edit[e].step = "cleared" /\ EditInv(e) /\ edit[e].copy \in Item
    BY DEF SelectItem, PrimaryIInv, PrimaryTypeOK, Edit
  <1>2. /\ object \in Item
        /\ object.exists = edit[e].copy.exists
        /\ object.primary /\ object.active
    BY <1>1 DEF Item, EditInv
  <1>3. WriteItem(e, Released(edit[e].found), object)
    BY DEF SelectItem
  <1> HIDE DEF object
  <1>4. edit[e].found \subseteq Table(edit[e].item) \ {edit[e].item}
    BY <1>1 DEF EditInv
  <1>5. PrimaryIInv' /\ (edit[e].item \notin overtaken => items'[edit[e].item] = object)
    BY <1>1, <1>2, <1>3, <1>4, WritePreserves
  <1> QED BY <1>2, <1>5

\* Archiving a portrait.
LEMMA PrimaryArchivePreserves ==
    ASSUME PrimaryIInv, NEW e \in Editors, ArchivePortrait(e)
    PROVE  PrimaryIInv'
  <1> DEFINE object == [edit[e].copy EXCEPT !.active = FALSE, !.primary = FALSE]
  <1>1. edit[e].step = "archiving" /\ EditInv(e) /\ edit[e].copy \in Item
    BY DEF ArchivePortrait, PrimaryIInv, PrimaryTypeOK, Edit
  <1>2. /\ object \in Item
        /\ object.exists = edit[e].copy.exists
        /\ ~object.primary
    BY <1>1 DEF Item
  <1>3. edit[e].item \notin Profiles
    BY <1>1, PrimaryAssumption DEF EditInv
  <1>4. items = Released({})
    BY DEF Released, PrimaryIInv, PrimaryTypeOK
  <1>5. WriteItem(e, Released({}), object)
    BY <1>4 DEF ArchivePortrait
  <1> HIDE DEF object
  <1> QED BY <1>1, <1>2, <1>3, <1>5, WritePreserves

\* A step of an editor that commits nothing.
LEMMA EditPreserves ==
    ASSUME PrimaryIInv, NEW e \in Editors,
           \/ \E x \in Items, step \in {"selecting", "archiving"} : LoadItem(e, x, step)
           \/ ClearOthers(e)
           \/ RefuseEdit(e)
    PROVE  PrimaryIInv'
  <1>1. UNCHANGED <<items, stored, creation, overtaken>>
    BY DEF LoadItem, ClearOthers, RefuseEdit
  <1>2. PrimaryTypeOK /\ EditInv(e)
    BY DEF PrimaryIInv
  <1>3. /\ EditInv(e)'
        /\ edit'[e] \in Edit
        /\ edit' = [edit EXCEPT ![e] = edit'[e]]
    <2>1. ASSUME NEW x \in Items, NEW step \in {"selecting", "archiving"}, LoadItem(e, x, step)
          PROVE  /\ EditInv(e)'
                 /\ edit'[e] \in Edit
                 /\ edit' = [edit EXCEPT ![e] = edit'[e]]
      <3>1. edit'[e] = [step |-> step, item |-> x, copy |-> items[x], found |-> {}]
        BY <1>2, <2>1 DEF LoadItem, PrimaryTypeOK
      <3>2. x \in Profiles \union Portraits /\ (step = "archiving" => x \in Portraits)
                /\ items[x].exists /\ items[x] \in Item
        BY <1>2, <2>1 DEF LoadItem, PrimaryTypeOK
      <3>3. edit' = [edit EXCEPT ![e] = edit'[e]]
        BY <2>1, <3>1 DEF LoadItem
      <3>4. EditInv(e)'
        BY <1>1, <3>1, <3>2 DEF EditInv
      <3>5. edit'[e] \in Edit
        BY <3>1, <3>2 DEF Edit
      <3> QED BY <3>3, <3>4, <3>5
    <2>2. CASE ClearOthers(e)
      <3>1. /\ edit'[e] = [edit[e] EXCEPT !.step = "cleared",
                                          !.found = Primaries(edit[e].item) \ {edit[e].item}]
            /\ edit' = [edit EXCEPT ![e] = edit'[e]]
        BY <1>2, <2>2 DEF ClearOthers, PrimaryTypeOK
      <3>2. Primaries(edit[e].item) \subseteq Table(edit[e].item)
                /\ Table(edit[e].item) \subseteq Items
        BY DEF Primaries, Table, Items
      <3> QED BY <1>1, <1>2, <2>2, <3>1, <3>2
            DEF ClearOthers, EditInv, Selectable, Table, PrimaryTypeOK, Edit
    <2>3. CASE RefuseEdit(e)
      BY <1>2, <2>3 DEF RefuseEdit, EditInv, PrimaryTypeOK, Idle, NoItem, Item, Edit
    <2> QED BY <2>1, <2>2, <2>3
  <1>4. PrimaryTypeOK'
    BY <1>1, <1>2, <1>3 DEF PrimaryTypeOK
  <1>5. ASSUME NEW d \in Editors PROVE EditInv(d)'
    <2>1. CASE d = e BY <1>3, <2>1
    <2>2. CASE d # e
      <3>1. edit'[d] = edit[d] BY <1>2, <1>3, <2>2 DEF PrimaryTypeOK
      <3> QED BY <1>1, <3>1 DEF PrimaryIInv, EditInv, Table
    <2> QED BY <2>1, <2>2
  <1> QED BY <1>1, <1>4, <1>5 DEF PrimaryIInv, CreationInv, Table, FilesFollowRows,
                PrimaryIsActive, AProfileIsPrimary

\* Showing and hiding project media.
LEMMA ChangePreserves ==
    ASSUME PrimaryIInv, NEW m \in Media, ChangeMedia(m)
    PROVE  PrimaryIInv'
  <1>1. /\ UNCHANGED <<stored, creation, edit, overtaken>>
        /\ m \in Items /\ m \notin Profiles \union Portraits
        /\ items[m].exists
        /\ items' = [items EXCEPT ![m].active = ~@]
    BY PrimaryAssumption DEF ChangeMedia, Items
  <1>2. PrimaryTypeOK BY DEF PrimaryIInv
  <1>3. /\ items' \in [Items -> Item]
        /\ \A x \in Items : /\ items'[x].exists = items[x].exists
                            /\ items'[x].primary = items[x].primary
                            /\ x # m => items'[x] = items[x]
    <2>1. items \in [Items -> Item] BY <1>2 DEF PrimaryTypeOK
    <2>2. [items[m] EXCEPT !.active = ~@] \in Item
            /\ [items[m] EXCEPT !.active = ~@].exists = items[m].exists
            /\ [items[m] EXCEPT !.active = ~@].primary = items[m].primary
      BY <1>1, <2>1 DEF Item
    <2>3. items'[m] = [items[m] EXCEPT !.active = ~@] /\ items' \in [Items -> Item]
      BY <1>1, <2>1, <2>2
    <2>4. \A x \in Items : x # m => items'[x] = items[x]
      BY <1>1, <2>1
    <2> QED BY <2>2, <2>3, <2>4
  <1>4. PrimaryTypeOK' BY <1>1, <1>2, <1>3 DEF PrimaryTypeOK
  <1>5. ASSUME NEW e \in Editors PROVE EditInv(e)'
    BY <1>1, <1>3 DEF PrimaryIInv, EditInv, Table, Items
  <1>6. ASSUME NEW x \in Items PROVE CreationInv(x)'
    BY <1>1, <1>3 DEF PrimaryIInv, CreationInv, Table, Items
  <1>7. FilesFollowRows' BY <1>1, <1>3 DEF PrimaryIInv, FilesFollowRows, Items, Uploads
  <1>8. \A x \in Media : ~items[x].primary
    BY DEF PrimaryIInv, Items
  <1>9. PrimaryIsActive' BY <1>1, <1>3, <1>8 DEF PrimaryIInv, PrimaryIsActive
  <1>10. AProfileIsPrimary' BY <1>1, <1>3 DEF PrimaryIInv, AProfileIsPrimary, Items
  <1> QED BY <1>3, <1>4, <1>5, <1>6, <1>7, <1>9, <1>10 DEF PrimaryIInv

\* Every step preserves the invariant, and a selection takes effect.
LEMMA PrimaryNextPreserves ==
    ASSUME PrimaryIInv, [PrimaryNext]_primaryVars
    PROVE  PrimaryIInv' /\ SelectionTakesEffect
  <1>0. SelectionTakesEffect
    BY SelectPreserves DEF SelectionTakesEffect
  <1>1. ASSUME NEW x \in Items,
               \/ \E primary \in BOOLEAN : BeginCreation(x, primary)
               \/ ClearForCreation(x)
               \/ StoreItem(x)
               \/ FailItem(x)
               \/ DeleteUpload(x)
               \/ CutCreation(x)
        PROVE  PrimaryIInv'
    BY <1>1, CreationPreserves, InsertPreserves DEF StoreItem, FailItem
  <1>2. ASSUME NEW e \in Editors,
               \/ \E x \in Items, step \in {"selecting", "archiving"} : LoadItem(e, x, step)
               \/ ClearOthers(e)
               \/ SelectItem(e)
               \/ ArchivePortrait(e)
               \/ RefuseEdit(e)
        PROVE  PrimaryIInv'
    BY <1>2, EditPreserves, SelectPreserves, PrimaryArchivePreserves
  <1>3. ASSUME NEW m \in Media, ChangeMedia(m) PROVE PrimaryIInv'
    BY <1>3, ChangePreserves
  <1>4. CASE UNCHANGED primaryVars
    <2>1. UNCHANGED <<items, stored, creation, edit, overtaken>>
      BY <1>4 DEF primaryVars
    <2>2. PrimaryTypeOK' BY <2>1 DEF PrimaryIInv, PrimaryTypeOK
    <2>3. ASSUME NEW x \in Items PROVE CreationInv(x)'
      BY <2>1 DEF PrimaryIInv, CreationInv, Table
    <2>4. ASSUME NEW e \in Editors PROVE EditInv(e)'
      BY <2>1 DEF PrimaryIInv, EditInv, Table
    <2>5. FilesFollowRows' /\ PrimaryIsActive' /\ AProfileIsPrimary'
      BY <2>1 DEF PrimaryIInv, FilesFollowRows, PrimaryIsActive, AProfileIsPrimary
    <2> QED BY <1>0, <2>1, <2>2, <2>3, <2>4, <2>5 DEF PrimaryIInv
  <1> QED BY <1>0, <1>1, <1>2, <1>3, <1>4 DEF PrimaryNext

-----------------------------------------------------------------------------

\* The invariant holds of every behaviour of the services' methods.
THEOREM PrimaryInvariance == PrimarySpec => []PrimaryIInv
  <1>1. PrimaryInit => PrimaryIInv BY PrimaryInitIInv
  <1>2. PrimaryIInv /\ [PrimaryNext]_primaryVars => PrimaryIInv' BY PrimaryNextPreserves
  <1> QED BY <1>1, <1>2, PTL DEF PrimarySpec

\* upload_portrait, upload_project_media, create_profile, the selections and
\* archive_portrait keep up together what PrimariesAreSound says.
THEOREM PrimariesStaySound == PrimarySpec => PrimariesAreSound
  <1>1. PrimaryIInv => PrimaryTypeOK /\ FilesFollowRows /\ PrimaryIsActive /\ AProfileIsPrimary
    BY DEF PrimaryIInv
  <1>2. PrimarySpec =>
            [](PrimaryTypeOK /\ FilesFollowRows /\ PrimaryIsActive /\ AProfileIsPrimary)
    BY <1>1, PrimaryInvariance, PTL
  <1>3. PrimaryIInv /\ [PrimaryNext]_primaryVars => [SelectionTakesEffect]_primaryVars
    BY PrimaryNextPreserves
  <1>4. PrimarySpec => [][SelectionTakesEffect]_primaryVars
    BY <1>3, PrimaryInvariance, PTL DEF PrimarySpec
  <1> QED BY <1>2, <1>4 DEF PrimariesAreSound

=============================================================================
