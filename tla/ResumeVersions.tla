--------------------------- MODULE ResumeVersions ---------------------------
(***************************************************************************)
(* The résumé versions of the identity service and their files.  An upload *)
(* saves the file, then commits the row, and deletes the file again if the *)
(* commit raises.  A request loads a version with no lock, decides on that *)
(* copy (`mine', see UnitOfWork), and writes the columns it changed: to    *)
(* publish the version and make it the one that is current, or to archive  *)
(* it.  A unique index admits one current version.                         *)
(***************************************************************************)
EXTENDS UnitOfWork, Publication

CONSTANTS
    Versions,   \* identifiers of résumé versions
    None,       \* no version
    Requests,   \* administration requests that may run at one time
    StaleReads  \* may another request commit between a request's load and its write?

ASSUME ResumeAssumption == None \notin Versions /\ StaleReads \in BOOLEAN

VARIABLES
    rows,       \* resume_versions
    files,      \* versions whose file is in managed storage
    upload,     \* how far the upload of each version is
    profile,    \* is the owning profile public?
    pc,
    chosen,     \* the version each request is about
    mine,       \* its copy of that row
    seen        \* the current versions its clearing statement found

vars == <<rows, files, upload, profile, pc, chosen, mine, seen>>
uploads == <<upload, files>>
requests == <<pc, chosen, mine, seen>>

-----------------------------------------------------------------------------

Draft == [status |-> "draft", visible |-> FALSE, archived |-> FALSE, current |-> FALSE]

NoRow == [Draft EXCEPT !.status = "absent"]

Row == [status : PublicationStatus \union {"absent"}, visible : BOOLEAN,
        archived : BOOLEAN, current : BOOLEAN]

Exists(v) == rows[v].status # "absent"

Current == {v \in Versions : rows[v].current}

TypeOK ==
    /\ rows \in [Versions -> Row]
    /\ files \subseteq Versions
    /\ upload \in [Versions -> {"none", "saved", "refused", "misled", "done"}]
    /\ \A v \in Versions :
        /\ upload[v] \in {"none", "saved", "refused"} => ~Exists(v)
        /\ upload[v] \in {"saved", "refused"} => v \in files
    /\ profile \in BOOLEAN
    /\ pc \in [Requests -> {"ready", "publishing", "clearing", "archiving"}]
    /\ chosen \in [Requests -> Versions \union {None}]
    /\ mine \in [Requests -> Row]
    /\ seen \in [Requests -> SUBSET Versions]

Init ==
    /\ rows = [v \in Versions |-> NoRow]
    /\ files = {}
    /\ upload = [v \in Versions |-> "none"]
    /\ profile = FALSE
    /\ pc = [r \in Requests |-> "ready"]
    /\ chosen = [r \in Requests |-> None]
    /\ mine = [r \in Requests |-> NoRow]
    /\ seen = [r \in Requests |-> {}]

-----------------------------------------------------------------------------
(* Uploading a version.                                                    *)

SaveFile(v) ==
    /\ upload[v] = "none"
    /\ upload' = [upload EXCEPT ![v] = "saved"]
    /\ files' = files \union {v}
    /\ UNCHANGED <<rows, profile, requests>>

\* The commit inserts the row, and the upload ends with `outcome'.
Insert(v, outcome) ==
    /\ upload[v] = "saved"
    /\ rows' = [rows EXCEPT ![v] = Draft]
    /\ upload' = [upload EXCEPT ![v] = outcome]
    /\ UNCHANGED <<files, profile, requests>>

StoreRow(v) == Insert(v, "done")

\* The commit raises: nothing was stored, or only the reply was lost.
RefuseRow(v) ==
    \/ /\ upload[v] = "saved"
       /\ upload' = [upload EXCEPT ![v] = "refused"]
       /\ UNCHANGED <<rows, files, profile, requests>>
    \/ Insert(v, "misled")

\* A misled upload stays "misled", whether or not it gets to delete the file.
DeleteFile(v) ==
    /\ upload[v] \in {"refused", "misled"}
    /\ upload' = [upload EXCEPT ![v] = IF @ = "misled" THEN @ ELSE "done"]
    /\ files' = files \ {v}
    /\ UNCHANGED <<rows, profile, requests>>

\* The upload is cut off, or the file cannot be deleted.
AbandonUpload(v) ==
    /\ upload[v] \in {"saved", "refused"}
    /\ upload' = [upload EXCEPT ![v] = "done"]
    /\ UNCHANGED <<rows, files, profile, requests>>

-----------------------------------------------------------------------------
(* Publishing and archiving.                                               *)

End(r) ==
    /\ pc' = [pc EXCEPT ![r] = "ready"]
    /\ mine' = [mine EXCEPT ![r] = NoRow]
    /\ seen' = [seen EXCEPT ![r] = {}]
    /\ chosen' = [chosen EXCEPT ![r] = None]

Load(r, v, step) ==
    /\ pc[r] = "ready"
    /\ Exists(v)
    /\ pc' = [pc EXCEPT ![r] = step]
    /\ chosen' = [chosen EXCEPT ![r] = v]
    /\ mine' = [mine EXCEPT ![r] = rows[v]]
    /\ UNCHANGED <<rows, profile, uploads, seen>>

\* Mutant: the version itself is not excluded.
Others_All(v) == Current

Others(v) == Current \ {v}

\* The statement that clears the others finds them when it starts.
Clear(r) ==
    /\ pc[r] = "publishing"
    /\ profile
    /\ chosen[r] \in files
    /\ seen' = [seen EXCEPT ![r] = Others(chosen[r])]
    /\ pc' = [pc EXCEPT ![r] = "clearing"]
    /\ UNCHANGED <<rows, profile, uploads, chosen, mine>>

\* A request writes what its copy still agrees with.
Unchanged(r) == StaleReads \/ mine[r] = rows[chosen[r]]

\* The unique index on is_current.
Unique(table) ==
    \A v, w \in Versions : table[v].current /\ table[w].current => v = w

\* Mutant: the version's lifecycle is left as it was.
Published_OnlyCurrent(row) == [row EXCEPT !.current = TRUE]

Published(row) == [Apply(row, "published") EXCEPT !.current = TRUE]

Publish(r) ==
    /\ pc[r] = "clearing"
    /\ Unchanged(r)
    /\ LET cleared == [v \in Versions |-> [rows[v] EXCEPT !.current = @ /\ v \notin seen[r]]]
       IN rows' = [cleared EXCEPT ![chosen[r]] = Flush(@, mine[r], Published(mine[r]), {})]
    /\ Unique(rows')
    /\ End(r)
    /\ UNCHANGED <<profile, uploads>>

MayArchive(row) == ~row.current

Archive(r) ==
    /\ pc[r] = "archiving"
    /\ Unchanged(r)
    /\ MayArchive(mine[r])
    /\ rows' = [rows EXCEPT ![chosen[r]] =
                   Flush(@, mine[r], Apply(mine[r], "archived"), Stamps("archived"))]
    /\ End(r)
    /\ UNCHANGED <<profile, uploads>>

\* A check fails, the index refuses the flush, or the request is cut off.
Refuse(r) ==
    /\ pc[r] # "ready"
    /\ End(r)
    /\ UNCHANGED <<rows, profile, uploads>>

\* Somebody publishes the profile, or takes it back.
SetProfileStatus ==
    /\ profile' = ~profile
    /\ UNCHANGED <<rows, uploads, requests>>

Next ==
    \/ \E v \in Versions :
        \/ SaveFile(v)
        \/ StoreRow(v)
        \/ RefuseRow(v)
        \/ DeleteFile(v)
        \/ AbandonUpload(v)
    \/ \E r \in Requests :
        \/ \E v \in Versions : Load(r, v, "publishing") \/ Load(r, v, "archiving")
        \/ Clear(r)
        \/ Publish(r)
        \/ Archive(r)
        \/ Refuse(r)
    \/ SetProfileStatus

Spec == Init /\ [][Next]_vars

-----------------------------------------------------------------------------
(* Properties.                                                             *)

\* The version selected as current can be shown: a later archiving, or one
\* that races with its publication, does not leave it current and hidden.
CurrentIsPublic == \A v \in Current : IsPublic(rows[v])

\* Once a version is current one always is: it is only replaced.
CurrentIsOnlyReplaced == [][Current # {} => Current' # {}]_vars

\* The file of the current version is there to be downloaded, unless the
\* upload was told that its commit had failed when it had not.
CurrentHasFile == \A v \in Current : v \in files \/ upload[v] = "misled"

\* What visitors get for the current version is a published row and its file.
CurrentCanBeShown == CurrentIsPublic /\ CurrentHasFile

=============================================================================
