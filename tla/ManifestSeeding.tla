--------------------------- MODULE ManifestSeeding ---------------------------
(***************************************************************************)
(* Seed runs.  A run applies a manifest in one transaction, one group of   *)
(* records after the other; later groups refer to earlier ones.  A record  *)
(* that the database has already, under its seed key or under its natural  *)
(* name, is skipped; any other is inserted when its group is flushed.  The *)
(* file of a record is saved at once, under a name made of the seed key,   *)
(* whatever becomes of the transaction.  Administrators edit meanwhile.    *)
(*                                                                         *)
(* Keys and names carry the kind of entity they belong to.  A name is what *)
(* is unique beside the key and looked up (a slug, a position), a rank     *)
(* what is unique and not looked up (the featured rank of a project), and  *)
(* one row may be selected (the current résumé).                           *)
(***************************************************************************)
EXTENDS Naturals

CONSTANTS
    Keys, Names, Ranks, Contents,
    None,       \* no key, name, rank or file
    Groups,     \* how many groups a manifest has
    Manifests,  \* what may be given to a run: sets of records
    Runs        \* runs that may be under way at one time

Record == [key : Keys, name : Names \union {None}, rank : Ranks \union {None},
           file : Contents \union {None}, ref : Keys \union {None},
           selects : BOOLEAN, group : 1..Groups]

Row == [key : Keys \union {None}, name : Names \union {None}, rank : Ranks \union {None},
        file : Contents \union {None}, selected : BOOLEAN]

ASSUME SeedingAssumption ==
    /\ Groups \in Nat
    /\ Manifests \subseteq SUBSET Record
    /\ None \notin Keys \union Names \union Ranks \union Contents

VARIABLES
    table,      \* the committed rows
    files,      \* the content of the file under each key
    pc,
    manifest,   \* the manifest each run applies
    todo,       \* its records that are still to be looked up
    group,      \* the group it has reached
    known,      \* the keys of records it has found or created
    pending,    \* the rows it has created and not flushed
    flushed,    \* the rows it has flushed and not committed
    settled,    \* history: manifests that were applied and are found by their keys
    crowded     \* history: have two runs been under way at one time?

vars == <<table, files, pc, manifest, todo, group, known, pending, flushed, settled, crowded>>
run == <<pc, manifest, todo, group, known, pending, flushed>>

-----------------------------------------------------------------------------

TypeOK ==
    /\ table \subseteq Row
    /\ files \in [Keys -> Contents \union {None}]
    /\ pc \in [Runs -> {"ready", "seeding"}]
    /\ manifest \in [Runs -> SUBSET Record]
    /\ todo \in [Runs -> SUBSET Record]
    /\ \A r \in Runs : todo[r] \subseteq manifest[r]
    /\ group \in [Runs -> 1..(Groups + 1)]
    /\ known \in [Runs -> SUBSET Keys]
    /\ pending \in [Runs -> SUBSET Row]
    /\ flushed \in [Runs -> SUBSET Row]
    /\ settled \subseteq Manifests
    /\ crowded \in BOOLEAN

Init ==
    /\ table = {}
    /\ files = [k \in Keys |-> None]
    /\ pc = [r \in Runs |-> "ready"]
    /\ manifest = [r \in Runs |-> {}]
    /\ todo = [r \in Runs |-> {}]
    /\ group = [r \in Runs |-> 1]
    /\ known = [r \in Runs |-> {}]
    /\ pending = [r \in Runs |-> {}]
    /\ flushed = [r \in Runs |-> {}]
    /\ settled = {}
    /\ crowded = FALSE

\* Mutant: seed keys are not unique.
Clash_NoKey(a, b) ==
    \/ a.name # None /\ a.name = b.name
    \/ a.rank # None /\ a.rank = b.rank
    \/ a.selected /\ b.selected

\* The unique indexes: may the two not both be rows?
Clash(a, b) ==
    \/ a.key # None /\ a.key = b.key
    \/ a.name # None /\ a.name = b.name
    \/ a.rank # None /\ a.rank = b.rank
    \/ a.selected /\ b.selected

Clashes(rows, others) == \E a \in rows, b \in others : Clash(a, b)

\* Two runs are under way after this step.
Meeting == \E r, q \in Runs : r # q /\ pc'[r] = "seeding" /\ pc'[q] = "seeding"

-----------------------------------------------------------------------------
(* A seed run.                                                             *)

\* Mutant: natural names may be repeated.
Valid_KeysOnly(m) == \A a, b \in m : a # b => a.key # b.key

\* No two records of a manifest have one key, name or rank.
Valid(m) ==
    \A a, b \in m : a # b =>
        /\ a.key # b.key
        /\ a.name # None => a.name # b.name
        /\ a.rank # None => a.rank # b.rank

Begin(r, m) ==
    /\ pc[r] = "ready"
    /\ Valid(m)
    /\ pc' = [pc EXCEPT ![r] = "seeding"]
    /\ manifest' = [manifest EXCEPT ![r] = m]
    /\ todo' = [todo EXCEPT ![r] = m]
    /\ UNCHANGED <<table, files, group, known, pending, flushed, settled>>

\* What the run's session can query: a flush precedes no query.
Visible(r) == table \union flushed[r]

Takes(r, rec) == pc[r] = "seeding" /\ rec \in todo[r] /\ rec.group = group[r]

\* Mutant: a record is looked up by its name only.
Found_NoKey(r, rec) == \E row \in Visible(r) : rec.name # None /\ row.name = rec.name

Found(r, rec) ==
    \E row \in Visible(r) : row.key = rec.key \/ (rec.name # None /\ row.name = rec.name)

\* The entity that a record refers to is one the run has met, or has the key.
Resolves(r, rec) ==
    rec.ref = None \/ rec.ref \in known[r] \/ \E row \in Visible(r) : row.key = rec.ref

\* The run has dealt with the record.
Done(r, rec) ==
    /\ todo' = [todo EXCEPT ![r] = @ \ {rec}]
    /\ known' = [known EXCEPT ![r] = @ \union {rec.key}]
    /\ UNCHANGED <<table, pc, manifest, group, flushed, settled>>

Skip(r, rec) ==
    /\ Takes(r, rec)
    /\ Found(r, rec)
    /\ Done(r, rec)
    /\ UNCHANGED <<files, pending>>

NewRow(r, rec) ==
    [key |-> rec.key, name |-> rec.name, rank |-> rec.rank, file |-> rec.file,
     selected |-> rec.selects /\ \A row \in Visible(r) : ~row.selected]

Create(r, rec) ==
    /\ Takes(r, rec)
    /\ ~Found(r, rec)
    /\ Resolves(r, rec)
    /\ files' = IF rec.file = None THEN files ELSE [files EXCEPT ![rec.key] = rec.file]
    /\ pending' = [pending EXCEPT ![r] = @ \union {NewRow(r, rec)}]
    /\ Done(r, rec)

\* The group is complete: its rows are inserted, and wait for those of other
\* transactions that they would clash with.
EndOfGroup(r) ==
    /\ pc[r] = "seeding" /\ group[r] <= Groups
    /\ \A rec \in todo[r] : rec.group # group[r]
    /\ \A q \in Runs \ {r} : ~Clashes(pending[r], flushed[q])

\* The indexes refuse one of the rows.
Refused(r) ==
    \/ Clashes(pending[r], Visible(r))
    \/ \E a \in pending[r] : Clashes({a}, pending[r] \ {a})

Flush(r) ==
    /\ EndOfGroup(r) /\ ~Refused(r)
    /\ flushed' = [flushed EXCEPT ![r] = @ \union pending[r]]
    /\ pending' = [pending EXCEPT ![r] = {}]
    /\ group' = [group EXCEPT ![r] = @ + 1]
    /\ UNCHANGED <<table, files, pc, manifest, todo, known, settled>>

\* The transaction ends; the files remain.
End(r) ==
    /\ pc' = [pc EXCEPT ![r] = "ready"]
    /\ manifest' = [manifest EXCEPT ![r] = {}]
    /\ todo' = [todo EXCEPT ![r] = {}]
    /\ group' = [group EXCEPT ![r] = 1]
    /\ known' = [known EXCEPT ![r] = {}]
    /\ pending' = [pending EXCEPT ![r] = {}]
    /\ flushed' = [flushed EXCEPT ![r] = {}]
    /\ UNCHANGED files

\* The run reports that its data conflicts with existing records.
Conflict(r) ==
    /\ EndOfGroup(r) /\ Refused(r)
    /\ End(r)
    /\ UNCHANGED <<table, settled>>

\* Is every record of the manifest found by its key?
FoundByKeys(m, rows) == \A rec \in m : \E row \in rows : row.key = rec.key

Commit(r) ==
    /\ pc[r] = "seeding" /\ group[r] = Groups + 1
    /\ table' = table \union flushed[r]
    /\ settled' = IF FoundByKeys(manifest[r], table') THEN settled \union {manifest[r]} ELSE settled
    /\ End(r)

\* A reference or a file is missing, the database breaks a deadlock, or the
\* process dies.
Abort(r) ==
    /\ pc[r] = "seeding"
    /\ End(r)
    /\ UNCHANGED <<table, settled>>

-----------------------------------------------------------------------------
(* Administration.                                                         *)

\* The table after an administrator's change, which respects the indexes and
\* waits for the rows of runs that it would clash with.
Change(old, new) ==
    /\ ~Clashes(new, (table \ old) \union UNION {flushed[r] : r \in Runs})
    /\ table' = (table \ old) \union new
    /\ settled' = {m \in settled : FoundByKeys(m, table')}
    /\ UNCHANGED <<files, run>>

Author(name) ==
    Change({}, {[key |-> None, name |-> name, rank |-> None, file |-> None, selected |-> FALSE]})

\* Edits keep the seed key and the file, and do not drop a name.  Only what
\* has a name is ranked, and only files without one are selected.
Edit(row, name, rank, selected) ==
    /\ name = None <=> row.name = None
    /\ rank # None => row.name # None
    /\ selected => row.name = None /\ row.file # None
    /\ Change({row}, {[row EXCEPT !.name = name, !.rank = rank, !.selected = selected]})

\* Only a social link is ever deleted, which has no file.
Delete(row) == row.file = None /\ row.rank = None /\ ~row.selected /\ Change({row}, {})

Next ==
    /\ \/ \E r \in Runs :
            \/ \E m \in Manifests : Begin(r, m)
            \/ \E rec \in todo[r] : Skip(r, rec) \/ Create(r, rec)
            \/ Flush(r)
            \/ Conflict(r)
            \/ Commit(r)
            \/ Abort(r)
       \/ \E name \in Names : Author(name)
       \/ \E row \in table :
            \/ \E name \in Names \union {None}, rank \in Ranks \union {None}, selected \in BOOLEAN :
                   Edit(row, name, rank, selected)
            \/ Delete(row)
    /\ crowded' = (crowded \/ Meeting)

Spec == Init /\ [][Next]_vars

-----------------------------------------------------------------------------
(* Properties.                                                             *)

\* The file of a stored record is the one its row describes by size and
\* digest: a run that comes to nothing, or finds the record stored, has not
\* replaced it, unless two runs have met.
FilesMatchRows ==
    ~crowded => \A row \in table : row.file # None => files[row.key] = row.file

\* Applying a manifest again creates nothing, whatever was edited, and
\* whichever runs it overlaps.
RepeatsCreateNothing ==
    [][\A r \in Runs :
          Commit(r) /\ manifest[r] \in settled => flushed[r] = {}]_vars

\* Two records of one group asked to be selected, and neither query saw the
\* row of the other.
BothSelected(rows) == \E a, b \in rows : a # b /\ a.selected /\ b.selected

\* A run that reports a conflict with existing records does conflict with one
\* that is stored, unless its manifest asks for two selected rows.
ConflictIsWithStored ==
    [][\A r \in Runs : Conflict(r) =>
          Clashes(pending[r], table) \/ BothSelected(pending[r])]_vars

=============================================================================
