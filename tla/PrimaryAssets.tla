---------------------------- MODULE PrimaryAssets ----------------------------
(***************************************************************************)
(* What administrators select as primary: one profile of the site, and one *)
(* of a profile's portraits.  The two tables work alike: a request clears  *)
(* whoever is primary in a statement of its own and then makes its item    *)
(* primary, on a copy it loaded with no lock (see UnitOfWork); a unique    *)
(* index is what stands between two of them.  Portraits and project media  *)
(* are files as well, saved before the row is committed.                   *)
(*                                                                         *)
(* All portraits are of one profile.  Profiles have no is_active, and      *)
(* project media no is_primary: `active' is is_visible for them.           *)
(***************************************************************************)
EXTENDS UnitOfWork

CONSTANTS
    Profiles, Portraits, Media,     \* identifiers of rows
    Editors,                        \* requests about stored items, at one time
    Nobody                          \* no item

ASSUME PrimaryAssumption ==
    /\ Nobody \notin Profiles \union Portraits \union Media \union Editors
    /\ Profiles \intersect (Portraits \union Media) = {}
    /\ Portraits \intersect Media = {}

Items == Profiles \union Portraits \union Media
Uploads == Portraits \union Media

VARIABLES
    items,      \* profiles, portrait_assets and project_media
    stored,     \* items whose file is in managed storage
    creation,   \* how far the request that creates each item is
    edit,       \* the request of each editor
    overtaken   \* history: items written while another request had them loaded

primaryVars == <<items, stored, creation, edit, overtaken>>

-----------------------------------------------------------------------------

Item == [exists : BOOLEAN, active : BOOLEAN, primary : BOOLEAN]

NoItem == [exists |-> FALSE, active |-> FALSE, primary |-> FALSE]

Idle == [step |-> "idle", item |-> Nobody, copy |-> NoItem, found |-> {}]

Unborn == [stage |-> "none", primary |-> FALSE, found |-> {}]

Stage == {"none", "open", "cleared", "refused", "misled", "cut", "done"}

\* `found' is what the clearing statement of a request has found.
Creation == [stage : Stage, primary : BOOLEAN, found : SUBSET Items]

Edit == [step : {"idle", "selecting", "cleared", "archiving"},
         item : Items \union {Nobody}, copy : Item, found : SUBSET Items]

PrimaryTypeOK ==
    /\ items \in [Items -> Item]
    /\ stored \subseteq Uploads
    /\ creation \in [Items -> Creation]
    /\ edit \in [Editors -> Edit]
    /\ overtaken \subseteq Items

PrimaryInit ==
    /\ items = [x \in Items |-> NoItem]
    /\ stored = {}
    /\ creation = [x \in Items |-> Unborn]
    /\ edit = [e \in Editors |-> Idle]
    /\ overtaken = {}

\* The rows of the table that x is in, as far as they can be primary.
Table(x) == IF x \in Profiles THEN Profiles ELSE Portraits

\* clear_primary_profiles and clear_primary_portraits, whatever is archived.
Primaries(x) == {y \in Table(x) : items[y].primary}

\* The rows when a transaction commits that had cleared `found'.
Released(found) ==
    [x \in Items |-> IF x \in found THEN [items[x] EXCEPT !.primary = FALSE] ELSE items[x]]

\* The unique indexes, the portraits' one with its condition.
OnePrimary(table) ==
    \A x, y \in Items :
        /\ y \in Table(x) /\ Table(x) = Table(y)
        /\ table[x].primary /\ table[x].active
        /\ table[y].primary /\ table[y].active
        => x = y

\* The commit of editor e, or of a creation if e is nobody.
CommitItems(table, e) ==
    /\ OnePrimary(table)
    /\ items' = table
    /\ overtaken' = overtaken \union
          {x \in Items : table[x] # items[x] /\ \E d \in Editors \ {e} : edit[d].item = x}

-----------------------------------------------------------------------------
(* Creating an item.                                                       *)

\* The file is saved.  A profile has none; the first one becomes primary.
BeginCreation(x, primary) ==
    /\ creation[x].stage = "none"
    /\ x \in Media => ~primary
    /\ creation' = [creation EXCEPT ![x].stage = "open",
                       ![x].primary = \/ primary
                                      \/ x \in Profiles /\ \A p \in Profiles : ~items[p].exists]
    /\ stored' = stored \union ({x} \intersect Uploads)
    /\ UNCHANGED <<items, edit, overtaken>>

ClearForCreation(x) ==
    /\ creation[x].stage = "open" /\ creation[x].primary
    /\ creation' = [creation EXCEPT ![x].stage = "cleared", ![x].found = Primaries(x)]
    /\ UNCHANGED <<items, stored, edit, overtaken>>

\* The row is committed, and the request learns of it as `outcome'.
InsertItem(x, outcome) ==
    /\ creation[x].stage = IF creation[x].primary THEN "cleared" ELSE "open"
    /\ CommitItems([Released(creation[x].found) EXCEPT
                   ![x] = [exists |-> TRUE, active |-> TRUE, primary |-> creation[x].primary]],
              Nobody)
    /\ creation' = [creation EXCEPT ![x].stage = outcome, ![x].found = {}]
    /\ UNCHANGED <<stored, edit>>

StoreItem(x) == InsertItem(x, "done")

\* The commit raises: nothing is stored, or only the reply was lost.
FailItem(x) ==
    \/ /\ creation[x].stage = IF creation[x].primary THEN "cleared" ELSE "open"
       /\ creation' = [creation EXCEPT ![x].stage = "refused", ![x].found = {}]
       /\ UNCHANGED <<items, stored, edit, overtaken>>
    \/ InsertItem(x, "misled")

\* A misled creation stays "misled", whether or not it gets to this.
DeleteUpload(x) ==
    /\ creation[x].stage \in {"refused", "misled"}
    /\ stored' = stored \ {x}
    /\ creation' = [creation EXCEPT ![x].stage = IF @ = "misled" THEN @ ELSE "done"]
    /\ UNCHANGED <<items, edit, overtaken>>

\* The request is cut off, the clearing statement raises, or the file cannot
\* be deleted: nothing cleans up then.
CutCreation(x) ==
    /\ creation[x].stage \in {"open", "cleared", "refused"}
    /\ creation' = [creation EXCEPT ![x].stage = "cut", ![x].found = {}]
    /\ UNCHANGED <<items, stored, edit, overtaken>>

-----------------------------------------------------------------------------
(* Selecting and archiving.                                                *)

\* The item is loaded by its id, with no lock.
LoadItem(e, x, step) ==
    /\ edit[e] = Idle
    /\ items[x].exists
    /\ x \in IF step = "archiving" THEN Portraits ELSE Profiles \union Portraits
    /\ edit' = [edit EXCEPT ![e] = [step |-> step, item |-> x, copy |-> items[x], found |-> {}]]
    /\ UNCHANGED <<items, stored, creation, overtaken>>

\* Mutant: archived portraits may be selected.
Selectable_Any(row) == TRUE

Selectable(row) == row.active

ClearOthers(e) ==
    /\ edit[e].step = "selecting"
    /\ Selectable(edit[e].copy)
    /\ edit' = [edit EXCEPT ![e].step = "cleared",
                            ![e].found = Primaries(edit[e].item) \ {edit[e].item}]
    /\ UNCHANGED <<items, stored, creation, overtaken>>

\* The commit writes what the request changed of its copy.
WriteItem(e, table, object) ==
    /\ CommitItems([table EXCEPT ![edit[e].item] = Flush(@, edit[e].copy, object, {})], e)
    /\ edit' = [edit EXCEPT ![e] = Idle]
    /\ UNCHANGED <<stored, creation>>

SelectItem(e) ==
    /\ edit[e].step = "cleared"
    /\ WriteItem(e, Released(edit[e].found), [edit[e].copy EXCEPT !.primary = TRUE])

ArchivePortrait(e) ==
    /\ edit[e].step = "archiving"
    /\ WriteItem(e, items, [edit[e].copy EXCEPT !.active = FALSE, !.primary = FALSE])

\* A check fails, the index refuses the flush, or the request is cut off.
RefuseEdit(e) ==
    /\ edit[e] # Idle
    /\ edit' = [edit EXCEPT ![e] = Idle]
    /\ UNCHANGED <<items, stored, creation, overtaken>>

\* Project media are shown and hidden; their file stays.
ChangeMedia(m) ==
    /\ items[m].exists
    /\ items' = [items EXCEPT ![m].active = ~@]
    /\ UNCHANGED <<stored, creation, edit, overtaken>>

PrimaryNext ==
    \/ \E x \in Items :
        \/ \E primary \in BOOLEAN : BeginCreation(x, primary)
        \/ ClearForCreation(x)
        \/ StoreItem(x)
        \/ FailItem(x)
        \/ DeleteUpload(x)
        \/ CutCreation(x)
    \/ \E e \in Editors :
        \/ \E x \in Items, step \in {"selecting", "archiving"} : LoadItem(e, x, step)
        \/ ClearOthers(e)
        \/ SelectItem(e)
        \/ ArchivePortrait(e)
        \/ RefuseEdit(e)
    \/ \E m \in Media : ChangeMedia(m)

PrimarySpec == PrimaryInit /\ [][PrimaryNext]_primaryVars

-----------------------------------------------------------------------------
(* Properties.                                                             *)

\* Every row has its file, unless its creation learned a wrong outcome of its
\* commit; and a file without a row is left only by a request that was cut off.
FilesFollowRows ==
    \A x \in Uploads :
        /\ items[x].exists => x \in stored \/ creation[x].stage = "misled"
        /\ x \in stored /\ ~items[x].exists =>
                creation[x].stage \in {"open", "cleared", "refused", "cut"}

\* What is primary can be shown: an archived portrait is not selected, and a
\* primary one that is archived is primary no more, unless two requests about
\* it overlapped.
PrimaryIsActive ==
    \A x \in Items : items[x].primary => items[x].active \/ x \in overtaken

\* The site always has a primary profile: the first one is it, and one that is
\* primary is only replaced, unless requests about it overlapped.
AProfileIsPrimary ==
    (\E p \in Profiles : items[p].exists) =>
        \/ \E p \in Profiles : items[p].primary
        \/ overtaken \intersect Profiles # {}

\* A selection that is answered with success has made its item the primary one
\* and shown, unless somebody wrote the item after it was loaded.
SelectionTakesEffect ==
    \A e \in Editors :
        LET x == edit[e].item IN
        SelectItem(e) => \/ items'[x].primary /\ items'[x].active
                     \/ x \in overtaken

\* What the selections and uploads of identity and media are to keep up.
PrimariesAreSound ==
    /\ [](PrimaryTypeOK /\ FilesFollowRows /\ PrimaryIsActive /\ AProfileIsPrimary)
    /\ [][SelectionTakesEffect]_primaryVars

=============================================================================
