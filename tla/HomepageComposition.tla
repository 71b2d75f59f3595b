------------------------ MODULE HomepageComposition ------------------------
(***************************************************************************)
(* The sections of the homepage.  Replacing the composition reads all      *)
(* sections without a lock, moves them out of the way in a first flush,    *)
(* because an index admits one section per position, and writes what was   *)
(* asked in a second: listed sections are published in their order, the    *)
(* others archived behind them.  Single sections are created, edited and   *)
(* withdrawn beside it.                                                    *)
(***************************************************************************)
EXTENDS Naturals, Sequences, FiniteSetsExt, Functions, UnitOfWork

CONSTANTS
    MaxSections,   \* bound on the rows ever created
    Types,         \* section types
    Compositions,  \* the orders of types that are asked for
    Positions,     \* positions that single sections are given
    Editors,       \* edits that may run at one time
    Idle           \* a request that is not running

Sections == 1..MaxSections

\* `shown' stands for the columns that make a section public: its lifecycle,
\* and the switch that a replacement turns with it.
Section == [type : Types, position : Nat, shown : BOOLEAN]

\* The sections that exist, by their keys.
Tables == UNION {[S -> Section] : S \in SUBSET Sections}

\* An item of a composition names a section that is to stay, or none (0).
Item == [id : {0} \union Sections, type : Types]

\* A request under way: how far it is, what it has read and what it was asked.
HomepageEdit == [phase : {"single", "loaded", "staged"}, base : Tables, asked : Seq(Item)]

ASSUME HomepageAssumption ==
    /\ MaxSections \in Nat
    /\ Compositions \subseteq Seq(Types)
    /\ Positions \subseteq Nat
    /\ Idle \notin HomepageEdit

VARIABLES
    rows,       \* homepage_sections: those created, in the order of their keys
    edits,      \* what each edit under way has read and was asked
    crossed     \* history: edits beside which another one wrote sections

homepageVars == <<rows, edits, crossed>>

-----------------------------------------------------------------------------

\* uq_homepage_sections_position
PositionsDiffer(table) == IsInjective([s \in DOMAIN table |-> table[s].position])

HomepageTypeOK ==
    /\ DOMAIN rows \subseteq Sections
    /\ \A s \in DOMAIN rows : rows[s] \in Section
    /\ PositionsDiffer(rows)
    /\ \A r \in Editors : edits[r] # Idle =>
         /\ edits[r].phase \in {"single", "loaded", "staged"}
         /\ DOMAIN edits[r].base \subseteq DOMAIN rows
    /\ crossed \subseteq {r \in Editors : edits[r] # Idle}

HomepageInit ==
    /\ rows = [s \in {} |-> 0]
    /\ edits = [r \in Editors |-> Idle]
    /\ crossed = {}

\* What visitors are shown, and where.
Public(table) ==
    {[position |-> table[s].position, type |-> table[s].type] :
        s \in {s \in DOMAIN table : table[s].shown}}

Asked(asked) == {[position |-> i - 1, type |-> asked[i].type] : i \in DOMAIN asked}

-----------------------------------------------------------------------------
(* Positions of a replacement, given the sections it has loaded.           *)

Before(base, s) == {z \in DOMAIN base : base[z].position < base[s].position}

\* Mutant: no room is left between the old positions and the interim ones.
Staged_Overlapping(base, s) == Cardinality(DOMAIN base) + Cardinality(Before(base, s))

\* Beyond every position in use.
Staged(base, s) ==
    Max({base[z].position : z \in DOMAIN base}) + Cardinality(DOMAIN base) + 1
        + Cardinality(Before(base, s))

Listed(asked) == {asked[i].id : i \in DOMAIN asked} \ {0}

\* Listed sections take the place they have in the list, the others follow.
Final(base, asked, s) ==
    IF s \in Listed(asked)
      THEN (CHOOSE i \in DOMAIN asked : asked[i].id = s) - 1
      ELSE Len(asked) + Cardinality(Before(base, s) \ Listed(asked))

\* The updates are written one by one, in the order of the keys.  One of them
\* meets the interim position of a section that has yet to move.
Collides(base, asked) ==
    \E s, z \in DOMAIN base : s < z /\ Final(base, asked, s) = Staged(base, z)

\* The items without a section, in order, get new ones.
NewItems(asked) == {i \in DOMAIN asked : asked[i].id = 0}
Unused == {s \in Sections : s \notin DOMAIN rows}
NewSection(asked, i) ==
    CHOOSE s \in Unused :
        Cardinality({z \in Unused : z < s}) = Cardinality({j \in NewItems(asked) : j < i})
Inserted(asked) == {NewSection(asked, i) : i \in NewItems(asked)}

\* Mutant: sections that are not listed are left published.
Assigned_KeepsOthers(base, asked, s) ==
    [base[s] EXCEPT !.position = Final(base, asked, s),
                    !.shown = @ \/ s \in Listed(asked)]

\* The object of a section after the assignments of the second flush.
Assigned(base, asked, s) ==
    [base[s] EXCEPT !.position = Final(base, asked, s), !.shown = s \in Listed(asked)]

\* The row of a section that was loaded: it gets its position, because the
\* first flush took it away, and the columns in which the object differs from
\* what was loaded.
Written(base, asked, s) == Flush(rows[s], base[s], Assigned(base, asked, s), {"position"})

\* The table after the commit.
Replaced(base, asked) ==
    [s \in DOMAIN rows \union Inserted(asked) |->
        IF s \in DOMAIN base THEN Written(base, asked, s)
        ELSE IF s \in DOMAIN rows THEN rows[s]
        ELSE LET i == CHOOSE i \in NewItems(asked) : NewSection(asked, i) = s
             IN  [type |-> asked[i].type, position |-> i - 1, shown |-> TRUE]]

-----------------------------------------------------------------------------

\* The sections whose rows a request has locked by its first flush.
Locked(r) ==
    IF edits[r] # Idle /\ edits[r].phase = "staged" THEN DOMAIN edits[r].base ELSE {}

OthersLock(r, S) == \E z \in Editors \ {r} : Locked(z) \intersect S # {}

\* The table as other requests would find it if all staged ones committed: a
\* position is taken if it is so in either.
Interim(r) == {Staged(edits[r].base, s) : s \in Locked(r)}

Taken(r, position, but) ==
    \/ \E s \in DOMAIN rows \ but : rows[s].position = position
    \/ \E z \in Editors \ {r} : position \in Interim(z)

\* The others that have loaded something and not written yet.
Crossing(r) == {z \in Editors \ {r} : edits[z] # Idle}

EndEdit(r) ==
    /\ edits' = [edits EXCEPT ![r] = Idle]
    /\ crossed' = (crossed \union IF rows' # rows THEN Crossing(r) ELSE {}) \ {r}

\* All sections are read, and the items checked: each type once, each named
\* section once and among those read.
Load(r, types) ==
    /\ edits[r] = Idle
    /\ IsInjective(types)
    /\ \E ids \in [DOMAIN types -> {0} \union DOMAIN rows] :
        /\ \A i, j \in DOMAIN ids : ids[i] = ids[j] /\ ids[i] # 0 => i = j
        /\ \A i \in DOMAIN ids : ids[i] # 0 => rows[ids[i]].type = types[i]
        /\ edits' = [edits EXCEPT ![r] =
             [phase |-> "loaded", base |-> rows,
              asked |-> [i \in DOMAIN types |-> [id |-> ids[i], type |-> types[i]]]]]
    /\ UNCHANGED <<rows, crossed>>

\* The first flush.
Stage(r) ==
    /\ edits[r] # Idle /\ edits[r].phase = "loaded"
    /\ LET base == edits[r].base
       IN  /\ ~OthersLock(r, DOMAIN base)
           /\ \A s \in DOMAIN base : ~Taken(r, Staged(base, s), DOMAIN base)
    /\ edits' = [edits EXCEPT ![r].phase = "staged"]
    /\ UNCHANGED <<rows, crossed>>

Fits(r) ==
    LET base == edits[r].base
        asked == edits[r].asked
    IN  /\ ~Collides(base, asked)
        /\ \A s \in DOMAIN base : ~Taken(r, Final(base, asked, s), DOMAIN base)
        /\ \A i \in NewItems(asked) : ~Taken(r, i - 1, DOMAIN base)

\* The second flush and the commit.
ReplaceComposition(r) ==
    /\ edits[r] # Idle /\ edits[r].phase = "staged"
    /\ Cardinality(NewItems(edits[r].asked)) <= Cardinality(Unused)
    /\ Fits(r)
    /\ rows' = Replaced(edits[r].base, edits[r].asked)
    /\ EndEdit(r)

\* The index refuses a position, or the request is cut off: the transaction
\* is rolled back.
RefuseEdit(r) ==
    /\ edits[r] # Idle
    /\ rows' = rows
    /\ EndEdit(r)

\* Editing or withdrawing a section begins by reading it.
LoadOne(r, s) ==
    /\ edits[r] = Idle
    /\ edits' = [edits EXCEPT ![r] =
         [phase |-> "single", base |-> [z \in {s} |-> rows[z]], asked |-> <<>>]]
    /\ UNCHANGED <<rows, crossed>>

\* The section an edit has loaded and not written yet.
Loaded(r) ==
    IF edits[r] # Idle /\ edits[r].phase = "single" THEN DOMAIN edits[r].base ELSE {}

\* The flush of its object, and the commit.
SaveOne(r, s, object) ==
    /\ LET row == Flush(rows[s], edits[r].base[s], object, {})
       IN  /\ ~OthersLock(r, {s})
           /\ row.position # rows[s].position => ~Taken(r, row.position, {s})
           /\ rows' = [rows EXCEPT ![s] = row]
    /\ EndEdit(r)

UpdateSection(r, position) ==
    \E s \in Loaded(r) : SaveOne(r, s, [edits[r].base[s] EXCEPT !.position = position])

SetStatus(r, shown) ==
    \E s \in Loaded(r) : SaveOne(r, s, [edits[r].base[s] EXCEPT !.shown = shown])

\* Nothing is read before: a new section is one transaction.
CreateSection(r, type, position) ==
    /\ edits[r] = Idle
    /\ Unused # {}
    /\ ~Taken(r, position, {})
    /\ rows' = [s \in DOMAIN rows \union {Min(Unused)} |->
         IF s \in DOMAIN rows THEN rows[s]
         ELSE [type |-> type, position |-> position, shown |-> TRUE]]
    /\ EndEdit(r)

HomepageNext ==
    \E r \in Editors :
        \/ \E types \in Compositions : Load(r, types)
        \/ Stage(r)
        \/ ReplaceComposition(r)
        \/ RefuseEdit(r)
        \/ \E s \in DOMAIN rows : LoadOne(r, s)
        \/ \E p \in Positions : UpdateSection(r, p)
        \/ \E shown \in BOOLEAN : SetStatus(r, shown)
        \/ \E t \in Types, p \in Positions : CreateSection(r, t, p)

HomepageSpec == HomepageInit /\ [][HomepageNext]_homepageVars

-----------------------------------------------------------------------------

\* The replacement r is stored in this step.
CompositionStored(r) ==
    /\ edits[r] # Idle /\ edits[r].phase = "staged"
    /\ edits'[r] = Idle /\ rows' # rows

\* A replacement beside which nothing else was written shows visitors exactly
\* what it lists, in that order, whatever the sections were before.
CompositionIsWhole ==
    [][\A r \in Editors : CompositionStored(r) /\ r \notin crossed =>
          Public(rows') = Asked(edits[r].asked)]_homepageVars

\* Even beside others, what a replacement lists gets the position it asked
\* for, and no section that it did not see slips between.
ListedInOrder ==
    [][\A r \in Editors : CompositionStored(r) =>
          \A i \in DOMAIN edits[r].asked :
             \E s \in DOMAIN rows' :
                /\ rows'[s].position = i - 1
                /\ s \in Inserted(edits[r].asked) \union {edits[r].asked[i].id}]_homepageVars

\* A replacement that runs alone fits: the index refuses it only if it adds
\* more sections than there are, when an interim position may be needed.
AloneItFits ==
    \A r \in Editors :
        /\ edits[r] # Idle /\ edits[r].phase = "staged"
        /\ r \notin crossed
        /\ Cardinality(NewItems(edits[r].asked)) <= Cardinality(DOMAIN edits[r].base)
        => Fits(r)

\* replace_homepage_composition leaves what it was asked for: all of it and
\* nothing else if it ran alone, and its sections in their places if not.
CompositionAsAsked == CompositionIsWhole /\ ListedInOrder

\* Positions are numbers and differ, and a replacement that is alone is not
\* refused for the positions that it passes through.
CompositionsFit == HomepageTypeOK /\ AloneItFits

=============================================================================
