--------------------------- MODULE PublicCatalog ---------------------------
(***************************************************************************)
(* What the public sees of the portfolio: rows that administrators publish *)
(* and withdraw, and the snapshot that CanonicalPublicContentProvider      *)
(* reads of them for the crawlers' surfaces and for the assistant.         *)
(*                                                                         *)
(* A snapshot is not one read.  Three sessions run at once, each executes  *)
(* its statements one after the other, and rows and their relations come   *)
(* from different statements: an administrator may commit between any two. *)
(***************************************************************************)
EXTENDS Naturals, FiniteSets, Sequences, SequencesExt

CONSTANTS
    Items,      \* the rows of every table the catalog reads
    KindOf,     \* the table of each row; of the profiles, only the one that is asked for
    Links,      \* <<owner, member>>: relations, and the parents of evidence
    Marked,     \* the open-source projects, the articles with the topic publication
    Matching,   \* the projects and articles that the SQL of a search finds
    Readers,    \* requests that take a snapshot
    Drafts,     \* the rows that are not public at first
    Hushed,     \* the rows that are noindex at first
    Editable,   \* the rows administrators change
    ReadTime,   \* bound: how long one snapshot takes
    StaleIfError, \* stale_if_error_seconds
    MaxClock,   \* bound
    MaxEdits    \* bound

Kinds == {"profile", "portrait", "category", "sector", "skill", "experience", "education",
          "certification", "project", "media", "metric", "testimonial", "article"}

ASSUME CatalogAssumption ==
    /\ KindOf \in [Items -> Kinds]
    /\ Links \subseteq Items \X Items
    /\ \A i, j \in Items : KindOf[i] = "profile" /\ KindOf[j] = "profile" => i = j
    /\ Marked \cup Matching \cup Drafts \cup Hushed \cup Editable \subseteq Items
    /\ {ReadTime, StaleIfError, MaxClock, MaxEdits} \subseteq Nat

VARIABLES
    db,      \* each row: public (for evidence, also approved; for files, visible), noindex
    last,    \* history: when each row was last public, and last public and indexable
    clock,
    edits,
    reading  \* each reader's snapshot in progress

catalogVars == <<db, last, clock, edits, reading>>

EvidenceKinds == {"metric", "testimonial"}
Row == [shown : BOOLEAN, noindex : BOOLEAN]
Indexable(i) == db[i].shown /\ ~db[i].noindex
Owners(i) == {l[1] : l \in {k \in Links : k[2] = i}}

(***************************************************************************)
(* The statements of each session, in order; a statement is the set of     *)
(* things it loads: <<k, k>> the rows of k, <<o, m>> the m's of the o's.   *)
(* Tables without rows are left out: reading them changes nothing.         *)
(***************************************************************************)
Sessions == {"identity", "portfolio", "content"}

ProfileStatements == <<{<<"profile", "profile">>}, {<<"profile", "portrait">>}>>

ArticleStatements == <<{<<"article", "article">>, <<"article", "media">>}>>

PortfolioStatements ==
    <<{<<"category", "category">>}, {<<"sector", "sector">>}, {<<"skill", "skill">>},
      {<<"experience", "experience">>}, {<<"experience", "skill">>},
      {<<"experience", "sector">>}, {<<"experience", "project">>},
      {<<"education", "education">>}, {<<"certification", "certification">>}>>

ProjectStatements ==
    <<{<<"project", "project">>, <<"project", "category">>}, {<<"project", "skill">>},
      {<<"project", "sector">>}, {<<"project", "media">>}, {<<"project", "metric">>},
      {<<"project", "testimonial">>}>>

EvidenceStatements == <<{<<"metric", "metric">>}, {<<"testimonial", "testimonial">>}>>

AllStatements(session) ==
    CASE session = "identity" -> ProfileStatements
      [] session = "content" -> ArticleStatements
      [] session = "portfolio" -> PortfolioStatements \o ProjectStatements \o EvidenceStatements

Loads(statement) ==
    \/ \E i \in Items : <<KindOf[i], KindOf[i]>> \in statement
    \/ \E l \in Links : <<KindOf[l[1]], KindOf[l[2]]>> \in statement

Plan == [s \in Sessions |-> {n \in DOMAIN AllStatements(s) : Loads(AllStatements(s)[n])}]

\* What a list query asks of a row, and what it also asks of evidence.
Published(i) == db[i].shown
EvidencePublished(i) == Indexable(i) /\ \A p \in Owners(i) : Indexable(p)

\* Only projects and articles are filtered by what is searched for.
Found(i) == Indexable(i) /\ i \in Matching

Listed(mode, i) ==
    /\ Published(i)
    /\ KindOf[i] \in EvidenceKinds => EvidencePublished(i)
    /\ mode = "search" /\ KindOf[i] \in {"project", "article"} => Found(i)

\* What a public DTO keeps of an owner's relations.  The project of a metric
\* is the row already in the session: `rows' holds its noindex as read.
EvidenceShown(rows, owner, i) ==
    Indexable(i) /\ ~rows[owner] /\ \A p \in Owners(i) \ {owner} : Indexable(p)

OfProject(rows, owner, i) ==
    /\ Published(i)
    /\ KindOf[i] # "media" => Indexable(i)
    /\ KindOf[i] \in EvidenceKinds => EvidenceShown(rows, owner, i)

OfExperience(i) == Published(i)

OfArticleOrProfile(i) == Published(i)

Nested(rows, l) ==
    LET i == l[2]
        kind == KindOf[l[1]]
    IN  \/ kind = "project" /\ OfProject(rows, l[1], i)
        \/ kind = "experience" /\ OfExperience(i)
        \/ kind \in {"article", "profile"} /\ OfArticleOrProfile(i)

NoReading == [mode |-> "idle", began |-> 0, at |-> [s \in Sessions |-> 0],
              rows |-> [i \in {} |-> FALSE], links |-> {}]

Begin(r, mode) ==
    reading' = [reading EXCEPT ![r] = [NoReading EXCEPT !.mode = mode, !.began = clock]]

\* The statements that session s has yet to execute.
Ahead(now, s) == {n \in Plan[s] : n > now.at[s]}

\* One statement of one session of reader r: the next one, number n.
Statement(r, s, n) ==
    LET now == reading[r]
        statement == AllStatements(s)[n]
        fresh == {i \in Items : <<KindOf[i], KindOf[i]>> \in statement /\ Listed(now.mode, i)}
        rows == [i \in DOMAIN now.rows \cup fresh |->
                   IF i \in fresh THEN db[i].noindex ELSE now.rows[i]]
        links == {l \in Links : /\ <<KindOf[l[1]], KindOf[l[2]]>> \in statement
                                /\ l[1] \in DOMAIN rows
                                /\ Nested(rows, l)}
    IN  /\ now.mode # "idle"
        /\ \A k \in Ahead(now, s) : n <= k
        /\ reading' = [reading EXCEPT ![r].at[s] = n, ![r].rows = rows, ![r].links = @ \cup links]
        /\ UNCHANGED <<db, last, clock, edits>>

Execute(r, s) == \E n \in Ahead(reading[r], s) : Statement(r, s, n)

Complete(r) ==
    reading[r].mode # "idle" /\ \A s \in Sessions : Ahead(reading[r], s) = {}

(***************************************************************************)
(* The documents built from a snapshot.  `shows' are the rows whose words  *)
(* or addresses a document carries.                                        *)
(***************************************************************************)
Of(snap, kinds) == {i \in DOMAIN snap.rows : KindOf[i] \in kinds}
Members(snap, owner, kinds) ==
    {l[2] : l \in {k \in snap.links : k[1] = owner /\ KindOf[k[2]] \in kinds}}
Keywords(snap) == Of(snap, {"skill", "category", "sector"})
Author(snap) == Of(snap, {"profile"})

Home == <<"/">>
PathOf(i) == IF KindOf[i] = "profile" THEN Home ELSE <<KindOf[i], i>>
Document(path, noindex, shows) == [path |-> path, noindex |-> noindex, shows |-> shows]

ProfileDocuments(snap) ==
    {Document(Home, snap.rows[i], {i} \cup Members(snap, i, {"portrait"}) \cup Keywords(snap)) :
       i \in Of(snap, {"profile"})}

ProjectDocuments(snap) ==
    {Document(PathOf(i), snap.rows[i],
              {i} \cup Members(snap, i, {"skill", "sector", "media"}) \cup Author(snap)) :
       i \in Of(snap, {"project"})}

ArticleDocuments(snap) ==
    {Document(PathOf(i), snap.rows[i], {i} \cup Members(snap, i, {"media"}) \cup Author(snap)) :
       i \in Of(snap, {"article"})}

\* A sector names the projects that still have it, and the skills of those.
SectorDocuments(snap) ==
    {LET projects == {p \in Of(snap, {"project"}) : <<p, i>> \in snap.links}
         skills == UNION {Members(snap, p, {"skill"}) : p \in projects}
     IN  Document(PathOf(i), snap.rows[i], {i} \cup projects \cup skills \cup Author(snap)) :
       i \in Of(snap, {"sector"})}

\* The lists: a document only when there is something to list, never noindex.
Collections(snap) ==
    [projects |-> Of(snap, {"project"}),
     writing |-> Of(snap, {"article"}),
     sectors |-> Of(snap, {"sector"}),
     work |-> Of(snap, {"experience"}),
     achievements |-> Of(snap, {"certification", "experience", "education"})
                        \cup (Of(snap, {"article"}) \cap Marked),
     openSource |-> Of(snap, {"project"}) \cap Marked]

CollectionDocuments(snap) ==
    LET lists == Collections(snap)
    IN  {Document(<<n>>, FALSE, lists[n] \cup Keywords(snap) \cup Author(snap)) :
           n \in {m \in DOMAIN lists : lists[m] # {}}}

DiscoveryDocuments(snap) ==
    ProfileDocuments(snap) \cup ProjectDocuments(snap) \cup ArticleDocuments(snap)
      \cup SectorDocuments(snap) \cup CollectionDocuments(snap)

(***************************************************************************)
(* The documents the assistant searches: one per row, with the page it     *)
(* cites.  Several of them cite the home page or the list of work.         *)
(***************************************************************************)
Work == <<"work">>

\* The page of evidence: its project's if the snapshot has the project.
EvidencePath(snap, i) ==
    LET projects == Owners(i) \cap Of(snap, {"project"})
    IN  IF projects # {} THEN PathOf(CHOOSE p \in projects : TRUE)
        ELSE IF \E o \in Owners(i) : KindOf[o] = "experience" THEN Work ELSE Home

CitedPath(snap, i) ==
    CASE KindOf[i] \in EvidenceKinds -> EvidencePath(snap, i)
      [] KindOf[i] \in {"profile", "skill"} -> Home
      [] KindOf[i] = "experience" -> Work
      [] KindOf[i] \in {"project", "article", "sector"} -> PathOf(i)

AssistantDocument(snap, i) ==
    [source |-> i, url |-> CitedPath(snap, i), indexable |-> ~snap.rows[i],
     quotes |-> {i} \cup Members(snap, i, IF KindOf[i] = "project" THEN {"metric"} ELSE {})]

MainDocuments(snap) ==
    {AssistantDocument(snap, i) : i \in Of(snap, {"profile", "project", "article"})}

FactDocuments(snap) ==
    {AssistantDocument(snap, i) :
       i \in Of(snap, {"skill", "sector", "experience", "metric", "testimonial"})}

AssistantDocuments(snap) == MainDocuments(snap) \cup FactDocuments(snap)

-----------------------------------------------------------------------------
(***************************************************************************)
(* Administrators, and time.                                               *)
(***************************************************************************)
Boot == StaleIfError + ReadTime + 1

CatalogInit ==
    /\ db = [i \in Items |-> [shown |-> i \notin Drafts, noindex |-> i \in Hushed]]
    /\ last = [i \in Items |-> [shown |-> 0, indexable |-> 0]]
    /\ clock = Boot
    /\ edits = 0
    /\ reading = [r \in Readers |-> NoReading]

Store(i, row) ==
    /\ edits < MaxEdits
    /\ edits' = edits + 1
    /\ db' = [db EXCEPT ![i] = row]
    /\ last' = [last EXCEPT ![i] =
                  [shown |-> IF db[i].shown THEN clock ELSE @.shown,
                   indexable |-> IF Indexable(i) THEN clock ELSE @.indexable]]
    /\ UNCHANGED <<clock, reading>>

SetStatus(i, published) == Store(i, [db[i] EXCEPT !.shown = published])
SetNoindex(i, value) == Store(i, [db[i] EXCEPT !.noindex = value])

Edit == \E i \in Editable, on \in BOOLEAN :
    \/ on # db[i].shown /\ SetStatus(i, on)
    \/ on # db[i].noindex /\ SetNoindex(i, on)

\* A snapshot takes at most ReadTime.
Tick ==
    /\ clock < Boot + MaxClock
    /\ \A r \in Readers : reading[r].mode # "idle" => clock < reading[r].began + ReadTime
    /\ clock' = clock + 1
    /\ UNCHANGED <<db, last, edits, reading>>

CatalogTypeOK ==
    /\ db \in [Items -> Row]
    /\ clock \in Boot..(Boot + MaxClock)
    /\ edits \in 0..MaxEdits
    /\ \A i \in Items : last[i].indexable <= last[i].shown /\ last[i].shown <= clock
    /\ \A r \in Readers : /\ \A s \in Sessions : reading[r].at[s] \in Plan[s] \cup {0}
                          /\ DOMAIN reading[r].rows \subseteq Items
                          /\ reading[r].links \subseteq Links
                          /\ reading[r].mode \in {"idle", "all", "search"}

\* Row i was public (and indexable) at some moment not before t.
ShownSince(i, t) == db[i].shown \/ last[i].shown >= t
IndexableSince(i, t) == Indexable(i) \/ last[i].indexable >= t

=============================================================================
