-------------------------- MODULE DiscoveryService --------------------------
(***************************************************************************)
(* The crawlers' surfaces: pages with their metadata, the sitemap, robots  *)
(* and llms.txt, all answered from one list of documents.  When the        *)
(* snapshot cannot be read, the last good list is served for a while.      *)
(* Requests run at once and share that list.                               *)
(***************************************************************************)
EXTENDS PublicCatalog

VARIABLES
    lastGood,    \* _last_good_documents
    lastGoodAt,  \* _last_good_at
    served       \* the answers that the last step may have given, by what was asked

discoveryVars == <<lastGood, lastGoodAt, served>>

Surfaces == {"page", "sitemap", "robots", "llms"}
Answer(surface, status, shows, index) ==
    [surface |-> surface, status |-> status, shows |-> shows, index |-> index]

(***************************************************************************)
(* The answers of each surface: `index' are the pages that the answer      *)
(* tells a crawler to index, `shows' the rows whose content it carries.    *)
(***************************************************************************)
ShouldIndex(document) == ~document.noindex
IndexedOf(documents) == {d \in documents : ShouldIndex(d)}
PathsOf(documents) == {d.path : d \in documents}
HomeOf(documents) == {d \in documents : d.path = Home}

\* Metadata and structured data repeat a document, and add nothing to it.
Carried(document) == document.shows

DocumentPage(document) ==
    Answer("page", "ok", Carried(document), PathsOf(IndexedOf({document})))

\* Without a profile the home page is a placeholder that is not indexed.
HomePage(documents) ==
    IF HomeOf(documents) = {} THEN {Answer("page", "placeholder", {}, {})}
    ELSE {DocumentPage(d) : d \in HomeOf(documents)}

Pages(documents) ==
    HomePage(documents) \cup {DocumentPage(d) : d \in documents \ HomeOf(documents)}
      \cup {Answer("page", "not_found", {}, {})}

Sitemap(documents) ==
    Answer("sitemap", "ok", {}, PathsOf(IndexedOf(documents)))

\* A failed reading forbids every page, as does a home that is not indexable.
Robots(documents) ==
    LET home == IndexedOf(HomeOf(documents))
    IN  Answer("robots", IF home # {} THEN "allow" ELSE "disallow", {}, PathsOf(home))

Llms(documents) ==
    IF IndexedOf(HomeOf(documents)) = {} THEN Answer("llms", "unpublished", {}, {})
    ELSE Answer("llms", "ok", UNION {Carried(d) : d \in IndexedOf(documents)},
                PathsOf(IndexedOf(documents)))

Answers(documents) ==
    Pages(documents) \cup {Sitemap(documents), Robots(documents), Llms(documents)}

Errors == {Answer(s, "error", {}, {}) : s \in Surfaces \ {"robots"}} \cup {Robots({})}

-----------------------------------------------------------------------------
DiscoveryInit ==
    /\ lastGood = {}
    /\ lastGoodAt = 0
    /\ served = {}

Request(r) ==
    /\ reading[r].mode = "idle"
    /\ Begin(r, "all")
    /\ UNCHANGED <<db, last, clock, edits>>

Finish(r, answers) ==
    /\ served' = answers
    /\ reading' = [reading EXCEPT ![r] = NoReading]
    /\ UNCHANGED <<db, last, clock, edits>>

\* _documents, when list_public returns.
ReadDocuments(r) ==
    LET documents == DiscoveryDocuments(reading[r])
    IN  /\ Complete(r)
        /\ reading[r].mode = "all"
        /\ lastGood' = documents
        /\ lastGoodAt' = clock
        /\ Finish(r, Answers(documents))

Fresh == lastGood # {} /\ clock <= lastGoodAt + StaleIfError

\* Mutant: serving the last good documents makes them good for longer.
ReadFails_Renews(r) ==
    /\ reading[r].mode = "all"
    /\ Finish(r, IF Fresh THEN Answers(lastGood) ELSE Errors)
    /\ lastGoodAt' = IF Fresh THEN clock ELSE lastGoodAt
    /\ UNCHANGED lastGood

\* _documents, when a statement of the snapshot fails.
ReadFails(r) ==
    /\ reading[r].mode = "all"
    /\ Finish(r, IF Fresh THEN Answers(lastGood) ELSE Errors)
    /\ UNCHANGED <<lastGood, lastGoodAt>>

\* Any other step: the answer is on its way, the documents stay.
Quiet == served' = {} /\ UNCHANGED <<lastGood, lastGoodAt>>

DiscoveryStep(r) ==
    \/ Request(r) /\ Quiet
    \/ \E s \in Sessions : Execute(r, s) /\ Quiet
    \/ ReadDocuments(r)
    \/ ReadFails(r)

DiscoveryNext ==
    \/ \E r \in Readers : DiscoveryStep(r)
    \/ (Edit \/ Tick) /\ Quiet

DiscoverySpec ==
    CatalogInit /\ DiscoveryInit /\ [][DiscoveryNext]_<<catalogVars, discoveryVars>>

-----------------------------------------------------------------------------
DiscoveryTypeOK ==
    /\ lastGoodAt \in 0..clock
    /\ \A d \in lastGood : d.shows \subseteq Items
    /\ \A a \in served : a.surface \in Surfaces /\ a.shows \subseteq Items

Horizon == clock - (StaleIfError + ReadTime)

(***************************************************************************)
(* However requests, failures and administrators interleave, an answer     *)
(* carries nothing that has been withdrawn for longer than a reading and   *)
(* the time for which the last good documents may be served.               *)
(***************************************************************************)
NothingWithdrawnLingers ==
    \A a \in served : \A i \in a.shows : ShownSince(i, Horizon)

(***************************************************************************)
(* A crawler is never told to index the page of a row that has been        *)
(* withdrawn or noindex for as long as that; robots lets it in only while  *)
(* the profile is, and every other address it is given is a list.          *)
(***************************************************************************)
IndexedPagesWereIndexable ==
    \A a \in served : \A i \in Items : PathOf(i) \in a.index => IndexableSince(i, Horizon)

(***************************************************************************)
(* What crawlers are told, whenever they ask, is what administrators have  *)
(* published, but for the age of the last good documents.                  *)
(***************************************************************************)
CrawlersAreCurrent ==
    /\ CatalogTypeOK /\ DiscoveryTypeOK
    /\ NothingWithdrawnLingers
    /\ IndexedPagesWereIndexable

=============================================================================
