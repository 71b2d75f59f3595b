----------------------------- MODULE MCDataMoves -----------------------------
(***************************************************************************)
(* Instances of SeedImport, ManifestSeeding and SchemaUpgrade for TLC: data *)
(* is imported into manifests, manifests are applied, or the schema is     *)
(* changed.  The three share no state, and neither do the tables, so each  *)
(* behaviour writes one of them and leaves the others alone.               *)
(***************************************************************************)
EXTENDS SeedImport, SchemaUpgrade, MCManifestSeeding

VARIABLE part

-----------------------------------------------------------------------------
(* Sources.                                                                *)

\* Two skills, one of them in two cases, and one that leaves the other's slug.
SomeNames == {"c", "C", "c++", "go"}

Folds == [n \in SomeNames |-> IF n = "C" THEN "c" ELSE n]

Slugs == [n \in SomeNames |-> IF n = "go" THEN "go" ELSE "c"]

Blank(list) ==
    [list |-> list, name |-> NoName, by |-> NoName, keywords |-> <<>>,
     start |-> NoDate, end |-> NoDate]

Named(list, names) == {[Blank(list) EXCEPT !.name = n] : n \in names}

By(list, names, others) == {[Blank(list) EXCEPT !.name = n, !.by = o] : n \in names, o \in others}

\* Years, months and days, around the end of a February.
Starts == {NoDate, <<2023, 0, 0>>, <<2024, 0, 0>>, <<2024, 2, 29>>}
Ends == {<<2024, 0, 0>>, <<2024, 2, 29>>, <<2024, 2, 0>>, <<2023, 12, 31>>, <<2023, 2, 29>>}

Periods(entries, starts, ends) ==
    {[x EXCEPT !.start = s, !.end = e] : x \in entries, s \in starts, e \in ends}

SomeEntries ==
    Named("skills", {"go", "c++"})
    \union {[x EXCEPT !.keywords = k] : x \in Named("skills", {"go", "c", "C"}), k \in {<<"c">>, <<"C", "go">>}}
    \union {[x EXCEPT !.keywords = k] : x \in Named("projects", {"go", "c"}), k \in {<<>>, <<"go", "C">>}}
    \union Periods(By("work", {"go"}, {"go"}), Starts, Ends)
    \union Periods(By("volunteer", {"c"}, {"go"}), {<<2024, 0, 0>>}, {<<2024, 0, 0>>})
    \union By("education", {"c", NoName}, {"go"})
    \union By("certificates", {"c"}, {"go", NoName})
    \union By("awards", {"c"}, {"go"})
    \union By("references", {"go"}, {"go", NoName})
    \union Named("profiles", {"go"})
    \union Named("image", {"go", "c"}) \union Named("paper", {"go", "c"})

Table(name, rows) ==
    [table |-> name, rows |-> rows, outside |-> FALSE, size |-> Len(rows), packed |-> 1]

SomeMembers ==
    {Table("profile", <<CHOOSE x \in Named("profile", {"go"}) : TRUE>>),
     Table("skills", <<[Blank("skills") EXCEPT !.name = "go"], Blank("skills")>>),
     Table("skills", <<[Blank("skills") EXCEPT !.name = "c++"], [Blank("skills") EXCEPT !.name = "c"]>>),
     Table("projects", <<[Blank("projects") EXCEPT !.name = "go"], [Blank("projects") EXCEPT !.name = "c"]>>),
     [Table("none", <<>>) EXCEPT !.size = 2],
     [Table("none", <<>>) EXCEPT !.size = 3, !.packed = 0],
     [Table("none", <<>>) EXCEPT !.outside = TRUE]}
    \union {Table("positions", <<x, x>>) :
               x \in Periods(By("positions", {"go"}, {"go"}), Starts, {<<2024, 2, 0>>})}
    \union {Table(t, <<[Blank(t) EXCEPT !.name = "c", !.by = b]>>) :
               t \in {"education", "certifications", "recommendations"}, b \in {"go", NoName}}

-----------------------------------------------------------------------------
(* The rows that the application may store, listed, because the sets of    *)
(* all rows are large.                                                     *)

Outboxes == {[status |-> s, attempts |-> 1] :
                s \in {"pending", "processing", "retrying", "sent", "terminal", "disabled"}}

SomeContacts ==
    [notice : {"pending", "disabled", "sent", "failed", "retrying", "terminal"},
     outbox : Outboxes \union {Null}]

Located(kind, url, media, text) ==
    [kind : {kind}, url : {url}, media : {media}, text : {text},
     public : BOOLEAN, label : {Null, "text"}]

SomeEvidence ==
    Located("public_url", "text", Null, Null)
    \union Located("managed_media", Null, "text", Null)
    \union Located("document_reference", Null, Null, "text")

SomeMetrics ==
    [approved : BOOLEAN, hash : {Null, "text"}, approver : {Null, "text"},
     reference : {Null, "text"}, evidence : SomeEvidence \union {Null}]

Stored ==
    \/ /\ part = "contacts"
       /\ \E c \in Contacts : \E row \in SomeContacts : StoreContact(c, row)
    \/ /\ part = "metrics"
       /\ \E m \in Metrics : \E row \in SomeMetrics : StoreMetric(m, row)
    \/ /\ part = "projects"
       /\ \E p \in Projects : \E row \in Project : StoreProject(p, row)
    \/ /\ part = "profile"
       /\ \/ \E b \in Buttons : \E row \in Button : StoreButton(b, row)
          \/ \E i \in Items : \E l \in Locations : StoreItem(i, l)

-----------------------------------------------------------------------------
DataInit ==
    /\ part \in {"import", "seeding", "contacts", "metrics", "projects", "profile"}
    /\ ImportInit
    /\ part # "import" => source = "resume"
    /\ Init
    /\ SchemaInit

DataNext ==
    /\ \/ part = "import" /\ ImportNext /\ UNCHANGED <<vars, schemaVars>>
       \/ part = "seeding" /\ Next /\ UNCHANGED <<importVars, schemaVars>>
       \/ /\ part \notin {"import", "seeding"}
          /\ Migrate \/ Stored
          /\ UNCHANGED <<importVars, vars>>
    /\ UNCHANGED part

DataSpec == DataInit /\ [][DataNext]_<<part, importVars, vars, schemaVars>>

=============================================================================
