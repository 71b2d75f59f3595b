--------------------------- MODULE ReadingProofs ----------------------------
(***************************************************************************)
(* What readers of the public catalog are told, proved for any rows,       *)
(* relations, readers and times.  PublicCatalog: what a snapshot holds was *)
(* public, or indexable, since its reading began.  DiscoveryService: what  *)
(* is served is no older than a reading and the age of the last good       *)
(* documents.  AssistantService: what is cited was indexable since the     *)
(* question was admitted, answers are supported by what was sent, and the  *)
(* audit trail agrees with them.                                           *)
(***************************************************************************)
EXTENDS DiscoveryService, AssistantService, FiniteSetTheorems, TLAPS

-----------------------------------------------------------------------------
(* PublicCatalog.                                                          *)

(***************************************************************************)
(* The inductive invariant of the catalog.  A statement that loaded a row  *)
(* saw it public, and that stays true of the moment at which the reading   *)
(* began, whatever is withdrawn afterwards: `last' remembers it.           *)
(***************************************************************************)
Marks == {0} \cup (UNION {Plan[s] : s \in Sessions})

Snapshots ==
    [mode : {"idle", "all", "search"}, began : Nat, at : [Sessions -> Marks],
     rows : UNION {[S -> BOOLEAN] : S \in SUBSET Items}, links : SUBSET Links]

CatalogShape ==
    /\ db \in [Items -> Row]
    /\ last \in [Items -> [shown : Nat, indexable : Nat]]
    /\ reading \in [Readers -> Snapshots]

\* What a snapshot in progress holds was so at some moment since it began.
RowsWereShown(snap) ==
    \A i \in DOMAIN snap.rows :
        /\ ShownSince(i, snap.began)
        /\ ~snap.rows[i] => IndexableSince(i, snap.began)
        /\ KindOf[i] \in EvidenceKinds =>
             \A p \in Owners(i) : IndexableSince(p, snap.began)

LinksWereShown(snap) ==
    \A l \in snap.links :
        /\ ShownSince(l[2], snap.began)
        /\ KindOf[l[1]] = "project" /\ KindOf[l[2]] # "media" => IndexableSince(l[2], snap.began)

InTime(snap) == Boot <= snap.began /\ snap.began <= clock /\ clock <= snap.began + ReadTime

Sound(snap) == InTime(snap) /\ RowsWereShown(snap) /\ LinksWereShown(snap)

CatalogIInv ==
    /\ CatalogShape /\ CatalogTypeOK
    /\ \A r \in Readers : reading[r].mode # "idle" => Sound(reading[r])

-----------------------------------------------------------------------------
LEMMA CatalogConstants ==
    /\ ReadTime \in Nat /\ StaleIfError \in Nat /\ MaxClock \in Nat /\ MaxEdits \in Nat
    /\ Boot \in Nat /\ Boot >= 1
    /\ \A l \in Links : l[1] \in Items /\ l[2] \in Items /\ l = <<l[1], l[2]>>
    /\ \A i \in Items : KindOf[i] \in Kinds
    /\ Editable \subseteq Items
    /\ \A i \in Items : Owners(i) \subseteq Items
BY CatalogAssumption DEF CatalogAssumption, Boot, Owners

LEMMA EmptySnapshot == NoReading \in Snapshots /\ NoReading.mode = "idle"
                       /\ \A s \in Sessions : NoReading.at[s] = 0
<1>1. [i \in {} |-> FALSE] \in UNION {[S -> BOOLEAN] : S \in SUBSET Items}
  OBVIOUS
<1>2. [s \in Sessions |-> 0] \in [Sessions -> Marks]
  <2>1. 0 \in Marks
    BY DEF Marks
  <2> QED BY <2>1
<1> QED BY <1>1, <1>2 DEF NoReading, Snapshots

\* Nothing that was so since t is forgotten by an edit.
LEMMA EditPersists ==
    ASSUME CatalogShape, CatalogTypeOK, Edit, NEW i \in Items, NEW t \in Int, t <= clock
    PROVE  /\ ShownSince(i, t) => ShownSince(i, t)'
           /\ IndexableSince(i, t) => IndexableSince(i, t)'
<1>1. PICK j \in Editable, row \in Row : Store(j, row)
  <2>1. PICK j \in Editable, on \in BOOLEAN :
          (on # db[j].shown /\ SetStatus(j, on)) \/ (on # db[j].noindex /\ SetNoindex(j, on))
    BY DEF Edit
  <2>2. [db[j] EXCEPT !.shown = on] \in Row /\ [db[j] EXCEPT !.noindex = on] \in Row
    BY CatalogConstants DEF CatalogShape, Row
  <2> QED BY <2>1, <2>2 DEF SetStatus, SetNoindex
<1>2. j \in Items /\ db' = [db EXCEPT ![j] = row]
      /\ last' = [last EXCEPT ![j] =
                  [shown |-> IF db[j].shown THEN clock ELSE last[j].shown,
                   indexable |-> IF Indexable(j) THEN clock ELSE last[j].indexable]]
  BY <1>1, CatalogConstants DEF Store
<1>3. CASE i = j
  <2>1. last'[i] = [shown |-> IF db[i].shown THEN clock ELSE last[i].shown,
                    indexable |-> IF Indexable(i) THEN clock ELSE last[i].indexable]
    BY <1>2, <1>3 DEF CatalogShape
  <2>2. clock \in Nat
    BY CatalogConstants DEF CatalogTypeOK
  <2> QED BY <2>1, <2>2 DEF ShownSince, IndexableSince, Indexable
<1>4. CASE i # j
  <2>1. last'[i] = last[i] /\ db'[i] = db[i]
    BY <1>2, <1>4 DEF CatalogShape
  <2> QED BY <2>1 DEF ShownSince, IndexableSince, Indexable
<1> QED BY <1>3, <1>4

LEMMA EditShape ==
    ASSUME CatalogShape, CatalogTypeOK, Edit
    PROVE  CatalogShape' /\ CatalogTypeOK' /\ UNCHANGED <<clock, reading>>
<1>1. PICK j \in Editable, row \in Row : Store(j, row)
  <2>1. PICK j \in Editable, on \in BOOLEAN :
          (on # db[j].shown /\ SetStatus(j, on)) \/ (on # db[j].noindex /\ SetNoindex(j, on))
    BY DEF Edit
  <2>2. [db[j] EXCEPT !.shown = on] \in Row /\ [db[j] EXCEPT !.noindex = on] \in Row
    BY CatalogConstants DEF CatalogShape, Row
  <2> QED BY <2>1, <2>2 DEF SetStatus, SetNoindex
<1> DEFINE moved == [shown |-> IF db[j].shown THEN clock ELSE last[j].shown,
                     indexable |-> IF Indexable(j) THEN clock ELSE last[j].indexable]
<1>2. /\ j \in Items /\ db' = [db EXCEPT ![j] = row] /\ last' = [last EXCEPT ![j] = moved]
      /\ UNCHANGED <<clock, reading>> /\ edits' = edits + 1 /\ edits < MaxEdits
  BY <1>1, CatalogConstants DEF Store
<1>3. clock \in Nat
  BY CatalogConstants DEF CatalogTypeOK
<1>4. moved \in [shown : Nat, indexable : Nat] /\ moved.indexable <= moved.shown /\ moved.shown <= clock
  BY <1>2, <1>3 DEF CatalogShape, CatalogTypeOK, Indexable
<1> HIDE DEF moved
<1>5. CatalogShape'
  BY <1>2, <1>4 DEF CatalogShape
<1>6. \A i \in Items : last'[i].indexable <= last'[i].shown /\ last'[i].shown <= clock'
  <2> TAKE i \in Items
  <2>1. CASE i = j
    BY <2>1, <1>2, <1>4 DEF CatalogShape
  <2>2. CASE i # j
    BY <2>2, <1>2 DEF CatalogShape, CatalogTypeOK
  <2> QED BY <2>1, <2>2
<1>7. edits' \in 0..MaxEdits
  BY <1>2, CatalogConstants DEF CatalogTypeOK
<1> QED BY <1>2, <1>5, <1>6, <1>7 DEF CatalogTypeOK, CatalogShape

LEMMA BeginShape ==
    ASSUME CatalogIInv, NEW r \in Readers, NEW mode \in {"all", "search"}, Begin(r, mode),
           UNCHANGED <<db, last, clock, edits>>
    PROVE  CatalogIInv'
<1> DEFINE begun == [NoReading EXCEPT !.mode = mode, !.began = clock]
<1>0. clock \in Nat /\ Boot <= clock
  BY CatalogConstants DEF CatalogIInv, CatalogTypeOK
<1>1. /\ begun \in Snapshots /\ begun.mode = mode /\ begun.began = clock
      /\ begun.rows = NoReading.rows /\ begun.links = {} /\ begun.at = NoReading.at
  BY <1>0, EmptySnapshot DEF Snapshots, NoReading
<1>2. reading' = [reading EXCEPT ![r] = begun] /\ begun' = begun
  BY DEF Begin
<1> HIDE DEF begun
<1>3. CatalogShape'
  BY <1>1, <1>2 DEF CatalogShape, CatalogIInv
<1>4. \A q \in Readers : q # r => reading'[q] = reading[q]
  BY <1>2 DEF CatalogShape, CatalogIInv
<1>5. reading'[r] = begun
  BY <1>2 DEF CatalogShape, CatalogIInv
<1>6. CatalogTypeOK'
  <2> SUFFICES ASSUME NEW q \in Readers
               PROVE  /\ \A s \in Sessions : reading'[q].at[s] \in Plan[s] \cup {0}
                      /\ DOMAIN reading'[q].rows \subseteq Items
                      /\ reading'[q].links \subseteq Links
                      /\ reading'[q].mode \in {"idle", "all", "search"}
    BY DEF CatalogTypeOK, CatalogIInv, Indexable
  <2>1. CASE q = r
    BY <2>1, <1>1, <1>5, EmptySnapshot DEF NoReading
  <2>2. CASE q # r
    BY <2>2, <1>4 DEF CatalogTypeOK, CatalogIInv
  <2> QED BY <2>1, <2>2
<1>7. Sound(begun)'
  <2>1. DOMAIN begun.rows = {}
    BY <1>1 DEF NoReading
  <2>2. RowsWereShown(begun)'
    BY <2>1, <1>2 DEF RowsWereShown
  <2>3. LinksWereShown(begun)'
    BY <1>1, <1>2 DEF LinksWereShown
  <2>4. InTime(begun)'
    BY <1>0, <1>1, <1>2, CatalogConstants DEF InTime
  <2> QED BY <2>2, <2>3, <2>4 DEF Sound
<1>8. ASSUME NEW q \in Readers, reading'[q].mode # "idle" PROVE Sound(reading[q])'
  <2>1. CASE q = r
    BY <2>1, <1>2, <1>5, <1>7 DEF Sound, RowsWereShown, LinksWereShown, InTime, ShownSince, IndexableSince, Indexable
  <2>2. CASE q # r
    BY <2>2, <1>4, <1>8 DEF CatalogIInv, Sound, RowsWereShown, LinksWereShown, InTime, ShownSince, IndexableSince, Indexable
  <2> QED BY <2>1, <2>2
<1> QED BY <1>3, <1>6, <1>8 DEF CatalogIInv

LEMMA EndShape ==
    ASSUME CatalogIInv, NEW r \in Readers, reading' = [reading EXCEPT ![r] = NoReading],
           UNCHANGED <<db, last, clock, edits>>
    PROVE  CatalogIInv'
<1>3. CatalogShape'
  BY EmptySnapshot DEF CatalogShape, CatalogIInv
<1>4. \A q \in Readers : q # r => reading'[q] = reading[q]
  BY DEF CatalogShape, CatalogIInv
<1>5. reading'[r] = NoReading
  BY DEF CatalogShape, CatalogIInv
<1>6. CatalogTypeOK'
  <2> SUFFICES ASSUME NEW q \in Readers
               PROVE  /\ \A s \in Sessions : reading'[q].at[s] \in Plan[s] \cup {0}
                      /\ DOMAIN reading'[q].rows \subseteq Items
                      /\ reading'[q].links \subseteq Links
                      /\ reading'[q].mode \in {"idle", "all", "search"}
    BY DEF CatalogTypeOK, CatalogIInv, Indexable
  <2>1. CASE q = r
    BY <2>1, <1>5, EmptySnapshot DEF NoReading
  <2>2. CASE q # r
    BY <2>2, <1>4 DEF CatalogTypeOK, CatalogIInv
  <2> QED BY <2>1, <2>2
<1>8. ASSUME NEW q \in Readers, reading'[q].mode # "idle" PROVE Sound(reading[q])'
  <2>1. q # r
    BY <1>5, <1>8, EmptySnapshot
  <2> QED
    BY <2>1, <1>4, <1>8 DEF CatalogIInv, Sound, RowsWereShown, LinksWereShown, InTime, ShownSince, IndexableSince, Indexable
<1> QED BY <1>3, <1>6, <1>8 DEF CatalogIInv

LEMMA TickShape ==
    ASSUME CatalogIInv, Tick
    PROVE  CatalogIInv'
<1>0. clock \in Nat /\ clock' = clock + 1 /\ clock < Boot + MaxClock
      /\ UNCHANGED <<db, last, edits, reading>> /\ clock >= Boot
  BY CatalogConstants DEF CatalogIInv, CatalogTypeOK, Tick
<1>1. CatalogShape'
  BY <1>0 DEF CatalogIInv, CatalogShape
<1>2. \A i \in Items : last'[i].indexable <= last'[i].shown /\ last'[i].shown <= clock'
  BY <1>0 DEF CatalogIInv, CatalogShape, CatalogTypeOK
<1>3. CatalogTypeOK'
  BY <1>0, <1>2, CatalogConstants DEF CatalogIInv, CatalogTypeOK
<1>4. ASSUME NEW q \in Readers, reading'[q].mode # "idle" PROVE Sound(reading[q])'
  <2>1. Sound(reading[q]) /\ reading[q] \in Snapshots
    BY <1>0, <1>4 DEF CatalogIInv, CatalogShape
  <2>2. clock < reading[q].began + ReadTime
    BY <1>0, <1>4 DEF Tick
  <2>3. InTime(reading[q])'
    BY <2>1, <2>2, <1>0, CatalogConstants DEF Sound, InTime, Snapshots
  <2> QED BY <2>1, <2>3, <1>0 DEF Sound, RowsWereShown, LinksWereShown, ShownSince, IndexableSince, Indexable
<1> QED BY <1>1, <1>3, <1>4 DEF CatalogIInv

LEMMA EditKeeps ==
    ASSUME CatalogIInv, Edit
    PROVE  CatalogIInv'
<1>1. CatalogShape' /\ CatalogTypeOK' /\ UNCHANGED <<clock, reading>>
  BY EditShape DEF CatalogIInv
<1>2. ASSUME NEW q \in Readers, reading'[q].mode # "idle" PROVE Sound(reading[q])'
  <2> DEFINE snap == reading[q]
  <2>1. Sound(snap) /\ snap \in Snapshots
    BY <1>1, <1>2 DEF CatalogIInv, CatalogShape
  <2>2. InTime(snap)' /\ snap.began \in Int /\ snap.began <= clock
    BY <2>1, <1>1 DEF Sound, InTime, Snapshots
  <2>3. \A i \in Items : /\ ShownSince(i, snap.began) => ShownSince(i, snap.began)'
                         /\ IndexableSince(i, snap.began) => IndexableSince(i, snap.began)'
    <3> TAKE i \in Items
    <3> HIDE DEF snap
    <3>1. \A t \in Int : t <= clock => /\ (ShownSince(i, t) => ShownSince(i, t)')
                                       /\ (IndexableSince(i, t) => IndexableSince(i, t)')
      BY EditPersists DEF CatalogIInv
    <3>2. snap' = snap
      BY <1>1 DEF snap
    <3> QED BY <3>1, <3>2, <2>2 DEF ShownSince, IndexableSince, Indexable
  <2>4. snap' = snap /\ DOMAIN snap.rows \subseteq Items /\ snap.links \subseteq Links
    BY <1>1, <2>1 DEF Snapshots
  <2> HIDE DEF snap
  <2>5. RowsWereShown(snap)'
    BY <2>1, <2>3, <2>4, CatalogConstants DEF Sound, RowsWereShown, ShownSince, IndexableSince, Indexable
  <2>6. LinksWereShown(snap)'
    BY <2>1, <2>3, <2>4, CatalogConstants DEF Sound, LinksWereShown, ShownSince, IndexableSince, Indexable
  <2>7. Sound(snap)'
    BY <2>2, <2>5, <2>6 DEF Sound
  <2> QED BY <2>7 DEF snap
<1> QED BY <1>1, <1>2 DEF CatalogIInv

LEMMA ExecuteKeeps ==
    ASSUME CatalogIInv, NEW r \in Readers, NEW s \in Sessions, Execute(r, s)
    PROVE  CatalogIInv'
<1>1. PICK n \in Ahead(reading[r], s) : Statement(r, s, n)
  BY DEF Execute
<1> DEFINE now == reading[r]
           statement == AllStatements(s)[n]
           fresh == {i \in Items : <<KindOf[i], KindOf[i]>> \in statement /\ Listed(now.mode, i)}
           rows == [i \in DOMAIN now.rows \cup fresh |->
                      IF i \in fresh THEN db[i].noindex ELSE now.rows[i]]
           links == {l \in Links : /\ <<KindOf[l[1]], KindOf[l[2]]>> \in statement
                                   /\ l[1] \in DOMAIN rows
                                   /\ Nested(rows, l)}
<1>2. /\ now.mode # "idle"
      /\ reading' = [reading EXCEPT ![r].at[s] = n, ![r].rows = rows, ![r].links = @ \cup links]
      /\ UNCHANGED <<db, last, clock, edits>>
  BY <1>1 DEF Statement
<1>3. /\ now \in Snapshots /\ Sound(now) /\ n \in Plan[s]
      /\ DOMAIN now.rows \subseteq Items /\ now.links \subseteq Links
  BY <1>1, <1>2 DEF CatalogIInv, CatalogShape, CatalogTypeOK, Ahead
<1>4. fresh \subseteq Items /\ links \subseteq Links
  OBVIOUS
<1>5. \A i \in fresh : Listed(now.mode, i)
  OBVIOUS
<1>6. \A l \in links : Nested(rows, l)
  OBVIOUS
<1>7. /\ DOMAIN rows = DOMAIN now.rows \cup fresh
      /\ \A i \in fresh : rows[i] = db[i].noindex
      /\ \A i \in DOMAIN now.rows : i \notin fresh => rows[i] = now.rows[i]
  OBVIOUS
<1>8. rows \in UNION {[S -> BOOLEAN] : S \in SUBSET Items}
  <2>1. \A i \in DOMAIN now.rows \cup fresh : rows[i] \in BOOLEAN
    <3> SUFFICES ASSUME NEW i \in DOMAIN now.rows \cup fresh PROVE rows[i] \in BOOLEAN
      OBVIOUS
    <3>1. db[i].noindex \in BOOLEAN
      BY <1>3, <1>4 DEF CatalogIInv, CatalogShape, Row
    <3>2. i \notin fresh => now.rows[i] \in BOOLEAN
      BY <1>3 DEF Snapshots
    <3> QED BY <3>1, <3>2
  <2>2. rows \in [DOMAIN now.rows \cup fresh -> BOOLEAN]
    BY <2>1
  <2>3. DOMAIN now.rows \cup fresh \in SUBSET Items
    BY <1>3, <1>4
  <2> HIDE DEF rows, fresh, now
  <2> QED BY <2>2, <2>3
<1> HIDE DEF statement, fresh, rows, links
<1> DEFINE then == [mode |-> now.mode, began |-> now.began, at |-> [now.at EXCEPT ![s] = n],
                    rows |-> rows, links |-> now.links \cup links]
<1>9. reading'[r] = then /\ \A q \in Readers : q # r => reading'[q] = reading[q]
  BY <1>2, <1>3 DEF CatalogIInv, CatalogShape, Snapshots
<1>10. /\ then \in Snapshots /\ then.mode = now.mode /\ then.began = now.began
       /\ then.rows = rows /\ then.links = now.links \cup links
       /\ \A t \in Sessions : then.at[t] \in Plan[t] \cup {0}
  <2>1. then.at \in [Sessions -> Marks]
    BY <1>3 DEF Snapshots, Marks
  <2>2. \A t \in Sessions : now.at[t] \in Plan[t] \cup {0}
    BY DEF CatalogIInv, CatalogTypeOK
  <2>3. \A t \in Sessions : then.at[t] \in Plan[t] \cup {0}
    BY <2>2, <1>3 DEF Snapshots
  <2> QED BY <2>1, <2>3, <1>3, <1>4, <1>8 DEF Snapshots
<1> HIDE DEF then
<1>12. CatalogShape'
  <2>1. reading' \in [Readers -> Snapshots]
    <3>1. \A q \in Readers : reading'[q] \in Snapshots
      BY <1>9, <1>10 DEF CatalogIInv, CatalogShape
    <3>2. reading' = [q \in Readers |-> reading'[q]]
      BY <1>2 DEF CatalogIInv, CatalogShape
    <3> HIDE <1>2
    <3> QED BY <3>1, <3>2
  <2> QED BY <2>1, <1>2 DEF CatalogIInv, CatalogShape
<1>13. CatalogTypeOK'
  <2>1. ASSUME NEW q \in Readers
        PROVE  /\ \A t \in Sessions : reading'[q].at[t] \in Plan[t] \cup {0}
               /\ DOMAIN reading'[q].rows \subseteq Items
               /\ reading'[q].links \subseteq Links
               /\ reading'[q].mode \in {"idle", "all", "search"}
    <3>1. CASE q = r
      BY <3>1, <1>3, <1>4, <1>7, <1>9, <1>10 DEF Snapshots
    <3>2. CASE q # r
      BY <3>2, <1>9 DEF CatalogIInv, CatalogTypeOK
    <3> QED BY <3>1, <3>2
  <2> QED BY <2>1, <1>2 DEF CatalogIInv, CatalogTypeOK
<1>14. now.began \in Nat /\ clock \in Nat /\ now.began <= clock
  BY <1>3, CatalogConstants DEF Snapshots, Sound, InTime, CatalogIInv, CatalogTypeOK
\* What is so in the database is so since the reading began.
<1>15. \A i \in Items : (db[i].shown => ShownSince(i, now.began))
                        /\ (Indexable(i) => IndexableSince(i, now.began))
  BY DEF ShownSince, IndexableSince
<1>16. RowsWereShown(then)
  <2> SUFFICES ASSUME NEW i \in DOMAIN rows
               PROVE  /\ ShownSince(i, now.began)
                      /\ ~rows[i] => IndexableSince(i, now.began)
                      /\ KindOf[i] \in EvidenceKinds =>
                           \A p \in Owners(i) : IndexableSince(p, now.began)
    BY <1>10 DEF RowsWereShown
  <2>1. CASE i \in fresh
    <3>1. i \in Items /\ rows[i] = db[i].noindex /\ Listed(now.mode, i)
      BY <2>1, <1>4, <1>5, <1>7
    <3>2. ShownSince(i, now.began) /\ (~rows[i] => IndexableSince(i, now.began))
      BY <3>1, <1>15 DEF Listed, Published, Indexable
    <3>3. KindOf[i] \in EvidenceKinds => \A p \in Owners(i) : Indexable(p) /\ p \in Items
      BY <3>1, CatalogConstants DEF Listed, EvidencePublished
    <3> QED BY <3>2, <3>3, <1>15
  <2>2. CASE i \notin fresh
    <3>1. i \in DOMAIN now.rows /\ rows[i] = now.rows[i]
      BY <2>2, <1>7
    <3> QED BY <3>1, <1>3 DEF Sound, RowsWereShown
  <2> QED BY <2>1, <2>2
<1>17. LinksWereShown(then)
  <2> SUFFICES ASSUME NEW l \in now.links \cup links
               PROVE  /\ ShownSince(l[2], now.began)
                      /\ KindOf[l[1]] = "project" /\ KindOf[l[2]] # "media" =>
                           IndexableSince(l[2], now.began)
    BY <1>10 DEF LinksWereShown
  <2>1. CASE l \in links
    <3>1. l[2] \in Items /\ Nested(rows, l)
      BY <2>1, <1>4, <1>6, CatalogConstants
    <3>2. db[l[2]].shown
      BY <3>1 DEF Nested, OfProject, OfExperience, OfArticleOrProfile, Published
    <3>3. KindOf[l[1]] = "project" /\ KindOf[l[2]] # "media" => Indexable(l[2])
      BY <3>1 DEF Nested, OfProject
    <3> QED BY <3>1, <3>2, <3>3, <1>15
  <2>2. CASE l \in now.links
    BY <2>2, <1>3 DEF Sound, LinksWereShown
  <2> QED BY <2>1, <2>2
<1>18. Sound(then)
  BY <1>3, <1>10, <1>16, <1>17 DEF Sound, InTime
<1>19. ASSUME NEW q \in Readers, reading'[q].mode # "idle" PROVE Sound(reading[q])'
  <2> DEFINE held == reading'[q]
  <2>1. Sound(held)
    <3>1. CASE q = r
      BY <3>1, <1>9, <1>18
    <3>2. CASE q # r
      BY <3>2, <1>9, <1>19 DEF CatalogIInv
    <3> QED BY <3>1, <3>2
  <2> QED
    BY <2>1, <1>2 DEF Sound, RowsWereShown, LinksWereShown, InTime, ShownSince, IndexableSince, Indexable
<1> QED BY <1>12, <1>13, <1>19 DEF CatalogIInv

\* Whatever the readers do with it, a step changes the catalog in one of these ways.
CatalogMove ==
    \/ UNCHANGED <<db, last, clock, reading>> /\ edits' \in 0..MaxEdits
    \/ Edit \/ Tick
    \/ \E r \in Readers : \E s \in Sessions : Execute(r, s)
    \/ \E r \in Readers : \E mode \in {"all", "search"} :
         Begin(r, mode) /\ UNCHANGED <<db, last, clock, edits>>
    \/ \E r \in Readers : /\ reading' = [reading EXCEPT ![r] = NoReading]
                          /\ UNCHANGED <<db, last, clock, edits>>

LEMMA CatalogKeeps ==
    ASSUME CatalogIInv, CatalogMove
    PROVE  CatalogIInv'
<1>1. CASE UNCHANGED <<db, last, clock, reading>> /\ edits' \in 0..MaxEdits
  BY <1>1 DEF CatalogIInv, CatalogShape, CatalogTypeOK, Sound, RowsWereShown, LinksWereShown,
              InTime, ShownSince, IndexableSince, Indexable
<1>2. CASE Edit
  BY <1>2, EditKeeps
<1>3. CASE Tick
  BY <1>3, TickShape
<1>4. CASE \E r \in Readers : \E s \in Sessions : Execute(r, s)
  BY <1>4, ExecuteKeeps
<1>5. CASE \E r \in Readers : \E mode \in {"all", "search"} :
             Begin(r, mode) /\ UNCHANGED <<db, last, clock, edits>>
  BY <1>5, BeginShape
<1>6. CASE \E r \in Readers : /\ reading' = [reading EXCEPT ![r] = NoReading]
                              /\ UNCHANGED <<db, last, clock, edits>>
  BY <1>6, EndShape
<1> QED BY <1>1, <1>2, <1>3, <1>4, <1>5, <1>6 DEF CatalogMove

LEMMA MovesForward ==
    ASSUME CatalogIInv, CatalogMove
    PROVE  clock \in Nat /\ clock' \in Nat /\ clock' >= clock
<1>1. clock \in Nat
  BY CatalogConstants DEF CatalogIInv, CatalogTypeOK
<1>2. clock' = clock \/ clock' = clock + 1
  <2>1. ASSUME NEW r \in Readers, NEW s \in Sessions, Execute(r, s) PROVE clock' = clock
    <3>1. PICK n \in Ahead(reading[r], s) : Statement(r, s, n)
      BY <2>1 DEF Execute
    <3> QED BY <3>1 DEF Statement
  <2>2. CASE Edit
    BY <2>2, EditShape DEF CatalogIInv
  <2> QED BY <2>1, <2>2 DEF CatalogMove, Tick
<1> QED BY <1>1, <1>2

\* What was so of a row since t is so of it after the step.
LEMMA CatalogPersists ==
    ASSUME CatalogIInv, CatalogMove, NEW i \in Items, NEW t \in Int, t <= clock
    PROVE  /\ ShownSince(i, t) => ShownSince(i, t)'
           /\ IndexableSince(i, t) => IndexableSince(i, t)'
<1>1. CASE Edit
  BY <1>1, EditPersists DEF CatalogIInv
<1>2. CASE UNCHANGED <<db, last>>
  BY <1>2 DEF ShownSince, IndexableSince, Indexable
<1>3. Edit \/ UNCHANGED <<db, last>>
  <2>1. ASSUME NEW r \in Readers, NEW s \in Sessions, Execute(r, s) PROVE UNCHANGED <<db, last>>
    <3>1. PICK n \in Ahead(reading[r], s) : Statement(r, s, n)
      BY <2>1 DEF Execute
    <3> QED BY <3>1 DEF Statement
  <2> QED BY <2>1 DEF CatalogMove, Tick
<1> QED BY <1>1, <1>2, <1>3

LEMMA CatalogStarts ==
    ASSUME CatalogInit
    PROVE  CatalogIInv
<1>1. CatalogShape
  <2>1. db \in [Items -> Row]
    BY DEF CatalogInit, Row
  <2>2. last \in [Items -> [shown : Nat, indexable : Nat]]
    BY DEF CatalogInit
  <2> QED BY <2>1, <2>2, EmptySnapshot DEF CatalogInit, CatalogShape
<1>2. CatalogTypeOK
  <2>1. clock \in Boot..(Boot + MaxClock) /\ edits \in 0..MaxEdits /\ clock >= 0
    BY CatalogConstants DEF CatalogInit
  <2>2. \A i \in Items : last[i].indexable = 0 /\ last[i].shown = 0
    BY DEF CatalogInit
  <2>3. \A r \in Readers : reading[r] = NoReading
    BY DEF CatalogInit
  <2>4. /\ \A s \in Sessions : NoReading.at[s] = 0
        /\ DOMAIN NoReading.rows = {} /\ NoReading.links = {} /\ NoReading.mode = "idle"
    BY EmptySnapshot DEF NoReading
  <2> QED BY <1>1, <2>1, <2>2, <2>3, <2>4 DEF CatalogTypeOK, CatalogShape
<1>3. \A r \in Readers : reading[r].mode = "idle"
  BY EmptySnapshot DEF CatalogInit
<1> QED BY <1>1, <1>2, <1>3 DEF CatalogIInv

-----------------------------------------------------------------------------
(* DiscoveryService.                                                       *)

\* What the documents carry was public since t, what they let crawlers index
\* was indexable since t.
AsOf(documents, t) ==
    \A d \in documents :
        /\ d.shows \subseteq Items
        /\ \A i \in d.shows : ShownSince(i, t)
        /\ ~d.noindex => \A i \in Items : PathOf(i) = d.path => IndexableSince(i, t)

LEMMA Paths ==
    /\ \A i, j \in Items : PathOf(i) = PathOf(j) => i = j
    /\ \A i \in Items : KindOf[i] = "profile" <=> PathOf(i) = Home
    /\ \A i \in Items : \A n : n # "/" => PathOf(i) # <<n>>
<1>1. ASSUME NEW i \in Items, NEW n PROVE <<KindOf[i], i>> # <<n>>
  <2>1. Len(<<KindOf[i], i>>) = 2 /\ Len(<<n>>) = 1
    OBVIOUS
  <2> QED BY <2>1
<1>2. ASSUME NEW i \in Items, NEW j \in Items, <<KindOf[i], i>> = <<KindOf[j], j>> PROVE i = j
  BY <1>2
<1>3. \A i, j \in Items : KindOf[i] = "profile" /\ KindOf[j] = "profile" => i = j
  BY CatalogAssumption DEF CatalogAssumption
<1>4. \A i \in Items : KindOf[i] = "profile" <=> PathOf(i) = Home
  BY <1>1 DEF PathOf, Home
<1>5. \A i, j \in Items : PathOf(i) = PathOf(j) => i = j
  BY <1>1, <1>2, <1>3 DEF PathOf, Home
<1>6. \A n : n # "/" => Home # <<n>>
  BY DEF Home
<1>7. \A i \in Items : \A n : n # "/" => PathOf(i) # <<n>>
  BY <1>1, <1>6 DEF PathOf
<1> QED BY <1>4, <1>5, <1>7

LEMMA DocumentsAsOf ==
    ASSUME NEW snap \in Snapshots, Sound(snap)
    PROVE  AsOf(DiscoveryDocuments(snap), snap.began)
<1> DEFINE t == snap.began
           seen == {i \in Items : ShownSince(i, t)}
<1>1. DOMAIN snap.rows \subseteq seen
  BY DEF Sound, RowsWereShown, Snapshots
<1>2. ASSUME NEW kinds PROVE Of(snap, kinds) \subseteq DOMAIN snap.rows
  BY DEF Of
<1>3. ASSUME NEW owner, NEW kinds PROVE Members(snap, owner, kinds) \subseteq seen
  <2>1. \A l \in snap.links : l[2] \in seen
    BY CatalogConstants DEF Sound, LinksWereShown, Snapshots
  <2> QED BY <2>1 DEF Members
<1>4. Keywords(snap) \subseteq seen /\ Author(snap) \subseteq seen
  BY <1>1, <1>2 DEF Keywords, Author
<1>5. \A i \in DOMAIN snap.rows : i \in Items /\ (~snap.rows[i] => IndexableSince(i, t))
  BY <1>1 DEF Sound, RowsWereShown
\* The document of one row, at the row's own page.
<1>6. ASSUME NEW i \in DOMAIN snap.rows, NEW shows \in SUBSET seen
      PROVE  AsOf({Document(PathOf(i), snap.rows[i], shows)}, t)
  <2> DEFINE d == Document(PathOf(i), snap.rows[i], shows)
  <2>1. d.path = PathOf(i) /\ d.noindex = snap.rows[i] /\ d.shows = shows
    BY DEF Document
  <2>2. \A j \in Items : PathOf(j) = PathOf(i) => j = i
    BY <1>5, <1>6, Paths
  <2> SUFFICES AsOf({d}, t)
    OBVIOUS
  <2> HIDE DEF d
  <2> QED BY <2>1, <2>2, <1>5, <1>6 DEF AsOf
<1> HIDE DEF seen, t
<1>7. AsOf(ProfileDocuments(snap), t)
  <2> SUFFICES ASSUME NEW i \in Of(snap, {"profile"})
               PROVE  AsOf({Document(Home, snap.rows[i],
                              {i} \cup Members(snap, i, {"portrait"}) \cup Keywords(snap))}, t)
    BY DEF ProfileDocuments, AsOf
  <2>1. i \in DOMAIN snap.rows /\ i \in seen /\ PathOf(i) = Home
    BY <1>1, <1>2 DEF Of, PathOf
  <2> QED BY <2>1, <1>3, <1>4, <1>6
<1>8. AsOf(ProjectDocuments(snap), t)
  <2> SUFFICES ASSUME NEW i \in Of(snap, {"project"})
               PROVE  AsOf({Document(PathOf(i), snap.rows[i],
                              {i} \cup Members(snap, i, {"skill", "sector", "media"})
                                  \cup Author(snap))}, t)
    BY DEF ProjectDocuments, AsOf
  <2>1. i \in DOMAIN snap.rows /\ i \in seen
    BY <1>1, <1>2
  <2> QED BY <2>1, <1>3, <1>4, <1>6
<1>9. AsOf(ArticleDocuments(snap), t)
  <2> SUFFICES ASSUME NEW i \in Of(snap, {"article"})
               PROVE  AsOf({Document(PathOf(i), snap.rows[i],
                              {i} \cup Members(snap, i, {"media"}) \cup Author(snap))}, t)
    BY DEF ArticleDocuments, AsOf
  <2>1. i \in DOMAIN snap.rows /\ i \in seen
    BY <1>1, <1>2
  <2> QED BY <2>1, <1>3, <1>4, <1>6
<1>10. AsOf(SectorDocuments(snap), t)
  <2> SUFFICES ASSUME NEW i \in Of(snap, {"sector"})
               PROVE  LET projects == {p \in Of(snap, {"project"}) : <<p, i>> \in snap.links}
                          skills == UNION {Members(snap, p, {"skill"}) : p \in projects}
                      IN  AsOf({Document(PathOf(i), snap.rows[i],
                                  {i} \cup projects \cup skills \cup Author(snap))}, t)
    BY DEF SectorDocuments, AsOf
  <2> DEFINE projects == {p \in Of(snap, {"project"}) : <<p, i>> \in snap.links}
             skills == UNION {Members(snap, p, {"skill"}) : p \in projects}
  <2>1. i \in DOMAIN snap.rows /\ i \in seen /\ projects \subseteq seen
    BY <1>1, <1>2
  <2>2. skills \subseteq seen
    BY <1>3
  <2> QED BY <2>1, <2>2, <1>4, <1>6
<1>11. AsOf(CollectionDocuments(snap), t)
  <2> DEFINE lists == Collections(snap)
  <2>1. ASSUME NEW n \in DOMAIN lists
        PROVE  n # "/" /\ lists[n] \subseteq seen
    <3>1. n \in {"projects", "writing", "sectors", "work", "achievements", "openSource"}
      BY <2>1 DEF Collections
    <3>2. lists[n] \subseteq DOMAIN snap.rows
      <4>1. /\ lists.projects = Of(snap, {"project"}) /\ lists.writing = Of(snap, {"article"})
            /\ lists.sectors = Of(snap, {"sector"}) /\ lists.work = Of(snap, {"experience"})
            /\ lists.achievements = Of(snap, {"certification", "experience", "education"})
                                      \cup (Of(snap, {"article"}) \cap Marked)
            /\ lists.openSource = Of(snap, {"project"}) \cap Marked
        BY DEF Collections
      <4> HIDE DEF lists
      <4> QED BY <4>1, <3>1, <1>2
    <3>3. n # "/"
      BY <3>1
    <3>4. lists[n] \subseteq seen
      BY <3>2, <1>1
    <3> QED BY <3>3, <3>4
  <2> HIDE DEF lists
  <2>2. ASSUME NEW n \in DOMAIN lists
        PROVE  AsOf({Document(<<n>>, FALSE, lists[n] \cup Keywords(snap) \cup Author(snap))}, t)
    <3> DEFINE d == Document(<<n>>, FALSE, lists[n] \cup Keywords(snap) \cup Author(snap))
    <3>1. d.path = <<n>> /\ d.shows \subseteq seen
      BY <1>4, <2>1, <2>2 DEF Document
    <3>2. \A i \in Items : PathOf(i) # d.path
      BY <3>1, <2>1, <2>2, Paths
    <3> SUFFICES AsOf({d}, t)
      OBVIOUS
    <3> HIDE DEF d
    <3> QED BY <3>1, <3>2 DEF AsOf, seen
  <2> QED BY <2>2 DEF CollectionDocuments, AsOf, lists
<1> QED BY <1>7, <1>8, <1>9, <1>10, <1>11 DEF DiscoveryDocuments, AsOf, t

\* An answer says nothing that no document says.
LEMMA AnswersRepeat ==
    ASSUME NEW documents, NEW a \in Answers(documents)
    PROVE  /\ a.surface \in Surfaces
           /\ \A i \in a.shows : \E d \in documents : i \in d.shows
           /\ \A p \in a.index : \E d \in documents : ~d.noindex /\ d.path = p
<1>1. ASSUME NEW surface \in Surfaces, NEW status, NEW shows, NEW index
      PROVE  /\ Answer(surface, status, shows, index).surface \in Surfaces
             /\ Answer(surface, status, shows, index).shows = shows
             /\ Answer(surface, status, shows, index).index = index
  BY DEF Answer
<1>2. \A surface \in {"page", "sitemap", "robots", "llms"} : surface \in Surfaces
  BY DEF Surfaces
<1>3. ASSUME NEW of \in SUBSET documents
      PROVE  \A p \in PathsOf(IndexedOf(of)) : \E d \in documents : ~d.noindex /\ d.path = p
  BY DEF PathsOf, IndexedOf, ShouldIndex
<1>4. CASE a \in Pages(documents)
  <2>1. ASSUME NEW d \in documents, a = DocumentPage(d)
        PROVE  /\ a.surface \in Surfaces /\ a.shows = d.shows
               /\ \A p \in a.index : ~d.noindex /\ d.path = p
    BY <2>1 DEF DocumentPage, Answer, Carried, PathsOf, IndexedOf, ShouldIndex, Surfaces
  <2>2. ASSUME NEW status, a = Answer("page", status, {}, {})
        PROVE  a.surface \in Surfaces /\ a.shows = {} /\ a.index = {}
    BY <2>2 DEF Answer, Surfaces
  <2>3. \/ \E d \in documents : a = DocumentPage(d)
        \/ \E status : a = Answer("page", status, {}, {})
    <3>1. CASE a \in HomePage(documents)
      <4>1. a = Answer("page", "placeholder", {}, {})
            \/ a \in {DocumentPage(d) : d \in HomeOf(documents)}
        BY <3>1 DEF HomePage
      <4>2. HomeOf(documents) \subseteq documents
        BY DEF HomeOf
      <4> QED BY <4>1, <4>2
    <3>2. CASE a \in {DocumentPage(d) : d \in documents \ HomeOf(documents)}
      BY <3>2
    <3>3. CASE a = Answer("page", "not_found", {}, {})
      BY <3>3
    <3> QED BY <1>4, <3>1, <3>2, <3>3 DEF Pages
  <2> QED BY <2>1, <2>2, <2>3
<1>5. CASE a = Sitemap(documents)
  <2>1. a.surface \in Surfaces /\ a.shows = {} /\ a.index = PathsOf(IndexedOf(documents))
    BY <1>5, <1>1, <1>2 DEF Sitemap
  <2> QED BY <2>1, <1>3
<1>6. CASE a = Robots(documents)
  <2>1. a.surface \in Surfaces /\ a.shows = {} /\ a.index = PathsOf(IndexedOf(HomeOf(documents)))
    BY <1>6, <1>1, <1>2 DEF Robots
  <2>2. HomeOf(documents) \in SUBSET documents
    BY DEF HomeOf
  <2> QED BY <2>1, <2>2, <1>3
<1>7. CASE a = Llms(documents)
  <2>1. CASE IndexedOf(HomeOf(documents)) = {}
    BY <2>1, <1>7, <1>1, <1>2 DEF Llms
  <2>2. CASE IndexedOf(HomeOf(documents)) # {}
    <3>1. /\ a.surface \in Surfaces
          /\ a.shows = UNION {Carried(d) : d \in IndexedOf(documents)}
          /\ a.index = PathsOf(IndexedOf(documents))
      BY <2>2, <1>7, <1>1, <1>2 DEF Llms
    <3>2. \A i \in a.shows : \E d \in documents : i \in d.shows
      BY <3>1 DEF Carried, IndexedOf
    <3> QED BY <3>1, <3>2, <1>3
  <2> QED BY <2>1, <2>2
<1> QED BY <1>4, <1>5, <1>6, <1>7 DEF Answers

\* What the served answers say, if they come from documents as of t.
LEMMA AnswersAreCurrent ==
    ASSUME CatalogIInv, NEW documents, NEW t \in Int, AsOf(documents, t), t >= Horizon,
           NEW a \in Answers(documents) \cup Errors
    PROVE  /\ a.surface \in Surfaces /\ a.shows \subseteq Items
           /\ \A i \in a.shows : ShownSince(i, Horizon)
           /\ \A i \in Items : PathOf(i) \in a.index => IndexableSince(i, Horizon)
<1>1. clock \in Nat /\ Horizon \in Int
  BY CatalogConstants DEF CatalogIInv, CatalogTypeOK, Horizon
<1>2. \A i \in Items : /\ ShownSince(i, t) => ShownSince(i, Horizon)
                       /\ IndexableSince(i, t) => IndexableSince(i, Horizon)
  <2> TAKE i \in Items
  <2>1. last[i].shown \in Nat /\ last[i].indexable \in Nat
    BY DEF CatalogIInv, CatalogShape
  <2> QED BY <2>1, <1>1 DEF ShownSince, IndexableSince
<1>3. CASE a \in Answers(documents)
  <2>1. /\ a.surface \in Surfaces
        /\ \A i \in a.shows : \E d \in documents : i \in d.shows
        /\ \A p \in a.index : \E d \in documents : ~d.noindex /\ d.path = p
    BY <1>3, AnswersRepeat
  <2>2. \A d \in documents : d.shows \subseteq Items /\ \A i \in d.shows : ShownSince(i, t)
    BY DEF AsOf
  <2>3. \A i \in Items, d \in documents : ~d.noindex /\ d.path = PathOf(i) => IndexableSince(i, t)
    BY DEF AsOf
  <2> QED BY <2>1, <2>2, <2>3, <1>2
<1>4. CASE a \in Errors
  <2>1. a = Robots({}) \/ \E s \in Surfaces : a = Answer(s, "error", {}, {})
    BY <1>4 DEF Errors
  <2>2. a \in Answers({}) \/ \E s \in Surfaces : a = Answer(s, "error", {}, {})
    BY <2>1 DEF Answers
  <2>3. a.surface \in Surfaces /\ a.shows = {} /\ a.index = {}
    <3>1. CASE a \in Answers({})
      BY <3>1, AnswersRepeat
    <3>2. CASE \E s \in Surfaces : a = Answer(s, "error", {}, {})
      BY <3>2 DEF Answer
    <3> QED BY <2>2, <3>1, <3>2
  <2> QED BY <2>3
<1> QED BY <1>3, <1>4

DiscoveryIInv ==
    /\ CatalogIInv
    /\ lastGoodAt \in Nat /\ lastGoodAt <= clock
    /\ AsOf(lastGood, lastGoodAt - ReadTime)
    /\ \A a \in served : a.surface \in Surfaces /\ a.shows \subseteq Items
    /\ NothingWithdrawnLingers
    /\ IndexedPagesWereIndexable

LEMMA AsOfPersists ==
    ASSUME CatalogIInv, CatalogMove, NEW documents, NEW t \in Int, t <= clock, AsOf(documents, t)
    PROVE  AsOf(documents, t)'
<1>1. \A i \in Items : /\ ShownSince(i, t) => ShownSince(i, t)'
                       /\ IndexableSince(i, t) => IndexableSince(i, t)'
  BY CatalogPersists
<1> QED BY <1>1 DEF AsOf, ShownSince, IndexableSince, Indexable

LEMMA FinishMoves ==
    ASSUME NEW r \in Readers, NEW answers, Finish(r, answers)
    PROVE  CatalogMove /\ UNCHANGED <<db, last, clock>> /\ served' = answers
BY DEF Finish, CatalogMove

LEMMA DiscoveryInvariance == DiscoverySpec => []DiscoveryIInv
<1>1. CatalogInit /\ DiscoveryInit => DiscoveryIInv
  <2> SUFFICES ASSUME CatalogInit, DiscoveryInit PROVE DiscoveryIInv
    OBVIOUS
  <2>1. CatalogIInv
    BY CatalogStarts
  <2>2. clock \in Nat
    BY <2>1, CatalogConstants DEF CatalogIInv, CatalogTypeOK
  <2>3. AsOf(lastGood, lastGoodAt - ReadTime)
    BY DEF DiscoveryInit, AsOf
  <2> QED BY <2>1, <2>2, <2>3
          DEF DiscoveryInit, DiscoveryIInv, NothingWithdrawnLingers, IndexedPagesWereIndexable
<1>2. DiscoveryIInv /\ [DiscoveryNext]_<<catalogVars, discoveryVars>> => DiscoveryIInv'
  <2> SUFFICES ASSUME DiscoveryIInv, [DiscoveryNext]_<<catalogVars, discoveryVars>>
               PROVE  DiscoveryIInv'
    OBVIOUS
  <2>1. /\ CatalogIInv /\ clock \in Nat /\ lastGoodAt \in Nat /\ lastGoodAt <= clock
        /\ lastGoodAt - ReadTime \in Int /\ lastGoodAt - ReadTime <= clock
    BY CatalogConstants DEF DiscoveryIInv, CatalogIInv, CatalogTypeOK
  \* A step that serves nothing and keeps the documents.
  <2>2. ASSUME CatalogMove, Quiet PROVE DiscoveryIInv'
    <3>1. CatalogIInv'
      BY <2>1, <2>2, CatalogKeeps
    <3>2. clock' >= clock /\ clock' \in Nat
      BY <2>1, <2>2, MovesForward
    <3>3. AsOf(lastGood, lastGoodAt - ReadTime)'
      <4> DEFINE documents == lastGood
                 t == lastGoodAt - ReadTime
      <4>1. documents' = documents /\ t' = t /\ t \in Int /\ t <= clock /\ AsOf(documents, t)
        BY <2>1, <2>2 DEF Quiet, DiscoveryIInv
      <4> HIDE DEF documents, t
      <4>2. \A D, u : CatalogIInv /\ CatalogMove /\ u \in Int /\ u <= clock /\ AsOf(D, u)
                        => AsOf(D, u)'
        BY AsOfPersists
      <4>3. AsOf(documents, t)'
        BY <4>1, <4>2, <2>1, <2>2 DEF AsOf, ShownSince, IndexableSince, Indexable
      <4> QED BY <4>3 DEF documents, t
    <3> QED BY <3>1, <3>2, <3>3, <2>1, <2>2
            DEF DiscoveryIInv, Quiet, NothingWithdrawnLingers, IndexedPagesWereIndexable
  \* A request that ends, and what it serves.
  <2>3. ASSUME NEW r \in Readers, NEW documents, NEW t \in Int, NEW answers,
               AsOf(documents, t), t >= Horizon, answers \subseteq Answers(documents) \cup Errors,
               Finish(r, answers),
               lastGoodAt' \in Nat, lastGoodAt' <= clock, AsOf(lastGood', lastGoodAt' - ReadTime)
        PROVE  DiscoveryIInv'
    <3>1. CatalogIInv' /\ UNCHANGED <<db, last, clock>> /\ served' = answers
      BY <2>1, <2>3, FinishMoves, CatalogKeeps
    <3>2. \A a \in answers :
            /\ a.surface \in Surfaces /\ a.shows \subseteq Items
            /\ \A i \in a.shows : ShownSince(i, Horizon)
            /\ \A i \in Items : PathOf(i) \in a.index => IndexableSince(i, Horizon)
      BY <2>1, <2>3, AnswersAreCurrent
    <3>3. AsOf(lastGood, lastGoodAt - ReadTime)'
      BY <2>3, <3>1 DEF AsOf, ShownSince, IndexableSince, Indexable
    <3>4. \A i \in Items : /\ ShownSince(i, Horizon) => ShownSince(i, Horizon)'
                           /\ IndexableSince(i, Horizon) => IndexableSince(i, Horizon)'
      BY <3>1 DEF ShownSince, IndexableSince, Indexable, Horizon
    <3>5. NothingWithdrawnLingers' /\ IndexedPagesWereIndexable'
      BY <3>1, <3>2, <3>4 DEF NothingWithdrawnLingers, IndexedPagesWereIndexable
    <3> QED BY <3>1, <3>2, <3>3, <3>5, <2>3 DEF DiscoveryIInv
  <2>4. ASSUME NEW r \in Readers, Request(r), Quiet PROVE DiscoveryIInv'
    <3>1. CatalogMove
      BY <2>4 DEF Request, CatalogMove
    <3> QED BY <3>1, <2>2, <2>4
  <2>5. ASSUME NEW r \in Readers, NEW s \in Sessions, Execute(r, s), Quiet PROVE DiscoveryIInv'
    <3>1. CatalogMove
      BY <2>5 DEF CatalogMove
    <3> QED BY <3>1, <2>2, <2>5
  <2>6. ASSUME NEW r \in Readers, ReadDocuments(r) PROVE DiscoveryIInv'
    <3> DEFINE documents == DiscoveryDocuments(reading[r])
               t == clock - ReadTime
    <3>1. /\ reading[r].mode # "idle" /\ lastGood' = documents /\ lastGoodAt' = clock
          /\ Finish(r, Answers(documents))
      BY <2>6 DEF ReadDocuments, Complete
    <3>2. reading[r] \in Snapshots /\ Sound(reading[r]) /\ reading[r].began \in Nat
      BY <3>1, <2>1 DEF CatalogIInv, CatalogShape, Snapshots
    <3>3. AsOf(documents, reading[r].began)
      BY <3>2, DocumentsAsOf
    <3>4. t \in Int /\ t >= Horizon /\ t <= reading[r].began
      BY <3>2, <2>1, CatalogConstants DEF Sound, InTime, Horizon
    <3>5. \A i \in Items : /\ ShownSince(i, reading[r].began) => ShownSince(i, t)
                           /\ IndexableSince(i, reading[r].began) => IndexableSince(i, t)
      <4> TAKE i \in Items
      <4>1. last[i].shown \in Nat /\ last[i].indexable \in Nat
        BY <2>1 DEF CatalogIInv, CatalogShape
      <4> HIDE DEF t
      <4> QED BY <4>1, <3>2, <3>4 DEF ShownSince, IndexableSince
    <3>6. AsOf(documents, t)
      <4> HIDE DEF documents, t
      <4> QED BY <3>3, <3>5 DEF AsOf
    <3>7. AsOf(lastGood', lastGoodAt' - ReadTime)
      BY <3>1, <3>6
    <3> HIDE DEF documents, t
    <3> QED BY <2>1, <2>3, <3>1, <3>4, <3>6, <3>7
  <2>7. ASSUME NEW r \in Readers, ReadFails(r) PROVE DiscoveryIInv'
    <3>1. /\ Finish(r, IF Fresh THEN Answers(lastGood) ELSE Errors)
          /\ lastGood' = lastGood /\ lastGoodAt' = lastGoodAt
      BY <2>7 DEF ReadFails
    <3>2. AsOf(lastGood', lastGoodAt' - ReadTime)
      BY <3>1 DEF DiscoveryIInv
    <3>3. CASE Fresh
      <4>1. lastGoodAt - ReadTime >= Horizon
        BY <3>3, <2>1, CatalogConstants DEF Fresh, Horizon
      <4>2. AsOf(lastGood, lastGoodAt - ReadTime) /\ Finish(r, Answers(lastGood))
        BY <3>1, <3>3 DEF DiscoveryIInv
      <4> QED BY <4>1, <4>2, <3>1, <3>2, <2>1, <2>3
    <3>4. CASE ~Fresh
      <4>1. AsOf({}, clock) /\ clock >= Horizon /\ clock \in Int
        BY <2>1, CatalogConstants DEF AsOf, Horizon
      <4>2. Finish(r, Errors)
        BY <3>1, <3>4
      <4> QED BY <4>1, <4>2, <3>1, <3>2, <2>1, <2>3
    <3> QED BY <3>3, <3>4
  <2>8. CASE (Edit \/ Tick) /\ Quiet
    BY <2>8, <2>2 DEF CatalogMove
  <2>9. CASE UNCHANGED <<catalogVars, discoveryVars>>
    <3>1. CatalogMove
      BY <2>9, <2>1 DEF CatalogMove, catalogVars, CatalogIInv, CatalogTypeOK
    <3>2. CatalogIInv'
      BY <2>1, <3>1, CatalogKeeps
    <3> QED BY <3>2, <2>9
            DEF DiscoveryIInv, catalogVars, discoveryVars, AsOf, ShownSince, IndexableSince, Indexable,
                NothingWithdrawnLingers, IndexedPagesWereIndexable, Horizon
  <2> QED BY <2>4, <2>5, <2>6, <2>7, <2>8, <2>9 DEF DiscoveryNext, DiscoveryStep
<1> QED BY <1>1, <1>2, PTL DEF DiscoverySpec

(***************************************************************************)
(* For any rows, relations, readers and times: whatever a crawler is told, *)
(* however requests, failing statements and administrators interleave, was *)
(* published, and indexable where that matters, no longer ago than one     *)
(* reading and the time for which the last good documents may be served.   *)
(***************************************************************************)
THEOREM CrawlersStayCurrent == DiscoverySpec => []CrawlersAreCurrent
<1>1. DiscoveryIInv => CrawlersAreCurrent
  BY DEF DiscoveryIInv, CatalogIInv, CatalogTypeOK, CrawlersAreCurrent, DiscoveryTypeOK, AsOf
<1> QED BY <1>1, DiscoveryInvariance, PTL

-----------------------------------------------------------------------------
(* AssistantService.                                                       *)

\* The sources of a context, what they quote and the pages they point to were
\* indexable since t.
WereIndexable(document, t) ==
    /\ \A i \in document.quotes : i \in Items /\ IndexableSince(i, t)
    /\ \A i \in Items : document.url = PathOf(i) /\ KindOf[i] # "profile" => IndexableSince(i, t)

LEMMA SourceIsIndexable ==
    ASSUME NEW snap \in Snapshots, Sound(snap), NEW d \in AssistantDocuments(snap), Authorized(d)
    PROVE  WereIndexable(d, snap.began)
<1> DEFINE t == snap.began
<1>1. PICK i \in DOMAIN snap.rows :
        /\ d = AssistantDocument(snap, i)
        /\ KindOf[i] \in {"profile", "project", "article", "skill", "sector", "experience",
                          "metric", "testimonial"}
  BY DEF AssistantDocuments, MainDocuments, FactDocuments, Of
<1>2. /\ i \in Items /\ IndexableSince(i, t)
      /\ KindOf[i] \in EvidenceKinds => \A p \in Owners(i) : IndexableSince(p, t)
  <2>1. ~snap.rows[i]
    BY <1>1 DEF Authorized, AssistantDocument
  <2> QED BY <2>1 DEF Sound, RowsWereShown, Snapshots
<1>3. \A j \in d.quotes : j \in Items /\ IndexableSince(j, t)
  <2>1. SUFFICES ASSUME NEW j \in Members(snap, i, IF KindOf[i] = "project" THEN {"metric"} ELSE {})
                 PROVE  j \in Items /\ IndexableSince(j, t)
    BY <1>1, <1>2 DEF AssistantDocument
  <2>2. PICK l \in snap.links :
          l[2] = j /\ l[1] = i /\ KindOf[j] \in IF KindOf[i] = "project" THEN {"metric"} ELSE {}
    BY DEF Members
  <2>3. KindOf[l[1]] = "project" /\ KindOf[l[2]] # "media" /\ l \in Links
    BY <2>2 DEF Snapshots
  <2> QED BY <2>2, <2>3, CatalogConstants DEF Sound, LinksWereShown
<1>4. ASSUME NEW j \in Items, d.url = PathOf(j), KindOf[j] # "profile"
      PROVE  IndexableSince(j, t)
  <2>1. d.url = CitedPath(snap, i)
    BY <1>1 DEF AssistantDocument
  <2>2. PathOf(j) # Home /\ PathOf(j) # Work
    BY <1>4, Paths DEF Work
  <2>3. CASE KindOf[i] \in EvidenceKinds
    <3> DEFINE projects == Owners(i) \cap Of(snap, {"project"})
    <3>1. d.url = EvidencePath(snap, i)
      BY <2>1, <2>3 DEF CitedPath, EvidenceKinds
    <3>2. projects # {} /\ d.url = PathOf(CHOOSE p \in projects : TRUE)
      BY <3>1, <2>2, <1>4 DEF EvidencePath
    <3>3. \A p \in projects : p \in Items /\ IndexableSince(p, t)
      BY <1>2, <2>3, CatalogConstants
    <3> DEFINE p == CHOOSE p \in projects : TRUE
    <3>4. p \in projects
      BY <3>2
    <3> HIDE DEF p, projects
    <3>5. p = j
      BY <3>2, <3>3, <3>4, <1>4, Paths DEF p
    <3> QED BY <3>3, <3>4, <3>5
  <2>4. CASE KindOf[i] \in {"profile", "skill", "experience"}
    <3>1. CitedPath(snap, i) = Home \/ CitedPath(snap, i) = Work
      BY <2>4 DEF CitedPath, EvidenceKinds
    <3> QED BY <3>1, <2>1, <2>2, <1>4
  <2>5. CASE KindOf[i] \in {"project", "article", "sector"}
    <3>1. CitedPath(snap, i) = PathOf(i)
      BY <2>5 DEF CitedPath, EvidenceKinds
    <3> QED BY <3>1, <2>1, <1>2, <1>4, Paths
  <2> QED BY <1>1, <2>3, <2>4, <2>5 DEF EvidenceKinds
<1> QED BY <1>3, <1>4 DEF WereIndexable

\* Ranking and cutting select among the documents, and keep the order of a sequence.
LEMMA RankedSelects ==
    ASSUME NEW documents, NEW best \in Ranked(documents)
    PROVE  /\ Len(best) \in Nat /\ DOMAIN best = 1..Len(best)
           /\ \A n \in DOMAIN best : best[n] \in documents
           /\ \A j, k \in DOMAIN best : best[j] = best[k] => j = k
<1>1. PICK m \in 0..MaxSources : best \in [1..m -> documents]
  BY DEF Ranked, SeqOf
<1>2. m \in Nat
  BY <1>1, AssistantAssumption DEF AssistantAssumption
<1>3. Len(best) = m
  BY <1>1, <1>2
<1>4. \A j, k \in 1..m : j < k => best[j] # best[k]
  BY <1>1 DEF Ranked
<1>5. \A j, k \in 1..m : best[j] = best[k] => j = k
  BY <1>2, <1>4
<1> QED BY <1>1, <1>2, <1>3, <1>5

LEMMA SearchSelects ==
    ASSUME NEW snap, NEW documents \in Search(snap)
    PROVE  /\ Len(documents) \in Nat /\ DOMAIN documents = 1..Len(documents)
           /\ \A n \in DOMAIN documents : /\ documents[n] \in AssistantDocuments(snap)
                                          /\ Authorized(documents[n])
           /\ \A m, n \in DOMAIN documents : documents[m].url = documents[n].url => m = n
<1>1. PICK found \in SearchPublished(snap) :
        \E chosen \in BestOfPage({d \in Range(found) : Authorized(d)}) : documents \in Ranked(chosen)
  BY DEF Search
<1>2. PICK chosen \in BestOfPage({d \in Range(found) : Authorized(d)}) : documents \in Ranked(chosen)
  BY <1>1
<1>3. \A d \in Range(found) : d \in AssistantDocuments(snap)
  <2>1. \A n \in DOMAIN found : found[n] \in {d \in AssistantDocuments(snap) : Score[d.source] > 0}
    BY RankedSelects DEF SearchPublished
  <2> QED BY <2>1 DEF Range
<1>4. \A d \in chosen : d \in AssistantDocuments(snap) /\ Authorized(d)
  BY <1>3 DEF BestOfPage
<1>5. \A d, e \in chosen : d.url = e.url => d = e
  BY DEF BestOfPage
<1> QED BY <1>2, <1>4, <1>5, RankedSelects

LEMMA ContextSelects ==
    ASSUME NEW documents, Len(documents) \in Nat, NEW context \in Contexts(documents)
    PROVE  \A n \in DOMAIN context : n \in 1..Len(documents) /\ context[n].document = documents[n]
<1>1. PICK whole \in 0..Len(documents) : context = BuildContext(documents, whole)
  BY DEF Contexts
<1> DEFINE room == MaxContext - Used(documents, whole)
           size == IF whole < Len(documents) /\ room > 0 THEN whole + 1 ELSE whole
<1>2. size \in 0..Len(documents)
  <2> HIDE DEF room
  <2> QED OBVIOUS
<1>3. context = [n \in 1..size |->
                   Entry(documents[n], IF n <= whole THEN Excerpt(documents[n])
                                       ELSE SubSeq(Excerpt(documents[n]), 1, room - 1))]
  BY <1>1 DEF BuildContext
<1>4. \A n, e : Entry(documents[n], e).document = documents[n]
  BY DEF Entry
<1>5. DOMAIN context = 1..size /\ \A n \in 1..size : context[n].document = documents[n]
  BY <1>3, <1>4
<1> HIDE DEF room, size
<1> QED BY <1>2, <1>5

\* A document is of a row, and quotes rows.
LEMMA DocumentsAreOfRows ==
    ASSUME NEW snap \in Snapshots, NEW d \in AssistantDocuments(snap)
    PROVE  d.source \in Items /\ d.quotes \subseteq Items
<1>1. PICK i \in DOMAIN snap.rows : d = AssistantDocument(snap, i)
  BY DEF AssistantDocuments, MainDocuments, FactDocuments, Of
<1>2. d.source = i /\ \E kinds : d.quotes = {i} \cup Members(snap, i, kinds)
  BY <1>1 DEF AssistantDocument
<1> QED BY <1>2, CatalogAssumption DEF Members, Snapshots, CatalogAssumption

\* A set of rows is turned into a sequence of titles.
LEMMA SequenceOfSet ==
    ASSUME NEW S, IsFiniteSet(S)
    PROVE  Cardinality(S) \in Nat /\ SetToSeq(S) \in [1..Cardinality(S) -> S]
<1>1. Cardinality(S) \in Nat /\ ExistsBijection(1..Cardinality(S), S)
  BY FS_CardinalityType
<1>2. \E f \in [1..Cardinality(S) -> S] : IsInjective(f)
  BY <1>1 DEF ExistsBijection, Bijection, Injection, IsInjective
<1> QED BY <1>1, <1>2 DEF SetToSeq

\* An excerpt is a sequence of facts, however many rows the document quotes.
LEMMA ExcerptIsSequence ==
    ASSUME NEW d, d.source \in Items, d.quotes \subseteq Items
    PROVE  Excerpt(d) \in Seq(Items \X Nat) /\ Len(Excerpt(d)) \in Nat
<1> DEFINE quoted == d.quotes \ {d.source}
           titles == {<<m, 0>> : m \in quoted}
           own == [n \in 1..Facts[d.source] |-> <<d.source, n>>]
<1>1. IsFiniteSet(quoted)
  BY FS_Subset, AssistantAssumption DEF AssistantAssumption
<1>2. IsFiniteSet(titles)
  <2>1. [m \in quoted |-> <<m, 0>>] \in Surjection(quoted, titles)
    BY DEF Surjection
  <2> QED BY <2>1, <1>1, FS_Surjection
<1>3. titles \subseteq Items \X Nat
  OBVIOUS
<1>4. SetToSeq(titles) \in Seq(Items \X Nat)
  <2>1. Cardinality(titles) \in Nat /\ SetToSeq(titles) \in [1..Cardinality(titles) -> titles]
    BY <1>2, SequenceOfSet
  <2>2. \A f, n : n \in Nat /\ f \in [1..n -> titles] => f \in Seq(Items \X Nat)
    BY <1>3
  <2> QED BY <2>1, <2>2
<1>5. own \in Seq(Items \X Nat)
  <2>1. Facts[d.source] \in Nat
    BY AssistantAssumption DEF AssistantAssumption
  <2> QED BY <2>1
<1>6. Excerpt(d) = own \o SetToSeq(titles)
  BY DEF Excerpt
<1> HIDE DEF own, titles, quoted
<1> QED BY <1>4, <1>5, <1>6

\* Entries of finite length take finitely many places.
LEMMA PlacesAreFinite ==
    ASSUME NEW n \in Nat, NEW context, DOMAIN context = 1..n,
           \A k \in 1..n : Len(context[k].excerpt) \in Nat
    PROVE  IsFiniteSet(Places(context)) /\ Size(context) \in Nat
<1> DEFINE taken(k) == {k} \X (0..Len(context[k].excerpt))
           all == {taken(k) : k \in 1..n}
<1>1. ASSUME NEW k \in 1..n PROVE IsFiniteSet(taken(k))
  <2>1. 0 \in Int /\ Len(context[k].excerpt) \in Int
    OBVIOUS
  <2>2. IsFiniteSet(0..Len(context[k].excerpt))
    BY <2>1, FS_Interval
  <2>3. IsFiniteSet({k})
    BY FS_Singleton
  <2> QED BY <2>2, <2>3, FS_Product
<1>2. IsFiniteSet(all)
  <2>1. [k \in 1..n |-> taken(k)] \in Surjection(1..n, all)
    BY DEF Surjection
  <2> HIDE DEF all
  <2> QED BY <2>1, FS_Surjection, FS_Interval
<1>3. \A T \in all : IsFiniteSet(T)
  <2> HIDE DEF taken
  <2> QED BY <1>1
<1>4. Places(context) = UNION all
  BY DEF Places
<1> HIDE DEF all
<1>5. IsFiniteSet(Places(context))
  BY <1>2, <1>3, <1>4, FS_UNION
<1> QED BY <1>5, FS_CardinalityType DEF Size

\* Whatever is cut off, what is sent stays within the budget.
LEMMA ContextFits ==
    ASSUME NEW documents, Len(documents) \in Nat,
           \A n \in 1..Len(documents) : Len(Excerpt(documents[n])) \in Nat,
           NEW context \in Contexts(documents)
    PROVE  Size(context) <= MaxContext
<1>1. PICK whole \in 0..Len(documents) :
        Used(documents, whole) <= MaxContext /\ context = BuildContext(documents, whole)
  BY DEF Contexts
<1> DEFINE before == Whole(documents, whole)
           room == MaxContext - Used(documents, whole)
           cut == SubSeq(Excerpt(documents[whole + 1]), 1, room - 1)
<1>2. DOMAIN before = 1..whole /\ \A n \in 1..whole : before[n] = Entry(documents[n], Excerpt(documents[n]))
  BY DEF Whole
<1>3. whole \in Nat /\ IsFiniteSet(Places(before)) /\ Used(documents, whole) \in Nat
  <2>1. ASSUME NEW n \in 1..whole PROVE Len(before[n].excerpt) \in Nat
    <3>1. before[n].excerpt = Excerpt(documents[n])
      BY <1>2 DEF Entry
    <3>2. n \in 1..Len(documents)
      OBVIOUS
    <3> QED BY <3>1, <3>2
  <2> HIDE DEF before
  <2> QED BY <2>1, <1>2, PlacesAreFinite DEF Used, before
<1>4. room \in Nat
  BY <1>1, <1>3, AssistantAssumption DEF AssistantAssumption
<1>5. CASE ~(whole < Len(documents) /\ room > 0)
  <2>1. context = [n \in 1..whole |-> Entry(documents[n], Excerpt(documents[n]))]
    BY <1>1, <1>5, <1>3 DEF BuildContext
  <2> QED BY <2>1, <1>1 DEF Used, Whole
<1>6. CASE whole < Len(documents) /\ room > 0
  <2>1. /\ DOMAIN context = 1..(whole + 1)
        /\ \A n \in 1..whole : context[n] = before[n]
        /\ context[whole + 1] = Entry(documents[whole + 1], cut)
    <3>1. context = [n \in 1..(whole + 1) |->
                       Entry(documents[n], IF n <= whole THEN Excerpt(documents[n])
                                           ELSE SubSeq(Excerpt(documents[n]), 1, room - 1))]
      BY <1>1, <1>6 DEF BuildContext
    <3> HIDE DEF room, before
    <3> QED BY <3>1, <1>2, <1>3
  <2>2. Len(cut) = room - 1
    <3> DEFINE text == Excerpt(documents[whole + 1])
    <3>1. cut = SubSeq(text, 1, room - 1)
      OBVIOUS
    <3> HIDE DEF text, room
    <3> QED BY <3>1, <1>4, <1>6
  <2>3. context[whole + 1].excerpt = cut
    <3> HIDE DEF cut
    <3> QED BY <2>1 DEF Entry
  <2> DEFINE added == {whole + 1} \X (0..(room - 1))
  <2>4. Places(context) \subseteq Places(before) \cup added
    <3> SUFFICES ASSUME NEW n \in 1..(whole + 1), NEW p \in {n} \X (0..Len(context[n].excerpt))
                 PROVE  p \in Places(before) \cup added
      BY <2>1 DEF Places
    <3>1. CASE n = whole + 1
      BY <3>1, <2>2, <2>3
    <3>2. CASE n # whole + 1
      <4> HIDE DEF before
      <4>1. n \in 1..whole
        BY <3>2, <1>3
      <4>2. context[n] = before[n]
        BY <4>1, <2>1
      <4> QED BY <4>1, <4>2, <1>2 DEF Places
    <3> QED BY <3>1, <3>2
  <2>5. IsFiniteSet(added) /\ Cardinality(added) = room
    <3>1. IsFiniteSet({whole + 1}) /\ Cardinality({whole + 1}) = 1
      BY FS_Singleton
    <3>2. IsFiniteSet(0..(room - 1)) /\ Cardinality(0..(room - 1)) = room
      <4> HIDE DEF room
      <4>1. 0 \in Int /\ room - 1 \in Int
        BY <1>4
      <4>2. /\ IsFiniteSet(0..(room - 1))
            /\ Cardinality(0..(room - 1)) = IF 0 > room - 1 THEN 0 ELSE room - 1 - 0 + 1
        BY <4>1, FS_Interval
      <4> QED BY <4>2, <1>4, <1>6
    <3> HIDE DEF room
    <3>3. /\ IsFiniteSet(added)
          /\ Cardinality(added) = Cardinality({whole + 1}) * Cardinality(0..(room - 1))
      BY <3>1, <3>2, FS_Product
    <3> HIDE DEF added
    <3> QED BY <3>1, <3>2, <3>3, <1>4
  <2> HIDE DEF added, before
  <2>6. /\ IsFiniteSet(Places(before) \cup added)
        /\ Cardinality(Places(before) \cup added)
             = Size(before) + room - Cardinality(Places(before) \cap added)
    BY <1>3, <2>5, FS_Union DEF Size
  <2>7. Cardinality(Places(before) \cap added) \in Nat
    BY <1>3, FS_Intersection, FS_CardinalityType
  <2>8. Size(context) <= Cardinality(Places(before) \cup added)
    BY <2>4, <2>6, FS_Subset DEF Size
  <2>9. Size(context) \in Nat /\ Size(before) = Used(documents, whole)
    BY <2>4, <2>6, FS_Subset, FS_CardinalityType DEF Size, Used, before
  <2>10. MaxContext \in Nat /\ Size(before) + room = MaxContext
    BY <2>9, <1>3, AssistantAssumption DEF AssistantAssumption
  <2> HIDE DEF room
  <2> QED BY <1>3, <1>4, <2>6, <2>7, <2>8, <2>9, <2>10
<1> QED BY <1>5, <1>6

\* A question is a record with these fields, whatever they hold.
QuestionFields == {"phase", "began", "sent", "context", "found", "claims", "cited", "status",
                   "grounded", "degraded"}

Question(now) == now = [f \in QuestionFields |-> now[f]]

Supported(claims, sent) ==
    \A c \in claims :
        /\ c.sources # {}
        /\ \A n \in c.sources :
             \/ c.text = <<sent[n].document.source, 0>>
             \/ \E k \in DOMAIN sent[n].excerpt : sent[n].excerpt[k] = c.text

\* What the visitor is told, once it is decided.
Decided(now) ==
    /\ now.grounded <=> now.status = "answered"
    /\ now.grounded <=> now.cited # {}
    /\ now.degraded <=> ~now.grounded /\ now.found > 0

\* How a question, its audit trail and its reading hang together.
Consistent(now, log, snap) ==
    /\ Question(now)
    /\ now.phase \in {"unasked", "admission", "searching", "generating", "auditing", "answered",
                      "refused"}
    /\ now.began \in Nat /\ now.found \in Nat
    /\ now.sent = now.context
    /\ now.phase = "searching" => snap.began = now.began
    /\ now.phase \notin {"auditing", "answered"} => now.claims = {} /\ now.cited = {}
    /\ now.phase = "generating" => now.found > 0
    /\ now.phase \in {"auditing", "answered"} => Decided(now)
    /\ now.cited \subseteq DOMAIN now.context
    /\ Supported(now.claims, now.sent)
    /\ EachPageOnce(now.context) /\ Size(now.context) <= MaxContext
    /\ IF now.phase = "answered" THEN log \in {<<>>, <<now.status>>} ELSE log = <<>>

ContextWasIndexable(now) ==
    /\ now.began <= clock
    /\ \A n \in DOMAIN now.context : WereIndexable(now.context[n].document, now.began)

AssistantIInv ==
    /\ CatalogIInv
    /\ question = [r \in Readers |-> question[r]] /\ audits = [r \in Readers |-> audits[r]]
    /\ \A r \in Readers : /\ Consistent(question[r], audits[r], reading[r])
                          /\ ContextWasIndexable(question[r])

\* A context stays good, whatever happens to the catalog.
LEMMA ContextPersists ==
    ASSUME CatalogIInv, CatalogMove, NEW now, now.began \in Nat, ContextWasIndexable(now)
    PROVE  ContextWasIndexable(now)'
<1>1. now.began \in Int /\ now.began <= clock /\ now.began <= clock'
  BY MovesForward DEF ContextWasIndexable
<1>2. \A i \in Items : IndexableSince(i, now.began) => IndexableSince(i, now.began)'
  BY <1>1, CatalogPersists
<1> QED BY <1>1, <1>2 DEF ContextWasIndexable, WereIndexable, IndexableSince, Indexable

\* A step that changes one question at most.
LEMMA OneQuestion ==
    ASSUME AssistantIInv, CatalogMove, NEW r \in Readers, NEW now, NEW log,
           question' = [question EXCEPT ![r] = now], audits' = [audits EXCEPT ![r] = log],
           Consistent(now, log, reading'[r]), ContextWasIndexable(now)',
           \A q \in Readers : q # r => reading'[q] = reading[q]
    PROVE  AssistantIInv'
<1>1. CatalogIInv'
  BY CatalogKeeps DEF AssistantIInv
<1>2. /\ question'[r] = now /\ audits'[r] = log
      /\ \A q \in Readers : q # r => question'[q] = question[q] /\ audits'[q] = audits[q]
  BY DEF AssistantIInv
<1>3. ASSUME NEW q \in Readers
      PROVE  Consistent(question'[q], audits'[q], reading'[q]) /\ ContextWasIndexable(question[q])'
  <2>1. CASE q = r
    BY <2>1, <1>2 DEF ContextWasIndexable, WereIndexable, IndexableSince, Indexable
  <2>2. CASE q # r
    <3>1. Consistent(question'[q], audits'[q], reading'[q])
      BY <2>2, <1>2 DEF AssistantIInv
    <3>2. ContextWasIndexable(question[q]) /\ question[q].began \in Nat
      BY DEF AssistantIInv, Consistent
    <3>3. \A then : CatalogIInv /\ CatalogMove /\ then.began \in Nat /\ ContextWasIndexable(then)
                      => ContextWasIndexable(then)'
      BY ContextPersists
    <3>4. question'[q] = question[q] /\ CatalogIInv
      BY <2>2, <1>2 DEF AssistantIInv
    <3>5. ContextWasIndexable(question[q])'
      BY <3>2, <3>3, <3>4 DEF ContextWasIndexable, WereIndexable, IndexableSince, Indexable
    <3> QED BY <3>1, <3>5
  <2> QED BY <2>1, <2>2
<1>4. question' = [q \in Readers |-> question'[q]] /\ audits' = [q \in Readers |-> audits'[q]]
  BY DEF AssistantIInv
<1> QED BY <1>1, <1>3, <1>4 DEF AssistantIInv

\* A step that changes no question.
LEMMA NoQuestion ==
    ASSUME AssistantIInv, CatalogMove, UNCHANGED <<question, audits>>,
           \A q \in Readers : reading'[q].began = reading[q].began
    PROVE  AssistantIInv'
<1>1. CatalogIInv'
  BY CatalogKeeps DEF AssistantIInv
<1>2. ASSUME NEW q \in Readers
      PROVE  Consistent(question'[q], audits'[q], reading'[q]) /\ ContextWasIndexable(question[q])'
  <2>1. Consistent(question'[q], audits'[q], reading'[q])
    BY DEF AssistantIInv, Consistent
  <2>2. ContextWasIndexable(question[q]) /\ question[q].began \in Nat
    BY DEF AssistantIInv, Consistent
  <2>3. \A then : CatalogIInv /\ CatalogMove /\ then.began \in Nat /\ ContextWasIndexable(then)
                    => ContextWasIndexable(then)'
    BY ContextPersists
  <2>4. ContextWasIndexable(question[q])'
    BY <2>2, <2>3 DEF AssistantIInv, ContextWasIndexable, WereIndexable, IndexableSince, Indexable
  <2> QED BY <2>1, <2>4
<1> QED BY <1>1, <1>2 DEF AssistantIInv

\* A question that has not been searched.
Blank(now, phase, began) ==
    /\ Question(now) /\ now.phase = phase /\ now.began = began
    /\ now.sent = <<>> /\ now.context = <<>> /\ now.found = 0
    /\ now.claims = {} /\ now.cited = {}

LEMMA BlankIsConsistent ==
    ASSUME NEW phase \in {"unasked", "admission", "searching", "refused"}, NEW began \in Nat,
           NEW snap, phase = "searching" => snap.began = began,
           NEW now, Blank(now, phase, began)
    PROVE  Consistent(now, <<>>, snap)
<1>1. Size(<<>>) = 0 /\ 0 <= MaxContext
  <2>1. Places(<<>>) = {}
    BY DEF Places
  <2>2. Size(<<>>) = 0
    BY <2>1, FS_EmptySet DEF Size
  <2> QED BY <2>2, AssistantAssumption DEF AssistantAssumption
<1> QED BY <1>1 DEF Blank, Supported, EachPageOnce, Consistent

LEMMA BlankIsIndexable ==
    ASSUME NEW phase, NEW began \in Nat, began <= clock, NEW now, Blank(now, phase, began)
    PROVE  ContextWasIndexable(now)
BY DEF Blank, ContextWasIndexable

LEMMA BlankUpdates ==
    /\ Blank(Unasked, "unasked", 0)
    /\ Blank([Unasked EXCEPT !.phase = "admission"], "admission", 0)
    /\ \A status : Blank([Unasked EXCEPT !.phase = "refused", !.status = status], "refused", 0)
    /\ \A began :
         Blank([Unasked EXCEPT !.phase = "searching", !.began = began], "searching", began)
<1>1. /\ Unasked.phase = "unasked" /\ Unasked.began = 0 /\ Unasked.sent = <<>>
      /\ Unasked.context = <<>> /\ Unasked.found = 0 /\ Unasked.claims = {} /\ Unasked.cited = {}
  BY DEF Unasked
<1>2. Question(Unasked)
  BY DEF Unasked, Question, QuestionFields
<1>3. Blank([Unasked EXCEPT !.phase = "admission"], "admission", 0)
  BY <1>1, <1>2 DEF Question, QuestionFields, Blank
<1>4. ASSUME NEW status
      PROVE  Blank([Unasked EXCEPT !.phase = "refused", !.status = status], "refused", 0)
  BY <1>1, <1>2 DEF Question, QuestionFields, Blank
<1>5. ASSUME NEW began
      PROVE  Blank([Unasked EXCEPT !.phase = "searching", !.began = began], "searching", began)
  BY <1>1, <1>2 DEF Question, QuestionFields, Blank
<1> QED BY <1>1, <1>2, <1>3, <1>4, <1>5 DEF Blank

LEMMA AssistantInvariance == AssistantSpec => []AssistantIInv
<1>1. CatalogInit /\ AssistantInit => AssistantIInv
  <2> SUFFICES ASSUME CatalogInit, AssistantInit PROVE AssistantIInv
    OBVIOUS
  <2>1. CatalogIInv /\ clock \in Nat
    BY CatalogStarts, CatalogConstants DEF CatalogIInv, CatalogTypeOK
  <2>2. \A r \in Readers : Blank(question[r], "unasked", 0) /\ audits[r] = <<>>
    BY BlankUpdates DEF AssistantInit
  <2>3. ASSUME NEW r \in Readers
        PROVE  /\ Consistent(question[r], audits[r], reading[r])
               /\ ContextWasIndexable(question[r])
    BY <2>1, <2>2, BlankIsConsistent, BlankIsIndexable
  <2> QED BY <2>1, <2>3 DEF AssistantInit, AssistantIInv
<1>2. AssistantIInv /\ [AssistantNext]_<<catalogVars, assistantVars>> => AssistantIInv'
  <2> SUFFICES ASSUME AssistantIInv, [AssistantNext]_<<catalogVars, assistantVars>>
               PROVE  AssistantIInv'
    OBVIOUS
  <2>1. CatalogIInv /\ clock \in Nat /\ edits \in 0..MaxEdits
    BY CatalogConstants DEF AssistantIInv, CatalogIInv, CatalogTypeOK
  <2>2. \A r \in Readers : /\ Consistent(question[r], audits[r], reading[r])
                           /\ ContextWasIndexable(question[r])
    BY DEF AssistantIInv
  <2>3. audits = [r \in Readers |-> audits[r]] /\ reading = [r \in Readers |-> reading[r]]
    BY DEF AssistantIInv, CatalogIInv, CatalogShape
  \* A step that leaves the catalog and the readings alone.
  <2>4. ASSUME NEW r \in Readers, NEW now, NEW log, Advance(r, now), KeepCatalog,
               UNCHANGED reading, audits' = [audits EXCEPT ![r] = log],
               Consistent(now, log, reading[r]), ContextWasIndexable(now)
        PROVE  AssistantIInv'
    <3>1. CatalogMove /\ reading' = reading /\ UNCHANGED <<db, last, clock, edits>>
      BY <2>1, <2>4 DEF CatalogMove, KeepCatalog
    <3>2. question' = [question EXCEPT ![r] = now]
      BY <2>4 DEF Advance
    <3>3. ContextWasIndexable(now)'
      BY <2>4, <3>1 DEF ContextWasIndexable, WereIndexable, IndexableSince, Indexable
    <3> QED BY <2>4, <3>1, <3>2, <3>3, OneQuestion
  \* A step that ends the reading.
  <2>5. ASSUME NEW r \in Readers, NEW now, Advance(r, now), KeepCatalog, UNCHANGED audits,
               reading' = [reading EXCEPT ![r] = NoReading],
               Consistent(now, audits[r], NoReading), ContextWasIndexable(now)
        PROVE  AssistantIInv'
    <3>1. CatalogMove /\ UNCHANGED <<db, last, clock, edits>>
      BY <2>1, <2>5 DEF CatalogMove, KeepCatalog
    <3>2. question' = [question EXCEPT ![r] = now]
      BY <2>5 DEF Advance
    <3>3. ContextWasIndexable(now)'
      BY <2>5, <3>1 DEF ContextWasIndexable, WereIndexable, IndexableSince, Indexable
    <3>4. reading'[r] = NoReading /\ \A q \in Readers : q # r => reading'[q] = reading[q]
      BY <2>3, <2>5
    <3>5. audits' = [audits EXCEPT ![r] = audits[r]]
      BY <2>3, <2>5
    <3> QED BY <2>5, <3>1, <3>2, <3>3, <3>4, <3>5, OneQuestion
  <2>6. ASSUME NEW r \in Readers PROVE audits = [audits EXCEPT ![r] = audits[r]]
    BY <2>3
  <2>7. ASSUME NEW r \in Readers, Ask(r) PROVE AssistantIInv'
    <3>1. question[r].phase = "unasked" /\ KeepCatalog /\ UNCHANGED <<reading, audits>>
      BY <2>7 DEF Ask
    <3>2. audits[r] = <<>>
      BY <3>1, <2>2 DEF Consistent
    <3>3. PICK now :
            Advance(r, now) /\ \E phase \in {"admission", "refused"} : Blank(now, phase, 0)
      BY <2>7, BlankUpdates DEF Ask
    <3>4. Consistent(now, audits[r], reading[r])
      BY <3>2, <3>3, BlankIsConsistent
    <3>5. ContextWasIndexable(now)
      BY <2>1, <3>3, BlankIsIndexable
    <3>6. audits' = [audits EXCEPT ![r] = audits[r]]
      BY <3>1, <2>6
    <3> QED BY <3>1, <3>3, <3>4, <3>5, <3>6, <2>4
  <2>8. ASSUME NEW r \in Readers, Admit(r) PROVE AssistantIInv'
    <3>1. question[r].phase = "admission" /\ KeepCatalog /\ UNCHANGED audits
      BY <2>8 DEF Admit
    <3>2. audits[r] = <<>> /\ audits' = [audits EXCEPT ![r] = audits[r]]
      BY <3>1, <2>2, <2>6 DEF Consistent
    <3> DEFINE now == [Unasked EXCEPT !.phase = "searching", !.began = clock]
               refused == [Unasked EXCEPT !.phase = "refused", !.status = "rate_limited"]
    <3>a. Blank(now, "searching", clock) /\ Blank(refused, "refused", 0)
      BY BlankUpdates
    <3>b. \/ Advance(r, now) /\ Begin(r, "search")
          \/ Advance(r, refused) /\ UNCHANGED reading
      BY <2>8 DEF Admit
    <3> HIDE DEF now, refused
    <3>3. CASE Advance(r, now) /\ Begin(r, "search")
      <4>1. CatalogMove /\ UNCHANGED <<db, last, clock, edits>>
        BY <3>1, <3>3 DEF CatalogMove, KeepCatalog
      <4>2. /\ reading'[r] = [NoReading EXCEPT !.mode = "search", !.began = clock]
            /\ \A q \in Readers : q # r => reading'[q] = reading[q]
        BY <3>3, <2>3 DEF Begin
      <4>3. reading'[r].began = clock
        BY <4>2 DEF NoReading
      <4>4. Consistent(now, audits[r], reading'[r])
        BY <3>2, <3>a, <4>3, <2>1, BlankIsConsistent
      <4>5. now.began = clock /\ DOMAIN now.context = {}
        BY <3>a DEF Blank
      <4>6. question' = [question EXCEPT ![r] = now]
        BY <3>3 DEF Advance
      <4>7. \A then : then.began <= clock /\ DOMAIN then.context = {} => ContextWasIndexable(then)'
        BY <4>1 DEF ContextWasIndexable
      <4>8. \A then : then = now => ContextWasIndexable(then)'
        BY <4>5, <4>7, <2>1
      <4>9. \A then : then = now => AssistantIInv'
        BY <4>1, <4>2, <4>4, <4>6, <4>8, <3>2, OneQuestion
      <4> QED BY <4>9
    <3>4. CASE Advance(r, refused) /\ UNCHANGED reading
      <4>1. Consistent(refused, audits[r], reading[r])
        BY <3>2, <3>a, BlankIsConsistent
      <4>2. ContextWasIndexable(refused)
        BY <2>1, <3>a, BlankIsIndexable
      <4> QED BY <3>1, <3>2, <3>4, <4>1, <4>2, <2>4
    <3> QED BY <3>b, <3>3, <3>4
  <2>9. ASSUME NEW r \in Readers, SearchFails(r) PROVE AssistantIInv'
    <3> DEFINE now == [question[r] EXCEPT !.phase = "refused", !.status = "error"]
    <3>1. /\ question[r].phase = "searching" /\ Advance(r, now) /\ KeepCatalog
          /\ reading' = [reading EXCEPT ![r] = NoReading] /\ UNCHANGED audits
      BY <2>9 DEF SearchFails
    <3>2. Question(question[r])
      BY <2>2 DEF Consistent
    <3>3. /\ Question(now) /\ now.phase = "refused" /\ now.began = question[r].began
          /\ now.sent = question[r].sent /\ now.context = question[r].context
          /\ now.found = question[r].found /\ now.claims = question[r].claims
          /\ now.cited = question[r].cited
      BY <3>2 DEF Question, QuestionFields
    <3> HIDE DEF now
    <3>4. Consistent(now, audits[r], NoReading)
      BY <3>1, <3>3, <2>2 DEF Consistent
    <3>5. ContextWasIndexable(now)
      BY <3>3, <2>2 DEF ContextWasIndexable
    <3> QED BY <3>1, <3>4, <3>5, <2>5
  <2>10. ASSUME NEW r \in Readers, Searched(r) PROVE AssistantIInv'
    <3> DEFINE found(documents, context) ==
                 [question[r] EXCEPT !.sent = context, !.context = context,
                                     !.found = Len(documents)]
               outcome(documents, context) ==
                 LET now == found(documents, context)
                 IN  IF documents = <<>> THEN Decide(now, "insufficient_sources", FALSE, FALSE)
                     ELSE IF context = <<>>
                     THEN Decide(now, "insufficient_context_budget", FALSE, TRUE)
                     ELSE IF ~Provider THEN Decide(now, "provider_unconfigured", FALSE, TRUE)
                     ELSE [now EXCEPT !.phase = "generating"]
    <3>a. PICK documents \in Search(reading[r]) :
            \E context \in Contexts(documents) : Advance(r, outcome(documents, context))
      BY <2>10 DEF Searched
    <3>1. PICK context \in Contexts(documents) : Advance(r, outcome(documents, context))
      BY <3>a
    <3> DEFINE now == [question[r] EXCEPT !.sent = context, !.context = context,
                                          !.found = Len(documents)]
    <3>2. /\ question[r].phase = "searching" /\ reading[r].mode # "idle" /\ KeepCatalog
          /\ reading' = [reading EXCEPT ![r] = NoReading] /\ UNCHANGED audits
      BY <2>10 DEF Searched, Complete
    <3>3. /\ Question(question[r]) /\ question[r].began \in Nat /\ audits[r] = <<>>
          /\ reading[r].began = question[r].began
          /\ question[r].claims = {} /\ question[r].cited = {} /\ question[r].began <= clock
      BY <3>2, <2>2 DEF Consistent, ContextWasIndexable
    <3>4. Sound(reading[r]) /\ reading[r] \in Snapshots
      BY <3>2, <2>1 DEF CatalogIInv, CatalogShape
    <3>5. /\ Question(now) /\ now.began = question[r].began
          /\ now.sent = context /\ now.context = context /\ now.found = Len(documents)
          /\ now.claims = {} /\ now.cited = {} /\ now.phase = "searching"
      BY <3>2, <3>3 DEF Question, QuestionFields
    <3>6. /\ Len(documents) \in Nat
          /\ \A n \in DOMAIN documents : WereIndexable(documents[n], now.began)
          /\ DOMAIN documents = 1..Len(documents)
          /\ \A m, n \in DOMAIN documents : documents[m].url = documents[n].url => m = n
      BY <3>3, <3>4, <3>5, SearchSelects, SourceIsIndexable
    <3>12. Size(context) <= MaxContext
      <4>1. ASSUME NEW n \in 1..Len(documents) PROVE Len(Excerpt(documents[n])) \in Nat
        <5>1. documents[n] \in AssistantDocuments(reading[r])
          BY <3>6, SearchSelects
        <5> QED BY <5>1, <3>4, DocumentsAreOfRows, ExcerptIsSequence
      <4> QED BY <4>1, <3>6, ContextFits
    <3>7. ContextWasIndexable(now) /\ EachPageOnce(context)
      <4>1. \A n \in DOMAIN context : n \in DOMAIN documents /\ context[n].document = documents[n]
        BY <3>6, ContextSelects
      <4> QED BY <4>1, <3>3, <3>5, <3>6 DEF ContextWasIndexable, EachPageOnce
    <3>8. documents = <<>> <=> Len(documents) = 0
      <4>1. ASSUME documents # <<>> PROVE Len(documents) # 0
        <5>1. PICK best \in Search(reading[r]) : best = documents
          OBVIOUS
        <5>2. documents = [n \in 1..Len(documents) |-> documents[n]]
          <6>1. PICK chosen : documents \in Ranked(chosen)
            BY DEF Search
          <6>2. PICK m \in 0..MaxSources : documents \in [1..m -> chosen]
            BY <6>1 DEF Ranked, SeqOf
          <6> QED BY <6>2, <3>6
        <5> QED BY <5>2, <4>1
      <4> QED BY <4>1
    <3> DEFINE then == IF documents = <<>> THEN Decide(now, "insufficient_sources", FALSE, FALSE)
                       ELSE IF context = <<>>
                       THEN Decide(now, "insufficient_context_budget", FALSE, TRUE)
                       ELSE IF ~Provider THEN Decide(now, "provider_unconfigured", FALSE, TRUE)
                       ELSE [now EXCEPT !.phase = "generating"]
    <3>9. Advance(r, then)
      BY <3>1
    <3> HIDE DEF now
    <3>10. Consistent(then, audits[r], NoReading) /\ ContextWasIndexable(then)
      <4>1. ASSUME NEW status \in {"insufficient_sources", "insufficient_context_budget",
                                   "provider_unconfigured"},
                   NEW degraded \in BOOLEAN, degraded <=> now.found > 0,
                   then = Decide(now, status, FALSE, degraded)
            PROVE  Consistent(then, audits[r], NoReading) /\ ContextWasIndexable(then)
        <5> HIDE DEF then
        <5>1. /\ Question(then) /\ then.phase = "auditing" /\ then.status = status
              /\ then.grounded = FALSE /\ then.degraded = degraded
              /\ then.began = now.began /\ then.sent = now.sent /\ then.context = now.context
              /\ then.found = now.found /\ then.claims = now.claims /\ then.cited = now.cited
          BY <4>1, <3>5 DEF Question, QuestionFields, Decide
        <5>2. Decided(then)
          BY <5>1, <4>1, <3>5 DEF Decided
        <5>3. Supported(then.claims, then.sent)
          BY <5>1, <3>5 DEF Supported
        <5>4. Consistent(then, audits[r], NoReading)
          BY <5>1, <5>2, <5>3, <3>3, <3>5, <3>6, <3>7, <3>12 DEF Consistent
        <5> QED BY <5>1, <5>4, <3>7 DEF ContextWasIndexable
      <4>2. CASE then = [now EXCEPT !.phase = "generating"] /\ documents # <<>>
        <5>1. then = [now EXCEPT !.phase = "generating"]
          BY <4>2
        <5> HIDE DEF then
        <5>2. /\ Question(then) /\ then.phase = "generating" /\ then.began = now.began
              /\ then.sent = now.sent /\ then.context = now.context
              /\ then.found = now.found /\ then.claims = now.claims /\ then.cited = now.cited
          BY <5>1, <3>5 DEF Question, QuestionFields
        <5>3. Supported(then.claims, then.sent)
          BY <5>2, <3>5 DEF Supported
        <5>4. then.found > 0
          BY <5>2, <4>2, <3>5, <3>6, <3>8
        <5>5. Consistent(then, audits[r], NoReading)
          BY <5>2, <5>3, <5>4, <3>3, <3>5, <3>6, <3>7, <3>12 DEF Consistent
        <5> QED BY <5>2, <5>5, <3>7 DEF ContextWasIndexable
      <4>3. now.found > 0 <=> documents # <<>>
        BY <3>5, <3>6, <3>8
      <4> QED BY <4>1, <4>2, <4>3
    <3> HIDE DEF then
    <3> QED BY <2>5, <3>2, <3>9, <3>10
  <2>11. ASSUME NEW r \in Readers, NEW claims \in Replies, Generate(r, claims) PROVE AssistantIInv'
    <3> DEFINE now == question[r]
               admitted == Admitted(claims, Fields(now.context))
               then == IF ~admitted THEN Decide(now, "ungrounded_provider_response", FALSE, TRUE)
                       ELSE [Decide(now, "answered", TRUE, FALSE) EXCEPT
                               !.claims = claims, !.cited = UNION {c.sources : c \in claims}]
    <3>1. /\ now.phase = "generating" /\ Advance(r, then) /\ KeepCatalog
          /\ UNCHANGED <<reading, audits>>
      BY <2>11 DEF Generate
    <3>2. /\ Question(now) /\ now.began \in Nat /\ now.found \in Nat /\ now.found > 0
          /\ now.sent = now.context /\ now.claims = {} /\ now.cited = {} /\ audits[r] = <<>>
          /\ Consistent(now, audits[r], reading[r]) /\ ContextWasIndexable(now)
          /\ EachPageOnce(now.context)
      BY <3>1, <2>2 DEF Consistent
    <3> HIDE DEF now, admitted
    <3>3. Consistent(then, audits[r], reading[r]) /\ ContextWasIndexable(then)
      <4>1. CASE ~admitted
        <5>1. then = Decide(now, "ungrounded_provider_response", FALSE, TRUE)
          BY <4>1
        <5> HIDE DEF then
        <5>2. /\ Question(then) /\ then.phase = "auditing"
              /\ then.status = "ungrounded_provider_response"
              /\ then.grounded = FALSE /\ then.degraded = TRUE
              /\ then.began = now.began /\ then.sent = now.sent /\ then.context = now.context
              /\ then.found = now.found /\ then.claims = now.claims /\ then.cited = now.cited
          BY <5>1, <3>2 DEF Question, QuestionFields, Decide
        <5>3. Decided(then)
          BY <5>2, <3>2 DEF Decided
        <5>4. Supported(then.claims, then.sent)
          BY <5>2, <3>2 DEF Supported
        <5>5. Consistent(then, audits[r], reading[r])
          BY <5>2, <5>3, <5>4, <3>2 DEF Consistent
        <5> QED BY <5>2, <5>5, <3>2 DEF ContextWasIndexable
      <4>2. CASE admitted
        <5> DEFINE told == Decide(now, "answered", TRUE, FALSE)
                   cited == UNION {c.sources : c \in claims}
        <5>1. then = [told EXCEPT !.claims = claims, !.cited = cited]
          BY <4>2
        <5>2. /\ Question(told) /\ told.phase = "auditing" /\ told.status = "answered"
              /\ told.grounded = TRUE /\ told.degraded = FALSE
              /\ told.began = now.began /\ told.sent = now.sent /\ told.context = now.context
              /\ told.found = now.found
          BY <3>2 DEF Question, QuestionFields, Decide
        <5>3. Fields(now.context) =
                [n \in DOMAIN now.context |-> {<<now.context[n].document.source, 0>>}
                                                \cup ToSet(now.context[n].excerpt)]
          BY DEF Fields
        <5>4. /\ claims # {}
              /\ \A c \in claims :
                   /\ c.sources # {} /\ c.sources \subseteq DOMAIN now.context
                   /\ \A n \in c.sources :
                        c.text \in {<<now.context[n].document.source, 0>>}
                                    \cup ToSet(now.context[n].excerpt)
          BY <4>2, <5>3 DEF Admitted, admitted
        <5>5. cited # {} /\ cited \subseteq DOMAIN now.context
          BY <5>4
        <5>6. Supported(claims, now.context)
          BY <5>4 DEF Supported, ToSet
        <5> HIDE DEF told, cited, then
        <5>7. /\ Question(then) /\ then.phase = "auditing" /\ then.status = "answered"
              /\ then.grounded = TRUE /\ then.degraded = FALSE
              /\ then.began = now.began /\ then.sent = now.sent /\ then.context = now.context
              /\ then.found = now.found /\ then.claims = claims /\ then.cited = cited
          BY <5>1, <5>2 DEF Question, QuestionFields
        <5>8. Decided(then)
          BY <5>5, <5>7 DEF Decided
        <5>9. Consistent(then, audits[r], reading[r])
          BY <5>5, <5>6, <5>7, <5>8, <3>2 DEF Consistent
        <5> QED BY <5>7, <5>9, <3>2 DEF ContextWasIndexable
      <4> QED BY <4>1, <4>2
    <3>4. audits' = [audits EXCEPT ![r] = audits[r]]
      BY <3>1, <2>6
    <3> HIDE DEF then
    <3> QED BY <2>4, <3>1, <3>3, <3>4
  <2>12. ASSUME NEW r \in Readers, ProviderFails(r) PROVE AssistantIInv'
    <3> DEFINE now == question[r]
               then == Decide(now, "provider_failed", FALSE, TRUE)
    <3>1. /\ now.phase = "generating" /\ Advance(r, then) /\ KeepCatalog
          /\ UNCHANGED <<reading, audits>>
      BY <2>12 DEF ProviderFails
    <3>2. /\ Question(now) /\ now.began \in Nat /\ now.found \in Nat /\ now.found > 0
          /\ now.sent = now.context /\ now.claims = {} /\ now.cited = {} /\ audits[r] = <<>>
          /\ ContextWasIndexable(now) /\ EachPageOnce(now.context) /\ Size(now.context) <= MaxContext
      BY <3>1, <2>2 DEF Consistent
    <3> HIDE DEF now
    <3>3. /\ Question(then) /\ then.phase = "auditing" /\ then.status = "provider_failed"
          /\ then.grounded = FALSE /\ then.degraded = TRUE
          /\ then.began = now.began /\ then.sent = now.sent /\ then.context = now.context
          /\ then.found = now.found /\ then.claims = now.claims /\ then.cited = now.cited
      BY <3>2 DEF Question, QuestionFields, Decide
    <3> HIDE DEF then
    <3>4. Decided(then) /\ Supported(then.claims, then.sent)
      BY <3>2, <3>3 DEF Decided, Supported
    <3>5. Consistent(then, audits[r], reading[r])
      BY <3>2, <3>3, <3>4 DEF Consistent
    <3>6. ContextWasIndexable(then)
      BY <3>2, <3>3 DEF ContextWasIndexable
    <3>7. audits' = [audits EXCEPT ![r] = audits[r]]
      BY <3>1, <2>6
    <3> QED BY <2>4, <3>1, <3>5, <3>6, <3>7
  <2>13. ASSUME NEW r \in Readers, RecordAudit(r) PROVE AssistantIInv'
    <3> DEFINE now == question[r]
               then == [now EXCEPT !.phase = "answered"]
    <3>1. /\ now.phase = "auditing" /\ Advance(r, then) /\ KeepCatalog
          /\ UNCHANGED reading
          /\ audits' \in {audits, [audits EXCEPT ![r] = Append(audits[r], now.status)]}
      BY <2>13, <2>3 DEF RecordAudit
    <3>2. Consistent(now, audits[r], reading[r]) /\ ContextWasIndexable(now) /\ Question(now)
      BY <2>2 DEF Consistent
    <3>3. audits[r] = <<>>
      BY <3>1, <3>2 DEF Consistent
    <3> HIDE DEF now
    <3>4. PICK log \in {<<>>, <<now.status>>} : audits' = [audits EXCEPT ![r] = log]
      <4>1. Append(<<>>, now.status) = <<now.status>>
        OBVIOUS
      <4> QED BY <3>1, <3>3, <4>1, <2>6
    <3>5. /\ Question(then) /\ then.phase = "answered" /\ then.status = now.status
          /\ then.grounded = now.grounded /\ then.degraded = now.degraded
          /\ then.began = now.began /\ then.sent = now.sent /\ then.context = now.context
          /\ then.found = now.found /\ then.claims = now.claims /\ then.cited = now.cited
      BY <3>2 DEF Question, QuestionFields
    <3> HIDE DEF then
    <3>6. Consistent(then, log, reading[r])
      BY <3>1, <3>2, <3>4, <3>5 DEF Consistent, Decided
    <3>7. ContextWasIndexable(then)
      BY <3>2, <3>5 DEF ContextWasIndexable
    <3> QED BY <2>4, <3>1, <3>4, <3>6, <3>7
  <2>14. ASSUME NEW r \in Readers, NEW s \in Sessions, Execute(r, s), UNCHANGED assistantVars
         PROVE  AssistantIInv'
    <3>1. CatalogMove /\ UNCHANGED <<question, audits>>
      BY <2>14 DEF CatalogMove, assistantVars
    <3>2. \A q \in Readers : reading'[q].began = reading[q].began
      <4>1. PICK n \in Ahead(reading[r], s) : Statement(r, s, n)
        BY <2>14 DEF Execute
      <4>2. PICK rows, links :
              reading' = [reading EXCEPT ![r].at[s] = n, ![r].rows = rows, ![r].links = links]
        BY <4>1 DEF Statement
      <4>3. reading \in [Readers -> Snapshots]
        BY <2>1 DEF CatalogIInv, CatalogShape
      <4> QED BY <4>2, <4>3 DEF Snapshots
    <3> QED BY <3>1, <3>2, NoQuestion
  <2>15. CASE (Edit \/ Tick) /\ UNCHANGED assistantVars
    <3>1. CatalogMove /\ UNCHANGED <<question, audits>> /\ reading' = reading
      BY <2>1, <2>15, EditShape DEF CatalogMove, assistantVars, Tick, CatalogIInv
    <3> QED BY <3>1, NoQuestion
  <2>16. CASE Switch
    <3>1. CatalogMove /\ UNCHANGED <<question, audits>> /\ reading' = reading
      BY <2>1, <2>16, CatalogConstants DEF CatalogMove, Switch
    <3> QED BY <3>1, NoQuestion
  <2>17. CASE UNCHANGED <<catalogVars, assistantVars>>
    <3>1. CatalogMove /\ UNCHANGED <<question, audits>> /\ reading' = reading
      BY <2>1, <2>17 DEF CatalogMove, catalogVars, assistantVars
    <3> QED BY <3>1, NoQuestion
  <2> QED
    BY <2>7, <2>8, <2>9, <2>10, <2>11, <2>12, <2>13, <2>14, <2>15, <2>16, <2>17
       DEF AssistantNext, AssistantStep
<1> QED BY <1>1, <1>2, PTL DEF AssistantSpec

(***************************************************************************)
(* For any rows, relations, readers and scores: whatever is withdrawn or   *)
(* hidden while a question is answered, a cited source, what it quotes and *)
(* the page it points to were indexable after the question was admitted.   *)
(***************************************************************************)
THEOREM CitedSourcesWereIndexable == AssistantSpec => []SourcesWereIndexable
<1>1. AssistantIInv => SourcesWereIndexable
  BY DEF AssistantIInv, ContextWasIndexable, WereIndexable, SourcesWereIndexable
<1> QED BY <1>1, AssistantInvariance, PTL

(***************************************************************************)
(* For any provider's replies: an answer says only what stands in the text *)
(* that was sent for every source it names, and the audit trail tells what *)
(* the visitor was told, whichever of the steps fail.                      *)
(***************************************************************************)
THEOREM AnswersStand == AssistantSpec => []AnswersHold
<1>1. AssistantIInv => AnswersHold
  <2> SUFFICES ASSUME AssistantIInv PROVE AnswersHold
    OBVIOUS
  <2>1. \A r \in Readers : Consistent(question[r], audits[r], reading[r])
    BY DEF AssistantIInv
  <2>2. AssistantTypeOK
    BY <2>1 DEF AssistantTypeOK, Consistent
  <2>3. AnswersAreSupported
    BY <2>1 DEF AnswersAreSupported, Consistent, Supported
  <2>4. AuditTellsTheAnswer
    <3> SUFFICES ASSUME NEW r \in Readers
                 PROVE  LET now == question[r]
                            cited == {now.context[n].document.source : n \in now.cited}
                        IN  /\ Len(audits[r]) <= 1
                            /\ audits[r] # <<>> =>
                                 now.phase = "answered" /\ audits[r] = <<now.status>>
                            /\ now.phase = "answered" =>
                                 /\ now.grounded <=> now.status = "answered"
                                 /\ now.grounded <=> cited # {}
                                 /\ now.degraded <=> ~now.grounded /\ now.found > 0
      BY DEF AuditTellsTheAnswer
    <3> DEFINE now == question[r]
               cited == {now.context[n].document.source : n \in now.cited}
    <3>1. Consistent(now, audits[r], reading[r])
      BY <2>1
    <3>2. cited # {} <=> now.cited # {}
      OBVIOUS
    <3> HIDE DEF now, cited
    <3>3. /\ audits[r] \in {<<>>, <<now.status>>}
          /\ audits[r] # <<>> => now.phase = "answered"
      BY <3>1 DEF Consistent
    <3>4. Len(audits[r]) <= 1
      <4>1. CASE audits[r] = <<>>
        BY <4>1
      <4>2. CASE audits[r] = <<now.status>>
        <5>1. Len(<<now.status>>) = 1
          OBVIOUS
        <5> QED BY <4>2, <5>1
      <4> QED BY <4>1, <4>2, <3>3
    <3>5. now.phase = "answered" => Decided(now)
      BY <3>1 DEF Consistent
    <3>6. now.phase = "answered" =>
            /\ now.grounded <=> now.status = "answered"
            /\ now.grounded <=> cited # {}
            /\ now.degraded <=> ~now.grounded /\ now.found > 0
      BY <3>2, <3>5 DEF Decided
    <3> QED BY <3>3, <3>4, <3>6 DEF now, cited
  <2> QED BY <2>2, <2>3, <2>4 DEF AnswersHold
<1> QED BY <1>1, AssistantInvariance, PTL

(***************************************************************************)
(* For any scores, excerpts and budget, and any documents that share a     *)
(* page: what is sent to the provider stays within the budget, wherever    *)
(* the last document is cut, and no page is sent twice.                    *)
(***************************************************************************)
THEOREM ContextsStayBounded == AssistantSpec => []ContextIsBounded
<1>1. AssistantIInv => ContextIsBounded
  BY DEF AssistantIInv, Consistent, ContextIsBounded
<1> QED BY <1>1, AssistantInvariance, PTL

=============================================================================
