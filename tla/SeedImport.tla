----------------------------- MODULE SeedImport -----------------------------
(***************************************************************************)
(* What becomes of a JSON Resume document or a LinkedIn export: a manifest *)
(* of drafts for ManifestSeeding, or a refusal.  The keys of the records   *)
(* are made of a name and of its place in the source, so that importing a  *)
(* source that has grown should find again what was seeded from it.        *)
(*                                                                         *)
(* Texts are names; all that counts of a name is what it folds to, in      *)
(* lower case, and the slug it leaves.  A digest in a key is as good as    *)
(* what it was made of.  A JSON Resume document has a name in its basics.  *)
(***************************************************************************)
EXTENDS Integers, FiniteSets, SequencesExt

CONSTANTS
    Texts, NoName,  \* texts, and a text that is absent or blank
    Folded, Slug,   \* what a name folds to, and its slug
    NoSlug,         \* the slug of a name without letters or digits
    Pictures, Papers, \* names of files in the manifest's directory, by their type
    MaxRecords,     \* entries of one list of a JSON Resume document
    MaxMembers, MaxMemberSize, MaxTotalSize, MaxRatio,  \* of a LinkedIn archive
    Entries,        \* what may be written into a document
    Members,        \* what may be added to an archive
    MaxLength       \* bound on entries or members

NoDate == <<0, 0, 0>>

\* An entry of a document or a row of a table: what it is called, by whom (an
\* organisation, an issuer, the words of a reference), what it mentions, and
\* when it was.  What a list does not tell is absent.
Entry == [list : STRING, name : Texts \union {NoName}, by : Texts \union {NoName},
          keywords : Seq(Texts), start : Nat \X Nat \X Nat, end : Nat \X Nat \X Nat]

\* A member of an archive: its size, the one in the archive, and its rows if
\* it is a table.
Member == [table : STRING, rows : Seq(Entry), outside : BOOLEAN, size : Nat, packed : Nat]

ASSUME ImportAssumption ==
    /\ NoName \notin Texts
    /\ Entries \subseteq Entry /\ Members \subseteq Member
    /\ \A n, m \in Texts : Folded[n] = Folded[m] => Slug[n] = Slug[m]
    /\ {MaxRecords, MaxMembers, MaxMemberSize, MaxTotalSize, MaxRatio, MaxLength} \subseteq Nat

VARIABLES
    source,    \* "resume" or "linkedin"
    document   \* the entries of the document, or the members of the archive

importVars == <<source, document>>

-----------------------------------------------------------------------------
(* Dates: <<year, month, day>>, where a text leaves out the day or both,   *)
(* which are then 0.  NoDate is an absent one.                             *)

Leap(y) == (y % 4 = 0 /\ y % 100 # 0) \/ y % 400 = 0

MonthLength(y, m) ==
    IF m = 2 THEN (IF Leap(y) THEN 29 ELSE 28) ELSE IF m \in {4, 6, 9, 11} THEN 30 ELSE 31

Readable(text) ==
    \/ text = NoDate
    \/ /\ text[1] > 0 /\ text[2] \in 0..12
       /\ text[3] \in 0..(IF text[2] = 0 THEN 0 ELSE MonthLength(text[1], text[2]))

\* A text without a day is the first or the last one it can mean.
Date(text, end) ==
    IF text = NoDate \/ text[3] > 0 THEN text
    ELSE LET month == IF text[2] > 0 THEN text[2] ELSE IF end THEN 12 ELSE 1
         IN  <<text[1], month, IF end THEN MonthLength(text[1], month) ELSE 1>>

Precedes(d, e) ==
    \/ d[1] < e[1]
    \/ d[1] = e[1] /\ d[2] < e[2]
    \/ d[1] = e[1] /\ d[2] = e[2] /\ d[3] < e[3]

InOrder(start, end) == start = NoDate \/ end = NoDate \/ ~Precedes(end, start)

-----------------------------------------------------------------------------
(* Records of a manifest.                                                  *)

Key(prefix, value, index) == <<prefix, value, index>>

SlugOf(name, fallback) == IF Slug[name] = NoSlug THEN fallback ELSE Slug[name]

\* What the key of a record is made of, beside its place.
Value(x) ==
    IF x.list \in {"work", "volunteer", "education", "certificates", "awards",
                   "positions", "certifications"}
      THEN <<x.by, x.name>> ELSE <<x.name>>

SeedRecord(key, slug, refs, x) ==
    [key |-> key, slug |-> slug, refs |-> refs, status |-> "draft",
     start |-> Date(x.start, FALSE), end |-> Date(x.end, TRUE)]

\* What a list holds: entries, each with its place in the list.
Listed(x, place) == [entry |-> x, place |-> place]

\* The records that are made of a list.
PlainRecords(prefix, listing) ==
    [o \in listing |-> SeedRecord(Key(prefix, Value(o.entry), o.place), NoSlug, {}, o.entry)]

NamedRecords(prefix, listing, fallback) ==
    [o \in listing |-> SeedRecord(Key(prefix, Value(o.entry), o.place),
                                   SlugOf(o.entry.name, <<fallback, o.place>>), {}, o.entry)]

Collections ==
    {"profiles", "portraits", "versions", "links", "categories", "skills", "projects",
     "experiences", "education", "certifications", "testimonials"}

NoPeriod == [start |-> NoDate, end |-> NoDate]

\* Either source describes one profile.
ProfileKey(prefix) == Key(prefix, <<>>, 0)

Profile(prefix) == [k \in {ProfileKey(prefix)} |-> SeedRecord(k, NoSlug, {}, NoPeriod)]

-----------------------------------------------------------------------------
(* JSON Resume.                                                            *)

Of(d, lists) == {i \in DOMAIN d : d[i].list \in lists}

\* How many entries its list has up to the one at i.
Counted(d, i) == Cardinality({j \in Of(d, {d[i].list}) : j <= i})

\* Mutant: voluntary work comes first.
Place_VolunteerFirst(d, i) ==
    IF d[i].list = "work" THEN Cardinality(Of(d, {"volunteer"})) + Counted(d, i) ELSE Counted(d, i)

\* The place of an entry counts what is skipped; voluntary work comes after work.
Place(d, i) ==
    IF d[i].list = "volunteer" THEN Cardinality(Of(d, {"work"})) + Counted(d, i) ELSE Counted(d, i)

SkippedEntry(x) ==
    \/ x.list \in {"work", "volunteer"} /\ x.start = NoDate
    \/ x.list \in {"certificates", "awards"} /\ x.by = NoName

\* A required text is missing or a date cannot be read.
BadEntry(x) ==
    \/ x.list \notin {"education", "image"} /\ x.name = NoName
    \/ x.list \in {"work", "volunteer", "education", "references"} /\ x.by = NoName
    \/ ~SkippedEntry(x) /\ ~(Readable(x.start) /\ Readable(x.end))
    \/ x.list = "paper" /\ x.name \notin Papers

Listing(d, lists) == {Listed(d[i], Place(d, i)) : i \in {j \in Of(d, lists) : ~SkippedEntry(d[j])}}

\* What skills are made of: <<i, k>> is the keyword k of entry i, <<i, 0>> the
\* name of an entry of the document's skills that has no keywords.
Mentions(d) ==
    (UNION {{<<i, k>> : k \in DOMAIN d[i].keywords} : i \in Of(d, {"skills", "projects"})})
      \union {<<i, 0>> : i \in {j \in Of(d, {"skills"}) : d[j].keywords = <<>>}}

Said(d, m) == IF m[2] = 0 THEN d[m[1]].name ELSE d[m[1]].keywords[m[2]]

\* The document's skills are read before its projects.
Earlier(d, m, n) ==
    \/ d[m[1]].list = "skills" /\ d[n[1]].list = "projects"
    \/ /\ d[m[1]].list = d[n[1]].list
       /\ m[1] < n[1] \/ (m[1] = n[1] /\ m[2] < n[2])

\* A skill is made of the first mention of its name.
NewSkills(d) ==
    {m \in Mentions(d) :
        \A n \in Mentions(d) : Earlier(d, n, m) => Folded[Said(d, n)] # Folded[Said(d, m)]}

SkillPlace(d, m) == Cardinality({n \in NewSkills(d) : n = m \/ Earlier(d, n, m)})

SkillKey(d, m) == Key("resume.skill", <<Said(d, m)>>, SkillPlace(d, m))

CategoryKey(name) == Key("resume.category", <<name>>, 0)

\* A skill that was first met as a keyword of a group belongs to it.
SkillGroup(d, m) ==
    IF m[2] > 0 /\ d[m[1]].list = "skills" THEN {CategoryKey(d[m[1]].name)} ELSE {}

Skills(d) ==
    [m \in NewSkills(d) |->
        SeedRecord(SkillKey(d, m), SlugOf(Said(d, m), <<"skill", SkillPlace(d, m)>>),
                   SkillGroup(d, m), NoPeriod)]

\* The entries that make groups of the skills they list.
GroupEntries(d) == {i \in Of(d, {"skills"}) : d[i].keywords # <<>>}

\* Mutant: groups whose names differ in case share a category.
Categories_ByFold(d) ==
    LET heads == {i \in GroupEntries(d) :
                    \A j \in GroupEntries(d) : Folded[d[j].name] = Folded[d[i].name] => i <= j}
    IN  [i \in heads |-> SeedRecord(CategoryKey(d[i].name),
            SlugOf(d[i].name, <<"skill-group", Place(d, i)>>), {}, NoPeriod)]

\* The first entry of a group makes a category of it.
Categories(d) ==
    LET heads == {i \in GroupEntries(d) : \A j \in GroupEntries(d) : d[j].name = d[i].name => i <= j}
    IN  [i \in heads |-> SeedRecord(CategoryKey(d[i].name),
            SlugOf(d[i].name, <<"skill-group", Place(d, i)>>), {}, NoPeriod)]

ProjectSkills(d, x) ==
    {SkillKey(d, m) : m \in {n \in NewSkills(d) :
        \E k \in DOMAIN x.keywords : Folded[x.keywords[k]] = Folded[Said(d, n)]}}

ResumeProjects(d) ==
    LET records == NamedRecords("resume.project", Listing(d, {"projects"}), "project")
    IN  [o \in DOMAIN records |-> [records[o] EXCEPT !.refs = ProjectSkills(d, o.entry)]]

ResumeLinks(d) ==
    LET records == PlainRecords("resume.social", Listing(d, {"profiles"}))
    IN  [o \in DOMAIN records |-> [records[o] EXCEPT !.refs = {ProfileKey("resume.profile")}]]

\* A picture that is not in the directory, or not a picture, is left out.
\* Both files belong to the profile.
ResumeAssets(d, list, kind, key) ==
    [i \in {j \in Of(d, {list}) : d[j].name \in kind} |->
        SeedRecord(Key(key, <<>>, 0), NoSlug, {ProfileKey("resume.profile")}, NoPeriod)]

\* Certificates and awards are counted apart and make one group.
ResumeManifest(d) ==
    [profiles |-> Profile("resume.profile"),
     portraits |-> ResumeAssets(d, "image", Pictures, "resume.portrait"),
     versions |-> ResumeAssets(d, "paper", Papers, "resume.document"),
     links |-> ResumeLinks(d),
     categories |-> Categories(d),
     skills |-> Skills(d),
     projects |-> ResumeProjects(d),
     experiences |-> PlainRecords("resume.experience", Listing(d, {"work", "volunteer"})),
     education |-> PlainRecords("resume.education", Listing(d, {"education"})),
     certifications |-> PlainRecords("resume.certification", Listing(d, {"certificates", "awards"})),
     testimonials |-> PlainRecords("resume.testimonial", Listing(d, {"references"}))]

ResumeRefused(d) ==
    \/ \E i \in DOMAIN d : BadEntry(d[i]) \/ Cardinality(Of(d, {d[i].list})) > MaxRecords
    \/ Cardinality(NewSkills(d)) > MaxRecords

-----------------------------------------------------------------------------
(* A LinkedIn export is an archive.                                        *)

SizeUpTo(d, i) == FoldLeft(LAMBDA total, member : total + member.size, 0, SubSeq(d, 1, i))

BadMember(d, i) ==
    LET member == d[i]
    IN  \/ member.outside
        \/ member.size > MaxMemberSize
        \/ SizeUpTo(d, i) > MaxTotalSize
        \/ member.packed = 0 /\ member.size > 0
        \/ member.packed > 0 /\ member.size > MaxRatio * member.packed
        \/ member.table # "none" /\ \E j \in 1..(i - 1) : d[j].table = member.table

\* <<i, k>> is the row k of member i.
RowsOf(d, name) ==
    UNION {{<<i, k>> : k \in DOMAIN d[i].rows} : i \in {j \in DOMAIN d : d[j].table = name}}

RowAt(d, p) == d[p[1]].rows[p[2]]

SkippedRow(x) ==
    \/ x.list # "education" /\ x.name = NoName
    \/ x.list \in {"positions", "education", "certifications", "recommendations"} /\ x.by = NoName
    \/ x.list = "positions" /\ x.start = NoDate

BadRow(x) ==
    \/ x.list = "positions" /\ ~Readable(x.start)
    \/ ~SkippedRow(x) /\ ~(Readable(x.start) /\ Readable(x.end))

RowListing(d, name) ==
    {Listed(RowAt(d, p), p[2]) : p \in {q \in RowsOf(d, name) : ~SkippedRow(RowAt(d, q))}}

LinkedinManifest(d) ==
    [profiles |-> Profile("linkedin.profile"),
     portraits |-> <<>>, versions |-> <<>>, links |-> <<>>, categories |-> <<>>,
     skills |-> NamedRecords("linkedin.skill", RowListing(d, "skills"), "skill"),
     projects |-> NamedRecords("linkedin.project", RowListing(d, "projects"), "project"),
     experiences |-> PlainRecords("linkedin.experience", RowListing(d, "positions")),
     education |-> PlainRecords("linkedin.education", RowListing(d, "education")),
     certifications |-> PlainRecords("linkedin.certification", RowListing(d, "certifications")),
     testimonials |-> PlainRecords("linkedin.testimonial", RowListing(d, "recommendations"))]

LinkedinRefused(d) ==
    \/ Len(d) > MaxMembers
    \/ \E i \in DOMAIN d :
          BadMember(d, i) \/ \E k \in DOMAIN d[i].rows : BadRow(d[i].rows[k])
    \/ Cardinality(RowsOf(d, "profile")) # 1
    \/ \E p \in RowsOf(d, "profile") : RowAt(d, p).name = NoName

-----------------------------------------------------------------------------
(* The manifest and its validation.                                        *)

SourceRefused(d) == IF source = "resume" THEN ResumeRefused(d) ELSE LinkedinRefused(d)

Manifest(d) == IF source = "resume" THEN ResumeManifest(d) ELSE LinkedinManifest(d)

Distinct(records, field) ==
    \A o, p \in DOMAIN records : o # p => records[o][field] # records[p][field]

RecordsOf(manifest) == UNION {ToSet(manifest[g]) : g \in Collections}

\* Of any two records of a group the keys differ, and the slugs where there
\* are slugs; nothing is published, and no period ends before it starts.
Accepted(manifest) ==
    /\ \A g \in Collections : Distinct(manifest[g], "key")
    /\ \A g \in {"categories", "skills", "projects"} : Distinct(manifest[g], "slug")
    /\ \A x \in RecordsOf(manifest) : x.status = "draft" /\ InOrder(x.start, x.end)

KeysOf(records) == {x.key : x \in ToSet(records)}

ImportedKeys(d) == {x.key : x \in RecordsOf(Manifest(d))}

-----------------------------------------------------------------------------
(* Sources grow.                                                           *)

ImportInit ==
    /\ source \in {"resume", "linkedin"}
    /\ document = <<>>

Write(what) ==
    /\ Len(document) < MaxLength
    /\ document' = Append(document, what)
    /\ UNCHANGED source

ImportNext ==
    \/ /\ source = "resume"
       /\ \E entry \in Entries :
             /\ entry.list \in {"image", "paper"} => Of(document, {entry.list}) = {}
             /\ Write(entry)
    \/ source = "linkedin" /\ \E member \in Members : Write(member)

ImportSpec == ImportInit /\ [][ImportNext]_importVars

-----------------------------------------------------------------------------
(* Properties.                                                             *)

\* Type correctness of the source, and of the records it becomes.
ImportTypeOK ==
    /\ source \in {"resume", "linkedin"}
    /\ document \in Seq(IF source = "resume" THEN Entries ELSE Members)
    /\ ~SourceRefused(document) =>
          \A x \in RecordsOf(Manifest(document)) :
              /\ x.key[3] \in Nat /\ x.status = "draft"
              /\ Readable(x.start) /\ Readable(x.end)

\* What a record refers to is in the manifest, in a group that is seeded
\* before it, so that seeding does not fail for a reference.
ReferencesResolve ==
    ~SourceRefused(document) =>
        LET manifest == Manifest(document)
        IN  /\ \A g \in {"portraits", "versions", "links"} : \A x \in ToSet(manifest[g]) :
                   x.refs \subseteq KeysOf(manifest.profiles)
            /\ \A s \in ToSet(manifest.skills) : s.refs \subseteq KeysOf(manifest.categories)
            /\ \A p \in ToSet(manifest.projects) : p.refs \subseteq KeysOf(manifest.skills)

\* The entries or rows that become records with a period.
Dated(d) ==
    IF source = "resume"
      THEN {d[i] : i \in {i \in DOMAIN d : ~SkippedEntry(d[i])}}
      ELSE {x \in UNION {ToSet(d[i].rows) : i \in DOMAIN d} : ~SkippedRow(x)}

\* The days that a text can mean.
Days(text) ==
    {d \in {text[1]} \X (1..12) \X (1..31) :
        /\ text[2] \in {0, d[2]} /\ text[3] \in {0, d[3]}
        /\ d[3] <= MonthLength(d[1], d[2])}

\* A period that is in order in some reading of its texts is in order in the
\* manifest, so that no such entry is refused.
PeriodsStayInOrder ==
    ~SourceRefused(document) => \A x \in Dated(document) :
        \/ InOrder(Date(x.start, FALSE), Date(x.end, TRUE))
        \/ \A d \in Days(x.start), e \in Days(x.end) : Precedes(e, d)

\* Names that are to have slugs of their own have them.
SlugsApart(listing) ==
    \A o, p \in listing :
        Slug[o.entry.name] # NoSlug /\ (Slug[o.entry.name] = Slug[p.entry.name] => o = p)

NamesApart(d) ==
    IF source = "resume"
      THEN /\ \A m, n \in Mentions(d) :
                 /\ Slug[Said(d, m)] # NoSlug
                 /\ Slug[Said(d, m)] = Slug[Said(d, n)] => Folded[Said(d, m)] = Folded[Said(d, n)]
           /\ \A i, j \in GroupEntries(d) :
                 /\ Slug[d[i].name] # NoSlug
                 /\ Slug[d[i].name] = Slug[d[j].name] => d[i].name = d[j].name
           /\ SlugsApart(Listing(d, {"projects"}))
           /\ \A o \in Listing(d, {"certificates"}), p \in Listing(d, {"awards"}) :
                 o.place = p.place => Value(o.entry) # Value(p.entry)
      ELSE SlugsApart(RowListing(d, "skills")) /\ SlugsApart(RowListing(d, "projects"))

\* An import is refused by validation only for what the source says itself:
\* two names with one slug, a certificate and an award that are the same and
\* in the same place, or a period that is out of order.
AcceptedUnlessNamesMeet ==
    /\ ~SourceRefused(document) /\ NamesApart(document)
    /\ \A x \in Dated(document) : InOrder(Date(x.start, FALSE), Date(x.end, TRUE))
    => Accepted(Manifest(document))

\* What an importer makes of any source is sound: records of drafts with keys
\* and dates, references that resolve, periods in order, and nothing that the
\* validation of manifests refuses but for what the source says itself.
ImportsAreSound ==
    /\ ImportTypeOK
    /\ ReferencesResolve
    /\ PeriodsStayInOrder
    /\ AcceptedUnlessNamesMeet

\* The last entry of a source leaves the keys of the records before it as
\* they would be without it, except that work comes before voluntary work,
\* and the document's skills before those of its projects.
GrowthKeepsKeys ==
    LET earlier == Front(document)
        added == Last(document)
    IN  document # <<>> /\ ~SourceRefused(document) =>
          \/ ImportedKeys(earlier) \subseteq ImportedKeys(document)
          \/ /\ source = "resume" /\ added.list = "work"
             /\ Of(earlier, {"volunteer"}) # {}
          \/ /\ source = "resume" /\ added.list = "skills"
             /\ \E i \in Of(earlier, {"projects"}) : earlier[i].keywords # <<>>

=============================================================================
