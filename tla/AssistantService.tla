-------------------------- MODULE AssistantService --------------------------
(***************************************************************************)
(* The assistant: a question is admitted, the catalog is searched, the     *)
(* best documents are put into a context of bounded size, a provider is    *)
(* asked, and only claims found verbatim in what it was sent are answered. *)
(* One audit event is written for each question that was searched.         *)
(*                                                                         *)
(* Text is a sequence of facts: <<i, 0>> is the title of row i, <<i, 1>>,  *)
(* <<i, 2>>... its excerpt.  A document costs one unit and one per fact.   *)
(***************************************************************************)
EXTENDS PublicCatalog

CONSTANTS
    Facts,       \* how many facts the excerpt of each row has
    Score,       \* the relevance of each row to the question; 0: none
    MaxSources,  \* max_sources
    MaxContext,  \* max_context_chars
    Provider,    \* whether a provider is configured
    MaxClaims    \* bound on the claims a provider makes

ASSUME AssistantAssumption ==
    /\ IsFiniteSet(Items)
    /\ Facts \in [Items -> Nat] /\ Score \in [Items -> Nat]
    /\ MaxSources \in Nat \ {0} /\ MaxContext \in Nat
    /\ Provider \in BOOLEAN

VARIABLES
    enabled,   \* the feature "assistant", which administrators switch
    question,  \* each reader's question
    audits     \* the statuses of the events written for it

assistantVars == <<enabled, question, audits>>

(***************************************************************************)
(* Retrieval: the provider of the catalog ranks what matches and cuts the  *)
(* list; the registry drops what may not be used, keeps the most relevant  *)
(* document of each page, and ranks and cuts again.                        *)
(***************************************************************************)
Excerpt(document) ==
    LET own == [n \in 1..Facts[document.source] |-> <<document.source, n>>]
    IN  own \o SetToSeq({<<m, 0>> : m \in document.quotes \ {document.source}})

\* The results of a ranking: the most relevant documents, in any order of ties.
Ranked(documents) ==
    {best \in SeqOf(documents, MaxSources) :
       /\ Len(best) = MaxSources \/ documents \subseteq Range(best)
       /\ \A j, k \in DOMAIN best : j < k => /\ best[j] # best[k]
                                           /\ Score[best[j].source] >= Score[best[k].source]
       /\ \A d \in documents \ Range(best), k \in DOMAIN best :
            Score[d.source] <= Score[best[k].source]}

SearchPublished(snap) ==
    Ranked({d \in AssistantDocuments(snap) : Score[d.source] > 0})

\* Mutant: noindex is left to the crawlers.
Authorized_Any(document) == TRUE

Authorized(document) == document.indexable

\* One of the most relevant documents of each page.
BestOfPage(documents) ==
    {chosen \in SUBSET documents :
       /\ \A d \in documents : \E e \in chosen : e.url = d.url /\ Score[d.source] <= Score[e.source]
       /\ \A d, e \in chosen : d.url = e.url => d = e}

Search(snap) ==
    UNION {Ranked(chosen) : chosen \in
      UNION {BestOfPage({d \in Range(found) : Authorized(d)}) : found \in SearchPublished(snap)}}

(***************************************************************************)
(* _build_context: whole documents while they fit, then the longest prefix *)
(* of the next one that does.  An entry is sent to the provider; what it   *)
(* holds, and no more, is what claims may be drawn from.                   *)
(***************************************************************************)
Entry(document, excerpt) == [document |-> document, excerpt |-> excerpt]

\* The places that entries take: one for the envelope of each, one for each fact.
Places(context) == UNION {{n} \X (0..Len(context[n].excerpt)) : n \in DOMAIN context}
Size(context) == Cardinality(Places(context))

Whole(documents, n) == [k \in 1..n |-> Entry(documents[k], Excerpt(documents[k]))]
Used(documents, n) == Size(Whole(documents, n))

\* Mutant: the last document is cut without counting its envelope.
BuildContext_Bare(documents, whole) ==
    LET room == MaxContext - Used(documents, whole)
        size == IF whole < Len(documents) /\ room > 0 THEN whole + 1 ELSE whole
    IN  [n \in 1..size |->
           Entry(documents[n], IF n <= whole THEN Excerpt(documents[n])
                               ELSE SubSeq(Excerpt(documents[n]), 1, room))]

\* The context, when the first `whole' documents fit in full.
BuildContext(documents, whole) ==
    LET room == MaxContext - Used(documents, whole)
        size == IF whole < Len(documents) /\ room > 0 THEN whole + 1 ELSE whole
    IN  [n \in 1..size |->
           Entry(documents[n], IF n <= whole THEN Excerpt(documents[n])
                               ELSE SubSeq(Excerpt(documents[n]), 1, room - 1))]

\* As many as there are: no document that fits in full is left out.
Contexts(documents) ==
    LET fitting == {n \in 0..Len(documents) : Used(documents, n) <= MaxContext}
    IN  {BuildContext(documents, n) : n \in {m \in fitting : \A k \in fitting : k <= m}}

\* Mutant: claims may be drawn from text that did not fit.
Fields_Whole(context) ==
    [n \in DOMAIN context |->
       {<<context[n].document.source, 0>>} \cup ToSet(Excerpt(context[n].document))]

\* What the claims of a source may be drawn from: its title and its excerpt.
Fields(context) ==
    [n \in DOMAIN context |->
       {<<context[n].document.source, 0>>} \cup ToSet(context[n].excerpt)]

\* A claim is a text and the sources it cites; all are admitted, or none is.
Admitted(claims, fields) ==
    /\ claims # {}
    /\ \A c \in claims : /\ c.sources # {}
                         /\ c.sources \subseteq DOMAIN fields
                         /\ \A n \in c.sources : c.text \in fields[n]

-----------------------------------------------------------------------------
(***************************************************************************)
(* A question, step by step.                                               *)
(***************************************************************************)
Unasked == [phase |-> "unasked", began |-> 0, sent |-> <<>>, context |-> <<>>, found |-> 0,
            claims |-> {}, cited |-> {}, status |-> "none", grounded |-> FALSE,
            degraded |-> FALSE]

AssistantInit ==
    /\ enabled \in BOOLEAN
    /\ question = [r \in Readers |-> Unasked]
    /\ audits = [r \in Readers |-> <<>>]

Advance(r, changed) == question' = [question EXCEPT ![r] = changed]
KeepCatalog == UNCHANGED <<db, last, clock, edits>>

\* The limit of the question's length and the flag are read before anything else.
Ask(r) ==
    /\ question[r].phase = "unasked"
    /\ \/ /\ enabled
          /\ Advance(r, [Unasked EXCEPT !.phase = "admission"])
       \/ Advance(r, [Unasked EXCEPT !.phase = "refused", !.status = "unavailable_or_too_long"])
    /\ KeepCatalog
    /\ UNCHANGED <<reading, enabled, audits>>

\* The limiter's own transaction, committed whatever happens afterwards.
Admit(r) ==
    /\ question[r].phase = "admission"
    /\ \/ /\ Advance(r, [Unasked EXCEPT !.phase = "searching", !.began = clock])
          /\ Begin(r, "search")
       \/ /\ Advance(r, [Unasked EXCEPT !.phase = "refused", !.status = "rate_limited"])
          /\ UNCHANGED reading
    /\ KeepCatalog
    /\ UNCHANGED <<enabled, audits>>

\* A statement of the search fails: the error reaches the visitor, unaudited.
SearchFails(r) ==
    /\ question[r].phase = "searching"
    /\ Advance(r, [question[r] EXCEPT !.phase = "refused", !.status = "error"])
    /\ reading' = [reading EXCEPT ![r] = NoReading]
    /\ KeepCatalog
    /\ UNCHANGED <<enabled, audits>>

\* The answer is decided; the audit event is written next.
Decide(now, status, grounded, degraded) ==
    [now EXCEPT !.phase = "auditing", !.status = status, !.grounded = grounded,
                !.degraded = degraded]

Searched(r) ==
    /\ question[r].phase = "searching" /\ Complete(r)
    /\ \E documents \in Search(reading[r]) : \E context \in Contexts(documents) :
         LET now == [question[r] EXCEPT !.sent = context, !.context = context,
                                        !.found = Len(documents)]
         IN  Advance(r, IF documents = <<>> THEN Decide(now, "insufficient_sources", FALSE, FALSE)
                        ELSE IF context = <<>>
                        THEN Decide(now, "insufficient_context_budget", FALSE, TRUE)
                        ELSE IF ~Provider THEN Decide(now, "provider_unconfigured", FALSE, TRUE)
                        ELSE [now EXCEPT !.phase = "generating"])
    /\ reading' = [reading EXCEPT ![r] = NoReading]
    /\ KeepCatalog
    /\ UNCHANGED <<enabled, audits>>

\* What a provider may claim: any text of any row, citing any numbers.
Claims ==
    [text : {<<i, n>> : i \in Items, n \in 0..2}, sources : SUBSET (1..(MaxSources + 1))]
Replies == {{}} \cup {{c} : c \in Claims}
             \cup (IF MaxClaims < 2 THEN {} ELSE {{c, d} : c, d \in Claims})

Generate(r, claims) ==
    LET now == question[r]
        admitted == Admitted(claims, Fields(now.context))
    IN  /\ now.phase = "generating"
        /\ Advance(r, IF ~admitted THEN Decide(now, "ungrounded_provider_response", FALSE, TRUE)
                      ELSE [Decide(now, "answered", TRUE, FALSE) EXCEPT
                              !.claims = claims,
                              !.cited = UNION {c.sources : c \in claims}])
        /\ KeepCatalog
        /\ UNCHANGED <<reading, enabled, audits>>

ProviderFails(r) ==
    /\ question[r].phase = "generating"
    /\ Advance(r, Decide(question[r], "provider_failed", FALSE, TRUE))
    /\ KeepCatalog
    /\ UNCHANGED <<reading, enabled, audits>>

\* A failed write of the event is logged; the answer is given all the same.
RecordAudit(r) ==
    /\ question[r].phase = "auditing"
    /\ Advance(r, [question[r] EXCEPT !.phase = "answered"])
    /\ audits' \in {audits, [audits EXCEPT ![r] = Append(@, question[r].status)]}
    /\ KeepCatalog
    /\ UNCHANGED <<reading, enabled>>

\* An administrator switches the feature.
Switch ==
    /\ edits < MaxEdits
    /\ edits' = edits + 1
    /\ enabled' = ~enabled
    /\ UNCHANGED <<db, last, clock, reading, question, audits>>

AssistantStep(r) ==
    \/ Ask(r) \/ Admit(r) \/ SearchFails(r) \/ Searched(r)
    \/ \E s \in Sessions : Execute(r, s) /\ UNCHANGED assistantVars
    \/ \E claims \in Replies : Generate(r, claims)
    \/ ProviderFails(r) \/ RecordAudit(r)

AssistantNext ==
    \/ \E r \in Readers : AssistantStep(r)
    \/ (Edit \/ Tick) /\ UNCHANGED assistantVars
    \/ Switch

AssistantSpec ==
    CatalogInit /\ AssistantInit /\ [][AssistantNext]_<<catalogVars, assistantVars>>

-----------------------------------------------------------------------------
AssistantTypeOK ==
    \A r \in Readers :
        /\ question[r].cited \subseteq DOMAIN question[r].context
        /\ question[r].phase \in {"unasked", "admission", "searching", "generating",
                                  "auditing", "answered", "refused"}

(***************************************************************************)
(* Whatever is withdrawn or hidden from indexing while a question is being *)
(* answered, a source that is cited, everything it quotes and the page it  *)
(* points to were public and indexable after the question was admitted.    *)
(***************************************************************************)
SourcesWereIndexable ==
    \A r \in Readers : \A n \in DOMAIN question[r].context :
        LET document == question[r].context[n].document
        IN  /\ \A i \in document.quotes : IndexableSince(i, question[r].began)
            /\ \A i \in Items : document.url = PathOf(i) /\ KindOf[i] # "profile" =>
                                  IndexableSince(i, question[r].began)

(***************************************************************************)
(* An answer says only what stands, verbatim, in the text that the         *)
(* provider was sent for every source it names: nothing a truncation cut   *)
(* off, nothing of another source, nothing uncited.                        *)
(***************************************************************************)
AnswersAreSupported ==
    \A r \in Readers : \A c \in question[r].claims :
        /\ c.sources # {}
        /\ \A n \in c.sources :
             \/ c.text = <<question[r].sent[n].document.source, 0>>
             \/ \E k \in DOMAIN question[r].sent[n].excerpt :
                  question[r].sent[n].excerpt[k] = c.text

\* Sources are numbered, and a page is spent on once.
EachPageOnce(sent) ==
    \A m, n \in DOMAIN sent : sent[m].document.url = sent[n].document.url => m = n

(***************************************************************************)
(* What is sent to the provider stays within the budget, and no page is    *)
(* spent on twice.                                                         *)
(***************************************************************************)
ContextIsBounded ==
    \A r \in Readers :
        LET sent == question[r].sent
        IN  Size(sent) <= MaxContext /\ EachPageOnce(sent)

(***************************************************************************)
(* The audit trail never tells another story than the answer: at most one  *)
(* event per question, none for a refused one, "answered" exactly when     *)
(* the visitor got cited claims, and degraded otherwise unless nothing     *)
(* was found.                                                              *)
(***************************************************************************)
AuditTellsTheAnswer ==
    \A r \in Readers :
        LET now == question[r]
            cited == {now.context[n].document.source : n \in now.cited}
        IN  /\ Len(audits[r]) <= 1
            /\ audits[r] # <<>> => now.phase = "answered" /\ audits[r] = <<now.status>>
            /\ now.phase = "answered" =>
                 /\ now.grounded <=> now.status = "answered"
                 /\ now.grounded <=> cited # {}
                 /\ now.degraded <=> ~now.grounded /\ now.found > 0

(***************************************************************************)
(* An answer is supported by what was sent to the provider, and the audit  *)
(* trail agrees with it.                                                   *)
(***************************************************************************)
AnswersHold == AssistantTypeOK /\ AnswersAreSupported /\ AuditTellsTheAnswer

=============================================================================
