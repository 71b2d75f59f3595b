----------------------------- MODULE MCReading -----------------------------
(***************************************************************************)
(* The two readers of the public catalog, each with administrators at      *)
(* work: crawlers' requests that share the last good documents, and a      *)
(* question to the assistant.  They share no state but the database, so    *)
(* a behaviour has one or the other.                                       *)
(***************************************************************************)
EXTENDS DiscoveryService, AssistantService

CONSTANTS profile, project, skill, sector, metric

VARIABLE part

vars == <<catalogVars, discoveryVars, assistantVars, part>>

MCItems == {profile, project, skill, sector, metric}

MCKindOf ==
    [i \in MCItems |->
       CASE i = profile -> "profile" [] i = project -> "project" [] i = skill -> "skill"
         [] i = sector -> "sector" [] i = metric -> "metric"]

MCLinks == {<<project, skill>>, <<project, sector>>, <<project, metric>>}

MCFacts == [i \in MCItems |-> IF i \in {project, metric} THEN 2 ELSE 1]

\* The skill and the profile cite the same page, and the skill fits better.
MCScore ==
    [i \in MCItems |-> CASE i = project -> 5 [] i = metric -> 6 [] i = skill -> 4
                         [] i = profile -> 3 [] i = sector -> 2 [] OTHER -> 0]

Init ==
    /\ CatalogInit /\ DiscoveryInit /\ AssistantInit
    /\ part \in {"discovery", "assistant"}
    /\ part = "discovery" => enabled

Discover ==
    /\ part = "discovery"
    /\ DiscoveryNext
    /\ UNCHANGED <<assistantVars, part>>

Assist ==
    /\ part = "assistant"
    /\ \/ \E r \in Readers : /\ \A other \in Readers \ {r} : question[other] = Unasked
                              /\ AssistantStep(r)
       \/ (Edit \/ Tick) /\ UNCHANGED assistantVars
       \/ Switch
    /\ UNCHANGED <<discoveryVars, part>>

Next == Discover \/ Assist

Symmetry == Permutations(Readers)

Spec == Init /\ [][Next]_vars

=============================================================================
