--------------------------- MODULE FeaturedOrder ---------------------------
(***************************************************************************)
(* The featured slots of the portfolio service.  A project that is public  *)
(* and has a rank occupies the slot of that number; a partial unique index *)
(* admits one occupant per slot, while a project that is not public may    *)
(* keep any rank.  Replacing the order selects the occupants and the       *)
(* projects of the new order, locks those rows one after another, and      *)
(* then ranks them; the other operations lock and write a single project.  *)
(***************************************************************************)
EXTENDS Naturals, Functions

CONSTANTS
    Projects,   \* identifiers of projects
    Limit,      \* how many projects may be featured at one time
    Ranks,      \* the ranks that single projects are given
    Replacements,   \* replacements of the order that may run at one time
    NoOne        \* no request

ASSUME FeaturedAssumption ==
    /\ Limit \in Nat \ {0}
    /\ Ranks \subseteq Nat \ {0}
    /\ NoOne \notin Replacements

VARIABLES
    rank,     \* featured_rank of each project, 0 if it has none
    active,   \* is the project published, visible and not archived?
    holder,   \* the request that holds the lock of the project's row
    stage,
    order,    \* the order each request was given
    found,    \* the rows its query selected and has yet to lock
    late      \* history: the projects that became occupants after its query

featuredVars == <<rank, active, holder, stage, order, found, late>>
projects == <<rank, active>>
underway == <<holder, stage, order, found>>

-----------------------------------------------------------------------------

Occupants == {p \in Projects : active[p] /\ rank[p] # 0}

\* The orders a client may send: no more than the limit, and none twice.
Orders == UNION {Injection(1..n, Projects) : n \in 0..Limit}

\* The slot a project has in an order, 0 if it is not in it.
Slot(o, p) == IF p \in Range(o) THEN CHOOSE i \in DOMAIN o : o[i] = p ELSE 0

FeaturedTypeOK ==
    /\ rank \in [Projects -> Nat]
    /\ active \in [Projects -> BOOLEAN]
    /\ holder \in [Projects -> Replacements \union {NoOne}]
    /\ stage \in [Replacements -> {"ready", "locking"}]
    /\ order \in [Replacements -> Orders]
    /\ found \in [Replacements -> SUBSET Projects]
    /\ late \in [Replacements -> SUBSET Projects]
    /\ \A p \in Projects : holder[p] # NoOne => stage[holder[p]] = "locking"

FeaturedInit ==
    /\ rank = [p \in Projects |-> 0]
    /\ active = [p \in Projects |-> FALSE]
    /\ holder = [p \in Projects |-> NoOne]
    /\ stage = [r \in Replacements |-> "ready"]
    /\ order = [r \in Replacements |-> <<>>]
    /\ found = [r \in Replacements |-> {}]
    /\ late = [r \in Replacements |-> {}]

\* The unique index: no two occupants of one slot.
SlotsDiffer(ranks, actives) ==
    \A p, q \in Projects :
        actives[p] /\ actives[q] /\ ranks[p] = ranks[q] /\ ranks[p] # 0 => p = q

\* What each replacement under way has missed after this step.
Missed ==
    [r \in Replacements |->
        IF stage'[r] = "locking" THEN late[r] \union (Occupants' \ Occupants) ELSE {}]

-----------------------------------------------------------------------------
(* Operations on one project: each locks its row and reads it afresh.      *)

\* The row of p is written and the index agrees.
Write(p, newRank, newActive) ==
    /\ holder[p] = NoOne
    /\ rank' = [rank EXCEPT ![p] = newRank]
    /\ active' = [active EXCEPT ![p] = newActive]
    /\ SlotsDiffer(rank', active')
    /\ UNCHANGED underway

\* Update the project's rank.  One that stays hidden ends with none.
SetRank(p, k) == Write(p, k, active[p])

\* Publish the project, or make it visible again; it keeps its rank.
Publish(p) == Write(p, rank[p], TRUE)

\* Unpublish, archive or hide the project; it loses its rank.
Withdraw(p) == Write(p, 0, FALSE)

-----------------------------------------------------------------------------
(* Replacing the order.                                                    *)

\* Mutant: only the projects of the new order are selected.
Selected_OnlyNew(o) == Range(o)

Selected(o) == Occupants \union Range(o)

QueryFeatured(r, o) ==
    /\ stage[r] = "ready"
    /\ stage' = [stage EXCEPT ![r] = "locking"]
    /\ order' = [order EXCEPT ![r] = o]
    /\ found' = [found EXCEPT ![r] = Selected(o)]
    /\ UNCHANGED <<projects, holder>>

\* Lock the next row.  One that has changed and is no longer selected is
\* left out.
Lock(r, p) ==
    /\ stage[r] = "locking"
    /\ p \in found[r] /\ holder[p] = NoOne
    /\ found' = [found EXCEPT ![r] = @ \ {p}]
    /\ holder' = IF p \in Selected(order[r]) THEN [holder EXCEPT ![p] = r] ELSE holder
    /\ UNCHANGED <<projects, stage, order>>

\* The request ends and its locks are released.
EndReplacement(r) ==
    /\ stage' = [stage EXCEPT ![r] = "ready"]
    /\ order' = [order EXCEPT ![r] = <<>>]
    /\ found' = [found EXCEPT ![r] = {}]
    /\ holder' = [p \in Projects |-> IF holder[p] = r THEN NoOne ELSE holder[p]]

\* A project may be featured if it is public now that it is locked.
MayFeature(p) == active[p]

\* The rank every project has after the write: those that are locked lose
\* theirs, and then get the slot of the new order.
Ranked(r) ==
    [p \in Projects |-> IF holder[p] = r THEN Slot(order[r], p) ELSE rank[p]]

ReplaceOrder(r) ==
    /\ stage[r] = "locking" /\ found[r] = {}
    /\ \A p \in Range(order[r]) : MayFeature(p)
    /\ rank' = Ranked(r)
    /\ SlotsDiffer(rank', active)
    /\ EndReplacement(r)
    /\ UNCHANGED active

\* A check fails, the index refuses a slot, the database breaks a deadlock,
\* or the request is cut off.
RefuseOrder(r) ==
    /\ stage[r] # "ready"
    /\ EndReplacement(r)
    /\ UNCHANGED projects

FeaturedNext ==
    /\ \/ \E p \in Projects :
            \/ \E k \in Ranks \union {0} : SetRank(p, k)
            \/ Publish(p)
            \/ Withdraw(p)
       \/ \E r \in Replacements :
            \/ \E o \in Orders : QueryFeatured(r, o)
            \/ \E p \in Projects : Lock(r, p)
            \/ ReplaceOrder(r)
            \/ RefuseOrder(r)
    /\ late' = Missed

FeaturedSpec == FeaturedInit /\ [][FeaturedNext]_featuredVars

-----------------------------------------------------------------------------
(* Properties.                                                             *)

\* The request r ends and its order is stored.
OrderStored(r) == stage[r] = "locking" /\ stage'[r] = "ready" /\ rank' # rank

\* A replacement features what it was asked to, in that order, and nothing
\* of it is hidden by then: a project that was withdrawn in the meantime is
\* noticed.
OrderIsFeatured ==
    [][\A r \in Replacements : OrderStored(r) =>
          \A i \in DOMAIN order[r] : rank'[order[r][i]] = i /\ active'[order[r][i]]]_featuredVars

\* Beside the order that was stored, only projects that became featured after
\* the replacement's query are: one that was featured and loses its slot, or
\* its lock, in between is not overlooked.
OnlyLatecomersRemain ==
    [][\A r \in Replacements : OrderStored(r) =>
          Occupants' \subseteq Range(order[r]) \union late[r]]_featuredVars

\* A replacement leaves nothing else featured: what visitors see is the
\* order of one request, not a mixture of several.
OrderIsWhole ==
    [][\A r \in Replacements : OrderStored(r) => Occupants' \subseteq Range(order[r])]_featuredVars

\* A replacement is what replace_featured_order was asked for, but for those
\* that came late: its order is featured and public, and the rest is cleared.
FeaturedAsAsked == OrderIsFeatured /\ OnlyLatecomersRemain /\ []FeaturedTypeOK

=============================================================================
