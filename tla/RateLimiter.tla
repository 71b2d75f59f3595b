---------------------------- MODULE RateLimiter -----------------------------
(***************************************************************************)
(* The fixed-window limiter shared by the contact and login services.  A   *)
(* caller reads the clock when its request starts and consumes one or more *)
(* buckets later, in one transaction; callers therefore commit out of the  *)
(* order of their clock readings.                                          *)
(***************************************************************************)
EXTENDS FixedWindow, Sequences, FiniteSets

CONSTANTS
    Buckets,    \* namespace:identity keys
    Resettable, \* those cleared on success: the login service's account keys
    Callers,    \* requests in flight
    Limit,      \* admitted requests per window
    Window,     \* seconds of a window
    MaxLag,     \* bound on the time between clock reading and commit
    MaxTime     \* bound on the clock

ASSUME LimiterAssumption ==
    /\ Resettable \subseteq Buckets
    /\ Limit \in Nat \ {0}
    /\ Window \in Nat \ {0}
    /\ MaxLag \in Nat
    /\ MaxTime \in Nat

VARIABLES
    buckets,    \* rate_limit_buckets
    clock,
    asks,       \* per caller: the buckets it wants, and when it read the clock
    admitted    \* (history) when a bucket that is never reset was consumed

vars == <<buckets, clock, asks, admitted>>

Idle == [wants |-> {}, at |-> 0]

\* A bucket starts at a reading of the clock.
Stamped == [count : Nat, started : 0..MaxTime]

TypeOK ==
    /\ buckets \in [Buckets -> Stamped]
    /\ clock \in 0..MaxTime
    /\ asks \in [Callers -> [wants : SUBSET Buckets, at : 0..MaxTime]]
    /\ admitted \in [Buckets \ Resettable -> Seq(0..MaxTime)]

Init ==
    /\ buckets = [b \in Buckets |-> NoBucket]
    /\ clock = 0
    /\ asks = [c \in Callers |-> Idle]
    /\ admitted = [b \in Buckets \ Resettable |-> <<>>]

Ask(c, wants) ==
    /\ asks[c] = Idle
    /\ asks' = [asks EXCEPT ![c] = [wants |-> wants, at |-> clock]]
    /\ UNCHANGED <<buckets, clock, admitted>>

Allowed(c) == \A b \in asks[c].wants : Admits(buckets[b], Limit, Window, asks[c].at)

\* Mutant: a denied request keeps what it consumed before the denial.
Charged_Partly(c) == {b \in asks[c].wants : Admits(buckets[b], Limit, Window, asks[c].at)}

\* The buckets a request is charged in: all it wants, or none because the
\* transaction is rolled back at the first bucket that is full.
Charged(c) == IF Allowed(c) THEN asks[c].wants ELSE {}

Consume(c) ==
    /\ asks[c].wants # {}
    /\ buckets' = [b \in Buckets |->
            IF b \in Charged(c) THEN Consumed(buckets[b], Window, asks[c].at) ELSE buckets[b]]
    /\ admitted' = [b \in Buckets \ Resettable |->
            IF b \in Charged(c) THEN Append(admitted[b], clock) ELSE admitted[b]]
    /\ asks' = [asks EXCEPT ![c] = Idle]
    /\ UNCHANGED clock

Reset(b) ==
    /\ buckets[b].count > 0
    /\ buckets' = [buckets EXCEPT ![b] = NoBucket]
    /\ UNCHANGED <<clock, asks, admitted>>

\* Time passes, but no request stays in flight for more than MaxLag.
Tick ==
    /\ clock < MaxTime
    /\ \A c \in Callers : asks[c] # Idle => clock < asks[c].at + MaxLag
    /\ clock' = clock + 1
    /\ UNCHANGED <<buckets, asks, admitted>>

Next ==
    \/ \E c \in Callers :
        \/ \E wants \in SUBSET Buckets : wants # {} /\ Ask(c, wants)
        \/ Consume(c)
    \/ \E b \in Resettable : Reset(b)
    \/ Tick

Spec == Init /\ [][Next]_vars

-----------------------------------------------------------------------------

\* No window counts more requests than the limit, whatever the order in which
\* requests that read the clock at different times commit.
WithinLimit == \A b \in Buckets : buckets[b].count <= Limit

\* How many windows can admit a request within one stretch of time as long as
\* a window, when a request may lag behind its reading of the clock.
WindowsTouched == (3 * Window + MaxLag - 2) \div Window

\* What the windows of the limiter guarantee of any stretch of time as long as
\* a window, wherever it begins: at most WindowsTouched times the limit.
BurstIsBounded ==
    \A b \in Buckets \ Resettable, from \in 0..MaxTime :
        Cardinality(Stretch(admitted[b], Window, from)) <= Limit * WindowsTouched

\* A window restarts only when a whole window has passed since it started, so
\* a late request can neither shorten a window nor move it backwards.
WindowsDoNotOverlap ==
    [][\A b \in Buckets :
        buckets[b].count > 0 /\ buckets'[b].count > 0 /\ buckets'[b].started # buckets[b].started
            => buckets'[b].started >= buckets[b].started + Window]_vars

\* A request that names several buckets is counted in all of them or in none.
AllOrNothing ==
    [][\A c \in Callers : asks[c] # Idle /\ asks'[c] = Idle =>
        \/ \A b \in asks[c].wants : buckets'[b].count > 0 /\ buckets'[b] # buckets[b]
        \/ UNCHANGED buckets]_vars

=============================================================================
