---------------------------- MODULE FixedWindow -----------------------------
(***************************************************************************)
(* The arithmetic of one bucket of the database rate limiter: the upsert   *)
(* that creates the row, restarts an expired window, or counts one more    *)
(* request while the window has room.                                      *)
(***************************************************************************)
EXTENDS Naturals

\* A bucket without a row has count 0.
NoBucket == [count |-> 0, started |-> 0]

Bucket == [count : Nat, started : Nat]

\* window_started_at <= checked_at - window, without negative numbers.
Expired(bucket, window, now) == bucket.started + window <= now

\* Mutant: the WHERE clause lets one request more through.
Admits_OneMore(bucket, limit, window, now) ==
    \/ bucket.count = 0
    \/ Expired(bucket, window, now)
    \/ bucket.count <= limit

Admits(bucket, limit, window, now) ==
    \/ bucket.count = 0
    \/ Expired(bucket, window, now)
    \/ bucket.count < limit

\* Mutant: every admitted request restarts the window it is counted in.
Consumed_Sliding(bucket, window, now) ==
    IF bucket.count = 0 \/ Expired(bucket, window, now)
      THEN [count |-> 1, started |-> now]
      ELSE [count |-> bucket.count + 1, started |-> now]

Consumed(bucket, window, now) ==
    IF bucket.count = 0 \/ Expired(bucket, window, now)
      THEN [count |-> 1, started |-> now]
      ELSE [count |-> bucket.count + 1, started |-> bucket.started]

-----------------------------------------------------------------------------

\* The entries of a log of instants that fall in a stretch of time as long as
\* a window.
Stretch(log, window, from) == {i \in DOMAIN log : from <= log[i] /\ log[i] < from + window}

=============================================================================
