------------------------ MODULE NotificationPromise -------------------------
(***************************************************************************)
(* What the engagement service promises about the notification of an       *)
(* accepted contact, without rows, leases, attempts or tasks: once owed it *)
(* is kept or abandoned, it is kept only when a mail has gone out, and an  *)
(* accepted contact never stops being accepted.                            *)
(***************************************************************************)
CONSTANT Submissions

VARIABLES
    promise,    \* none, declined (mail is off), owed, kept or abandoned
    reached     \* has some mail about the contact been accepted for delivery?

vars == <<promise, reached>>

Init ==
    /\ promise = [s \in Submissions |-> "none"]
    /\ reached = [s \in Submissions |-> FALSE]

Turn(s, from, to) ==
    /\ promise[s] \in from
    /\ promise' = [promise EXCEPT ![s] = to]
    /\ UNCHANGED reached

Accept(s) == Turn(s, {"none"}, "owed") \/ Turn(s, {"none"}, "declined")

\* A mail goes out, also when the promise has been settled meanwhile.
Mail(s) ==
    /\ promise[s] \in {"owed", "kept", "abandoned"}
    /\ reached' = [reached EXCEPT ![s] = TRUE]
    /\ UNCHANGED promise

Settle(s) ==
    \/ reached[s] /\ Turn(s, {"owed"}, "kept")
    \/ Turn(s, {"owed"}, "abandoned")

\* An administrator asks for another delivery.
Reopen(s) == Turn(s, {"abandoned", "kept"}, "owed")

Next == \E s \in Submissions : Accept(s) \/ Mail(s) \/ Settle(s) \/ Reopen(s)

Spec == Init /\ [][Next]_vars

FairSpec == Spec /\ \A s \in Submissions : WF_vars(Settle(s))

=============================================================================
