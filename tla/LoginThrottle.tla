--------------------------- MODULE LoginThrottle ---------------------------
(***************************************************************************)
(* How failed logins slow further ones down.  A login counts the failures  *)
(* stored for its client, verifies the password, and if that fails counts  *)
(* the failures of the account, charges two buckets in transactions of     *)
(* their own, and stores its failure: logins that run at one time pass     *)
(* counts that each of them is about to raise.                             *)
(***************************************************************************)
EXTENDS FixedWindow, Sequences, FiniteSets

CONSTANTS
    Accounts,     \* digests of the addresses that are typed
    Clients,      \* digests of the addresses requests come from
    Attempts,     \* requests that may run at one time
    MaxFailures,  \* failures after which a client is refused
    Threshold,    \* failures from which on an account answers with a delay
    FailureWindow, \* seconds a failure counts
    LastInstant   \* bound on the clock

ASSUME ThrottleAssumption ==
    /\ MaxFailures \in Nat \ {0}
    /\ Threshold \in Nat \ {0}
    /\ FailureWindow \in Nat \ {0}
    /\ LastInstant \in Nat
    /\ IsFiniteSet(Attempts)

VARIABLES
    now,             \* the clock
    failures,        \* login_attempts: the rows that did not succeed
    clientBuckets,   \* auth-ip-failure
    accountBuckets,  \* auth-account-failure
    attempts,        \* the requests under way
    told             \* history: when an account refused plainly, since its bucket was reset

throttleVars == <<now, failures, clientBuckets, accountBuckets, attempts, told>>

Instants == 0..LastInstant

-----------------------------------------------------------------------------

Phases == {"idle", "verifying", "failed", "charged", "storing", "forgiving"}

NoAttempt == [phase |-> "idle", account |-> {}, client |-> {}, at |-> 0,
            seen |-> 0, admitted |-> FALSE]

\* A stored failure, dated by the time the login began.  `number' stands for
\* the key that tells rows with the same contents apart.
Failure == [account : Accounts, client : Clients, at : Instants, number : Nat]

\* A bucket of the limiter starts at a reading of the clock.
LoginBuckets == [count : Nat, started : Instants]

ThrottleTypeOK ==
    /\ now \in Instants
    /\ failures \subseteq Failure
    /\ clientBuckets \in [Clients -> LoginBuckets]
    /\ accountBuckets \in [Accounts -> LoginBuckets]
    /\ attempts \in [Attempts ->
         [phase : Phases, account : SUBSET Accounts, client : SUBSET Clients,
          at : Instants, seen : Nat, admitted : BOOLEAN]]
    /\ \A l \in Attempts : attempts[l].phase = "idle" <=> attempts[l] = NoAttempt
    /\ told \in [Accounts -> Seq(Instants)]

ThrottleInit ==
    /\ now = 0
    /\ failures = {}
    /\ clientBuckets = [c \in Clients |-> NoBucket]
    /\ accountBuckets = [a \in Accounts |-> NoBucket]
    /\ attempts = [l \in Attempts |-> NoAttempt]
    /\ told = [a \in Accounts |-> <<>>]

-----------------------------------------------------------------------------

\* Failures stored for these accounts and clients that still count at an instant.
Recent(accounts, clients, at) ==
    {f \in failures : f.account \in accounts /\ f.client \in clients /\ at <= f.at + FailureWindow}

\* The account's bucket refuses where sequential logins would be delayed.
AccountLimit(threshold) == IF threshold > 1 THEN threshold - 1 ELSE 1

\* A client with too many failures is refused before anything is verified.
Refused(client, at) == Cardinality(Recent(Accounts, {client}, at)) >= MaxFailures

Begin(l, a, c) ==
    /\ attempts[l].phase = "idle"
    /\ ~Refused(c, now)
    /\ attempts' = [attempts EXCEPT ![l] =
         [NoAttempt EXCEPT !.phase = "verifying", !.account = {a}, !.client = {c}, !.at = now]]
    /\ UNCHANGED <<now, failures, clientBuckets, accountBuckets, told>>

\* The account is unknown or inactive, or the password is another.
FailVerification(l) ==
    /\ attempts[l].phase = "verifying"
    /\ LET seen == Cardinality(Recent(attempts[l].account, Clients, attempts[l].at))
       IN  attempts' = [attempts EXCEPT ![l].phase = "failed", ![l].seen = seen]
    /\ UNCHANGED <<now, failures, clientBuckets, accountBuckets, told>>

ChargeClient(l) ==
    /\ attempts[l].phase = "failed"
    /\ \E c \in attempts[l].client :
         LET admits == Admits(clientBuckets[c], MaxFailures, FailureWindow, now)
         IN  /\ attempts' = [attempts EXCEPT ![l].phase = "charged", ![l].admitted = admits]
             /\ clientBuckets' = IF admits
                  THEN [clientBuckets EXCEPT ![c] = Consumed(@, FailureWindow, now)]
                  ELSE clientBuckets
    /\ UNCHANGED <<now, failures, accountBuckets, told>>

\* The refusal that asks for no delay; how long the others ask for is left out.
IsPlain(attempt, accountAdmits) ==
    attempt.admitted /\ accountAdmits /\ attempt.seen + 1 < Threshold

\* Charged even if the client's bucket is full.
ChargeAccount(l) ==
    /\ attempts[l].phase = "charged"
    /\ \E a \in attempts[l].account :
         LET admits == Admits(accountBuckets[a], AccountLimit(Threshold), FailureWindow, now)
         IN  /\ accountBuckets' = IF admits
                  THEN [accountBuckets EXCEPT ![a] = Consumed(@, FailureWindow, now)]
                  ELSE accountBuckets
             /\ told' = IF IsPlain(attempts[l], admits)
                  THEN [told EXCEPT ![a] = Append(@, now)] ELSE told
    /\ attempts' = [attempts EXCEPT ![l].phase = "storing"]
    /\ UNCHANGED <<now, failures, clientBuckets>>

\* The rows of an account are deleted together, so the number of those alike
\* is not the number of one of them.
NewFailure(a, c, at) ==
    LET alike == {f \in failures : f.account = a /\ f.client = c /\ f.at = at}
    IN  [account |-> a, client |-> c, at |-> at, number |-> Cardinality(alike)]

\* The failure is dated by the start of the login's transaction.
StoreFailure(l) ==
    /\ attempts[l].phase = "storing"
    /\ \E a \in attempts[l].account, c \in attempts[l].client :
         failures' = failures \union {NewFailure(a, c, attempts[l].at)}
    /\ attempts' = [attempts EXCEPT ![l] = NoAttempt]
    /\ UNCHANGED <<now, clientBuckets, accountBuckets, told>>

\* The password is right: the failures of the account are deleted with the
\* commit of the session (AdminSessions).
Succeed(l) ==
    /\ attempts[l].phase = "verifying"
    /\ failures' = {f \in failures : f.account \notin attempts[l].account}
    /\ attempts' = [attempts EXCEPT ![l].phase = "forgiving"]
    /\ UNCHANGED <<now, clientBuckets, accountBuckets, told>>

\* Then the account's bucket is reset, in a transaction that may fail unnoticed.
Forgive(l) ==
    /\ attempts[l].phase = "forgiving"
    /\ accountBuckets' = [a \in Accounts |->
         IF a \in attempts[l].account THEN NoBucket ELSE accountBuckets[a]]
    /\ told' = [a \in Accounts |->
         IF a \in attempts[l].account THEN <<>> ELSE told[a]]
    /\ attempts' = [attempts EXCEPT ![l] = NoAttempt]
    /\ UNCHANGED <<now, failures, clientBuckets>>

\* The request is cut off, or the reset fails: what is committed stays.
GiveUp(l) ==
    /\ attempts[l].phase # "idle"
    /\ attempts' = [attempts EXCEPT ![l] = NoAttempt]
    /\ UNCHANGED <<now, failures, clientBuckets, accountBuckets, told>>

ThrottleTick ==
    /\ now < LastInstant
    /\ now' = now + 1
    /\ UNCHANGED <<failures, clientBuckets, accountBuckets, attempts, told>>

ThrottleNext ==
    \/ \E l \in Attempts :
        \/ \E a \in Accounts, c \in Clients : Begin(l, a, c)
        \/ FailVerification(l)
        \/ ChargeClient(l)
        \/ ChargeAccount(l)
        \/ StoreFailure(l)
        \/ Succeed(l)
        \/ Forgive(l)
        \/ GiveUp(l)
    \/ ThrottleTick

ThrottleSpec == ThrottleInit /\ [][ThrottleNext]_throttleVars

-----------------------------------------------------------------------------

\* However many logins run at one time, an account gives the plain answer
\* (wrong, and no delay) at most as often as the buckets of the two windows a
\* stretch of time can touch have room.  Counting before verifying alone would
\* let every concurrent login through.
AnswersAreBounded ==
    \A a \in Accounts, from \in Instants :
        Cardinality(Stretch(told[a], FailureWindow, from))
            <= 2 * (IF Threshold > 1 THEN Threshold - 1 ELSE 1)

\* The check before the verification is overrun by no more than the logins
\* that were past it: one client's failures within a window stay below the
\* limit plus the requests that run at one time.
OverrunIsBounded ==
    \A c \in Clients :
        Cardinality(Recent(Accounts, {c}, now)) < MaxFailures + Cardinality(Attempts)

\* Guessing is slowed down however the guesses are timed, and the counters it
\* is slowed down by keep their types.
GuessingIsBounded == ThrottleTypeOK /\ AnswersAreBounded /\ OverrunIsBounded

=============================================================================
