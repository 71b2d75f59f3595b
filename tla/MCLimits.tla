------------------------------ MODULE MCLimits ------------------------------
(***************************************************************************)
(* Instances of the limiter and of the logins that it and its like slow    *)
(* down, for TLC.  Each behaviour runs one of RateLimiter, LoginThrottle   *)
(* and AdminSessions and leaves the others alone.                          *)
(***************************************************************************)
EXTENDS RateLimiter, LoginThrottle, AdminSessions, TLC

VARIABLE part

LimitsInit ==
    /\ part \in {"limiter", "throttle", "sessions"}
    /\ Init
    /\ ThrottleInit
    /\ SessionsInit

LimitsNext ==
    /\ \/ part = "limiter" /\ Next /\ UNCHANGED <<throttleVars, sessionVars>>
       \/ part = "throttle" /\ ThrottleNext /\ UNCHANGED <<vars, sessionVars>>
       \/ part = "sessions" /\ SessionsNext /\ UNCHANGED <<vars, throttleVars>>
    /\ UNCHANGED part

LimitsSpec == LimitsInit /\ [][LimitsNext]_<<part, vars, throttleVars, sessionVars>>

\* What the limiter, and the logins that count by it, let through in a stretch
\* of time as long as a window, wherever it begins, is bounded.
BurstsAreBounded == BurstIsBounded /\ GuessingIsBounded

LimitsSymmetry ==
    Permutations(Operators) \union Permutations(Secrets) \union Permutations(Emails)

=============================================================================
