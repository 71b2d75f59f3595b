--------------------------- MODULE AdminSessions ---------------------------
(***************************************************************************)
(* Administrators, the sessions their logins open, and the commands that   *)
(* create an administrator or rotate one's credentials, which end every    *)
(* session that is open.  A login verifies the password of a row it read   *)
(* without a lock, and a rotation revokes sessions in a statement before   *)
(* its commit, so either may miss what the other has not committed yet.    *)
(* LoginThrottle has the logins that fail.                                 *)
(***************************************************************************)
EXTENDS Naturals, UnitOfWork

CONSTANTS
    Admins,     \* rows of admin_users
    Emails,
    Secrets,    \* passwords
    Tokens,     \* session tokens, each generated once
    Logins,     \* login requests that may run at one time
    Operators,  \* commands of manage.py that may run at one time
    None        \* no administrator, no address

ASSUME SessionsAssumption == None \notin Admins \union Emails

VARIABLES
    admins,     \* admin_users; a row that is not created has no email
    sessions,   \* admin_sessions
    logins,     \* requests that have verified a password
    commands,   \* the commands under way
    issued,     \* history: the credentials that were last committed
    crossed     \* history: administrators about whom requests overlapped

sessionVars == <<admins, sessions, logins, commands, issued, crossed>>

-----------------------------------------------------------------------------

\* `modern' is FALSE for a hash whose parameters are no longer those of the
\* password service; `opened' is last_login_at.
Hash == [secret : Secrets, modern : BOOLEAN]
Admin == [email : Emails, hash : Hash]

\* A session is open until it is revoked or expires; `secret' is the password
\* its login verified.
Session == [admin : Admins, open : BOOLEAN, secret : Secrets]

NoAdmin == [email |-> None]
NoSession == [open |-> FALSE]
NoLogin == [admin |-> None]
NoCommand == [step |-> "none"]

Exists(a) == admins[a] # NoAdmin

\* get_user_by_email
WithEmail(email) == {a \in Admins : Exists(a) /\ admins[a].email = email}

Credentials == [email : Emails, secret : Secrets]

SessionsTypeOK ==
    /\ admins \in [Admins -> Admin \union {NoAdmin}]
    /\ sessions \in [Tokens -> Session \union {NoSession}]
    /\ logins \in [Logins -> [admin : Admins, loaded : Admin] \union {NoLogin}]
    /\ commands \in [Operators ->
         [step : {"creating", "updating", "revoking"}, admin : Admins, loaded : Admin \union {NoAdmin},
          asked : Credentials, revokes : SUBSET Tokens] \union {NoCommand}]
    /\ issued \in [Admins -> Credentials \union {NoAdmin}]
    /\ crossed \subseteq Admins

SessionsInit ==
    /\ admins = [a \in Admins |-> NoAdmin]
    /\ sessions = [t \in Tokens |-> NoSession]
    /\ logins = [l \in Logins |-> NoLogin]
    /\ commands = [o \in Operators |-> NoCommand]
    /\ issued = [a \in Admins |-> NoAdmin]
    /\ crossed = {}

\* What authenticate accepts; nothing in the code makes a user inactive.
Accepted == {t \in Tokens : sessions[t].open}

\* The administrators whom a request that is past its first read is about.
Entered(ls, cs) ==
    {ls[l].admin : l \in {l \in Logins : ls[l] # NoLogin}}
        \union {cs[o].admin : o \in {o \in Operators : cs[o].step \in {"updating", "revoking"}}}

-----------------------------------------------------------------------------
(* Logins and sessions.                                                    *)

\* The user is read and its password verified.
Verify(l, email, secret) ==
    /\ logins[l] = NoLogin
    /\ \E a \in WithEmail(email) :
        /\ admins[a].hash.secret = secret
        /\ logins' = [logins EXCEPT ![l] = [admin |-> a, loaded |-> admins[a]]]
    /\ UNCHANGED <<admins, sessions, commands, issued, crossed>>

\* The row as the login leaves it in its session: a hash with old parameters
\* is replaced by one of the same password.
Rehashed(loaded) ==
    IF loaded.hash.modern THEN loaded ELSE [loaded EXCEPT !.hash.modern = TRUE]

\* The session is added and the row flushed, in one transaction.
OpenSession(l, t) ==
    /\ logins[l] # NoLogin
    /\ sessions[t] = NoSession
    /\ LET a == logins[l].admin
           loaded == logins[l].loaded
       IN  /\ sessions' = [sessions EXCEPT ![t] =
                 [admin |-> a, open |-> TRUE, secret |-> loaded.hash.secret]]
           /\ admins' = [admins EXCEPT ![a] = Flush(@, loaded, Rehashed(loaded), {})]
           /\ crossed' = IF \E o \in Operators :
                              commands[o].step = "revoking" /\ commands[o].admin = a
                           THEN crossed \union {a} ELSE crossed
    /\ logins' = [logins EXCEPT ![l] = NoLogin]
    /\ UNCHANGED <<commands, issued>>

\* The login's commit fails, or it is cut off.
AbandonLogin(l) ==
    /\ logins[l] # NoLogin
    /\ logins' = [logins EXCEPT ![l] = NoLogin]
    /\ UNCHANGED <<admins, sessions, commands, issued, crossed>>

\* Log out, with a session that is accepted, or the session expires.  (A
\* logout that finds the row locked waits, and then has nothing to revoke.)
Logout(t) ==
    /\ t \in Accepted
    /\ sessions' = [sessions EXCEPT ![t].open = FALSE]
    /\ UNCHANGED <<admins, logins, commands, issued, crossed>>

\* The password service comes with new parameters.
Outdate ==
    /\ \E a \in Admins : Exists(a) /\ admins[a].hash.modern
    /\ admins' = [a \in Admins |->
         IF Exists(a) THEN [admins[a] EXCEPT !.hash.modern = FALSE] ELSE NoAdmin]
    /\ UNCHANGED <<sessions, logins, commands, issued, crossed>>

-----------------------------------------------------------------------------
(* manage.py                                                               *)

Command(step, a, loaded, asked, revokes) ==
    [step |-> step, admin |-> a, loaded |-> loaded, asked |-> asked, revokes |-> revokes]

\* create-admin looks the address up.
BeginCreate(o, a, asked) ==
    /\ commands[o] = NoCommand
    /\ ~Exists(a) /\ WithEmail(asked.email) = {}
    /\ commands' = [commands EXCEPT ![o] = Command("creating", a, admins[a], asked, {})]
    /\ UNCHANGED <<admins, sessions, logins, issued, crossed>>

\* The unique index on the address.
Free(email, a) == WithEmail(email) \subseteq {a}

Create(o) ==
    /\ commands[o].step = "creating"
    /\ LET a == commands[o].admin
           asked == commands[o].asked
       IN  /\ ~Exists(a) /\ Free(asked.email, a)
           /\ admins' = [admins EXCEPT ![a] =
                [email |-> asked.email, hash |-> [secret |-> asked.secret, modern |-> TRUE]]]
           /\ issued' = [issued EXCEPT ![a] = asked]
    /\ commands' = [commands EXCEPT ![o] = NoCommand]
    /\ UNCHANGED <<sessions, logins, crossed>>

\* update-admin reads the user and looks for another one with the new address.
BeginUpdate(o, a, asked) ==
    /\ commands[o] = NoCommand
    /\ Exists(a) /\ Free(asked.email, a)
    /\ commands' = [commands EXCEPT ![o] = Command("updating", a, admins[a], asked, {})]
    /\ UNCHANGED <<admins, sessions, logins, issued, crossed>>

\* Mutant: a rotation revokes nothing.
Revocable_None(a) == {}

Revocable(a) == {t \in Accepted : sessions[t].admin = a}

\* A row that a rotation has updated is locked until its transaction ends.
Locked(t) == \E o \in Operators : commands[o].step = "revoking" /\ t \in commands[o].revokes

\* revoke_all_user_sessions: the UPDATE sees the sessions that are committed,
\* and is committed later.
Revoke(o) ==
    /\ commands[o].step = "updating"
    /\ \A t \in Revocable(commands[o].admin) : ~Locked(t)
    /\ commands' = [commands EXCEPT ![o].step = "revoking",
                                    ![o].revokes = Revocable(commands[o].admin)]
    /\ UNCHANGED <<admins, sessions, logins, issued, crossed>>

Rotated(loaded, asked) ==
    [email |-> asked.email, hash |-> [secret |-> asked.secret, modern |-> TRUE]]

\* A hash is salted: it differs from the one that was loaded even if the
\* password does not.
Update(o) ==
    /\ commands[o].step = "revoking"
    /\ LET a == commands[o].admin
           asked == commands[o].asked
           others == [commands EXCEPT ![o] = NoCommand]
       IN  /\ Free(asked.email, a)
           /\ admins' = [admins EXCEPT ![a] =
                Flush(@, commands[o].loaded, Rotated(commands[o].loaded, asked), {"hash"})]
           /\ sessions' = [t \in Tokens |->
                IF t \in commands[o].revokes THEN [sessions[t] EXCEPT !.open = FALSE]
                ELSE sessions[t]]
           /\ issued' = [issued EXCEPT ![a] = asked]
           /\ crossed' = IF a \in Entered(logins, others) THEN crossed \union {a} ELSE crossed
           /\ commands' = others
    /\ UNCHANGED logins

\* The command is refused, by a check or by the index, or cut off.
AbandonCommand(o) ==
    /\ commands[o] # NoCommand
    /\ commands' = [commands EXCEPT ![o] = NoCommand]
    /\ UNCHANGED <<admins, sessions, logins, issued, crossed>>

SessionsNext ==
    \/ \E l \in Logins :
        \/ \E e \in Emails, s \in Secrets : Verify(l, e, s)
        \/ \E t \in Tokens : OpenSession(l, t)
        \/ AbandonLogin(l)
    \/ \E t \in Tokens : Logout(t)
    \/ Outdate
    \/ \E o \in Operators :
        \/ \E a \in Admins, asked \in Credentials : BeginCreate(o, a, asked) \/ BeginUpdate(o, a, asked)
        \/ Create(o)
        \/ Revoke(o)
        \/ Update(o)
        \/ AbandonCommand(o)

SessionsSpec == SessionsInit /\ [][SessionsNext]_sessionVars

-----------------------------------------------------------------------------

\* A session that is accepted was opened with the password that is in force,
\* unless its login ran beside a rotation: one that verified the old password
\* before, or that committed while the revocation was not committed yet.
SessionsAreCurrent ==
    \A t \in Accepted :
        sessions[t].admin \in crossed \/ sessions[t].secret = issued[sessions[t].admin].secret

\* The address and password in force are those of one command, the last,
\* unless requests about the administrator overlapped: a login that replaces
\* an outdated hash writes the old password back, and of two rotations the
\* second keeps the address of the first if it did not want to change it.
CredentialsAreOfOneCommand ==
    \A a \in Admins :
        Exists(a) /\ a \notin crossed =>
            admins[a].email = issued[a].email /\ admins[a].hash.secret = issued[a].secret

\* What login, authenticate, create_admin and update_admin_credentials keep
\* true together of an administrator and the sessions opened for her.
CredentialsHold == SessionsTypeOK /\ SessionsAreCurrent /\ CredentialsAreOfOneCommand

=============================================================================
