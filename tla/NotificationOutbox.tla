------------------------- MODULE NotificationOutbox -------------------------
(***************************************************************************)
(* The durable notification outbox of the engagement service: one outbox   *)
(* row per accepted contact, delivered by any number of asyncio tasks that *)
(* share only the database and the mail server.                            *)
(*                                                                         *)
(* Every database transaction of the repository is one step; between two   *)
(* transactions of a task, and between a transaction and the mail call,    *)
(* other tasks run.  A request handler delivers inline what it has just    *)
(* accepted, the lifespan worker polls for due rows, and an administrator  *)
(* may reset a row and deliver it.                                         *)
(*                                                                         *)
(* Instants are kept as the time left until they pass: `wait' is the time  *)
(* until next_attempt_at (0 when it is NULL or has passed), `lease' the    *)
(* time until locked_at is fifteen minutes old (0 when it is NULL or       *)
(* stale), so that an eligible row is one whose timer is 0.                *)
(***************************************************************************)
EXTENDS Naturals, FiniteSets

CONSTANTS
    Submissions,    \* ids of contact submissions
    Workers,        \* polling tasks: one per API replica
    Handlers,       \* request tasks: visitors' submissions, admin retries
    EmailModes,     \* settings.email_enabled of the deployments that accept
    BatchLimit,     \* settings.contact_notification_batch_size
    MaxAttempts,    \* 5 in the code
    Lease,          \* 15 minutes in the code
    BaseDelay,      \* 30 seconds in the code
    MaxDelay,       \* one hour in the code
    MaxClaims,      \* bound on attempt_count
    MaxFaults       \* bound on crashes, admin resets, lost replies and sends
                    \* that outlast their lease, together

ASSUME OutboxAssumption ==
    /\ EmailModes \subseteq BOOLEAN
    /\ BatchLimit \in Nat \ {0}
    /\ MaxAttempts \in Nat \ {0}
    /\ Lease \in Nat \ {0}
    /\ BaseDelay \in Nat
    /\ MaxDelay \in Nat
    /\ MaxClaims \in Nat
    /\ MaxFaults \in Nat

VARIABLES
    outbox,     \* contact_notification_outbox, one row per submission
    notice,     \* contact_submissions.notification_status
    mailed,     \* attempts whose mail the server has accepted (history)
    pc,         \* what each task does next
    todo,       \* submissions the task is still to deliver
    work,       \* the submission and attempt, or the row read, of a busy task
    faults      \* faults left of MaxFaults

vars == <<outbox, notice, mailed, pc, todo, work, faults>>

Tasks == Workers \union Handlers

-----------------------------------------------------------------------------

OutboxStatus ==
    {"absent", "pending", "processing", "retrying", "sent", "terminal", "disabled"}

NoticeStatus == {"absent", "pending", "disabled", "sent", "retrying", "terminal"}

\* locked tells whether locked_at holds a value at all
Row == [status : OutboxStatus, attempts : Nat, wait : Nat, lease : Nat, locked : BOOLEAN]

\* What a reset has loaded into its session.
Snapshot == [status : OutboxStatus, locked : BOOLEAN, notice : NoticeStatus]

Claimed == {"sending", "delivered", "failed"}

Nothing == [id |-> "none"]

Work == {Nothing}
        \union [id : Submissions, attempt : Nat]
        \union [id : Submissions, seen : Snapshot]

TypeOK ==
    /\ outbox \in [Submissions -> Row]
    /\ notice \in [Submissions -> NoticeStatus]
    /\ mailed \in [Submissions -> SUBSET Nat]
    /\ pc \in [Tasks -> {"ready", "resetting"} \union Claimed]
    /\ todo \in [Tasks -> SUBSET Submissions]
    /\ work \in [Tasks -> Work]
    /\ faults \in Nat

Init ==
    /\ outbox = [s \in Submissions |->
            [status |-> "absent", attempts |-> 0, wait |-> 0, lease |-> 0, locked |-> FALSE]]
    /\ notice = [s \in Submissions |-> "absent"]
    /\ mailed = [s \in Submissions |-> {}]
    /\ pc = [t \in Tasks |-> "ready"]
    /\ todo = [t \in Tasks |-> {}]
    /\ work = [t \in Tasks |-> Nothing]
    /\ faults = MaxFaults

Idle(t) == pc[t] = "ready" /\ todo[t] = {}

-----------------------------------------------------------------------------
(* Accepting a contact.                                                    *)

\* One transaction inserts the submission and its outbox row; the handler
\* then delivers the row itself when mail is on.
CreateContact(t, s, email) ==
    /\ Idle(t)
    /\ outbox[s].status = "absent"
    /\ LET status == IF email THEN "pending" ELSE "disabled" IN
       /\ outbox' = [outbox EXCEPT ![s].status = status]
       /\ notice' = [notice EXCEPT ![s] = status]
    /\ todo' = [todo EXCEPT ![t] = IF email THEN {s} ELSE {}]
    /\ UNCHANGED <<mailed, pc, work, faults>>

-----------------------------------------------------------------------------
(* Delivering.                                                             *)

\* Mutant: a row in processing may be claimed before its lease is stale.
Due_LeaseIgnored(row) ==
    \/ row.status \in {"pending", "retrying"} /\ row.wait = 0
    \/ row.status = "processing"

\* Mutant: stale leases are not recovered.
Due_NoRecovery(row) == row.status \in {"pending", "retrying"} /\ row.wait = 0

Due(row) ==
    \/ row.status \in {"pending", "retrying"} /\ row.wait = 0
    \/ row.status = "processing" /\ row.lease = 0

DueRows == {s \in Submissions : Due(outbox[s])}

\* A poll reads one bounded batch of due rows.
ListDue(t) ==
    /\ Idle(t)
    /\ \E batch \in SUBSET DueRows :
        /\ batch # {}
        /\ IF Cardinality(DueRows) <= BatchLimit
             THEN batch = DueRows
             ELSE Cardinality(batch) = BatchLimit
        /\ todo' = [todo EXCEPT ![t] = batch]
    /\ UNCHANGED <<outbox, notice, mailed, pc, work, faults>>

\* Mutant: the claim does not count the attempt.
Take_Uncounted(row) ==
    [status |-> "processing", attempts |-> row.attempts, wait |-> row.wait,
     lease |-> Lease, locked |-> TRUE]

Take(row) ==
    [status |-> "processing", attempts |-> row.attempts + 1, wait |-> row.wait,
     lease |-> Lease, locked |-> TRUE]

\* Mutant: the submission gets the row's status, which its table forbids.
NoticeOf_Same(status) == status

\* The status a submission shows for a status of its outbox row.
NoticeOf(status) == IF status = "processing" THEN "pending" ELSE status

\* The conditional UPDATE that takes a due row and counts the attempt.
Claim(t, s) ==
    /\ pc[t] = "ready"
    /\ s \in todo[t]
    /\ Due(outbox[s])
    /\ outbox[s].attempts < MaxClaims
    /\ outbox' = [outbox EXCEPT ![s] = Take(@)]
    /\ notice' = [notice EXCEPT ![s] = NoticeOf("processing")]
    /\ pc' = [pc EXCEPT ![t] = "sending"]
    /\ todo' = [todo EXCEPT ![t] = @ \ {s}]
    /\ work' = [work EXCEPT ![t] = [id |-> s, attempt |-> outbox[s].attempts + 1]]
    /\ UNCHANGED <<mailed, faults>>

\* The same UPDATE when another task has taken or settled the row meanwhile.
LoseClaim(t, s) ==
    /\ pc[t] = "ready"
    /\ s \in todo[t]
    /\ ~Due(outbox[s])
    /\ todo' = [todo EXCEPT ![t] = @ \ {s}]
    /\ UNCHANGED <<outbox, notice, mailed, pc, work, faults>>

Accepts(t) ==
    mailed' = [mailed EXCEPT ![work[t].id] = @ \union {work[t].attempt}]

SendSucceeds(t) ==
    /\ pc[t] = "sending"
    /\ Accepts(t)
    /\ pc' = [pc EXCEPT ![t] = "delivered"]
    /\ UNCHANGED <<outbox, notice, todo, work, faults>>

\* Mutant: the except branch falls through to the completion.
SendFails_Swallowed(t) ==
    /\ pc[t] = "sending"
    /\ pc' = [pc EXCEPT ![t] = "delivered"]
    /\ UNCHANGED <<outbox, notice, mailed, todo, work, faults>>

SendFails(t) ==
    /\ pc[t] = "sending"
    /\ pc' = [pc EXCEPT ![t] = "failed"]
    /\ UNCHANGED <<outbox, notice, mailed, todo, work, faults>>

\* The reply is lost, or the timeout fires while the sending thread goes on.
SendTimesOut(t) ==
    /\ faults > 0
    /\ pc[t] = "sending"
    /\ Accepts(t)
    /\ pc' = [pc EXCEPT ![t] = "failed"]
    /\ faults' = faults - 1
    /\ UNCHANGED <<outbox, notice, todo, work>>

\* Mutant: a completion is not fenced by the attempt it belongs to.
Holds_NoFence(t) == outbox[work[t].id].status \in {"processing", "sent"}

\* The fence of complete_notification and of retry_notification.
Holds(t) ==
    /\ outbox[work[t].id].status = "processing"
    /\ outbox[work[t].id].attempts = work[t].attempt

Delay(n) == LET d == BaseDelay * 2 ^ (n - 1) IN IF d \in 0..MaxDelay THEN d ELSE MaxDelay

SettledRow(row, status, wait) ==
    [status |-> status, attempts |-> row.attempts, wait |-> wait, lease |-> 0, locked |-> FALSE]

\* Mutant: the submission is updated although the fence refused the row.
Settle_NoticeAnyway(t, status, wait) ==
    /\ IF Holds(t)
         THEN outbox' = [outbox EXCEPT ![work[t].id] = SettledRow(@, status, wait)]
         ELSE UNCHANGED outbox
    /\ notice' = [notice EXCEPT ![work[t].id] = status]
    /\ pc' = [pc EXCEPT ![t] = "ready"]
    /\ work' = [work EXCEPT ![t] = Nothing]
    /\ UNCHANGED <<mailed, todo, faults>>

Settle(t, status, wait) ==
    /\ IF Holds(t)
         THEN /\ outbox' = [outbox EXCEPT ![work[t].id] = SettledRow(@, status, wait)]
              /\ notice' = [notice EXCEPT ![work[t].id] = status]
         ELSE UNCHANGED <<outbox, notice>>
    /\ pc' = [pc EXCEPT ![t] = "ready"]
    /\ work' = [work EXCEPT ![t] = Nothing]
    /\ UNCHANGED <<mailed, todo, faults>>

Complete(t) ==
    /\ pc[t] = "delivered"
    /\ Settle(t, "sent", 0)

\* Mutant: an off-by-one gives up one attempt early.
Exhausted_Early(attempt) == attempt >= MaxAttempts - 1

Exhausted(attempt) == attempt >= MaxAttempts

Retry(t) ==
    /\ pc[t] = "failed"
    /\ IF Exhausted(work[t].attempt)
         THEN Settle(t, "terminal", 0)
         ELSE Settle(t, "retrying", Delay(work[t].attempt))

-----------------------------------------------------------------------------
(* The administrator's retry: the row is read without a lock, changed in   *)
(* memory and flushed, so that only the columns that differ from what was  *)
(* read are written.                                                       *)

ResetRead(t, s) ==
    /\ Idle(t)
    /\ faults > 0
    /\ outbox[s].status \notin {"absent", "sent", "disabled"}
    /\ pc' = [pc EXCEPT ![t] = "resetting"]
    /\ work' = [work EXCEPT ![t] =
            [id |-> s, seen |-> [status |-> outbox[s].status,
                                 locked |-> outbox[s].locked,
                                 notice |-> notice[s]]]]
    /\ faults' = faults - 1
    /\ UNCHANGED <<outbox, notice, mailed, todo>>

ResetRow(row, seen) ==
    [status |-> IF seen.status = "retrying" THEN row.status ELSE "retrying",
     attempts |-> row.attempts,
     wait |-> 0,
     lease |-> IF seen.locked THEN 0 ELSE row.lease,
     locked |-> IF seen.locked THEN FALSE ELSE row.locked]

ResetWrite(t) ==
    /\ pc[t] = "resetting"
    /\ LET s == work[t].id
           seen == work[t].seen
       IN /\ outbox' = [outbox EXCEPT ![s] = ResetRow(@, seen)]
          /\ notice' = [notice EXCEPT ![s] = IF seen.notice = "retrying" THEN @ ELSE "retrying"]
          /\ todo' = [todo EXCEPT ![t] = {s}]
    /\ pc' = [pc EXCEPT ![t] = "ready"]
    /\ work' = [work EXCEPT ![t] = Nothing]
    /\ UNCHANGED <<mailed, faults>>

-----------------------------------------------------------------------------
(* The environment.                                                        *)

\* The process dies, or the task's next transaction raises: its memory is
\* gone, what it committed stays.
Crash(t) ==
    /\ faults > 0
    /\ ~Idle(t)
    /\ pc' = [pc EXCEPT ![t] = "ready"]
    /\ todo' = [todo EXCEPT ![t] = {}]
    /\ work' = [work EXCEPT ![t] = Nothing]
    /\ faults' = faults - 1
    /\ UNCHANGED <<outbox, notice, mailed>>

Minus1(n) == IF n > 0 THEN n - 1 ELSE 0

Aged(row) ==
    [status |-> row.status, attempts |-> row.attempts, wait |-> Minus1(row.wait),
     lease |-> Minus1(row.lease), locked |-> row.locked]

\* The adapter gives up after seconds and the lease lasts minutes, so that a
\* task still busy when its lease goes stale is a fault.
Overdue ==
    \E t \in Tasks : pc[t] \in Claimed /\ Holds(t) /\ outbox[work[t].id].lease = 1

Tick ==
    /\ \E s \in Submissions : outbox[s].wait > 0 \/ outbox[s].lease > 0
    /\ IF Overdue THEN faults > 0 /\ faults' = faults - 1 ELSE UNCHANGED faults
    /\ outbox' = [s \in Submissions |-> Aged(outbox[s])]
    /\ UNCHANGED <<notice, mailed, pc, todo, work>>

-----------------------------------------------------------------------------

\* The steps a task takes by itself once it has something to deliver.
Deliver(t) ==
    \/ \E s \in Submissions : Claim(t, s) \/ LoseClaim(t, s)
    \/ SendSucceeds(t)
    \/ SendFails(t)
    \/ SendTimesOut(t)
    \/ Complete(t)
    \/ Retry(t)
    \/ ResetWrite(t)

Next ==
    \/ \E t \in Handlers, s \in Submissions :
        \/ \E email \in EmailModes : CreateContact(t, s, email)
        \/ ResetRead(t, s)
    \/ \E t \in Workers : ListDue(t)
    \/ \E t \in Tasks : Deliver(t) \/ Crash(t)
    \/ Tick

Spec == Init /\ [][Next]_vars

\* The worker polls for as long as the application runs, every task runs
\* until it returns, and time passes.
Fairness ==
    /\ \A t \in Workers : WF_vars(ListDue(t))
    /\ \A t \in Tasks : WF_vars(Deliver(t))
    /\ WF_vars(Tick)

FairSpec == Spec /\ Fairness

-----------------------------------------------------------------------------
(* Properties.                                                             *)

\* A claim is exclusive: no two tasks deliver under the same attempt of a
\* row, and none holds an attempt the row has not reached, so that the fence
\* of complete_notification and retry_notification lets one task through.
AttemptsAreExclusive ==
    \A t \in Tasks : pc[t] \in Claimed =>
        /\ work[t].attempt <= outbox[work[t].id].attempts
        /\ \A u \in Tasks \ {t} :
            pc[u] \in Claimed /\ work[u].id = work[t].id
                => work[u].attempt # work[t].attempt

\* A row says "sent" only when the mail server accepted the mail of its last
\* attempt: no crash, stale completion or reset turns an undelivered
\* notification into a delivered one.
SentWasMailed ==
    \A s \in Submissions :
        outbox[s].status = "sent" => outbox[s].attempts \in mailed[s]

\* The status the administration sees, kept in another table and written by
\* other statements, always agrees with the outbox row that drives delivery.
NoticeMirrorsOutbox ==
    \A s \in Submissions :
        /\ outbox[s].status = "processing" => notice[s] = "pending"
        /\ outbox[s].status # "processing" => notice[s] = outbox[s].status

\* Delivery is given up only after MaxAttempts claims, whatever share of them
\* ended in crashes, stale leases or resets.
TerminalIsExhausted ==
    \A s \in Submissions :
        outbox[s].status = "terminal" => outbox[s].attempts >= MaxAttempts

\* A settled row tells the truth: what it calls sent was mailed, and what it
\* calls terminal was tried as often as the service promises.
SettledIsTrue == SentWasMailed /\ TerminalIsExhausted

\* A row leaves "sent" only when a reset that read it before it was sent
\* writes it back; no worker, request or crash reopens it.
OnlyAStaleResetReopensSent ==
    [][\A s \in Submissions :
        outbox[s].status = "sent" /\ outbox'[s].status # "sent"
            => \E t \in Tasks : /\ pc[t] = "resetting" /\ work[t].id = s
                                /\ work[t].seen.status # "sent"
                                /\ pc'[t] = "ready"]_vars

\* A contact is mailed once, the delivery key being the same in each attempt.
MailedAtMostOnce == \A s \in Submissions : Cardinality(mailed[s]) <= 1

\* Before the first crash, reset, lost reply or overrun lease, racing pollers
\* and handlers mail each contact at most once.
MailedOnceUnlessFaulty == faults = MaxFaults => MailedAtMostOnce

\* What the retry endpoint refuses to touch stays as it is: a sent
\* notification is not retryable.
SentIsFinal ==
    [][\A s \in Submissions : outbox[s].status = "sent" => outbox'[s].status = "sent"]_vars

\* Every notification that is owed is delivered or given up, however the
\* sends end, if faults are finitely many.
EventuallySettled ==
    \A s \in Submissions :
        outbox[s].status \in {"pending", "processing", "retrying"}
            ~> outbox[s].status \in {"sent", "terminal"}

\* The rows implement the promise made for each accepted contact: the states
\* in which a delivery is still due are all "owed".
PromiseOf(status) ==
    CASE status = "absent" -> "none"
      [] status = "disabled" -> "declined"
      [] status \in {"pending", "processing", "retrying"} -> "owed"
      [] status = "sent" -> "kept"
      [] status = "terminal" -> "abandoned"

Promise == INSTANCE NotificationPromise WITH
    promise <- [s \in Submissions |-> PromiseOf(outbox[s].status)],
    reached <- [s \in Submissions |-> mailed[s] # {}]

\* Refinement: every step of the outbox is a step of NotificationPromise, and
\* whatever is owed is eventually kept or abandoned.
KeepsPromise == Promise!FairSpec

=============================================================================
