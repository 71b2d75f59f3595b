---------------------- MODULE NotificationOutboxProofs ----------------------
(***************************************************************************)
(* Proofs about NotificationOutbox, for every set of submissions and       *)
(* tasks, every lease, delay and number of attempts.                       *)
(***************************************************************************)
EXTENDS NotificationOutbox, FiniteSetTheorems, TLAPS

\* The contact was accepted while mail was on.
Deliverable(s) == outbox[s].status \notin {"absent", "disabled"}

\* What a busy task remembers is about a row that exists: a claim names an
\* attempt the row has reached, a reset a row it may reset together with the
\* notice that belonged to it.
WorkOK ==
    \A t \in Tasks :
        /\ pc[t] # "ready" => Deliverable(work[t].id)
        /\ pc[t] \in Claimed =>
            /\ work[t] \in [id : Submissions, attempt : Nat]
            /\ work[t].attempt <= outbox[work[t].id].attempts
        /\ pc[t] = "delivered" => work[t].attempt \in mailed[work[t].id]
        /\ pc[t] = "resetting" =>
            /\ work[t] \in [id : Submissions, seen : Snapshot]
            /\ work[t].seen.status \notin {"absent", "sent", "disabled"}
            /\ work[t].seen.notice = NoticeOf(work[t].seen.status)

Exclusive ==
    \A t, u \in Tasks :
        t # u /\ pc[t] \in Claimed /\ pc[u] \in Claimed /\ work[t].id = work[u].id
            => work[t].attempt # work[u].attempt

Mirrors == \A s \in Submissions : notice[s] = NoticeOf(outbox[s].status)

IInv == TypeOK /\ WorkOK /\ Exclusive /\ Mirrors /\ SentWasMailed /\ TerminalIsExhausted

-----------------------------------------------------------------------------

\* Every retry delay is a whole number of minutes.
LEMMA DelayType == ASSUME NEW n \in Nat PROVE Delay(n) \in Nat
  BY OutboxAssumption DEF Delay

\* An empty outbox satisfies the invariant.
LEMMA InitIInv == Init => IInv
  BY OutboxAssumption
  DEF Init, IInv, TypeOK, WorkOK, Exclusive, Mirrors, SentWasMailed,
      TerminalIsExhausted, Row, OutboxStatus, NoticeStatus, Work, Claimed, NoticeOf

\* A contact is stored with a fresh row that no task has claimed.
LEMMA CreatePreserves ==
  ASSUME IInv, NEW t \in Handlers, NEW s \in Submissions, NEW email \in EmailModes,
         CreateContact(t, s, email)
  PROVE  IInv'
  BY DEF CreateContact, Idle, IInv, TypeOK, WorkOK, Deliverable, Exclusive, Mirrors,
         SentWasMailed, TerminalIsExhausted, Row, OutboxStatus, NoticeStatus, Claimed, NoticeOf, Tasks

\* Listing due rows gives a task nothing but work to do.
LEMMA ListDuePreserves ==
  ASSUME IInv, NEW t \in Workers, ListDue(t)
  PROVE  IInv'
  BY DEF ListDue, DueRows, IInv, TypeOK, WorkOK, Deliverable, Exclusive, Mirrors,
         SentWasMailed, TerminalIsExhausted, Tasks

\* A claim raises the attempt count, so no older claim shares its attempt.
LEMMA ClaimPreserves ==
  ASSUME IInv, NEW t \in Tasks, NEW s \in Submissions, Claim(t, s)
  PROVE  IInv'
  <1> DEFINE a == outbox[s].attempts + 1
  <1>1. /\ outbox[s] \in Row /\ a \in Nat
        /\ outbox' = [outbox EXCEPT ![s] = Take(outbox[s])]
        /\ Take(outbox[s]) \in Row
        /\ Take(outbox[s]).status = "processing"
        /\ Take(outbox[s]).attempts = a
    BY OutboxAssumption DEF Claim, Take, IInv, TypeOK, Row, OutboxStatus
  <1>2. /\ work' = [work EXCEPT ![t] = [id |-> s, attempt |-> a]]
        /\ [id |-> s, attempt |-> a] \in Work
    BY <1>1 DEF Claim, Work
  <1>3. TypeOK'
    BY <1>1, <1>2 DEF Claim, IInv, TypeOK, NoticeOf, NoticeStatus, Claimed
  <1>4. /\ \A r \in Submissions : outbox[r].attempts <= outbox'[r].attempts
        /\ \A r \in Submissions : Deliverable(r) => Deliverable(r)'
    BY <1>1 DEF IInv, TypeOK, Row, Deliverable
  <1>5. WorkOK'
    BY <1>1, <1>2, <1>4 DEF Claim, IInv, TypeOK, WorkOK, Deliverable, Row, Claimed
  <1>6. Exclusive'
    BY <1>1, <1>2 DEF Claim, IInv, TypeOK, WorkOK, Exclusive, Row, Claimed
  <1>7. Mirrors' /\ SentWasMailed' /\ TerminalIsExhausted'
    BY <1>1 DEF Claim, IInv, TypeOK, Mirrors, SentWasMailed, TerminalIsExhausted, NoticeOf
  <1>8. QED
    BY <1>3, <1>5, <1>6, <1>7 DEF IInv

\* Sending changes only what the task knows and what was mailed.
LEMMA SendPreserves ==
  ASSUME IInv, NEW t \in Tasks, SendSucceeds(t) \/ SendFails(t) \/ SendTimesOut(t)
  PROVE  IInv'
  <1>1. /\ work[t] \in [id : Submissions, attempt : Nat]
        /\ pc[t] = "sending" /\ pc[t] \in Claimed
        /\ UNCHANGED <<outbox, notice, todo, work>> /\ faults' \in Nat
    BY DEF SendSucceeds, SendFails, SendTimesOut, IInv, WorkOK, TypeOK, Claimed
  <1>2. /\ mailed' \in [Submissions -> SUBSET Nat]
        /\ \A s \in Submissions : mailed[s] \subseteq mailed'[s]
        /\ pc'[t] = "delivered" => work[t].attempt \in mailed'[work[t].id]
    BY <1>1 DEF SendSucceeds, SendFails, SendTimesOut, Accepts, IInv, TypeOK
  <1>3. /\ pc' \in [Tasks -> {"ready", "resetting"} \union Claimed]
        /\ pc'[t] \in {"delivered", "failed"}
        /\ \A u \in Tasks \ {t} : pc'[u] = pc[u]
    BY DEF SendSucceeds, SendFails, SendTimesOut, IInv, TypeOK, Claimed
  <1>4. TypeOK'
    BY <1>1, <1>2, <1>3 DEF IInv, TypeOK
  <1>5. WorkOK'
    BY <1>1, <1>2, <1>3 DEF IInv, WorkOK, Deliverable, Claimed
  <1>6. Exclusive'
    BY <1>1, <1>3 DEF IInv, Exclusive, Claimed
  <1>7. Mirrors' /\ SentWasMailed' /\ TerminalIsExhausted'
    BY <1>1, <1>2 DEF IInv, Mirrors, SentWasMailed, TerminalIsExhausted
  <1>8. QED
    BY <1>4, <1>5, <1>6, <1>7 DEF IInv

\* The fenced writes: completion and both outcomes of a failure.
LEMMA SettlePreserves ==
  ASSUME IInv, NEW t \in Tasks, NEW status \in {"sent", "retrying", "terminal"},
         NEW wait \in Nat, pc[t] \in Claimed, Settle(t, status, wait),
         status = "sent" => pc[t] = "delivered",
         status = "terminal" => Exhausted(work[t].attempt)
  PROVE  IInv'
  <1>1. work[t] \in [id : Submissions, attempt : Nat]
    BY DEF IInv, WorkOK
  <1>2. /\ outbox' \in [Submissions -> Row]
        /\ notice' \in [Submissions -> NoticeStatus]
        /\ \A s \in Submissions : outbox'[s].attempts = outbox[s].attempts
        /\ \A s \in Submissions : Deliverable(s) => Deliverable(s)'
    <2> DEFINE new == SettledRow(outbox[work[t].id], status, wait)
    <2>1. /\ new \in Row /\ new.attempts = outbox[work[t].id].attempts
          /\ new.status \notin {"absent", "disabled"}
      BY <1>1 DEF SettledRow, IInv, TypeOK, Row, OutboxStatus
    <2>2. CASE Holds(t)
      <3>1. /\ outbox' = [outbox EXCEPT ![work[t].id] = new]
            /\ notice' = [notice EXCEPT ![work[t].id] = status]
        BY <2>2 DEF Settle
      <3> HIDE DEF new
      <3>2. QED
        BY <1>1, <2>1, <3>1 DEF IInv, TypeOK, NoticeStatus, Deliverable
    <2>3. CASE ~Holds(t)
      BY <2>3 DEF Settle, IInv, TypeOK, Deliverable
    <2>4. QED
      BY <2>2, <2>3
  <1>3. /\ pc' = [pc EXCEPT ![t] = "ready"]
        /\ work' = [work EXCEPT ![t] = Nothing]
        /\ UNCHANGED <<mailed, todo, faults>>
    BY DEF Settle
  <1>4. TypeOK'
    BY <1>2, <1>3 DEF IInv, TypeOK, Work
  <1>5. WorkOK' /\ Exclusive'
    BY <1>2, <1>3 DEF IInv, TypeOK, WorkOK, Exclusive, Claimed
  <1>6. Mirrors'
    BY <1>1 DEF Settle, SettledRow, IInv, TypeOK, Mirrors, NoticeOf, Row
  <1>7. SentWasMailed'
    BY <1>1, <1>2, <1>3 DEF Settle, SettledRow, Holds, IInv, TypeOK, WorkOK, SentWasMailed, Row
  <1>8. TerminalIsExhausted'
    BY <1>1, <1>2, <1>3
    DEF Settle, SettledRow, Holds, Exhausted, IInv, TypeOK, TerminalIsExhausted, Row
  <1>9. QED
    BY <1>4, <1>5, <1>6, <1>7, <1>8 DEF IInv

\* A completion writes only a row whose attempt is still the task's own.
LEMMA CompletePreserves == ASSUME IInv, NEW t \in Tasks, Complete(t) PROVE IInv'
  <1>1. pc[t] = "delivered" /\ pc[t] \in Claimed /\ Settle(t, "sent", 0)
    BY DEF Complete, Claimed
  <1>2. QED
    BY <1>1, SettlePreserves

\* So does a failure, which is terminal only at the limit of attempts.
LEMMA RetryPreserves == ASSUME IInv, NEW t \in Tasks, Retry(t) PROVE IInv'
  <1>1. pc[t] = "failed" /\ pc[t] \in Claimed /\ work[t].attempt \in Nat
    BY DEF Retry, Claimed, IInv, WorkOK
  <1>2. Delay(work[t].attempt) \in Nat
    BY <1>1, DelayType
  <1>3. \/ Exhausted(work[t].attempt) /\ Settle(t, "terminal", 0)
        \/ Settle(t, "retrying", Delay(work[t].attempt))
    BY DEF Retry
  <1>4. QED
    BY <1>1, <1>2, <1>3, SettlePreserves

\* A reset that has read its row knows an earlier state of it.
LEMMA ResetReadPreserves ==
  ASSUME IInv, NEW t \in Handlers, NEW s \in Submissions, ResetRead(t, s)
  PROVE  IInv'
  <1> DEFINE seen == [status |-> outbox[s].status, locked |-> outbox[s].locked,
                      notice |-> notice[s]]
  <1>1. seen \in Snapshot
    BY DEF Snapshot, IInv, TypeOK, Row
  <1>2. /\ work' = [work EXCEPT ![t] = [id |-> s, seen |-> seen]]
        /\ pc' = [pc EXCEPT ![t] = "resetting"]
        /\ faults' \in Nat
        /\ UNCHANGED <<outbox, notice, mailed, todo>>
        /\ t \in Tasks
    BY DEF ResetRead, IInv, TypeOK, Tasks
  <1>3. TypeOK'
    BY <1>1, <1>2 DEF IInv, TypeOK, Work
  <1>4. /\ seen.status \notin {"absent", "sent", "disabled"}
        /\ seen.notice = NoticeOf(seen.status)
    BY DEF ResetRead, IInv, Mirrors
  <1>5. WorkOK' /\ Exclusive' /\ Mirrors' /\ SentWasMailed' /\ TerminalIsExhausted'
    BY <1>1, <1>2, <1>4 DEF IInv, TypeOK, WorkOK, Deliverable, Exclusive, Mirrors,
                            SentWasMailed, TerminalIsExhausted, Claimed
  <1>6. QED
    BY <1>3, <1>5 DEF IInv

\* The write of a reset leaves row and submission in agreement.
LEMMA ResetWritePreserves ==
  ASSUME IInv, NEW t \in Tasks, ResetWrite(t)
  PROVE  IInv'
  <1> DEFINE s == work[t].id
             seen == work[t].seen
  <1>1. /\ s \in Submissions /\ seen \in Snapshot
        /\ seen.notice = NoticeOf(seen.status)
    BY DEF ResetWrite, IInv, WorkOK
  <1>2. /\ outbox' \in [Submissions -> Row]
        /\ notice' \in [Submissions -> NoticeStatus]
        /\ \A r \in Submissions : outbox'[r].attempts = outbox[r].attempts
        /\ \A r \in Submissions : outbox'[r].status = "sent" => outbox[r].status = "sent"
        /\ \A r \in Submissions : Deliverable(r) => Deliverable(r)'
    BY <1>1 DEF ResetWrite, ResetRow, IInv, TypeOK, Row, OutboxStatus, NoticeStatus,
                Deliverable
  <1>3. /\ pc' = [pc EXCEPT ![t] = "ready"]
        /\ work' = [work EXCEPT ![t] = Nothing]
        /\ todo' = [todo EXCEPT ![t] = {s}]
        /\ UNCHANGED <<mailed, faults>>
    BY DEF ResetWrite
  <1>4. TypeOK'
    BY <1>1, <1>2, <1>3 DEF IInv, TypeOK, Work
  <1>5. WorkOK' /\ Exclusive'
    BY <1>2, <1>3 DEF IInv, TypeOK, WorkOK, Exclusive, Claimed
  <1>6. seen.status = "retrying" <=> seen.notice = "retrying"
    BY <1>1 DEF NoticeOf
  <1>7. Mirrors'
    BY <1>1, <1>6 DEF ResetWrite, ResetRow, IInv, TypeOK, Mirrors, NoticeOf, Row
  <1>8. SentWasMailed'
    BY <1>2, <1>3 DEF IInv, SentWasMailed
  <1>9. TerminalIsExhausted'
    BY <1>1, <1>2 DEF ResetWrite, ResetRow, IInv, TypeOK, TerminalIsExhausted, Row
  <1>10. QED
    BY <1>4, <1>5, <1>7, <1>8, <1>9 DEF IInv

\* A crash forgets the memory of a task and nothing else.
LEMMA CrashPreserves == ASSUME IInv, NEW t \in Tasks, Crash(t) PROVE IInv'
  BY DEF Crash, IInv, TypeOK, WorkOK, Deliverable, Exclusive, Mirrors, SentWasMailed,
         TerminalIsExhausted, Claimed, Work

\* Time moves waits and leases but not the attempt counts.
LEMMA TickPreserves == ASSUME IInv, Tick PROVE IInv'
  <1>1. /\ outbox' \in [Submissions -> Row]
        /\ \A s \in Submissions : /\ outbox'[s].status = outbox[s].status
                                  /\ outbox'[s].attempts = outbox[s].attempts
        /\ \A s \in Submissions : Deliverable(s) => Deliverable(s)'
    BY DEF Tick, Aged, Minus1, IInv, TypeOK, Row, Deliverable
  <1>2. UNCHANGED <<notice, mailed, pc, todo, work>> /\ faults' \in Nat
    BY DEF Tick, IInv, TypeOK
  <1>3. TypeOK'
    BY <1>1, <1>2 DEF IInv, TypeOK
  <1>4. WorkOK'
    <2> SUFFICES ASSUME NEW t \in Tasks, pc[t] # "ready"
                 PROVE  /\ Deliverable(work[t].id)'
                        /\ pc[t] \in Claimed => work[t].attempt <= outbox'[work[t].id].attempts
      BY <1>2 DEF WorkOK, IInv, Claimed
    <2>1. work[t].id \in Submissions /\ Deliverable(work[t].id)
      BY DEF IInv, TypeOK, WorkOK, Claimed
    <2>2. QED
      BY <1>1, <1>2, <2>1 DEF WorkOK, IInv, Deliverable
  <1>5. Exclusive' /\ Mirrors' /\ SentWasMailed' /\ TerminalIsExhausted'
    BY <1>1, <1>2 DEF IInv, Exclusive, Mirrors, SentWasMailed, TerminalIsExhausted
  <1>6. QED
    BY <1>3, <1>4, <1>5 DEF IInv

\* The invariant is inductive.
LEMMA NextPreserves == IInv /\ [Next]_vars => IInv'
  <1> SUFFICES ASSUME IInv, [Next]_vars PROVE IInv'
    OBVIOUS
  <1>1. CASE UNCHANGED vars
    BY <1>1 DEF vars, IInv, TypeOK, WorkOK, Deliverable, Exclusive, Mirrors,
                SentWasMailed, TerminalIsExhausted
  <1>2. ASSUME NEW t \in Handlers, NEW s \in Submissions, NEW email \in EmailModes,
               CreateContact(t, s, email)
        PROVE  IInv'
    BY <1>2, CreatePreserves
  <1>3. ASSUME NEW t \in Handlers, NEW s \in Submissions, ResetRead(t, s) PROVE IInv'
    BY <1>3, ResetReadPreserves
  <1>4. ASSUME NEW t \in Workers, ListDue(t) PROVE IInv'
    BY <1>4, ListDuePreserves
  <1>5. ASSUME NEW t \in Tasks, Deliver(t) PROVE IInv'
    <2>1. ASSUME NEW s \in Submissions, LoseClaim(t, s) PROVE IInv'
      BY <2>1 DEF LoseClaim, IInv, TypeOK, WorkOK, Deliverable, Exclusive, Mirrors,
                  SentWasMailed, TerminalIsExhausted
    <2>2. QED
      BY <1>5, <2>1, ClaimPreserves, SendPreserves, CompletePreserves, RetryPreserves,
         ResetWritePreserves
      DEF Deliver
  <1>6. ASSUME NEW t \in Tasks, Crash(t) PROVE IInv'
    BY <1>6, CrashPreserves
  <1>7. CASE Tick
    BY <1>7, TickPreserves
  <1>8. QED
    BY <1>1, <1>2, <1>3, <1>4, <1>5, <1>6, <1>7 DEF Next

\* IInv is inductive.
THEOREM Invariance == Spec => []IInv
  BY InitIInv, NextPreserves, PTL DEF Spec

\* Rows, notices and the memory of every task keep their types.
THEOREM TypeCorrect == Spec => []TypeOK
  BY Invariance, PTL DEF IInv

\* No two tasks ever deliver under the same attempt of a row.
THEOREM ExclusiveAttempts == Spec => []AttemptsAreExclusive
  <1>1. IInv => AttemptsAreExclusive
    BY DEF IInv, WorkOK, Exclusive, AttemptsAreExclusive
  <1>2. QED
    BY <1>1, Invariance, PTL

\* A row that says "sent" was mailed under its last attempt.
THEOREM SentIsMailed == Spec => []SentWasMailed
  BY Invariance, PTL DEF IInv

\* The submission's status always agrees with its outbox row.
THEOREM NoticeAgrees == Spec => []NoticeMirrorsOutbox
  <1>1. IInv => NoticeMirrorsOutbox
    BY DEF IInv, Mirrors, NoticeOf, NoticeMirrorsOutbox
  <1>2. QED
    BY <1>1, Invariance, PTL

\* A notification is given up only after MaxAttempts claims.
THEOREM TerminalOnlyExhausted == Spec => []TerminalIsExhausted
  BY Invariance, PTL DEF IInv

\* The settled rows of claim_notification, complete_notification and
\* retry_notification tell the truth.
THEOREM SettledRowsAreTrue == Spec => []SettledIsTrue
  BY Invariance, PTL DEF IInv, SettledIsTrue

-----------------------------------------------------------------------------

\* Which steps touch a row that is sent: a claim and the fenced writes leave
\* it alone, a reset does not.
LEMMA SentStep ==
  ASSUME IInv, NEW s \in Submissions, outbox[s].status = "sent", [Next]_vars,
         outbox'[s].status # "sent"
  PROVE  \E t \in Tasks : /\ pc[t] = "resetting" /\ work[t].id = s
                          /\ work[t].seen.status # "sent"
                          /\ pc'[t] = "ready"
  <1>1. ASSUME NEW t \in Tasks, ResetWrite(t)
        PROVE  /\ pc[t] = "resetting" /\ work[t].id = s
               /\ work[t].seen.status # "sent" /\ pc'[t] = "ready"
    BY <1>1 DEF ResetWrite, IInv, TypeOK, WorkOK
  <1>2. ASSUME NEW t \in Tasks, NEW r \in Submissions, Claim(t, r) PROVE FALSE
    BY <1>2 DEF Claim, Due, IInv, TypeOK
  <1>3. ASSUME NEW t \in Tasks, NEW status, NEW wait, Settle(t, status, wait) PROVE FALSE
    BY <1>3 DEF Settle, Holds, IInv, TypeOK
  <1>4. ~Tick
    BY DEF Tick, Aged, IInv, TypeOK
  <1>5. ASSUME NEW t \in Handlers, NEW r \in Submissions, NEW email \in EmailModes,
               CreateContact(t, r, email)
        PROVE  FALSE
    BY <1>5 DEF CreateContact, IInv, TypeOK
  <1>6. ASSUME NEW t \in Tasks, Deliver(t)
        PROVE  /\ pc[t] = "resetting" /\ work[t].id = s
               /\ work[t].seen.status # "sent" /\ pc'[t] = "ready"
    <2>1. ~(Complete(t) \/ Retry(t))
      BY <1>3 DEF Complete, Retry
    <2>2. QED
      BY <1>1, <1>2, <1>6, <2>1 DEF Deliver, LoseClaim, SendSucceeds, SendFails, SendTimesOut
  <1>7. QED
    BY <1>4, <1>5, <1>6 DEF Next, ResetRead, ListDue, Crash, vars

\* Only the write of a reset that had read the row before it was sent makes a
\* sent row due again.
THEOREM SentReopening == Spec => OnlyAStaleResetReopensSent
  <1>1. IInv /\ [Next]_vars =>
            [\A s \in Submissions :
                outbox[s].status = "sent" /\ outbox'[s].status # "sent"
                    => \E t \in Tasks : /\ pc[t] = "resetting" /\ work[t].id = s
                                        /\ work[t].seen.status # "sent"
                                        /\ pc'[t] = "ready"]_vars
    BY SentStep
  <1>2. QED
    BY <1>1, Invariance, PTL DEF Spec, OnlyAStaleResetReopensSent

-----------------------------------------------------------------------------

\* What the promise says of a row depends on its status and history only.
LEMMA PromiseOfStatus ==
  /\ PromiseOf("absent") = "none"
  /\ PromiseOf("disabled") = "declined"
  /\ PromiseOf("pending") = "owed"
  /\ PromiseOf("processing") = "owed"
  /\ PromiseOf("retrying") = "owed"
  /\ PromiseOf("sent") = "kept"
  /\ PromiseOf("terminal") = "abandoned"
  BY DEF PromiseOf

\* An empty outbox has promised nothing.
LEMMA PromiseInit == Init => Promise!Init
  <1> SUFFICES ASSUME Init PROVE Promise!Init
    OBVIOUS
  <1>1. \A s \in Submissions : outbox[s].status = "absent" /\ mailed[s] = {}
    BY DEF Init
  <1>2. \A s \in Submissions : PromiseOf(outbox[s].status) = "none" /\ (mailed[s] # {}) = FALSE
    BY <1>1, PromiseOfStatus
  <1>3. QED
    BY <1>2 DEF Promise!Init

\* A step that changes one row at most, and no mail, turns that row's promise.
LEMMA RowStep ==
  ASSUME TypeOK, NEW s \in Submissions, NEW new \in Row,
         outbox' = [outbox EXCEPT ![s] = new], UNCHANGED mailed,
         LET from == PromiseOf(outbox[s].status)
             to == PromiseOf(new.status)
         IN \/ from = to
            \/ from = "none" /\ to \in {"owed", "declined"}
            \/ from = "owed" /\ to = "kept" /\ mailed[s] # {}
            \/ from = "owed" /\ to = "abandoned"
            \/ from \in {"kept", "abandoned"} /\ to = "owed"
  PROVE  [Promise!Next]_(Promise!vars)
  <1> DEFINE promise == [r \in Submissions |-> PromiseOf(outbox[r].status)]
             reached == [r \in Submissions |-> mailed[r] # {}]
             to == PromiseOf(new.status)
  <1>1. promise' = [promise EXCEPT ![s] = to]
    BY DEF TypeOK
  <1>2. reached' = reached /\ promise[s] = PromiseOf(outbox[s].status)
    OBVIOUS
  <1>3. CASE promise[s] = to
    BY <1>1, <1>2, <1>3 DEF Promise!vars
  <1>4. CASE promise[s] # to
    <2>1. Promise!Accept(s) \/ Promise!Settle(s) \/ Promise!Reopen(s)
      BY <1>1, <1>2, <1>4 DEF Promise!Accept, Promise!Settle, Promise!Reopen, Promise!Turn
    <2>2. QED
      BY <2>1 DEF Promise!Next
  <1>5. QED
    BY <1>3, <1>4

\* A mail that is accepted is for a contact that was accepted with mail on.
LEMMA MailStep ==
  ASSUME IInv, NEW t \in Tasks, SendSucceeds(t) \/ SendTimesOut(t)
  PROVE  [Promise!Next]_(Promise!vars)
  <1> DEFINE s == work[t].id
             promise == [r \in Submissions |-> PromiseOf(outbox[r].status)]
             reached == [r \in Submissions |-> mailed[r] # {}]
  <1>1. /\ s \in Submissions /\ work[t].attempt \in Nat
        /\ work[t].attempt <= outbox[s].attempts
        /\ mailed' = [mailed EXCEPT ![s] = @ \union {work[t].attempt}]
        /\ UNCHANGED outbox
    BY DEF SendSucceeds, SendTimesOut, Accepts, IInv, WorkOK, Claimed
  <1>2. reached' = [reached EXCEPT ![s] = TRUE] /\ UNCHANGED promise
    BY <1>1 DEF IInv, TypeOK
  <1>3. promise[s] \in {"owed", "kept", "abandoned"}
    BY <1>1, PromiseOfStatus
    DEF SendSucceeds, SendTimesOut, IInv, TypeOK, WorkOK, Deliverable, Row, OutboxStatus
  <1>4. QED
    BY <1>1, <1>2, <1>3 DEF Promise!Mail, Promise!Next

\* The three fenced outcomes settle or prolong what is owed.
LEMMA SettleStep ==
  ASSUME IInv, NEW t \in Tasks, NEW status \in {"sent", "retrying", "terminal"},
         NEW wait \in Nat, pc[t] \in Claimed, Settle(t, status, wait),
         status = "sent" => pc[t] = "delivered"
  PROVE  [Promise!Next]_(Promise!vars)
  <1> DEFINE s == work[t].id
             new == SettledRow(outbox[s], status, wait)
  <1>1. s \in Submissions /\ UNCHANGED mailed
    BY DEF Settle, IInv, WorkOK
  <1>2. CASE ~Holds(t)
    BY <1>1, <1>2 DEF Settle, Promise!vars
  <1>3. CASE Holds(t)
    <2>1. outbox' = [outbox EXCEPT ![s] = new] /\ outbox[s].status = "processing"
      BY <1>3 DEF Settle, Holds
    <2>2. new \in Row /\ new.status = status
      BY <1>1 DEF SettledRow, IInv, TypeOK, Row, OutboxStatus
    <2>3. status = "sent" => mailed[s] # {}
      BY DEF IInv, WorkOK
    <2> HIDE DEF new
    <2>4. QED
      BY <1>1, <2>1, <2>2, <2>3, RowStep, PromiseOfStatus DEF IInv
  <1>4. QED
    BY <1>2, <1>3

\* A reset reopens a promise, or leaves it as it is.
LEMMA ResetStep ==
  ASSUME IInv, NEW t \in Tasks, ResetWrite(t)
  PROVE  [Promise!Next]_(Promise!vars)
  <1> DEFINE s == work[t].id
             new == ResetRow(outbox[s], work[t].seen)
  <1>1. /\ s \in Submissions /\ UNCHANGED mailed
        /\ work[t].seen \in Snapshot
        /\ outbox' = [outbox EXCEPT ![s] = new]
        /\ Deliverable(s)
    BY DEF ResetWrite, IInv, WorkOK
  <1>2. /\ new \in Row /\ outbox[s] \in Row
        /\ new.status \in {"retrying", outbox[s].status}
    BY <1>1 DEF ResetRow, IInv, TypeOK, Row, OutboxStatus
  <1> HIDE DEF new
  <1>3. QED
    BY <1>1, <1>2, RowStep, PromiseOfStatus DEF IInv, Deliverable, Row, OutboxStatus

\* A claim leaves every promise as it is.
LEMMA ClaimStep ==
  ASSUME IInv, NEW t \in Tasks, NEW s \in Submissions, Claim(t, s)
  PROVE  [Promise!Next]_(Promise!vars)
  <1> DEFINE new == Take(outbox[s])
  <1>1. /\ outbox' = [outbox EXCEPT ![s] = new] /\ UNCHANGED mailed
        /\ outbox[s].status \in {"pending", "retrying", "processing"}
    BY DEF Claim, Due
  <1>2. new \in Row /\ new.status = "processing"
    BY OutboxAssumption DEF Take, IInv, TypeOK, Row, OutboxStatus
  <1> HIDE DEF new
  <1>3. QED
    BY <1>1, <1>2, RowStep, PromiseOfStatus DEF IInv

\* A stored contact is a promise made.
LEMMA CreateStep ==
  ASSUME IInv, NEW t \in Handlers, NEW s \in Submissions, NEW email \in EmailModes,
         CreateContact(t, s, email)
  PROVE  [Promise!Next]_(Promise!vars)
  <1> DEFINE new == [outbox[s] EXCEPT !.status = IF email THEN "pending" ELSE "disabled"]
  <1>1. /\ outbox' = [outbox EXCEPT ![s] = new] /\ UNCHANGED mailed
        /\ outbox[s].status = "absent"
    BY DEF CreateContact
  <1>2. new \in Row /\ new.status \in {"pending", "disabled"}
    BY DEF IInv, TypeOK, Row, OutboxStatus
  <1> HIDE DEF new
  <1>3. QED
    BY <1>1, <1>2, RowStep, PromiseOfStatus DEF IInv

\* Time alone changes no promise.
LEMMA TickStep == ASSUME IInv, Tick PROVE UNCHANGED Promise!vars
  <1>1. \A s \in Submissions : outbox'[s].status = outbox[s].status
    BY DEF Tick, Aged
  <1>2. QED
    BY <1>1 DEF Tick, Promise!vars

\* Every step of the outbox is a step of the promise or a stutter.
LEMMA PromiseNext == IInv /\ [Next]_vars => [Promise!Next]_(Promise!vars)
  <1> SUFFICES ASSUME IInv, [Next]_vars PROVE [Promise!Next]_(Promise!vars)
    OBVIOUS
  <1>1. CASE UNCHANGED <<outbox, mailed>>
    BY <1>1 DEF Promise!vars
  <1>2. ASSUME NEW t \in Tasks, Deliver(t) PROVE [Promise!Next]_(Promise!vars)
    <2>1. CASE Complete(t)
      BY <2>1, SettleStep DEF Complete, Claimed
    <2>2. CASE Retry(t)
      <3>1. pc[t] \in Claimed /\ Delay(work[t].attempt) \in Nat
        BY <2>2, DelayType DEF Retry, Claimed, IInv, WorkOK
      <3>2. \/ Settle(t, "terminal", 0)
            \/ Settle(t, "retrying", Delay(work[t].attempt))
        BY <2>2 DEF Retry
      <3>3. QED
        BY <3>1, <3>2, SettleStep
    <2>3. QED
      BY <1>1, <1>2, <2>1, <2>2, ClaimStep, MailStep, ResetStep
      DEF Deliver, LoseClaim, SendFails
  <1>3. QED
    BY <1>1, <1>2, CreateStep, TickStep DEF Next, ResetRead, ListDue, Crash, vars

\* The outbox implements the safety part of NotificationPromise: every step of
\* a task, the clock or a fault is a step of the promise, or leaves it alone.
THEOREM PromiseIsKept == Spec => Promise!Spec
  BY PromiseInit, PromiseNext, Invariance, PTL DEF Spec, Promise!Spec

-----------------------------------------------------------------------------
(* Mailing once.                                                           *)

\* A task in delivery holds its row, under a lease that is not stale.
TasksHold ==
    \A t \in Tasks : pc[t] \in Claimed => Holds(t) /\ outbox[work[t].id].lease > 0

\* A row in processing is in somebody's hands, so that nobody claims it again.
RowsAreHeld ==
    \A s \in Submissions : outbox[s].status = "processing"
        => \E t \in Tasks : pc[t] \in Claimed /\ work[t].id = s

\* What was mailed went out under the row's last attempt, and is settled or
\* about to be.
MailIsKnown ==
    \A s \in Submissions :
        /\ mailed[s] \subseteq {outbox[s].attempts}
        /\ mailed[s] # {} => \/ outbox[s].status = "sent"
                             \/ \E t \in Tasks : pc[t] = "delivered" /\ work[t].id = s

\* Every delivery is in one pair of hands.
Unbroken ==
    /\ \A t \in Tasks : pc[t] # "resetting"
    /\ TasksHold
    /\ RowsAreHeld
    /\ MailIsKnown

OnceInv == faults <= MaxFaults /\ (faults = MaxFaults => Unbroken)

\* Two tasks in delivery have different rows: both hold theirs.
LEMMA HoldersDiffer ==
  ASSUME IInv, Unbroken, NEW t \in Tasks, NEW u \in Tasks \ {t},
         pc[t] \in Claimed, pc[u] \in Claimed
  PROVE  work[t].id # work[u].id
  BY DEF IInv, Exclusive, Unbroken, TasksHold, Holds

\* While a task sends, or has failed to, nothing of its row was mailed.
LEMMA NotYetMailed ==
  ASSUME IInv, Unbroken, NEW t \in Tasks, pc[t] \in {"sending", "failed"}
  PROVE  mailed[work[t].id] = {}
  <1>1. /\ work[t].id \in Submissions /\ pc[t] \in Claimed
        /\ outbox[work[t].id].status = "processing"
    BY DEF IInv, WorkOK, Unbroken, TasksHold, Holds, Claimed
  <1>2. \A u \in Tasks : pc[u] = "delivered" => work[u].id # work[t].id
    BY <1>1, HoldersDiffer DEF Claimed
  <1>3. QED
    BY <1>1, <1>2 DEF Unbroken, MailIsKnown

\* A row that may be claimed is nobody's, and none of its mail went out.
LEMMA DueIsFree ==
  ASSUME IInv, Unbroken, NEW s \in Submissions, Due(outbox[s])
  PROVE  /\ \A t \in Tasks : pc[t] \in Claimed => work[t].id # s
         /\ mailed[s] = {}
  <1>1. outbox[s].status # "processing"
    BY DEF Due, Unbroken, RowsAreHeld, TasksHold
  <1>2. \A t \in Tasks : pc[t] \in Claimed => work[t].id # s
    BY <1>1 DEF Unbroken, TasksHold, Holds
  <1>3. outbox[s].status # "sent"
    BY DEF Due
  <1>4. QED
    BY <1>2, <1>3 DEF Unbroken, MailIsKnown, Claimed

\* A new row is nobody's, and nothing of it was mailed.
LEMMA CreateOnce ==
  ASSUME IInv, Unbroken, NEW t \in Handlers, NEW s \in Submissions, NEW email \in EmailModes,
         CreateContact(t, s, email)
  PROVE  Unbroken'
  <1>1. /\ outbox[s].status = "absent" /\ outbox'[s].status \in {"pending", "disabled"}
        /\ outbox'[s].attempts = outbox[s].attempts
        /\ \A r \in Submissions \ {s} : outbox'[r] = outbox[r]
        /\ UNCHANGED <<mailed, pc, work>>
    BY DEF CreateContact, IInv, TypeOK
  <1>2. \A u \in Tasks : pc[u] \in Claimed => work[u].id \in Submissions \ {s}
    BY <1>1 DEF IInv, WorkOK, Unbroken, TasksHold, Holds
  <1>3. QED
    BY <1>1, <1>2 DEF Unbroken, TasksHold, RowsAreHeld, MailIsKnown, Holds

\* A claim takes a row that is nobody's, under a lease of its own.
LEMMA ClaimOnce ==
  ASSUME IInv, Unbroken, NEW t \in Tasks, NEW s \in Submissions, Claim(t, s)
  PROVE  Unbroken'
  <1>1. /\ outbox'[s].status = "processing" /\ outbox'[s].attempts = outbox[s].attempts + 1
        /\ outbox'[s].lease = Lease
        /\ \A r \in Submissions \ {s} : outbox'[r] = outbox[r]
    BY DEF Claim, Take, IInv, TypeOK
  <1>2. /\ pc[t] = "ready" /\ pc'[t] = "sending"
        /\ work'[t].id = s /\ work'[t].attempt = outbox[s].attempts + 1
        /\ \A u \in Tasks \ {t} : pc'[u] = pc[u] /\ work'[u] = work[u]
        /\ UNCHANGED mailed
    BY DEF Claim, IInv, TypeOK
  <1>3. mailed[s] = {} /\ \A u \in Tasks : pc[u] \in Claimed => work[u].id \in Submissions \ {s}
    BY DueIsFree DEF Claim, IInv, WorkOK
  <1>4. \A u \in Tasks : pc'[u] # "resetting"
    BY <1>2 DEF Unbroken
  <1>5. TasksHold'
    BY <1>1, <1>2, <1>3, OutboxAssumption DEF Unbroken, TasksHold, Holds
  <1>6. RowsAreHeld'
    BY <1>1, <1>2 DEF Unbroken, RowsAreHeld, Claimed
  <1>7. MailIsKnown'
    BY <1>1, <1>2, <1>3 DEF Unbroken, MailIsKnown
  <1>8. QED
    BY <1>4, <1>5, <1>6, <1>7 DEF Unbroken

\* What is sent is the first mail of its row.
LEMMA SendOnce ==
  ASSUME IInv, Unbroken, NEW t \in Tasks, SendSucceeds(t) \/ SendFails(t)
  PROVE  Unbroken'
  <1>1. /\ pc[t] = "sending" /\ pc'[t] \in {"delivered", "failed"}
        /\ \A u \in Tasks \ {t} : pc'[u] = pc[u]
        /\ UNCHANGED <<outbox, work>>
    BY DEF SendSucceeds, SendFails, IInv, TypeOK
  <1>2. /\ work[t].id \in Submissions /\ mailed[work[t].id] = {}
        /\ work[t].attempt = outbox[work[t].id].attempts
    BY <1>1, NotYetMailed DEF IInv, WorkOK, Unbroken, TasksHold, Holds, Claimed
  <1>3. \/ pc'[t] = "failed" /\ UNCHANGED mailed
        \/ /\ pc'[t] = "delivered"
           /\ mailed'[work[t].id] = {work[t].attempt}
           /\ \A s \in Submissions \ {work[t].id} : mailed'[s] = mailed[s]
    BY <1>2 DEF SendSucceeds, SendFails, Accepts, IInv, TypeOK
  <1>4. (\A u \in Tasks : pc'[u] # "resetting") /\ TasksHold' /\ RowsAreHeld'
    BY <1>1 DEF Unbroken, TasksHold, RowsAreHeld, Holds, Claimed
  <1>5. MailIsKnown'
    BY <1>1, <1>2, <1>3 DEF Unbroken, MailIsKnown
  <1>6. QED
    BY <1>4, <1>5 DEF Unbroken

\* Settling gives up the row, with its mail known or none sent.
LEMMA SettleOnce ==
  ASSUME IInv, Unbroken, NEW t \in Tasks, NEW status \in {"sent", "retrying", "terminal"},
         NEW wait, pc[t] \in Claimed, Settle(t, status, wait),
         pc[t] = IF status = "sent" THEN "delivered" ELSE "failed"
  PROVE  Unbroken'
  <1>1. work[t].id \in Submissions /\ Holds(t)
    BY DEF IInv, WorkOK, Unbroken, TasksHold
  <1>2. /\ outbox'[work[t].id].status = status
        /\ outbox'[work[t].id].attempts = outbox[work[t].id].attempts
        /\ \A s \in Submissions \ {work[t].id} : outbox'[s] = outbox[s]
    BY <1>1 DEF Settle, SettledRow, IInv, TypeOK
  <1>3. /\ pc'[t] = "ready"
        /\ \A u \in Tasks \ {t} : pc'[u] = pc[u] /\ work'[u] = work[u]
        /\ UNCHANGED mailed
    BY DEF Settle, IInv, TypeOK
  <1>4. \A u \in Tasks \ {t} : pc[u] \in Claimed => work[u].id \in Submissions \ {work[t].id}
    BY HoldersDiffer DEF IInv, WorkOK
  <1>5. status # "sent" => mailed[work[t].id] = {}
    BY NotYetMailed
  <1>6. \A u \in Tasks : pc'[u] # "resetting"
    BY <1>3 DEF Unbroken
  <1>7. TasksHold'
    BY <1>2, <1>3, <1>4 DEF Unbroken, TasksHold, Holds, Claimed
  <1>8. RowsAreHeld'
    BY <1>2, <1>3 DEF Unbroken, RowsAreHeld
  <1>9. MailIsKnown'
    BY <1>2, <1>3, <1>5 DEF Unbroken, MailIsKnown
  <1>10. QED
    BY <1>6, <1>7, <1>8, <1>9 DEF Unbroken

\* Unless that is a fault, no lease in use becomes stale.
LEMMA TickOnce ==
  ASSUME IInv, Unbroken, Tick, ~Overdue
  PROVE  Unbroken'
  <1>1. \A s \in Submissions : /\ outbox'[s].status = outbox[s].status
                               /\ outbox'[s].attempts = outbox[s].attempts
                               /\ outbox'[s].lease = Minus1(outbox[s].lease)
    BY DEF Tick, Aged
  <1>2. UNCHANGED <<mailed, pc, work>>
    BY DEF Tick
  <1>3. \A t \in Tasks : pc[t] \in Claimed =>
            work[t].id \in Submissions /\ outbox[work[t].id].lease \in Nat
    BY DEF IInv, WorkOK, TypeOK, Row
  <1>4. TasksHold'
    BY <1>1, <1>2, <1>3 DEF Unbroken, TasksHold, Holds, Overdue, Minus1
  <1>5. QED
    BY <1>1, <1>2, <1>4 DEF Unbroken, RowsAreHeld, MailIsKnown

\* Faults are only used up; while none is, every step keeps the hold unbroken.
LEMMA NextOnce == IInv /\ OnceInv /\ [Next]_vars => OnceInv'
  <1> SUFFICES ASSUME IInv, OnceInv, [Next]_vars PROVE OnceInv'
    OBVIOUS
  <1>1. faults \in Nat /\ MaxFaults \in Nat
    BY OutboxAssumption DEF IInv, TypeOK
  <1>2. faults' = faults \/ (faults > 0 /\ faults' = faults - 1)
    BY DEF Next, CreateContact, ResetRead, ListDue, Deliver, Claim, LoseClaim, SendSucceeds,
       SendFails, SendTimesOut, Complete, Retry, Settle, ResetWrite, Crash, Tick, vars
  <1>3. faults' <= MaxFaults /\ (faults' = MaxFaults => faults' = faults)
    BY <1>1, <1>2 DEF OnceInv
  <1>4. ASSUME faults' = MaxFaults PROVE Unbroken'
    <2>1. Unbroken /\ faults' = faults
      BY <1>3, <1>4 DEF OnceInv
    <2>2. \A n \in Nat : n > 0 => n - 1 # n
      OBVIOUS
    <2>3. CASE UNCHANGED vars
      BY <2>1, <2>3 DEF vars, Unbroken, TasksHold, RowsAreHeld, MailIsKnown, Holds
    <2>4. ASSUME NEW t \in Handlers, NEW s \in Submissions, NEW email \in EmailModes,
                 CreateContact(t, s, email)
          PROVE  Unbroken'
      BY <2>1, <2>4, CreateOnce
    <2>5. ASSUME NEW t \in Tasks, NEW s \in Submissions, Claim(t, s) PROVE Unbroken'
      BY <2>1, <2>5, ClaimOnce
    <2>6. ASSUME NEW t \in Tasks, SendSucceeds(t) \/ SendFails(t) PROVE Unbroken'
      BY <2>1, <2>6, SendOnce
    <2>7. ASSUME NEW t \in Tasks, Complete(t) \/ Retry(t) PROVE Unbroken'
      BY <2>1, <2>7, SettleOnce DEF Complete, Retry, Claimed
    <2>8. CASE Tick
      <3>1. ~Overdue
        BY <1>1, <2>1, <2>2, <2>8 DEF Tick
      <3>2. QED
        BY <2>1, <2>8, <3>1, TickOnce
    <2>9. ASSUME UNCHANGED <<outbox, mailed, pc, work>> PROVE Unbroken'
      BY <2>1, <2>9 DEF Unbroken, TasksHold, RowsAreHeld, MailIsKnown, Holds
    <2>10. ASSUME NEW t \in Tasks, SendTimesOut(t) \/ ResetWrite(t) \/ Crash(t) PROVE FALSE
      BY <1>1, <2>1, <2>2, <2>10 DEF SendTimesOut, ResetWrite, Crash, Unbroken
    <2>11. ASSUME NEW t \in Tasks, NEW s \in Submissions, ResetRead(t, s) PROVE FALSE
      BY <1>1, <2>1, <2>2, <2>11 DEF ResetRead
    <2>12. ASSUME NEW t \in Tasks, Deliver(t) PROVE Unbroken'
      BY <2>5, <2>6, <2>7, <2>9, <2>10, <2>12 DEF Deliver, LoseClaim
    <2>13. QED
      BY <2>3, <2>4, <2>8, <2>9, <2>10, <2>11, <2>12 DEF Next, ListDue, Tasks
  <1>5. QED
    BY <1>3, <1>4 DEF OnceInv

\* Until the first fault, however pollers and handlers race for a row, its
\* mail goes out under one attempt only.
THEOREM MailedOnce == Spec => []MailedOnceUnlessFaulty
  <1>1. Init => OnceInv
    BY OutboxAssumption DEF Init, OnceInv, Unbroken, TasksHold, RowsAreHeld, MailIsKnown, Claimed
  <1>2. Spec => []OnceInv
    BY <1>1, Invariance, NextOnce, PTL DEF Spec
  <1>3. IInv /\ OnceInv => MailedOnceUnlessFaulty
    <2> SUFFICES ASSUME IInv, OnceInv, faults = MaxFaults, NEW s \in Submissions
                 PROVE  Cardinality(mailed[s]) <= 1
      BY DEF MailedOnceUnlessFaulty, MailedAtMostOnce
    <2>1. mailed[s] = {} \/ mailed[s] = {outbox[s].attempts}
      BY DEF OnceInv, Unbroken, MailIsKnown
    <2>2. Cardinality({}) = 0 /\ Cardinality({outbox[s].attempts}) = 1
      BY FS_EmptySet, FS_Singleton
    <2>3. QED
      BY <2>1, <2>2
  <1>4. QED
    BY <1>2, <1>3, Invariance, PTL

=============================================================================
