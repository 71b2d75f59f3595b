------------------------ MODULE ContactIntakeProofs -------------------------
(***************************************************************************)
(* Proofs about ContactIntake, for every set of submissions, keys, clients *)
(* and tasks: it implements the outbox, so that the outbox's theorems hold *)
(* of it, a retried submission is answered by the contact it stored, and   *)
(* what is stored stays within the quota of its sender's address.          *)
(***************************************************************************)
EXTENDS ContactIntake, NotificationOutboxProofs

\* The composition only adds guards to the steps of the outbox.
LEMMA IntakeStep == [IntakeNext]_allVars => [Next]_vars
  <1> SUFFICES ASSUME IntakeNext, ~UNCHANGED vars PROVE Next
    BY DEF allVars
  <1>1. ASSUME NEW h \in Handlers, Submit(h) PROVE Next
    BY <1>1 DEF Submit, Begin, Lookup, Charge, Store, Insert, Finish, Next
  <1>2. ASSUME NEW h \in Handlers, LoseRequest(h) PROVE Next
    BY <1>2 DEF LoseRequest, Next, Tasks
  <1>3. CASE OutboxStep
    BY <1>3 DEF OutboxStep, Next
  <1>4. QED
    BY <1>1, <1>2, <1>3 DEF IntakeNext, ClockTick

\* Intake implements the outbox: everything proved of its rows and tasks
\* holds while requests race, retry and get lost around them.
THEOREM IntakeImplementsOutbox == IntakeSpec => Spec
  <1>1. IntakeInit => Init
    BY DEF IntakeInit
  <1>2. QED
    BY <1>1, IntakeStep, PTL DEF IntakeSpec, Spec

-----------------------------------------------------------------------------

IntakeTypes ==
    /\ contact \in [Submissions -> {NoContact} \union Contact]
    /\ request \in [Handlers -> {NoRequest} \union Request]
    /\ quota \in [Addresses \union Payloads -> Bucket]
    /\ clock \in Nat
    /\ receipts \subseteq Receipt

\* A contact and its outbox row are stored together.
StoredTogether == \A s \in Submissions : contact[s] # NoContact => outbox[s].status # "absent"

\* The unique constraint on the idempotency key.
KeysAreUnique ==
    \A s, u \in Submissions : contact[s].key = contact[u].key /\ contact[s].key # NoKey => s = u

\* What a request remembers is still so when it goes on.
RequestsAgree ==
    \A h \in Handlers :
        /\ request[h].step = "deliver" =>
            /\ request[h].id \in Submissions
            /\ contact[request[h].id].key = request[h].key
            /\ contact[request[h].id].payload = request[h].payload
        /\ request[h] # NoRequest /\ request[h].known => Stored(request[h].key) # {}
        /\ request[h].step = "charge" => ~request[h].known

IntakeInv ==
    /\ IntakeTypes
    /\ StoredTogether
    /\ KeysAreUnique
    /\ RequestsAgree
    /\ ReceiptsAreStored
    /\ KnownIsNeverDenied

-----------------------------------------------------------------------------

\* No step removes a contact's outbox row.
LEMMA RowsStay ==
  ASSUME IInv, [Next]_vars, NEW s \in Submissions, outbox[s].status # "absent"
  PROVE  outbox'[s].status # "absent"
  <1>1. ASSUME NEW t \in Handlers, NEW r \in Submissions, NEW email \in EmailModes,
               CreateContact(t, r, email)
        PROVE  outbox'[s].status # "absent"
    BY <1>1 DEF CreateContact, IInv, TypeOK
  <1>2. ASSUME NEW t \in Tasks, NEW r \in Submissions, Claim(t, r)
        PROVE  outbox'[s].status # "absent"
    BY <1>2 DEF Claim, Take, IInv, TypeOK
  <1>3. ASSUME NEW t \in Tasks, NEW status \in {"sent", "terminal", "retrying"}, NEW wait,
               Settle(t, status, wait)
        PROVE  outbox'[s].status # "absent"
    BY <1>3 DEF Settle, SettledRow, IInv, TypeOK
  <1>4. ASSUME NEW t \in Tasks, ResetWrite(t) PROVE outbox'[s].status # "absent"
    BY <1>4 DEF ResetWrite, ResetRow, IInv, TypeOK
  <1>5. ASSUME Tick PROVE outbox'[s].status # "absent"
    BY <1>5 DEF Tick, Aged, IInv, TypeOK
  <1>6. ASSUME NEW t \in Tasks, Deliver(t) PROVE outbox'[s].status # "absent"
    <2>1. ASSUME Complete(t) \/ Retry(t) PROVE outbox'[s].status # "absent"
      BY <1>3, <2>1 DEF Complete, Retry
    <2>2. QED
      BY <1>2, <1>4, <1>6, <2>1 DEF Deliver, LoseClaim, SendSucceeds, SendFails, SendTimesOut
  <1>7. QED
    BY <1>1, <1>5, <1>6 DEF Next, ResetRead, ListDue, Crash, vars

\* What stays true when a step leaves the intake's state alone.
LEMMA OutboxStepPreserves ==
  ASSUME IInv, IntakeInv, [Next]_vars, UNCHANGED intakeVars
  PROVE  IntakeInv'
  BY RowsStay DEF intakeVars, IntakeInv, IntakeTypes, StoredTogether, KeysAreUnique,
     RequestsAgree, ReceiptsAreStored, KnownIsNeverDenied, Stored, Receipt

\* Beginning a request remembers whether its key is stored.
LEMMA BeginPreserves ==
  ASSUME IntakeInv, NEW h \in Handlers, NEW key \in Keys \union {NoKey},
         NEW payload \in Payloads, NEW from \in Addresses, Begin(h, key, payload, from)
  PROVE  IntakeInv'
  <1> DEFINE new == [step |-> IF key = NoKey THEN "charge" ELSE "lookup", key |-> key,
                     payload |-> payload, from |-> from, at |-> clock,
                     window |-> 0, known |-> Stored(key) # {}, id |-> NoKey]
  <1>1. request' = [request EXCEPT ![h] = new]
    BY DEF Begin
  <1>2. /\ new \in Request
        /\ new.step # "deliver"
        /\ new.known => Stored(new.key) # {}
        /\ new.step = "charge" => ~new.known
    BY DEF Request, Stored, IntakeInv, IntakeTypes
  <1> HIDE DEF new
  <1>3. UNCHANGED <<outbox, contact, quota, clock, receipts, denials>>
    BY DEF Begin, vars
  <1>4. QED
    BY <1>1, <1>2, <1>3 DEF IntakeInv, IntakeTypes, StoredTogether, KeysAreUnique,
                            RequestsAgree, ReceiptsAreStored, KnownIsNeverDenied, Stored

\* A stored contact answers a request for its own payload, or not at all.
LEMMA AnswerPreserves ==
  ASSUME IntakeInv, NEW h \in Handlers, NEW s \in Stored(request[h].key), Answer(h, s),
         request[h] \in Request, UNCHANGED <<vars, contact, quota, clock, denials>>
  PROVE  IntakeInv'
  <1>1. /\ s \in Submissions /\ contact[s].key = request[h].key /\ contact[s].key # NoKey
        /\ contact[s] # NoContact
    BY DEF Stored, NoContact
  <1>2. \A r \in receipts' \ receipts :
            r = [key |-> request[h].key, payload |-> contact[s].payload, id |-> s]
            /\ contact[s].payload = request[h].payload
    BY DEF Answer
  <1>3. receipts' \subseteq Receipt
    BY <1>1, <1>2 DEF IntakeInv, IntakeTypes, Receipt, Request
  <1>4. ReceiptsAreStored'
    BY <1>1, <1>2 DEF IntakeInv, StoredTogether, ReceiptsAreStored, vars
  <1>5. request' = [request EXCEPT ![h] = NoRequest]
    BY DEF Answer, Leave
  <1>6. UNCHANGED outbox
    BY DEF vars
  <1>7. QED
    BY <1>3, <1>4, <1>5, <1>6 DEF IntakeInv, IntakeTypes, StoredTogether, KeysAreUnique,
       RequestsAgree, KnownIsNeverDenied, Stored, NoRequest

\* Going on to a step that needs no stored contact.
LEMMA AdvancePreserves ==
  ASSUME IntakeInv, NEW h \in Handlers, NEW step \in {"charge", "store"}, NEW window \in Nat,
         Advance(h, step, window, NoKey), request[h] \in Request,
         step = "charge" => Stored(request[h].key) = {},
         UNCHANGED <<outbox, contact, clock, receipts, denials>>,
         quota' \in [Addresses \union Payloads -> Bucket]
  PROVE  IntakeInv'
  <1> DEFINE new == [step |-> step, key |-> request[h].key, payload |-> request[h].payload,
                     from |-> request[h].from, at |-> request[h].at, window |-> window,
                     known |-> request[h].known, id |-> NoKey]
  <1>1. request' = [request EXCEPT ![h] = new]
    BY DEF Advance
  <1>2. /\ new \in Request /\ request[h] # NoRequest
        /\ new.step = step /\ new.key = request[h].key /\ new.known = request[h].known
    BY DEF Request, NoRequest
  <1> HIDE DEF new
  <1>3. QED
    BY <1>1, <1>2 DEF IntakeInv, IntakeTypes, StoredTogether, KeysAreUnique, RequestsAgree,
       ReceiptsAreStored, KnownIsNeverDenied, Stored

\* A request that leaves without an answer disturbs nothing.
LEMMA LeavePreserves ==
  ASSUME IntakeInv, NEW h \in Handlers, Leave(h),
         UNCHANGED <<outbox, contact, quota, clock, receipts, denials>>
  PROVE  IntakeInv'
  BY DEF Leave, IntakeInv, IntakeTypes, StoredTogether, KeysAreUnique, RequestsAgree,
     ReceiptsAreStored, KnownIsNeverDenied, Stored, NoRequest

\* Charging: the request goes on to its insert, or a new key is denied.
LEMMA ChargePreserves ==
  ASSUME IntakeInv, NEW h \in Handlers, Charge(h)
  PROVE  IntakeInv'
  <1>1. request[h] \in Request /\ request[h].step = "charge" /\ ~request[h].known
    BY DEF Charge, Serves, IntakeInv, IntakeTypes, RequestsAgree, NoRequest
  <1>2. /\ request[h].from \in Addresses /\ request[h].payload \in Payloads
        /\ request[h].at \in Nat
    BY <1>1 DEF Request
  <1>3. CASE Passes(h)
    <2>1. /\ quota' = [b \in DOMAIN quota |->
                IF b \in ChargedBuckets(h) THEN Consumed(quota[b], Window, request[h].at)
                                           ELSE quota[b]]
          /\ Advance(h, "store", quota'[request[h].from].started, NoKey)
          /\ UNCHANGED denials
      BY <1>3 DEF Charge
    <2>2. \A b \in Addresses \union Payloads :
              quota[b] \in Bucket /\ Consumed(quota[b], Window, request[h].at) \in Bucket
      BY <1>2 DEF Consumed, Bucket, IntakeInv, IntakeTypes
    <2>3. quota' \in [Addresses \union Payloads -> Bucket]
      BY <2>1, <2>2 DEF IntakeInv, IntakeTypes
    <2>4. quota'[request[h].from].started \in Nat
      BY <1>2, <2>3 DEF Bucket
    <2>5. UNCHANGED <<outbox, contact, clock, receipts>>
      BY DEF Charge, vars
    <2>6. QED
      BY <1>1, <2>1, <2>3, <2>4, <2>5, AdvancePreserves
  <1>4. CASE ~Passes(h)
    <2>1. Leave(h) /\ UNCHANGED <<outbox, contact, quota, clock, receipts>>
      BY <1>4 DEF Charge, vars
    <2>2. denials' = denials
      BY <1>1, <1>4 DEF Charge
    <2>3. QED
      BY <2>1, <2>2, LeavePreserves
  <1>5. QED
    BY <1>3, <1>4

\* The insert stores a contact under a key that no contact has.
LEMMA InsertPreserves ==
  ASSUME IInv, IntakeInv, NEW h \in Handlers, NEW s \in Submissions, Insert(h, s),
         Stored(request[h].key) = {}, request[h] \in Request, UNCHANGED receipts,
         UNCHANGED <<quota, clock, denials>>
  PROVE  IntakeInv'
  <1> DEFINE row == [key |-> request[h].key, payload |-> request[h].payload,
                     from |-> request[h].from, window |-> request[h].window]
             new == [step |-> "deliver", key |-> request[h].key, payload |-> request[h].payload,
                     from |-> request[h].from, at |-> request[h].at,
                     window |-> request[h].window, known |-> request[h].known, id |-> s]
  <1>1. /\ contact' = [contact EXCEPT ![s] = row]
        /\ request' = [request EXCEPT ![h] = new]
    BY DEF Insert, Advance
  <1>2. /\ row \in Contact /\ row.key = request[h].key /\ row.payload = request[h].payload
        /\ new \in Request /\ new.step = "deliver" /\ new.id = s /\ new.known = request[h].known
        /\ new.key = request[h].key /\ new.payload = request[h].payload
        /\ request[h] # NoRequest
    BY DEF Request, Contact, NoRequest
  <1> HIDE DEF row, new
  <1>3. outbox[s].status = "absent" /\ outbox'[s].status # "absent"
    BY DEF Insert, CreateContact, IInv, TypeOK
  <1>4. \A r \in Submissions \ {s} : outbox'[r] = outbox[r]
    BY DEF Insert, CreateContact, IInv, TypeOK
  <1>5. contact[s] = NoContact
    BY <1>3 DEF IntakeInv, StoredTogether
  <1>6. NoContact.key = NoKey /\ NoContact.payload \notin Payloads
    BY IntakeAssumption DEF NoContact
  <1>7. ~request[h].known
    BY <1>2 DEF IntakeInv, RequestsAgree
  <1>8. IntakeTypes' /\ StoredTogether' /\ KnownIsNeverDenied'
    BY <1>1, <1>2, <1>3, <1>4 DEF IntakeInv, IntakeTypes, StoredTogether, KnownIsNeverDenied
  <1>9. KeysAreUnique'
    BY <1>1, <1>2 DEF IntakeInv, IntakeTypes, KeysAreUnique, Stored
  <1>10. ReceiptsAreStored'
    <2> SUFFICES ASSUME NEW r \in receipts
                 PROVE  /\ contact'[r.id].key = r.key /\ contact'[r.id].payload = r.payload
                        /\ outbox'[r.id].status # "absent"
      BY DEF ReceiptsAreStored
    <2>1. r.id \in Submissions /\ r.id # s
      BY <1>3 DEF IntakeInv, IntakeTypes, Receipt, ReceiptsAreStored
    <2>2. QED
      BY <1>1, <1>4, <2>1 DEF IntakeInv, IntakeTypes, ReceiptsAreStored
  <1>11. RequestsAgree'
    <2> SUFFICES ASSUME NEW g \in Handlers
                 PROVE  /\ request'[g].step = "deliver" =>
                             /\ request'[g].id \in Submissions
                             /\ contact'[request'[g].id].key = request'[g].key
                             /\ contact'[request'[g].id].payload = request'[g].payload
                        /\ request'[g] # NoRequest /\ request'[g].known
                             => /\ request'[g].key # NoKey
                                /\ \E r \in Submissions : contact'[r].key = request'[g].key
                        /\ request'[g].step = "charge" => ~request'[g].known
      BY DEF RequestsAgree, Stored
    <2>1. CASE g = h
      BY <1>1, <1>2, <1>7, <2>1 DEF IntakeInv, IntakeTypes
    <2>2. CASE g # h
      <3>1. request'[g] = request[g]
        BY <1>1, <2>2 DEF IntakeInv, IntakeTypes
      <3>2. CASE request[g] = NoRequest
        BY <3>1, <3>2 DEF NoRequest
      <3>3. CASE request[g] \in Request
        <4>1. \A r \in Submissions \ {s} : contact'[r] = contact[r]
          BY <1>1 DEF IntakeInv, IntakeTypes
        <4>2. request[g].step = "deliver" => request[g].id # s
          BY <1>5, <1>6, <3>3 DEF IntakeInv, RequestsAgree, Request
        <4>3. \A key : key # NoKey /\ (\E r \in Submissions : contact[r].key = key)
                          => \E r \in Submissions : contact'[r].key = key
          BY <1>5, <1>6, <4>1
        <4>4. request[g] # NoRequest
          BY <3>3 DEF Request, NoRequest
        <4>5. QED
          BY <3>1, <4>1, <4>2, <4>3, <4>4 DEF IntakeInv, RequestsAgree, Stored
      <3>4. QED
        BY <3>2, <3>3 DEF IntakeInv, IntakeTypes
    <2>3. QED
      BY <2>1, <2>2
  <1>12. QED
    BY <1>8, <1>9, <1>10, <1>11 DEF IntakeInv

\* The answer after the delivery names the contact that was inserted.
LEMMA FinishPreserves ==
  ASSUME IntakeInv, NEW h \in Handlers, Finish(h)
  PROVE  IntakeInv'
  <1>1. /\ request[h] \in Request /\ request[h].id \in Submissions
        /\ contact[request[h].id].key = request[h].key
        /\ contact[request[h].id].payload = request[h].payload
    BY DEF Finish, Serves, IntakeInv, IntakeTypes, RequestsAgree, NoRequest
  <1>2. contact[request[h].id] # NoContact
    BY <1>1, IntakeAssumption DEF Request, NoContact
  <1> DEFINE new == [key |-> request[h].key, payload |-> request[h].payload, id |-> request[h].id]
  <1>3. /\ new \in Receipt /\ new.id = request[h].id
        /\ new.key = request[h].key /\ new.payload = request[h].payload
    BY <1>1 DEF Receipt, Request
  <1>4. receipts' = receipts \union {new}
    BY DEF Finish
  <1> HIDE DEF new
  <1>5. /\ request' = [request EXCEPT ![h] = NoRequest]
        /\ UNCHANGED <<outbox, contact, quota, clock, denials>>
    BY DEF Finish, Leave, vars
  <1>6. ReceiptsAreStored'
    BY <1>1, <1>2, <1>3, <1>4, <1>5 DEF IntakeInv, StoredTogether, ReceiptsAreStored
  <1>7. QED
    BY <1>3, <1>4, <1>5, <1>6 DEF IntakeInv, IntakeTypes, StoredTogether, KeysAreUnique,
       RequestsAgree, KnownIsNeverDenied, Stored, NoRequest

-----------------------------------------------------------------------------

\* Every step of the composition keeps the invariant.
LEMMA IntakeNextPreserves == IInv /\ IntakeInv /\ [IntakeNext]_allVars => IntakeInv'
  <1> SUFFICES ASSUME IInv, IntakeInv, [IntakeNext]_allVars PROVE IntakeInv'
    OBVIOUS
  <1>1. [Next]_vars
    BY IntakeStep
  <1>2. CASE UNCHANGED intakeVars
    BY <1>1, <1>2, OutboxStepPreserves
  <1>3. ASSUME NEW h \in Handlers, Lookup(h) PROVE IntakeInv'
    <2>1. request[h] \in Request
      BY <1>3 DEF Lookup, Serves, IntakeInv, IntakeTypes, NoRequest
    <2>2. ASSUME Stored(request[h].key) = {}, Advance(h, "charge", 0, NoKey), UNCHANGED receipts
          PROVE  IntakeInv'
      BY <1>3, <2>1, <2>2, AdvancePreserves DEF Lookup, vars, IntakeInv, IntakeTypes
    <2>3. QED
      BY <1>3, <2>1, <2>2, AnswerPreserves DEF Lookup
  <1>4. ASSUME NEW h \in Handlers, Store(h) PROVE IntakeInv'
    <2>1. request[h] \in Request
      BY <1>4 DEF Store, Serves, IntakeInv, IntakeTypes, NoRequest
    <2>2. QED
      BY <1>4, <2>1, InsertPreserves, AnswerPreserves DEF Store
  <1>5. ASSUME NEW h \in Handlers, LoseRequest(h) PROVE IntakeInv'
    BY <1>5, LeavePreserves DEF LoseRequest, Crash, vars
  <1>6. CASE ClockTick
    BY <1>6 DEF ClockTick, vars, IntakeInv, IntakeTypes, StoredTogether, KeysAreUnique,
       RequestsAgree, ReceiptsAreStored, KnownIsNeverDenied, Stored
  <1>7. ASSUME NEW h \in Handlers, Submit(h) PROVE IntakeInv'
    BY <1>3, <1>4, <1>7, BeginPreserves, ChargePreserves, FinishPreserves DEF Submit
  <1>8. QED
    BY <1>2, <1>5, <1>6, <1>7 DEF IntakeNext, OutboxStep, allVars

\* Nothing is stored or answered at the start.
LEMMA IntakeInitInv == IntakeInit => IntakeInv
  BY DEF IntakeInit, IntakeInv, IntakeTypes, StoredTogether, KeysAreUnique, RequestsAgree,
     ReceiptsAreStored, KnownIsNeverDenied, NoRequest, NoContact, NoBucket, Bucket

\* The inductive invariant of the composition, relative to the outbox's.
THEOREM IntakeInvariance == IntakeSpec => []IntakeInv
  <1>1. IntakeSpec => []IInv
    BY IntakeImplementsOutbox, Invariance, PTL
  <1>2. QED
    BY <1>1, IntakeInitInv, IntakeNextPreserves, PTL DEF IntakeSpec

\* Every receipt names a stored contact whose notification is recorded.
THEOREM ReceiptsStayStored == IntakeSpec => []ReceiptsAreStored
  BY IntakeInvariance, PTL DEF IntakeInv

\* One idempotency key, one contact: all receipts for a key are the same.
THEOREM ReceiptsStayAgreed == IntakeSpec => []ReceiptsAgree
  <1>1. IntakeInv => ReceiptsAgree
    <2> SUFFICES ASSUME IntakeInv, NEW q \in receipts, NEW r \in receipts,
                        q.key = r.key, q.key # NoKey
                 PROVE  q = r
      BY DEF ReceiptsAgree
    <2>1. q \in Receipt /\ r \in Receipt
      BY DEF IntakeInv, IntakeTypes
    <2>2. q.id = r.id /\ q.payload = r.payload
      BY <2>1 DEF IntakeInv, KeysAreUnique, ReceiptsAreStored, Receipt
    <2>3. QED
      BY <2>1, <2>2 DEF Receipt
  <1>2. QED
    BY <1>1, IntakeInvariance, PTL

\* A retry of a stored submission is never denied by the limiter.
THEOREM RetriesAreAnswered == IntakeSpec => []KnownIsNeverDenied
  BY IntakeInvariance, PTL DEF IntakeInv

-----------------------------------------------------------------------------
(* Quotas.                                                                 *)

\* Contacts stored, and requests that will store one, in a window of an address.
Recorded(a, w) == {s \in Submissions : contact[s].from = a /\ contact[s].window = w}

Underway(a, w) ==
    {h \in Handlers : request[h].step = "store" /\ request[h].from = a /\ request[h].window = w}

Booked(a, w) == Cardinality(Recorded(a, w)) + Cardinality(Underway(a, w))

\* What the bucket has let through: its count in the window it is in, at most
\* the limit in earlier ones, nothing in later ones.
Allowance(bucket, w) ==
    IF bucket.count = 0 \/ w > bucket.started THEN 0
    ELSE IF w = bucket.started THEN bucket.count
    ELSE AddressLimit

\* Every contact of a window, stored or about to be, was counted by its bucket.
WithinAllowance(a, w) ==
    /\ IsFiniteSet(Recorded(a, w))
    /\ IsFiniteSet(Underway(a, w))
    /\ Booked(a, w) <= Allowance(quota[a], w)

QuotaInv ==
    /\ clock \in 0..MaxClock
    /\ \A a \in Addresses : quota[a].count <= AddressLimit
    /\ \A a \in Addresses : \A w \in Nat : WithinAllowance(a, w)

\* A step that books nothing new in a window keeps it within its allowance.
LEMMA BookingLess ==
  ASSUME NEW a, NEW w, WithinAllowance(a, w), Allowance(quota[a], w) \in Nat,
         quota'[a] = quota[a],
         Recorded(a, w)' \subseteq Recorded(a, w), Underway(a, w)' \subseteq Underway(a, w)
  PROVE  WithinAllowance(a, w)'
  <1>1. /\ IsFiniteSet(Recorded(a, w)') /\ IsFiniteSet(Underway(a, w)')
        /\ Cardinality(Recorded(a, w)') <= Cardinality(Recorded(a, w))
        /\ Cardinality(Underway(a, w)') <= Cardinality(Underway(a, w))
    BY FS_Subset DEF WithinAllowance
  <1>2. /\ Cardinality(Recorded(a, w)) \in Nat /\ Cardinality(Underway(a, w)) \in Nat
        /\ Cardinality(Recorded(a, w)') \in Nat /\ Cardinality(Underway(a, w)') \in Nat
    BY <1>1, FS_CardinalityType DEF WithinAllowance
  <1>3. Booked(a, w)' <= Booked(a, w)
    BY <1>1, <1>2 DEF Booked
  <1>4. Booked(a, w)' \in Nat /\ Booked(a, w) \in Nat
    BY <1>2 DEF Booked
  <1>5. Allowance(quota[a], w)' = Allowance(quota[a], w)
    BY DEF Allowance
  <1>6. QED
    BY <1>1, <1>3, <1>4, <1>5 DEF WithinAllowance

\* What a bucket allows is a number.
LEMMA AllowanceType ==
  ASSUME NEW bucket \in Bucket, NEW w \in Nat
  PROVE  Allowance(bucket, w) \in Nat
  BY IntakeAssumption DEF Allowance, Bucket

\* So does every step but a charge and an insert.
LEMMA QuotaUntouched ==
  ASSUME IntakeInv, QuotaInv, clock' \in 0..MaxClock, UNCHANGED <<contact, quota>>,
         \A h \in Handlers : request'[h].step = "store" => request'[h] = request[h]
  PROVE  QuotaInv'
  <1>1. ASSUME NEW a \in Addresses, NEW w \in Nat PROVE WithinAllowance(a, w)'
    <2>1. WithinAllowance(a, w) /\ Allowance(quota[a], w) \in Nat
      BY AllowanceType DEF QuotaInv, IntakeInv, IntakeTypes
    <2>2. Recorded(a, w)' = Recorded(a, w) /\ Underway(a, w)' \subseteq Underway(a, w)
      BY DEF Recorded, Underway
    <2>3. QED
      BY <2>1, <2>2, BookingLess
  <1>2. QED
    BY <1>1 DEF QuotaInv

\* A charge that passes books one request, in the window it is counted in.
LEMMA ChargeKeepsQuota ==
  ASSUME IntakeInv, QuotaInv, NEW h \in Handlers, Charge(h)
  PROVE  QuotaInv'
  <1>1. request[h] \in Request /\ request[h].step = "charge"
    BY DEF Charge, Serves, IntakeInv, IntakeTypes, NoRequest
  <1>2. /\ request[h].from \in Addresses /\ request[h].payload \in Payloads
        /\ request[h].at \in Nat
    BY <1>1 DEF Request
  <1>3. UNCHANGED <<contact, clock>>
    BY DEF Charge
  <1>4. CASE ~Passes(h)
    <2>1. Leave(h) /\ UNCHANGED quota
      BY <1>4 DEF Charge
    <2>2. \A g \in Handlers : request'[g].step = "store" => request'[g] = request[g]
      BY <2>1 DEF Leave, NoRequest, IntakeInv, IntakeTypes
    <2>3. QED
      BY <1>3, <2>1, <2>2, QuotaUntouched DEF QuotaInv
  <1>5. CASE Passes(h)
    <2> DEFINE from == request[h].from
               old == quota[from]
               now == Consumed(old, Window, request[h].at)
    <2>1. /\ quota' = [b \in DOMAIN quota |->
                IF b \in ChargedBuckets(h) THEN Consumed(quota[b], Window, request[h].at)
                                           ELSE quota[b]]
          /\ Advance(h, "store", quota'[from].started, NoKey)
      BY <1>5 DEF Charge
    <2>2. quota'[from] = now /\ \A a \in Addresses \ {from} : quota'[a] = quota[a]
      BY <1>2, <2>1, IntakeAssumption DEF ChargedBuckets, IntakeInv, IntakeTypes
    <2>3. Admits(old, AddressLimit, Window, request[h].at)
      BY <1>2, <1>5 DEF Passes, ChargedBuckets, LimitOf
    <2>4. old \in Bucket /\ old.count <= AddressLimit /\ now \in Bucket
      BY <1>2 DEF QuotaInv, IntakeInv, IntakeTypes, Bucket, Consumed
    <2>5. now.count <= AddressLimit
      BY <1>2, <2>3, <2>4, IntakeAssumption DEF Admits, Consumed, Bucket
    <2>6. \A w \in Nat : /\ Allowance(old, w) \in Nat /\ Allowance(now, w) \in Nat
                         /\ Allowance(now, w) >= Allowance(old, w)
                         /\ w = now.started => Allowance(now, w) >= Allowance(old, w) + 1
      BY <1>2, <2>3, <2>4, <2>5, IntakeAssumption DEF Allowance, Admits, Consumed, Expired, Bucket
    <2>7. /\ request'[h].step = "store" /\ request'[h].from = from
          /\ request'[h].window = now.started
          /\ \A g \in Handlers \ {h} : request'[g] = request[g]
      BY <2>1, <2>2 DEF Advance, IntakeInv, IntakeTypes
    <2> HIDE DEF now, old, from
    <2>8. ASSUME NEW a \in Addresses, NEW w \in Nat PROVE WithinAllowance(a, w)'
      <3>1. WithinAllowance(a, w) /\ Recorded(a, w)' = Recorded(a, w)
        BY <1>3 DEF QuotaInv, Recorded
      <3>2. CASE a # from
        <4>1. Underway(a, w)' = Underway(a, w) /\ quota'[a] = quota[a]
          BY <1>1, <2>2, <2>7, <3>2 DEF Underway
        <4>2. Allowance(quota[a], w) \in Nat
          BY AllowanceType DEF IntakeInv, IntakeTypes
        <4>3. QED
          BY <3>1, <4>1, <4>2, BookingLess
      <3>3. CASE a = from
        <4>1. Underway(a, w)' = IF w = now.started THEN Underway(a, w) \cup {h}
                                                   ELSE Underway(a, w)
          BY <1>1, <2>7, <3>3 DEF Underway
        <4>2. /\ IsFiniteSet(Underway(a, w)')
              /\ Cardinality(Underway(a, w)') <= Cardinality(Underway(a, w))
                                                 + (IF w = now.started THEN 1 ELSE 0)
              /\ Cardinality(Underway(a, w)) \in Nat
              /\ Cardinality(Underway(a, w)') \in Nat
              /\ Cardinality(Recorded(a, w)) \in Nat
          <5>1. IsFiniteSet(Underway(a, w)) /\ IsFiniteSet(Recorded(a, w))
            BY <3>1 DEF WithinAllowance
          <5>2. /\ Cardinality(Underway(a, w)) \in Nat /\ Cardinality(Recorded(a, w)) \in Nat
            BY <5>1, FS_CardinalityType
          <5>3. /\ IsFiniteSet(Underway(a, w) \cup {h})
                /\ Cardinality(Underway(a, w) \cup {h}) <= Cardinality(Underway(a, w)) + 1
            <6>1. /\ IsFiniteSet(Underway(a, w) \cup {h})
                  /\ Cardinality(Underway(a, w) \cup {h}) =
                        IF h \in Underway(a, w) THEN Cardinality(Underway(a, w))
                                                ELSE Cardinality(Underway(a, w)) + 1
              BY <5>1, FS_AddElement
            <6>2. QED
              BY <5>2, <6>1
          <5>4. Cardinality(Underway(a, w) \cup {h}) \in Nat
            BY <5>3, FS_CardinalityType
          <5>5. QED
            BY <4>1, <5>1, <5>2, <5>3, <5>4
        <4>3. Booked(a, w)' <= Booked(a, w) + (IF w = now.started THEN 1 ELSE 0)
          BY <3>1, <4>2 DEF Booked
        <4>4. Booked(a, w)' \in Nat /\ Booked(a, w) \in Nat
          BY <3>1, <4>2 DEF Booked
        <4>5. Booked(a, w) <= Allowance(old, w) /\ Allowance(quota[a], w)' = Allowance(now, w)
          BY <2>2, <3>1, <3>3 DEF WithinAllowance, Allowance, old
        <4>6. IsFiniteSet(Recorded(a, w)')
          BY <3>1 DEF WithinAllowance
        <4>7. QED
          BY <2>6, <4>2, <4>3, <4>4, <4>5, <4>6 DEF WithinAllowance
      <3>4. QED
        BY <3>2, <3>3
    <2>9. \A a \in Addresses : quota'[a].count <= AddressLimit
      BY <2>2, <2>5 DEF QuotaInv
    <2>10. QED
      BY <1>3, <2>8, <2>9 DEF QuotaInv
  <1>6. QED
    BY <1>4, <1>5

\* An insert books as a contact what was booked as a request.
LEMMA InsertKeepsQuota ==
  ASSUME IInv, IntakeInv, QuotaInv, NEW h \in Handlers, NEW s \in Submissions, Insert(h, s),
         Serves(h, "store"), UNCHANGED <<quota, clock>>
  PROVE  QuotaInv'
  <1> DEFINE from == request[h].from
             window == request[h].window
  <1>1. request[h] \in Request /\ request[h].step = "store"
    BY DEF Serves, IntakeInv, IntakeTypes, NoRequest
  <1>2. /\ contact'[s].from = from /\ contact'[s].window = window
        /\ \A r \in Submissions \ {s} : contact'[r] = contact[r]
        /\ request'[h].step = "deliver"
        /\ \A g \in Handlers \ {h} : request'[g] = request[g]
    BY DEF Insert, Advance, IntakeInv, IntakeTypes
  <1>3. contact[s] = NoContact
    BY DEF Insert, CreateContact, IntakeInv, StoredTogether
  <1>4. \A a \in Addresses : contact[s].from # a
    BY <1>3, IntakeAssumption DEF NoContact
  <1>5. ASSUME NEW a \in Addresses, NEW w \in Nat PROVE WithinAllowance(a, w)'
    <2>1. WithinAllowance(a, w) /\ Allowance(quota[a], w) \in Nat
      BY AllowanceType DEF QuotaInv, IntakeInv, IntakeTypes
    <2>2. CASE ~(a = from /\ w = window)
      <3>1. Recorded(a, w)' = Recorded(a, w) /\ Underway(a, w)' = Underway(a, w)
        BY <1>1, <1>2, <1>4, <2>2 DEF Recorded, Underway
      <3>2. QED
        BY <2>1, <3>1, BookingLess
    <2>3. CASE a = from /\ w = window
      <3>1. /\ Recorded(a, w)' = Recorded(a, w) \cup {s} /\ s \notin Recorded(a, w)
            /\ Underway(a, w)' = Underway(a, w) \ {h} /\ h \in Underway(a, w)
        BY <1>1, <1>2, <1>4, <2>3 DEF Recorded, Underway
      <3>2. IsFiniteSet(Recorded(a, w)) /\ IsFiniteSet(Underway(a, w))
        BY <2>1 DEF WithinAllowance
      <3>3. /\ IsFiniteSet(Recorded(a, w)') /\ IsFiniteSet(Underway(a, w)')
            /\ Cardinality(Recorded(a, w)') = Cardinality(Recorded(a, w)) + 1
            /\ Cardinality(Underway(a, w)') = Cardinality(Underway(a, w)) - 1
        BY <3>1, <3>2, FS_AddElement, FS_RemoveElement
      <3>4. Cardinality(Recorded(a, w)) \in Nat /\ Cardinality(Underway(a, w)) \in Nat
        BY <3>2, FS_CardinalityType
      <3>5. Booked(a, w)' = Booked(a, w)
        BY <3>3, <3>4 DEF Booked
      <3>6. QED
        BY <2>1, <3>3, <3>5 DEF WithinAllowance, Allowance
    <2>4. QED
      BY <2>2, <2>3
  <1>6. QED
    BY <1>5 DEF QuotaInv

\* Every step of the composition keeps every window within its allowance.
LEMMA QuotaNext == IInv /\ IntakeInv /\ QuotaInv /\ [IntakeNext]_allVars => QuotaInv'
  <1> SUFFICES ASSUME IInv, IntakeInv, QuotaInv, [IntakeNext]_allVars PROVE QuotaInv'
    OBVIOUS
  <1>1. CASE UNCHANGED intakeVars
    BY <1>1, QuotaUntouched DEF intakeVars, QuotaInv
  <1>2. ASSUME NEW h \in Handlers, Leave(h)
        PROVE  \A g \in Handlers : request'[g].step = "store" => request'[g] = request[g]
    BY <1>2 DEF Leave, NoRequest, IntakeInv, IntakeTypes
  <1>3. ASSUME NEW h \in Handlers, NEW key \in Keys \union {NoKey}, NEW payload \in Payloads,
               NEW from \in Addresses, Begin(h, key, payload, from)
        PROVE  QuotaInv'
    <2>1. \A g \in Handlers : request'[g].step = "store" => request'[g] = request[g]
      BY <1>3 DEF Begin, IntakeInv, IntakeTypes
    <2>2. QED
      BY <1>3, <2>1, QuotaUntouched DEF Begin, QuotaInv
  <1>4. ASSUME NEW h \in Handlers, Lookup(h) PROVE QuotaInv'
    <2>1. ASSUME Advance(h, "charge", 0, NoKey)
          PROVE  \A g \in Handlers : request'[g].step = "store" => request'[g] = request[g]
      BY <2>1 DEF Advance, IntakeInv, IntakeTypes
    <2>2. \A g \in Handlers : request'[g].step = "store" => request'[g] = request[g]
      BY <1>2, <1>4, <2>1 DEF Lookup, Answer
    <2>3. QED
      BY <1>4, <2>2, QuotaUntouched DEF Lookup, QuotaInv
  <1>5. ASSUME NEW h \in Handlers, Store(h) PROVE QuotaInv'
    <2>1. ASSUME NEW s \in Submissions, Insert(h, s) PROVE QuotaInv'
      BY <1>5, <2>1, InsertKeepsQuota DEF Store
    <2>2. ASSUME NEW s \in Submissions, Answer(h, s), UNCHANGED contact PROVE QuotaInv'
      BY <1>2, <1>5, <2>2, QuotaUntouched DEF Store, Answer, QuotaInv
    <2>3. QED
      BY <1>5, <2>1, <2>2 DEF Store, Stored
  <1>6. ASSUME NEW h \in Handlers, Finish(h) \/ LoseRequest(h) PROVE QuotaInv'
    BY <1>2, <1>6, QuotaUntouched DEF Finish, LoseRequest, QuotaInv
  <1>7. CASE ClockTick
    <2>1. clock' \in 0..MaxClock
      BY <1>7, IntakeAssumption DEF ClockTick, QuotaInv
    <2>2. QED
      BY <1>7, <2>1, QuotaUntouched DEF ClockTick
  <1>8. ASSUME NEW h \in Handlers, Submit(h) PROVE QuotaInv'
    BY <1>3, <1>4, <1>5, <1>6, <1>8, ChargeKeepsQuota DEF Submit
  <1>9. QED
    BY <1>1, <1>6, <1>7, <1>8 DEF IntakeNext, OutboxStep, allVars

\* At the start nothing is booked.
LEMMA QuotaInit == IntakeInit => QuotaInv
  <1> SUFFICES ASSUME IntakeInit PROVE QuotaInv
    OBVIOUS
  <1>1. ASSUME NEW a \in Addresses, NEW w \in Nat PROVE WithinAllowance(a, w)
    <2>1. Recorded(a, w) = {} /\ Underway(a, w) = {}
      BY IntakeAssumption DEF IntakeInit, Recorded, Underway, NoContact, NoRequest
    <2>2. Allowance(quota[a], w) = 0
      BY DEF IntakeInit, Allowance, NoBucket
    <2>3. QED
      BY <2>1, <2>2, FS_EmptySet DEF WithinAllowance, Booked
  <1>2. QED
    BY <1>1, IntakeAssumption DEF IntakeInit, QuotaInv, NoBucket

\* The contacts charged to one window of an address never exceed its limit,
\* however the charges and the inserts of its requests interleave.
THEOREM QuotasAreKept == IntakeSpec => []QuotaIsKept
  <1>1. IInv /\ IntakeInv /\ QuotaInv => QuotaIsKept
    <2> SUFFICES ASSUME IInv, IntakeInv, QuotaInv PROVE QuotaIsKept
      OBVIOUS
    <2>1. IntakeTypeOK
      BY DEF IInv, IntakeInv, IntakeTypes, KnownIsNeverDenied, QuotaInv, IntakeTypeOK
    <2>2. ASSUME NEW a \in Addresses, NEW w \in 0..MaxClock
          PROVE  Cardinality(Recorded(a, w)) <= AddressLimit
      <3>1. w \in Nat /\ WithinAllowance(a, w) /\ quota[a] \in Bucket
            /\ quota[a].count <= AddressLimit
        BY <2>2 DEF QuotaInv, IntakeInv, IntakeTypes
      <3>2. Allowance(quota[a], w) \in Nat /\ Allowance(quota[a], w) <= AddressLimit
        BY <3>1, IntakeAssumption DEF Allowance, Bucket
      <3>3. Cardinality(Recorded(a, w)) \in Nat /\ Cardinality(Underway(a, w)) \in Nat
        BY <3>1, FS_CardinalityType DEF WithinAllowance
      <3>4. QED
        BY <3>1, <3>2, <3>3, IntakeAssumption DEF WithinAllowance, Booked
    <2>3. QED
      BY <2>1, <2>2 DEF QuotaIsKept, StoredWithinQuota, Recorded
  <1>2. IntakeSpec => []IInv
    BY IntakeImplementsOutbox, Invariance, PTL
  <1>3. IntakeSpec => []QuotaInv
    BY <1>2, IntakeInvariance, QuotaInit, QuotaNext, PTL DEF IntakeSpec
  <1>4. QED
    BY <1>1, <1>2, <1>3, IntakeInvariance, PTL

=============================================================================
