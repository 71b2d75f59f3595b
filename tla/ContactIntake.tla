--------------------------- MODULE ContactIntake ----------------------------
(***************************************************************************)
(* ContactService.submit composed with the notification outbox: a visitor's *)
(* request looks its idempotency key up, is charged by the rate limiter,   *)
(* stores the contact together with its outbox row, and delivers the row   *)
(* before it answers.  The three database steps are separate transactions, *)
(* so requests with one key interleave between them, and any of them may   *)
(* be cut off by a crash and sent again.                                   *)
(*                                                                         *)
(* A payload stands for a sender's address and text, so it also names the  *)
(* bucket of that address.  Requests that leave no trace (feature off, the *)
(* honeypot field, too many links) are not steps.                          *)
(***************************************************************************)
EXTENDS NotificationOutbox, FixedWindow

CONSTANTS
    Keys,       \* idempotency keys
    NoKey,      \* the request names none
    Payloads,
    Addresses,  \* client addresses
    AddressLimit, PayloadLimit, Window,
    MaxClock    \* bound on the clock of the limiter

ASSUME IntakeAssumption ==
    /\ NoKey \notin Keys \union Payloads \union Addresses
    /\ Addresses \intersect Payloads = {}
    /\ AddressLimit \in Nat \ {0}
    /\ PayloadLimit \in Nat \ {0}
    /\ Window \in Nat \ {0}
    /\ MaxClock \in Nat

VARIABLES
    contact,    \* contact_submissions: key, payload, and the window it was charged in
    request,    \* what each handler is serving
    quota,      \* rate_limit_buckets of addresses and payloads
    clock,
    receipts,   \* (history) the answers that accepted a contact
    denials     \* (history) keys denied although they were stored when asked

intakeVars == <<contact, request, quota, clock, receipts, denials>>

allVars == <<vars, intakeVars>>

NoContact == [key |-> NoKey, payload |-> NoKey, from |-> NoKey, window |-> 0]

Contact == [key : Keys \union {NoKey}, payload : Payloads, from : Addresses, window : Nat]

NoRequest == [step |-> "none"]

Request ==
    [step : {"lookup", "charge", "store", "deliver"}, key : Keys \union {NoKey},
     payload : Payloads, from : Addresses, at : Nat, window : Nat, known : BOOLEAN,
     id : Submissions \union {NoKey}]

Receipt == [key : Keys \union {NoKey}, payload : Payloads, id : Submissions]

IntakeTypeOK ==
    /\ TypeOK
    /\ contact \in [Submissions -> {NoContact} \union Contact]
    /\ request \in [Handlers -> {NoRequest} \union Request]
    /\ quota \in [Addresses \union Payloads -> Bucket]
    /\ clock \in 0..MaxClock
    /\ receipts \subseteq Receipt
    /\ denials \subseteq Keys

IntakeInit ==
    /\ Init
    /\ contact = [s \in Submissions |-> NoContact]
    /\ request = [h \in Handlers |-> NoRequest]
    /\ quota = [b \in Addresses \union Payloads |-> NoBucket]
    /\ clock = 0
    /\ receipts = {}
    /\ denials = {}

\* The contacts a unique key names; rows without a key never collide.
Stored(key) == {s \in Submissions : key # NoKey /\ contact[s].key = key}

Serves(h, step) == request[h].step = step

\* The request goes on to its next step.
Advance(h, step, window, id) ==
    request' = [request EXCEPT ![h] =
        [step |-> step, key |-> request[h].key, payload |-> request[h].payload,
         from |-> request[h].from, at |-> request[h].at, window |-> window,
         known |-> request[h].known, id |-> id]]

Leave(h) == request' = [request EXCEPT ![h] = NoRequest]

-----------------------------------------------------------------------------
(* Serving a submission.                                                   *)

\* Mutant: a request with a key skips the lookup.
Begin_NoLookup(h, key, payload, from) ==
    /\ Idle(h)
    /\ Serves(h, "none")
    /\ request' = [request EXCEPT ![h] =
            [step |-> "charge", key |-> key, payload |-> payload, from |-> from, at |-> clock,
             window |-> 0, known |-> Stored(key) # {}, id |-> NoKey]]
    /\ UNCHANGED <<vars, contact, quota, clock, receipts, denials>>

\* The clock is read once, here; `known' remembers whether the key was stored.
Begin(h, key, payload, from) ==
    /\ Idle(h)
    /\ Serves(h, "none")
    /\ request' = [request EXCEPT ![h] =
            [step |-> IF key = NoKey THEN "charge" ELSE "lookup", key |-> key,
             payload |-> payload, from |-> from, at |-> clock,
             window |-> 0, known |-> Stored(key) # {}, id |-> NoKey]]
    /\ UNCHANGED <<vars, contact, quota, clock, receipts, denials>>

\* A stored contact answers a request with its key: the same receipt for the
\* same payload, a conflict (which leaves no trace) for another one.
Answer(h, s) ==
    /\ receipts' = receipts \union
            {[key |-> request[h].key, payload |-> request[h].payload, id |-> r] :
                r \in {s} \intersect {c \in Submissions : contact[c].payload = request[h].payload}}
    /\ Leave(h)

Lookup(h) ==
    /\ Serves(h, "lookup")
    /\ \/ /\ Stored(request[h].key) = {}
          /\ Advance(h, "charge", 0, NoKey)
          /\ UNCHANGED receipts
       \/ \E s \in Stored(request[h].key) : Answer(h, s)
    /\ UNCHANGED <<vars, contact, quota, clock, denials>>

ChargedBuckets(h) == {request[h].from, request[h].payload}

LimitOf(b) == IF b \in Addresses THEN AddressLimit ELSE PayloadLimit

\* Mutant: only the sender's bucket decides.
Passes_SenderOnly(h) ==
    Admits(quota[request[h].payload], PayloadLimit, Window, request[h].at)

Passes(h) == \A b \in ChargedBuckets(h) : Admits(quota[b], LimitOf(b), Window, request[h].at)

\* Both buckets in one transaction, at the time the request began.
Charge(h) ==
    /\ Serves(h, "charge")
    /\ \/ /\ Passes(h)
          /\ quota' = [b \in DOMAIN quota |->
                IF b \in ChargedBuckets(h) THEN Consumed(quota[b], Window, request[h].at)
                                           ELSE quota[b]]
          /\ Advance(h, "store", quota'[request[h].from].started, NoKey)
          /\ UNCHANGED denials
       \/ /\ ~Passes(h)
          /\ denials' = denials \union {k \in Keys : k = request[h].key /\ request[h].known}
          /\ Leave(h)
          /\ UNCHANGED quota
    /\ UNCHANGED <<vars, contact, clock, receipts>>

\* The insert of the contact with its outbox row.
Insert(h, s) ==
    /\ \E email \in EmailModes : CreateContact(h, s, email)
    /\ contact' = [contact EXCEPT ![s] =
            [key |-> request[h].key, payload |-> request[h].payload,
             from |-> request[h].from, window |-> request[h].window]]
    /\ Advance(h, "deliver", request[h].window, s)

\* Mutant: losing the race for a key answers with the id that was rolled back.
Store_OwnId(h) ==
    /\ Serves(h, "store")
    /\ \E s \in Submissions :
        \/ Stored(request[h].key) = {} /\ Insert(h, s) /\ UNCHANGED receipts
        \/ /\ Stored(request[h].key) # {}
           /\ outbox[s].status = "absent"
           /\ receipts' = receipts \union
                {[key |-> request[h].key, payload |-> request[h].payload, id |-> s]}
           /\ Leave(h)
           /\ UNCHANGED <<vars, contact>>
    /\ UNCHANGED <<quota, clock, denials>>

\* Mutant: the key is not unique in the table.
Store_NoUnique(h) ==
    /\ Serves(h, "store")
    /\ \E s \in Submissions : Insert(h, s)
    /\ UNCHANGED <<quota, clock, receipts, denials>>

\* The insert, or the unique key's refusal and the answer of the contact that
\* holds the key.
Store(h) ==
    /\ Serves(h, "store")
    /\ \/ /\ Stored(request[h].key) = {}
          /\ \E s \in Submissions : Insert(h, s)
          /\ UNCHANGED receipts
       \/ /\ \E s \in Stored(request[h].key) : Answer(h, s)
          /\ UNCHANGED <<vars, contact>>
    /\ UNCHANGED <<quota, clock, denials>>

\* The answer after the inline delivery, however it ended.
Finish(h) ==
    /\ Serves(h, "deliver")
    /\ Idle(h)
    /\ receipts' = receipts \union
            {[key |-> request[h].key, payload |-> request[h].payload, id |-> request[h].id]}
    /\ Leave(h)
    /\ UNCHANGED <<vars, contact, quota, clock, denials>>

-----------------------------------------------------------------------------
(* The steps of the outbox, and the environment.                           *)

\* A request is lost at any step; the visitor may send it again.  Only a lost
\* delivery disturbs the outbox, and counts as one of its faults.
LoseRequest(h) ==
    /\ ~Serves(h, "none")
    /\ \/ Crash(h)
       \/ Idle(h) /\ UNCHANGED vars
    /\ Leave(h)
    /\ UNCHANGED <<contact, quota, clock, receipts, denials>>

OutboxStep ==
    /\ \/ \E t \in Workers : ListDue(t)
       \/ \E t \in Tasks : Deliver(t)
       \/ \E t \in Tasks : (t \in Handlers => Serves(t, "none")) /\ Crash(t)
       \/ \E h \in Handlers, s \in Submissions : Serves(h, "none") /\ ResetRead(h, s)
       \/ Tick
    /\ UNCHANGED intakeVars

ClockTick ==
    /\ clock < MaxClock
    /\ clock' = clock + 1
    /\ UNCHANGED <<vars, contact, request, quota, receipts, denials>>

Submit(h) ==
    \/ \E key \in Keys \union {NoKey}, payload \in Payloads, from \in Addresses :
        Begin(h, key, payload, from)
    \/ Lookup(h)
    \/ Charge(h)
    \/ Store(h)
    \/ Finish(h)

IntakeNext ==
    \/ \E h \in Handlers : Submit(h) \/ LoseRequest(h)
    \/ OutboxStep
    \/ ClockTick

IntakeSpec == IntakeInit /\ [][IntakeNext]_allVars

-----------------------------------------------------------------------------
(* Properties.                                                             *)

\* However often a request is sent again, lost or raced, one idempotency key
\* yields one contact: all receipts for it name the same id and payload.
ReceiptsAgree ==
    \A q, r \in receipts : q.key = r.key /\ q.key # NoKey => q = r

\* A receipt is never given for a contact that is not stored, whole and with
\* the outbox row that owes its notification.
ReceiptsAreStored ==
    \A r \in receipts :
        /\ contact[r.id].key = r.key
        /\ contact[r.id].payload = r.payload
        /\ outbox[r.id].status # "absent"

\* Sending a stored contact again is answered even when its sender is out of
\* quota: the limiter denies only keys that were not stored yet.
KnownIsNeverDenied == denials = {}

\* However the charges and inserts of racing requests interleave, the contacts
\* charged to one window of a client address stay within its limit.
StoredWithinQuota ==
    \A a \in Addresses : \A w \in 0..MaxClock :
        Cardinality({s \in Submissions : contact[s].from = a /\ contact[s].window = w})
            <= AddressLimit

\* No request, charged or refused, leaves more stored than its quota, and what
\* the two transactions of a request leave behind has its type.
QuotaIsKept == IntakeTypeOK /\ StoredWithinQuota

=============================================================================
