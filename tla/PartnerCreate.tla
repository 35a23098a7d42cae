----------------------------- MODULE PartnerCreate -----------------------------
(***************************************************************************)
(* POST /shipments of the partner API                                      *)
(* (backend/src/modules/partner/partnerShipmentCreateService.ts and the    *)
(* idempotency records, order references and booking it works with): what  *)
(* a request does between its awaits, for any number of requests of one    *)
(* partner that name the same referenceId, on Ekart.                       *)
(*                                                                         *)
(* The booking claim is the atomic one of BookingClaim, reduced to a flag. *)
(* Ekart tells a repeated create for an order from a new one by the        *)
(* tracking id, which is made from the order id, so the courier's          *)
(* shipments are a set of orders.                                          *)
(*                                                                         *)
(* Answers that change nothing are left out: a replay of a stored          *)
(* response, a 409 for another body or for a request in progress.          *)
(***************************************************************************)
EXTENDS Naturals, FiniteSets

CONSTANTS
  Requests,   \* requests at work at the same time
  Keys,       \* idempotency keys
  Bodies,     \* request bodies, by fingerprint
  Ids,        \* bound: orders that can be created
  MaxAged,    \* bound: records older than STALE_PENDING_MS at a time
  NoOrder, NoKey, NoBody,
  Faults      \* do processes die and writes fail?

ASSUME PartnerAssumption ==
  /\ NoOrder \notin Ids /\ NoKey \notin Keys /\ NoBody \notin Bodies
  /\ Faults \in BOOLEAN /\ MaxAged \in Nat

VARIABLES
  rec,      \* the idempotency record of each key
  orders,   \* the order documents
  req,      \* what each request is doing, and what it has read
  live,     \* orders with a shipment at the courier
  lost,     \* history: shipments no write tells of
  adrift    \* history: orders released while held, or claimed when released

partnerVars == <<rec, orders, req, live, lost, adrift>>

NoRecord == [body |-> NoBody, status |-> "none", order |-> NoOrder,
             stale |-> FALSE]

Records ==
  [body: Bodies, status: {"PENDING", "COMPLETED", "FAILED", "UNCERTAIN"},
   order: Ids \cup {NoOrder}, stale: BOOLEAN]

\* ref: does partnerReferenceId still hold the reference?
OrderDocs ==
  [made: BOOLEAN, ref: BOOLEAN, claimed: BOOLEAN, booked: BOOLEAN,
   uncertain: BOOLEAN]

NotMade == [made |-> FALSE, ref |-> FALSE, claimed |-> FALSE,
            booked |-> FALSE, uncertain |-> FALSE]

At == {"idle", "discard", "find", "lookup", "reset", "ensure", "insert",
       "create", "raced", "book", "courier", "save", "refresh", "release",
       "done", "failed", "uncertain"}

Idle == [at |-> "idle", key |-> NoKey, body |-> NoBody, order |-> NoOrder,
         failed |-> FALSE, err |-> "none"]

PartnerTypeOK ==
  /\ rec \in [Keys -> Records \cup {NoRecord}]
  /\ orders \in [Ids -> OrderDocs]
  /\ req \in [Requests ->
       [at: At, key: Keys \cup {NoKey}, body: Bodies \cup {NoBody},
        order: Ids \cup {NoOrder},
        failed: BOOLEAN, err: {"none", "FAILED", "UNCERTAIN", "busy"}]]
  /\ live \subseteq Ids /\ lost \subseteq Ids /\ adrift \subseteq Ids

PartnerInit ==
  /\ rec = [k \in Keys |-> NoRecord]
  /\ orders = [o \in Ids |-> NotMade]
  /\ req = [q \in Requests |-> Idle]
  /\ live = {} /\ lost = {} /\ adrift = {}

-----------------------------------------------------------------------------
\* findPartnerOrderByReference.
Active == {o \in Ids : orders[o].made /\ orders[o].ref}
Found == IF Active = {} THEN NoOrder ELSE CHOOSE o \in Active : TRUE

\* The index on (partnerId, partnerReferenceId) is unique, and a released
\* order stays in it with no reference: a partner can have one such order.
AnotherReleased(o) == \E p \in Ids \ {o} : orders[p].made /\ ~orders[p].ref

Goto(q, l) == req' = [req EXCEPT ![q].at = l]
Ends(q) == req' = [req EXCEPT ![q] = Idle]
\* The request goes on to write what became of it.
Settles(q, l) == req' = [req EXCEPT ![q].at = l, ![q].err = "none"]
Errs(q, e) == req' = [req EXCEPT ![q].at = "refresh", ![q].err = e]

\* resolveExistingOrder: a booked order is answered, any other is booked.
Resolve(q, o) ==
  req' = [req EXCEPT ![q].at = IF orders[o].booked THEN "done" ELSE "ensure",
                     ![q].order = o, ![q].failed = FALSE]

-----------------------------------------------------------------------------
\* checkPartnerIdempotency: the record of the key.
Check(q, k, b) ==
  LET Go(l, failed, o) ==
        req' = [req EXCEPT ![q] = [at |-> l, key |-> k, body |-> b,
                  order |-> o, failed |-> failed, err |-> "none"]]
  IN
  /\ req[q].at = "idle"
  /\ \/ rec[k] = NoRecord /\ Go("lookup", FALSE, NoOrder)
     \/ /\ rec[k].body = b
        /\ rec[k].status = "PENDING" /\ rec[k].stale
        /\ Go("discard", FALSE, NoOrder)
     \/ /\ rec[k].body = b
        /\ \/ rec[k].status = "PENDING" /\ ~rec[k].stale
           \/ rec[k].status = "UNCERTAIN"
        /\ Go("find", FALSE, rec[k].order)
     \/ /\ rec[k].body = b
        /\ rec[k].status = "FAILED"
        /\ Go("find", TRUE, NoOrder)
  /\ UNCHANGED <<rec, orders, live, lost, adrift>>

\* The stale record is deleted by its _id, whatever has become of it.
Discard(q) ==
  /\ req[q].at = "discard"
  /\ \/ rec' = IF rec[req[q].key].stale
               THEN [rec EXCEPT ![req[q].key] = NoRecord] ELSE rec
     \/ Faults /\ UNCHANGED rec
  /\ Goto(q, "lookup")
  /\ UNCHANGED <<orders, live, lost, adrift>>

\* The order of the record, or of the reference.
Find(q) ==
  LET o == IF req[q].order # NoOrder THEN req[q].order ELSE Found IN
  /\ req[q].at = "find"
  /\ IF o # NoOrder THEN Resolve(q, o)
     ELSE IF req[q].failed THEN Goto(q, "lookup")
     ELSE Ends(q)
  /\ UNCHANGED <<rec, orders, live, lost, adrift>>

Lookup(q) ==
  /\ req[q].at = "lookup"
  /\ IF Found # NoOrder THEN Resolve(q, Found)
     ELSE IF req[q].failed THEN Goto(q, "reset")
     ELSE Goto(q, "ensure")
  /\ UNCHANGED <<rec, orders, live, lost, adrift>>

\* resetPartnerIdempotencyForRetry: the record of the key, whatever it is now.
Reset(q) ==
  /\ req[q].at = "reset"
  /\ \/ rec' = [rec EXCEPT ![req[q].key] = NoRecord]
     \/ Faults /\ UNCHANGED rec
  /\ req' = [req EXCEPT ![q].at = "ensure", ![q].failed = FALSE]
  /\ UNCHANGED <<orders, live, lost, adrift>>

\* The record made PENDING: its age stays, an order id is only added.
Pended(q) ==
  LET r == rec[req[q].key] IN
  [body |-> req[q].body, status |-> "PENDING", stale |-> r.stale,
   order |-> IF req[q].order = NoOrder THEN r.order ELSE req[q].order]

MakePending(q) ==
  /\ rec' = [rec EXCEPT ![req[q].key] = Pended(q)]
  /\ Goto(q, IF req[q].order = NoOrder THEN "create" ELSE "book")

\* ensurePartnerIdempotencyPending, first update.  A new shipment may be
\* refused before it for its provider or its pickup address.
Ensure(q) ==
  /\ req[q].at = "ensure"
  /\ \/ rec[req[q].key].body = req[q].body /\ MakePending(q)
     \/ rec[req[q].key].body # req[q].body /\ Goto(q, "insert") /\ UNCHANGED rec
     \/ req[q].order = NoOrder /\ Ends(q) /\ UNCHANGED rec
  /\ UNCHANGED <<orders, live, lost, adrift>>

\* The rest of it: the look for a conflicting record, the insert, and the
\* second update when the insert met the unique index.
Insert(q) ==
  LET r == rec[req[q].key] IN
  /\ req[q].at = "insert"
  /\ \/ (r = NoRecord \/ r.body = req[q].body) /\ MakePending(q)
     \/ r # NoRecord /\ Ends(q) /\ UNCHANGED rec
  /\ UNCHANGED <<orders, live, lost, adrift>>

-----------------------------------------------------------------------------
\* createPartnerOrder.  Errors other than the race leave the record PENDING.
Create(q) ==
  /\ req[q].at = "create"
  /\ \/ /\ Found = NoOrder
        /\ \E o \in Ids :
             /\ ~orders[o].made
             /\ orders' = [orders EXCEPT ![o].made = TRUE, ![o].ref = TRUE]
             /\ req' = [req EXCEPT ![q].at = "book", ![q].order = o]
     \/ Found # NoOrder /\ Goto(q, "raced") /\ UNCHANGED orders
     \/ Ends(q) /\ UNCHANGED orders
  /\ UNCHANGED <<rec, live, lost, adrift>>

\* The order that won the race, if it still has the reference.
Raced(q) ==
  /\ req[q].at = "raced"
  /\ IF Found # NoOrder THEN Resolve(q, Found) ELSE Ends(q)
  /\ UNCHANGED <<rec, orders, live, lost, adrift>>

\* Mutation: the booking goes on without a claim.
BookUnclaimed(q) ==
  LET o == req[q].order IN
  /\ req[q].at = "book"
  /\ \/ Errs(q, "FAILED")
     \/ orders[o].booked /\ Errs(q, "none")
     \/ ~orders[o].booked /\ Goto(q, "courier")
  /\ UNCHANGED <<rec, orders, live, lost, adrift>>

\* bookPartnerShipment up to the claim: refused for its provider or the
\* wallet, booked already, claimed by another request, or claimed now.
Book(q) ==
  LET o == req[q].order IN
  /\ req[q].at = "book"
  /\ \/ Errs(q, "FAILED") /\ UNCHANGED <<orders, adrift>>
     \/ orders[o].booked /\ Errs(q, "none") /\ UNCHANGED <<orders, adrift>>
     \/ /\ ~orders[o].booked /\ orders[o].claimed
        /\ Errs(q, "busy")
        /\ UNCHANGED <<orders, adrift>>
     \/ /\ ~orders[o].booked /\ ~orders[o].claimed
        /\ orders' = [orders EXCEPT ![o].claimed = TRUE]
        /\ adrift' = IF orders[o].ref THEN adrift ELSE adrift \cup {o}
        /\ Goto(q, "courier")
  /\ UNCHANGED <<rec, live, lost>>

\* A save of the whole order fails with the database, or for its version
\* when the order was released since it was loaded.
SaveMayFail(o) == Faults \/ ~orders[o].ref

\* The courier (or the validation before it) refuses the shipment.
Rejected(q) ==
  /\ req[q].at = "courier"
  /\ orders' = [orders EXCEPT ![req[q].order].claimed = FALSE]
  /\ Errs(q, "FAILED")
  /\ UNCHANGED <<rec, live, lost, adrift>>

\* It makes the shipment, or answers that it has it already.
Accepted(q) ==
  /\ req[q].at = "courier"
  /\ live' = live \cup {req[q].order}
  /\ Goto(q, "save")
  /\ UNCHANGED <<rec, orders, lost, adrift>>

\* Mutation: a time-out releases the claim and leaves no flag.
TimeoutUnflagged(q) ==
  LET o == req[q].order IN
  /\ req[q].at = "courier"
  /\ live' \in {live, live \cup {o}}
  /\ orders' = [orders EXCEPT ![o].claimed = FALSE]
  /\ Errs(q, "UNCERTAIN")
  /\ UNCHANGED <<rec, lost, adrift>>

\* No answer: bookingReconciliationRequired is saved and the claim released.
Timeout(q) ==
  LET o == req[q].order IN
  /\ req[q].at = "courier"
  /\ live' \in {live, live \cup {o}}
  /\ \/ /\ orders' = [orders EXCEPT ![o].claimed = FALSE, ![o].uncertain = TRUE]
        /\ UNCHANGED lost
     \/ /\ SaveMayFail(o)
        /\ orders' = [orders EXCEPT ![o].claimed = FALSE]
        /\ lost' = IF orders[o].uncertain THEN lost ELSE lost \cup (live' \ live)
  /\ Errs(q, "UNCERTAIN")
  /\ UNCHANGED <<rec, adrift>>

\* The connection failed before the request went out, so the create is tried
\* again, and now the answer is lost: a plain failure, without the flag.
SecondTryLost(q) ==
  LET o == req[q].order IN
  /\ req[q].at = "courier"
  /\ live' \in {live, live \cup {o}}
  /\ orders' = [orders EXCEPT ![o].claimed = FALSE]
  /\ lost' = IF orders[o].uncertain THEN lost ELSE lost \cup (live' \ live)
  /\ Errs(q, "FAILED")
  /\ UNCHANGED <<rec, adrift>>

\* The order is saved with its AWB; if not, an updateOne does it and flags
\* the order; if that fails too, the AWB is in the log alone.
Save(q) ==
  LET o == req[q].order IN
  /\ req[q].at = "save"
  /\ \/ /\ orders' = [orders EXCEPT ![o].booked = TRUE, ![o].claimed = FALSE,
                                    ![o].uncertain = FALSE]
        /\ lost' = lost \ {o}
        /\ Errs(q, "none")
     \/ /\ SaveMayFail(o)
        /\ orders' = [orders EXCEPT ![o].booked = TRUE, ![o].claimed = FALSE,
                                    ![o].uncertain = TRUE]
        /\ lost' = lost \ {o}
        /\ Errs(q, "FAILED")
     \/ /\ Faults
        /\ lost' = lost \cup {o}
        /\ Errs(q, "FAILED")
        /\ UNCHANGED orders
  /\ UNCHANGED <<rec, live, adrift>>

-----------------------------------------------------------------------------
\* Mutation: whoever cannot book an order takes it for booked.
RefreshBusyAsDone(q) ==
  LET o == req[q].order IN
  /\ req[q].at = "refresh"
  /\ IF orders[o].booked \/ req[q].err \in {"none", "busy"} THEN Settles(q, "done")
     ELSE IF req[q].err = "UNCERTAIN" THEN Settles(q, "uncertain")
     ELSE IF orders[o].ref /\ ~orders[o].uncertain THEN Settles(q, "release")
     ELSE Settles(q, "failed")
  /\ UNCHANGED <<rec, orders, live, lost, adrift>>

\* After the booking, for better or worse, the order is read again; what
\* finalizeBookingError decides, it decides on this reading.
Refresh(q) ==
  LET o == req[q].order IN
  /\ req[q].at = "refresh"
  /\ IF orders[o].booked \/ req[q].err = "none" THEN Settles(q, "done")
     ELSE IF req[q].err = "busy" THEN Ends(q)
     ELSE IF req[q].err = "UNCERTAIN" THEN Settles(q, "uncertain")
     ELSE IF orders[o].ref /\ ~orders[o].uncertain THEN Settles(q, "release")
     ELSE Settles(q, "failed")
  /\ UNCHANGED <<rec, orders, live, lost, adrift>>

\* releasePartnerReferenceAfterFailedBooking.
Release(q) ==
  LET o == req[q].order IN
  /\ req[q].at = "release"
  /\ \/ /\ ~AnotherReleased(o)
        /\ orders' = [orders EXCEPT ![o].ref = FALSE]
        /\ adrift' = IF orders[o].claimed \/ orders[o].booked
                          \/ orders[o].uncertain
                     THEN adrift \cup {o} ELSE adrift
     \/ (Faults \/ AnotherReleased(o)) /\ UNCHANGED <<orders, adrift>>
  /\ Goto(q, "failed")
  /\ UNCHANGED <<rec, live, lost>>

StatusOf(l) == CASE l = "done" -> "COMPLETED"
                 [] l = "failed" -> "FAILED"
                 [] l = "uncertain" -> "UNCERTAIN"

\* completePartnerIdempotency: the record of the key, if there is one still.
Complete(q) ==
  LET k == req[q].key IN
  /\ req[q].at \in {"done", "failed", "uncertain"}
  /\ \/ rec' = IF rec[k] = NoRecord THEN rec
               ELSE [rec EXCEPT ![k].status = StatusOf(req[q].at),
                                ![k].order = req[q].order]
     \/ Faults /\ UNCHANGED rec
  /\ Ends(q)
  /\ UNCHANGED <<orders, live, lost, adrift>>

-----------------------------------------------------------------------------
Crash(q) ==
  /\ Faults
  /\ req[q].at # "idle"
  /\ lost' = IF req[q].at = "save" THEN lost \cup {req[q].order} ELSE lost
  /\ Ends(q)
  /\ UNCHANGED <<rec, orders, live, adrift>>

\* STALE_PENDING_MS after its creation.
RecordAges(k) ==
  /\ rec[k] # NoRecord
  /\ ~rec[k].stale
  /\ Cardinality({j \in Keys : rec[j].stale}) < MaxAged
  /\ rec' = [rec EXCEPT ![k].stale = TRUE]
  /\ UNCHANGED <<orders, req, live, lost, adrift>>

\* IDEMPOTENCY_TTL_MS after the last request that made it PENDING.
RecordExpires(k) ==
  /\ rec[k] # NoRecord
  /\ \A q \in Requests : req[q].key # k
  /\ rec' = [rec EXCEPT ![k] = NoRecord]
  /\ UNCHANGED <<orders, req, live, lost, adrift>>

\* A claim whose request is gone outlives STALE_CLAIM_MS.
ClaimAges(o) ==
  /\ orders[o].claimed
  /\ \A q \in Requests : req[q].order = o => req[q].at \notin {"courier", "save"}
  /\ orders' = [orders EXCEPT ![o].claimed = FALSE]
  /\ UNCHANGED <<rec, req, live, lost, adrift>>

RequestStep(q) ==
  \/ \E k \in Keys, b \in Bodies : Check(q, k, b)
  \/ Discard(q) \/ Find(q) \/ Lookup(q) \/ Reset(q) \/ Ensure(q) \/ Insert(q)
  \/ Create(q) \/ Raced(q)
  \/ Book(q) \/ Rejected(q) \/ Accepted(q) \/ Timeout(q) \/ SecondTryLost(q)
  \/ Save(q)
  \/ Refresh(q) \/ Release(q) \/ Complete(q)

PartnerNext ==
  \/ \E q \in Requests : RequestStep(q) \/ Crash(q)
  \/ \E k \in Keys : RecordAges(k) \/ RecordExpires(k)
  \/ \E o \in Ids : ClaimAges(o)

PartnerSpec == PartnerInit /\ [][PartnerNext]_partnerVars

-----------------------------------------------------------------------------
InFlight(o) ==
  \E q \in Requests : req[q].order = o /\ req[q].at = "save"

\* Every shipment at the courier belongs to the order that answers to the
\* reference, so a retry under any key finds it and books no other; the only
\* ways out are a shipment no write tells of and an order adrift.
ShipmentFoundByReference ==
  \A o \in live \ (lost \cup adrift) : orders[o].ref

\* A shipment the courier may have is in the order, or about to be, or the
\* order is flagged for reconciliation; the release of a reference relies on it.
ShipmentIsFlagged ==
  \A o \in live \ lost : orders[o].booked \/ orders[o].uncertain \/ InFlight(o)

\* To book an order at the courier is an exclusive right of one request, and no
\* step of this route takes it from a request that has it.
Booking(o) == {q \in Requests : req[q].order = o /\ req[q].at \in {"courier", "save"}}

Right(o) == INSTANCE Exclusive
  WITH Holders <- Requests, held <- Booking(o), broken <- FALSE

BooksExclusively(o) == Right(o)!Spec

\* "COMPLETED: Replay cached successful response" (docs/
\* partner-api-idempotency.md:17): what is replayed is a booked order.
CompletedIsBooked ==
  \A k \in Keys : rec[k].status = "COMPLETED" =>
    rec[k].order # NoOrder /\ orders[rec[k].order].booked
=============================================================================
