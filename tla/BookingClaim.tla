----------------------------- MODULE BookingClaim -----------------------------
(***************************************************************************)
(* The booking claim on one order document                                 *)
(* (backend/src/modules/courier/bookingClaim.ts).                          *)
(*                                                                         *)
(* A worker is one request that books the order: a dashboard click, one    *)
(* order of a "process selected" batch, a partner API call.  Every await   *)
(* of claimOrderForBooking is a step of its own, so workers interleave     *)
(* between the findOne, the rebook reset, the findOneAndUpdate and the     *)
(* second findOne.  What the winner does with its claim is reduced here to *)
(* its effects on the claim fields; LorrigoBooking details it.             *)
(*                                                                         *)
(* Claims are per document and documents are independent, so one order is  *)
(* enough.  bookingInProgressAt is kept as what the code compares: absent, *)
(* recent, or older than STALE_CLAIM_MS.                                   *)
(***************************************************************************)
EXTENDS Naturals, FiniteSets

CONSTANTS
  Workers,          \* requests that may book the order
  Keys,             \* idempotency keys they bring
  Awbs,             \* air waybill numbers couriers hand out
  NoKey, NoAwb, NoWorker,
  InitialStatuses,  \* statuses the order may be in when the requests arrive
  SlowBooking,      \* may a live booking outlast STALE_CLAIM_MS?
  Cancellation      \* may a booked shipment be cancelled (order to reship)?

ASSUME ConstantsAssumption ==
  /\ NoKey \notin Keys
  /\ NoAwb \notin Awbs
  /\ NoWorker \notin Workers
  /\ SlowBooking \in BOOLEAN
  /\ Cancellation \in BOOLEAN

RebookableStatuses ==
  {"reship", "booking_failed", "failed", "processing_failed", "pickup_failed"}

Statuses == RebookableStatuses \cup {"ready_to_ship", "pending_pickup"}

ASSUME InitialStatusesAssumption ==
  InitialStatuses \subseteq Statuses \ {"pending_pickup"}

VARIABLES
  order,       \* the claim fields of the stored order document
  pc,          \* where each worker is
  key,         \* the idempotency key each worker books under
  owner,       \* history: the worker whose claim bookingInProgress records
  overridden   \* history: a claim was taken from a worker still booking

claimVars == <<order, pc, key, owner, overridden>>

Pc == {"idle", "reset", "claim", "reread", "booking", "reused", "conflict"}

Orders ==
  [status: Statuses, created: BOOLEAN, awb: Awbs \cup {NoAwb},
   inProgress: BOOLEAN, at: {"none", "recent", "stale"},
   key: Keys \cup {NoKey}]

TypeOK ==
  /\ order \in Orders
  /\ pc \in [Workers -> Pc]
  /\ key \in [Workers -> Keys \cup {NoKey}]
  /\ owner \in Workers \cup {NoWorker}
  /\ overridden \in BOOLEAN

Init ==
  /\ \E s \in InitialStatuses :
        order = [status |-> s, created |-> FALSE, awb |-> NoAwb,
                 inProgress |-> FALSE, at |-> "none", key |-> NoKey]
  /\ pc = [w \in Workers |-> "idle"]
  /\ key = [w \in Workers |-> NoKey]
  /\ owner = NoWorker
  /\ overridden = FALSE

-----------------------------------------------------------------------------
Goto(w, l) == pc' = [pc EXCEPT ![w] = l]

Booked == order.created \/ order.awb # NoAwb

\* Mutation: the filter forgets the flag.
ClaimableIgnoringFlag == ~order.created /\ order.awb = NoAwb

\* Mutation: the filter forgets the time limit on a claim.
ClaimableNeverStale ==
  ~order.created /\ order.awb = NoAwb /\ ~order.inProgress

\* Mutation: the filter looks at the flag alone.
ClaimableIgnoringShipment == ~order.inProgress \/ order.at \in {"stale", "none"}

\* The filter of the atomic findOneAndUpdate.
Claimable ==
  /\ ~order.created
  /\ order.awb = NoAwb
  /\ ~order.inProgress \/ order.at \in {"stale", "none"}

StillBooking(w) == w \in Workers /\ pc[w] = "booking"

StolenStale == order.inProgress /\ order.at = "stale"

\* First findOne.  The three outcomes are the code's early returns.
FindOrder(w, k) ==
  /\ pc[w] = "idle"
  /\ key' = [key EXCEPT ![w] = k]
  /\ \/ /\ order.status \in RebookableStatuses
        /\ Goto(w, "reset")
     \/ /\ order.status \notin RebookableStatuses
        /\ Booked
        /\ Goto(w, IF order.key \in {NoKey, k} THEN "reused" ELSE "conflict")
     \/ /\ order.status \notin RebookableStatuses
        /\ ~Booked
        /\ Goto(w, "claim")
  /\ UNCHANGED <<order, owner, overridden>>

\* The unconditional updateOne for a rebookable order.
ResetForRebook(w) ==
  /\ pc[w] = "reset"
  /\ order' = [order EXCEPT !.created = FALSE, !.awb = NoAwb,
                            !.inProgress = FALSE, !.at = "none", !.key = NoKey]
  /\ overridden' = (overridden \/ StillBooking(owner))
  /\ Goto(w, "claim")
  /\ UNCHANGED <<key, owner>>

\* The same updateOne failing: .catch(() => undefined), and on to the claim.
ResetLost(w) ==
  /\ pc[w] = "reset"
  /\ Goto(w, "claim")
  /\ UNCHANGED <<order, key, owner, overridden>>

\* Mutation: the update leaves the key of an earlier claim in place.
TryClaimKeepingKey(w) ==
  /\ pc[w] = "claim"
  /\ IF Claimable
     THEN /\ order' = [order EXCEPT !.inProgress = TRUE, !.at = "recent"]
          /\ owner' = w
          /\ Goto(w, "booking")
          /\ UNCHANGED overridden
     ELSE /\ Goto(w, "reread")
          /\ UNCHANGED <<order, owner, overridden>>
  /\ UNCHANGED key

TryClaim(w) ==
  /\ pc[w] = "claim"
  /\ IF Claimable
     THEN /\ order' = [order EXCEPT !.inProgress = TRUE, !.at = "recent",
                                    !.key = key[w]]
          /\ overridden' =
               (overridden \/ (StolenStale /\ StillBooking(owner)))
          /\ owner' = w
          /\ Goto(w, "booking")
     ELSE /\ Goto(w, "reread")
          /\ UNCHANGED <<order, owner, overridden>>
  /\ UNCHANGED key

\* Second findOne, after a lost claim.
Reread(w) ==
  /\ pc[w] = "reread"
  /\ Goto(w, IF Booked THEN "reused" ELSE "conflict")
  /\ UNCHANGED <<order, key, owner, overridden>>

\* The request answers its caller; the caller may send another one.
Answer(w) ==
  /\ pc[w] \in {"reused", "conflict"}
  /\ Goto(w, "idle")
  /\ UNCHANGED <<order, key, owner, overridden>>

-----------------------------------------------------------------------------
\* What the holder of a claim does to the claim fields.

\* Mutation: a release that unsets the time and leaves the flag.
ReleasedTimeOnly(o) == IF o.created THEN o ELSE [o EXCEPT !.at = "none"]

\* releaseBookingClaim: an updateOne on every order without a shipment,
\* whoever holds the claim by then.
Released(o) ==
  IF o.created THEN o ELSE [o EXCEPT !.inProgress = FALSE, !.at = "none"]

Release(w) ==
  /\ pc[w] = "booking"
  /\ order' = Released(order)
  /\ Goto(w, "idle")
  /\ UNCHANGED <<key, owner, overridden>>

\* Mutation: the idempotency key saved where the AWB belongs.
WithKeyAsAwb(o, a) ==
  [o EXCEPT !.created = TRUE, !.awb = o.key, !.inProgress = FALSE,
            !.status = "pending_pickup"]

\* The courier answered with AWB a and the order is saved with it.
WithShipment(o, a) ==
  [o EXCEPT !.created = TRUE, !.awb = a, !.inProgress = FALSE,
            !.status = "pending_pickup"]

Complete(w) ==
  /\ pc[w] = "booking"
  /\ \E a \in Awbs : order' = WithShipment(order, a)
  /\ Goto(w, "idle")
  /\ UNCHANGED <<key, owner, overridden>>

\* The process dies; the document keeps its claim.
Crash(w) ==
  /\ pc[w] # "idle"
  /\ Goto(w, "idle")
  /\ UNCHANGED <<order, key, owner, overridden>>

\* STALE_CLAIM_MS passes over the claim.  Unless SlowBooking, the HTTP time
\* limits make a live booking end before that.
ClaimAges ==
  /\ order.inProgress
  /\ order.at = "recent"
  /\ SlowBooking \/ ~StillBooking(owner)
  /\ order' = [order EXCEPT !.at = "stale"]
  /\ UNCHANGED <<pc, key, owner, overridden>>

\* booking.controller cancelShipment after the courier cancelled: reship.
ToReship(o) ==
  [o EXCEPT !.created = FALSE, !.awb = NoAwb, !.inProgress = FALSE,
            !.key = NoKey, !.status = "reship"]

Cancel ==
  /\ Cancellation
  /\ order.awb # NoAwb
  /\ order' = ToReship(order)
  /\ UNCHANGED <<pc, key, owner, overridden>>

-----------------------------------------------------------------------------
ClaimStep(w) ==
  \/ \E k \in Keys : FindOrder(w, k)
  \/ ResetForRebook(w)
  \/ ResetLost(w)
  \/ TryClaim(w)
  \/ Reread(w)
  \/ Answer(w)

Next ==
  \/ \E w \in Workers : ClaimStep(w)
  \/ \E w \in Workers : Release(w)
  \/ \E w \in Workers : Complete(w)
  \/ \E w \in Workers : Crash(w)
  \/ ClaimAges
  \/ Cancel

\* A booking ends (every await of it has a time limit) and time passes.
Fairness ==
  /\ \A w \in Workers : WF_claimVars(Release(w) \/ Complete(w))
  /\ WF_claimVars(ClaimAges)

Spec == Init /\ [][Next]_claimVars

FairSpec == Spec /\ Fairness

-----------------------------------------------------------------------------
\* Only one worker at a time books the order (bookingClaim.ts:2).
OneWorker ==
  \A u, w \in Workers : pc[u] = "booking" /\ pc[w] = "booking" => u = w

\* Two workers book at once only after one of two identifiable steps: a
\* rebook reset over a live claim, or the theft of a claim that outlived
\* STALE_CLAIM_MS under a worker still booking.  No other interleaving of
\* the four awaits, no crash and no failed update breaks the claim.
ClaimExclusion == overridden \/ OneWorker

\* The claim is an exclusive right to book: a worker comes to book only when
\* no other does, and from the first override on nothing is promised.
Claimed == {w \in Workers : pc[w] = "booking"}

Right == INSTANCE Exclusive
  WITH Holders <- Workers, held <- Claimed, broken <- overridden

ImplementsExclusive == Right!Spec

\* While nobody lost a claim, the booking worker is the one recorded in the
\* document: flag set, no shipment yet, and the document's key is its own.
HolderOwnsDocument ==
  overridden \/
    \A w \in Workers : pc[w] = "booking" =>
      /\ order.inProgress
      /\ ~Booked
      /\ order.key = key[w]

\* A claim that is set always carries the time it was taken, so the
\* "bookingInProgressAt missing" branch of the filter never lets a second
\* worker past a live claim.
ClaimIsDated == order.inProgress => order.at # "none"

\* A claim never stays in the way for ever: whatever dies, the order is
\* claimable again or has its shipment.
ClaimNotStuck == order.inProgress ~> (Claimable \/ Booked)
=============================================================================
