---------------------------- MODULE LorrigoBooking ----------------------------
(***************************************************************************)
(* One order booked with Lorrigo (bookLorrigoShipment in                   *)
(* backend/src/modules/courier/bookShipment.ts) and cancelled again        *)
(* (cancelShipment in booking.controller.ts).                              *)
(*                                                                         *)
(* The claim is BookingClaim's; what its holder does is detailed here: the *)
(* call of the courier, whose answer may be lost, the save of the order    *)
(* document, the fallback when the save fails, the release when the call   *)
(* failed.  The courier is the set of shipments that exist there.          *)
(*                                                                         *)
(* order.save writes the fields that changed since the document was        *)
(* loaded.  Where a whole array is among them (statusHistory,              *)
(* providerEvents: every save here) it also demands that no other such     *)
(* save came in between: fresh.  updateOne neither asks nor tells.         *)
(***************************************************************************)
EXTENDS BookingClaim

CONSTANT Crashes  \* may the process die?

ASSUME CrashesAssumption == Crashes \in BOOLEAN

VARIABLES
  step,       \* where the holder of a claim is
  awbOf,      \* the AWB the courier gave to each worker's request
  loaded,     \* the document each worker holds, as it was loaded
  fresh,      \* workers whose document no array save has overtaken
  reconcile,  \* order.bookingReconciliationRequired
  recorded,   \* order.lorrigoOrderId: the shipment the order was last saved with
  live,       \* the courier: shipments that exist
  issued,     \* the courier: AWBs ever given out
  lost,       \* history: accepted, and never recorded anywhere
  wiped,      \* history: recorded, and wiped from the order while it existed
  cancel      \* the cancellation request

courierVars == <<live, issued, lost>>
docVars == <<reconcile, recorded, wiped>>
bookVars == <<claimVars, step, awbOf, loaded, fresh, courierVars, docVars, cancel>>

Steps == {"none", "request", "accepted", "note", "release", "fallback"}

Documents == [order: Orders, reconcile: BOOLEAN]

LorrigoTypeOK ==
  /\ TypeOK
  /\ step \in [Workers -> Steps]
  /\ awbOf \in [Workers -> Awbs \cup {NoAwb}]
  /\ loaded \in [Workers -> Documents]
  /\ fresh \subseteq Workers
  /\ reconcile \in BOOLEAN
  /\ recorded \in Awbs \cup {NoAwb}
  /\ live \subseteq issued /\ issued \subseteq Awbs
  /\ lost \subseteq Awbs /\ wiped \subseteq Awbs
  /\ cancel \in [step: {"idle", "loaded", "cancelled"}, order: Orders,
                 target: Awbs \cup {NoAwb}, fresh: BOOLEAN]

LorrigoInit ==
  /\ Init
  /\ step = [w \in Workers |-> "none"]
  /\ awbOf = [w \in Workers |-> NoAwb]
  /\ loaded = [w \in Workers |-> [order |-> order, reconcile |-> FALSE]]
  /\ fresh = {}
  /\ reconcile = FALSE
  /\ recorded = NoAwb
  /\ live = {} /\ issued = {} /\ lost = {} /\ wiped = {}
  /\ cancel = [step |-> "idle", order |-> order, target |-> NoAwb,
               fresh |-> FALSE]

-----------------------------------------------------------------------------
At(w, l) == step' = [step EXCEPT ![w] = l]

\* A save() with an array in it: every document loaded before is overtaken.
Overtakes(w) ==
  /\ fresh' = fresh \cap {w}
  /\ cancel' = [cancel EXCEPT !.fresh = FALSE]

\* What save() makes of the stored fields: those edited since the load.
SavedOver(old, new) ==
  [f \in DOMAIN order |-> IF new[f] # old[f] THEN new[f] ELSE order[f]]

\* The steps of claimOrderForBooking.  A document is loaded by the successful
\* findOneAndUpdate.
Claim(w) ==
  /\ ClaimStep(w)
  /\ IF pc'[w] = "booking"
     THEN /\ At(w, "request")
          /\ loaded' = [loaded EXCEPT ![w] =
                          [order |-> order', reconcile |-> reconcile]]
          /\ fresh' = fresh \cup {w}
     ELSE UNCHANGED <<step, loaded, fresh>>
  /\ wiped' = wiped \cup
       (IF order'.awb = order.awb THEN {} ELSE {order.awb} \ {NoAwb})
  /\ UNCHANGED <<awbOf, courierVars, reconcile, recorded, cancel>>

Ended(w) ==
  /\ At(w, "none")
  /\ awbOf' = [awbOf EXCEPT ![w] = NoAwb]
  /\ fresh' = fresh \ {w}

\* validateLorrigoBooking refuses: release and throw.
Refuse(w) ==
  /\ step[w] = "request"
  /\ Release(w)
  /\ Ended(w)
  /\ UNCHANGED <<loaded, courierVars, docVars, cancel>>

\* createShipment reaches the courier and a shipment comes into being.  (An
\* earlier lorrigoOrderId is looked up first, but getLorrigoShipment refuses
\* every call without an AWB, and there is none: on to the creation.)
Accept(w) ==
  /\ step[w] = "request"
  /\ \E a \in Awbs \ issued :
       /\ awbOf' = [awbOf EXCEPT ![w] = a]
       /\ live' = live \cup {a}
       /\ issued' = issued \cup {a}
  /\ At(w, "accepted")
  /\ UNCHANGED <<claimVars, loaded, fresh, lost, docVars, cancel>>

\* The courier declines: a definite error.
Reject(w) ==
  /\ step[w] = "request"
  /\ At(w, "note")
  /\ UNCHANGED <<claimVars, awbOf, loaded, fresh, courierVars, docVars, cancel>>

\* The BOOKING_FAILED event is saved with the order.
NoteSaved(w) ==
  /\ step[w] = "note"
  /\ At(w, "release")
  /\ w \in fresh
  /\ Overtakes(w)
  /\ UNCHANGED <<claimVars, awbOf, loaded, courierVars, docVars>>

\* Or the save fails, which is ignored.
NoteFails(w) ==
  /\ step[w] = "note"
  /\ At(w, "release")
  /\ UNCHANGED <<claimVars, awbOf, loaded, fresh, courierVars, docVars, cancel>>

\* No answer within the time limit (504), whether or not the courier has the
\* request.  getShipment is called without an AWB and throws, so the inner
\* catch releases the claim and rethrows.
Timeout(w) ==
  /\ step[w] \in {"request", "accepted"}
  /\ At(w, "release")
  /\ awbOf' = [awbOf EXCEPT ![w] = NoAwb]
  /\ lost' = lost \cup ({awbOf[w]} \ {NoAwb})
  /\ UNCHANGED <<claimVars, loaded, fresh, live, issued, docVars, cancel>>

\* releaseBookingClaim and throw.
EndFailed(w) ==
  /\ step[w] = "release"
  /\ Release(w)
  /\ Ended(w)
  /\ UNCHANGED <<loaded, courierVars, docVars, cancel>>

\* applyShipmentToOrder and a successful save.
Save(w) ==
  LET a == awbOf[w]
      old == loaded[w].order
  IN
  /\ step[w] = "accepted"
  /\ w \in fresh
  /\ order' = SavedOver(old, WithShipment(old, a))
  /\ Goto(w, "idle")
  /\ reconcile' = (reconcile /\ ~loaded[w].reconcile)
  /\ recorded' = a
  /\ wiped' = wiped \cup ({order.awb} \ {NoAwb, a})
  /\ At(w, "none")
  /\ awbOf' = [awbOf EXCEPT ![w] = NoAwb]
  /\ fresh' = {}
  /\ cancel' = [cancel EXCEPT !.fresh = FALSE]
  /\ UNCHANGED <<key, owner, overridden, loaded, courierVars>>

\* The save fails: another save came first, or the database is in trouble.
SaveFails(w) ==
  /\ step[w] = "accepted"
  /\ At(w, "fallback")
  /\ UNCHANGED <<claimVars, awbOf, loaded, fresh, courierVars, docVars, cancel>>

\* Mutation: the fallback does not ask for reconciliation.
FallbackUnflagged(w) ==
  LET a == awbOf[w] IN
  /\ step[w] = "fallback"
  /\ order' = [order EXCEPT !.created = TRUE, !.awb = a, !.inProgress = FALSE,
                            !.key = key[w]]
  /\ recorded' = a
  /\ wiped' = wiped \cup ({order.awb} \ {NoAwb, a})
  /\ Goto(w, "idle")
  /\ Ended(w)
  /\ UNCHANGED <<key, owner, overridden, loaded, courierVars, reconcile, cancel>>

\* Mutation: the fallback forgets the AWB.
FallbackWithoutAwb(w) ==
  /\ step[w] = "fallback"
  /\ order' = [order EXCEPT !.created = TRUE, !.inProgress = FALSE,
                            !.key = key[w]]
  /\ reconcile' = TRUE
  /\ Goto(w, "idle")
  /\ Ended(w)
  /\ UNCHANGED <<key, owner, overridden, loaded, courierVars, recorded, wiped,
                 cancel>>

\* The updateOne that is tried instead: it looks at nothing, and does not set
\* the status.
Fallback(w) ==
  LET a == awbOf[w] IN
  /\ step[w] = "fallback"
  /\ order' = [order EXCEPT !.created = TRUE, !.awb = a, !.inProgress = FALSE,
                            !.key = key[w]]
  /\ reconcile' = TRUE
  /\ recorded' = a
  /\ wiped' = wiped \cup ({order.awb} \ {NoAwb, a})
  /\ Goto(w, "idle")
  /\ Ended(w)
  /\ UNCHANGED <<key, owner, overridden, loaded, courierVars, cancel>>

\* It fails as well: the claim stays set until it is stale.
FallbackFails(w) ==
  /\ step[w] = "fallback"
  /\ lost' = lost \cup ({awbOf[w]} \ {NoAwb})
  /\ Goto(w, "idle")
  /\ Ended(w)
  /\ UNCHANGED <<order, key, owner, overridden, loaded, live, issued, docVars,
                 cancel>>

Die(w) ==
  /\ Crashes
  /\ Crash(w)
  /\ lost' = lost \cup ({awbOf[w]} \ {NoAwb})
  /\ Ended(w)
  /\ UNCHANGED <<loaded, live, issued, docVars, cancel>>

ClaimAge ==
  /\ ClaimAges
  /\ UNCHANGED <<step, awbOf, loaded, fresh, courierVars, docVars, cancel>>

-----------------------------------------------------------------------------
\* cancelShipment.  The shipment is known to the courier by lorrigoOrderId.
CancelRead ==
  /\ Cancellation
  /\ cancel.step = "idle"
  /\ recorded # NoAwb
  /\ cancel' = [step |-> "loaded", order |-> order, target |-> recorded,
                fresh |-> TRUE]
  /\ UNCHANGED <<claimVars, step, awbOf, loaded, fresh, courierVars, docVars>>

\* The courier cancels; it may also have done so for an earlier request.
CancelAccepted ==
  /\ cancel.step = "loaded"
  /\ live' = live \ {cancel.target}
  /\ cancel' = [cancel EXCEPT !.step = "cancelled"]
  /\ UNCHANGED <<claimVars, step, awbOf, loaded, fresh, issued, lost, docVars>>

\* The courier refuses: the events are saved (or not) and the answer is 502.
CancelRefused ==
  /\ cancel.step = "loaded"
  /\ cancel' = [cancel EXCEPT !.step = "idle"]
  /\ fresh' \in {fresh} \cup (IF cancel.fresh THEN {{}} ELSE {})
  /\ UNCHANGED <<claimVars, step, awbOf, loaded, courierVars, docVars>>

\* The order goes to reship.
CancelSave ==
  /\ cancel.step = "cancelled"
  /\ cancel.fresh
  /\ order' = SavedOver(cancel.order, ToReship(cancel.order))
  /\ overridden' = (overridden \/ (order.inProgress /\ ~order'.inProgress
                                     /\ StillBooking(owner)))
  /\ wiped' = wiped \cup
       (IF order'.awb = order.awb THEN {} ELSE {order.awb} \ {NoAwb})
  /\ recorded' = NoAwb
  /\ fresh' = {}
  /\ cancel' = [cancel EXCEPT !.step = "idle"]
  /\ UNCHANGED <<pc, key, owner, step, awbOf, loaded, courierVars, reconcile>>

\* The save fails: the order keeps an AWB the courier has cancelled.
CancelSaveFails ==
  /\ cancel.step = "cancelled"
  /\ cancel' = [cancel EXCEPT !.step = "idle"]
  /\ UNCHANGED <<claimVars, step, awbOf, loaded, fresh, courierVars, docVars>>

-----------------------------------------------------------------------------
BookingStep(w) ==
  \/ Refuse(w)
  \/ Accept(w)
  \/ Reject(w)
  \/ NoteSaved(w)
  \/ NoteFails(w)
  \/ Timeout(w)
  \/ EndFailed(w)
  \/ Save(w)
  \/ SaveFails(w)
  \/ Fallback(w)
  \/ FallbackFails(w)

CancelStep ==
  CancelRead \/ CancelAccepted \/ CancelRefused \/ CancelSave \/ CancelSaveFails

LorrigoNext ==
  \/ \E w \in Workers : Claim(w)
  \/ \E w \in Workers : BookingStep(w)
  \/ \E w \in Workers : Die(w)
  \/ ClaimAge
  \/ CancelStep

LorrigoSpec == LorrigoInit /\ [][LorrigoNext]_bookVars

-----------------------------------------------------------------------------
InFlight(a) ==
  \E w \in Workers : step[w] \in {"accepted", "fallback"} /\ awbOf[w] = a

\* Shipments that came to be forgotten in a way that can be named: no answer
\* or no save reached the order (lost), or a later write wiped it (wiped).
Forgotten == lost \cup wiped

\* Every shipment the courier will deliver is in the order, or in the hands of
\* a request that is about to save it, or was forgotten by a step that can be
\* named: whatever claims were overridden.
LiveIsKnown ==
  \A a \in live \ Forgotten : order.awb = a \/ InFlight(a)

\* There is one of them at most: an order is shipped twice only after a claim
\* was overridden, or when an earlier shipment was forgotten.
OneKnownShipment ==
  overridden \/ \A a, b \in live \ Forgotten : a = b

\* The shipments that are known are an exclusive thing, too: one comes when there
\* is no other, and from the first override on nothing is promised.
Shipping == INSTANCE Exclusive
  WITH Holders <- Awbs, held <- live \ Forgotten, broken <- overridden

ShipsExclusively == Shipping!Spec

\* The AWB of an order gives way to another AWB only after an override: every
\* other booking of a booked order is refused, or goes through no AWB first.
AwbNotReplaced ==
  [][order.awb # NoAwb /\ order'.awb # NoAwb /\ order'.awb # order.awb
       => overridden']_bookVars

\* An order with a shipment whose status does not say so is flagged for
\* reconciliation (bookShipment.ts:592, "Reconciliation required").
UnsavedIsFlagged ==
  order.created /\ order.awb # NoAwb /\ order.status # "pending_pickup"
    => reconcile
=============================================================================
