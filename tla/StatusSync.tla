------------------------------ MODULE StatusSync ------------------------------
(***************************************************************************)
(* What keeps an order's status in line with its Ekart shipment: the batch *)
(* job that asks the courier (modules/ekart/ekart.statusSync.ts), the      *)
(* courier's webhook (ekart.webhooks.ts), cancellations                    *)
(* (cancelShipment, markOrderReship, cancelPartnerShipment), edits of the  *)
(* status and new bookings, all of them on the same documents.             *)
(*                                                                         *)
(* Every await is a step.  Webhooks and cancellations load whole documents, *)
(* and their saves, which write arrays, fail when another such save came   *)
(* in between: fresh.  The job loads its batch without the version key, so *)
(* its saves, minutes later perhaps, ask for nothing: they write whatever  *)
(* differs from what was loaded.                                           *)
(*                                                                         *)
(* Statuses that the code treats alike are one: "pending" is every status  *)
(* that means booked and not picked up, "transit" those between pickup and *)
(* delivery.  Each has one wording, in which the courier reports it and    *)
(* shipmentStatus keeps it.                                                *)
(***************************************************************************)
EXTENDS Naturals, Sequences, FiniteSets

CONSTANTS
  Orders,
  Busy,             \* bound: the orders that the courier moves and users act on
  Attempts,         \* bookingVersion and the AWBs made from it: 1 .. Attempts
  Batch,            \* batchSize
  MaxDisturbances   \* bound: events, edits, cancellations, bookings, faults

ASSUME SyncAssumption ==
  /\ IsFiniteSet(Orders) /\ Orders # {} /\ Busy \subseteq Orders
  /\ Attempts \in Nat \ {0} /\ Batch \in Nat \ {0} /\ MaxDisturbances \in Nat

Awbs == 1 .. Attempts
NoAwb == 0

\* What the courier says of a shipment, and what order.status says.
Moving == {"pending", "transit", "ndr"}
Final == {"delivered", "rto", "cancelled"}
ProviderStatuses == Moving \cup Final
OrderStatuses == ProviderStatuses \cup {"reship"}

VARIABLES
  order,    \* the stored documents
  polled,   \* rank of each order by lastProviderStatusSyncedAt, 1 the oldest
  prov,     \* the courier: the status of each shipment, or "none"
  said,     \* the courier: the statuses it has reported, webhooks in flight
  sync,     \* the job: what is left of its batch, what it loaded, what it saw
  hook,     \* the webhook request
  cancel,   \* the cancellation request
  left,     \* what is left of MaxDisturbances
  astray    \* history: orders written without the version amid a request

vars == <<order, polled, prov, said, sync, hook, cancel, left, astray>>

Documents ==
  [by: {"none", "ekart", "other"},    \* courierProvider, shipmentCreated
   awb: Awbs \cup {NoAwb},
   version: Awbs,                     \* bookingVersion
   last: Awbs \cup {NoAwb},           \* providerBookingRaw: the AWB sent last
   ref: Awbs \cup {NoAwb},            \* ekartClientReferenceId: the attempt it names
   status: OrderStatuses,
   shown: OrderStatuses,              \* shipmentStatus
   flagged: BOOLEAN]                  \* bookingReconciliationRequired

Requests == [at: {"idle", "loaded", "accepted"}, order: Orders,
             doc: Documents, fresh: BOOLEAN]

Rankings ==
  {q \in [Orders -> 1 .. Cardinality(Orders)] :
     \A o, p \in Orders : q[o] = q[p] => o = p}

SyncTypeOK ==
  /\ order \in [Orders -> Documents]
  /\ polled \in Rankings
  /\ prov \in [Orders -> [Awbs -> ProviderStatuses \cup {"none"}]]
  /\ said \in [Orders -> [Awbs -> SUBSET ProviderStatuses]]
  /\ sync \in [todo: Seq(Orders), doc: [Orders -> Documents],
              seen: ProviderStatuses \cup {"none", "empty", "error"}]
  /\ Len(sync.todo) <= Batch
  /\ hook \in [req: Requests, event: ProviderStatuses, own: BOOLEAN]
  /\ cancel \in Requests
  /\ left \in 0 .. MaxDisturbances
  /\ astray \subseteq Orders

\* An order booked with Ekart.  Some are marked delivered although they are
\* not, by an earlier mapping of statuses (ekart.statusSync.ts:196).
BookedDoc(s) ==
  [by |-> "ekart", awb |-> 1, version |-> 1, last |-> 1, ref |-> 1,
   status |-> s, shown |-> s, flagged |-> FALSE]

\* Booked by the fallback after a failed save, and heard of since.
UnsavedDoc == [BookedDoc("pending") EXCEPT !.last = NoAwb, !.flagged = TRUE]

\* No request; and the documents that the job does not hold.
Gone == BookedDoc("pending")
Idle ==
  [at |-> "idle", order |-> CHOOSE o \in Orders : TRUE, doc |-> Gone,
   fresh |-> FALSE]
NoHook == [req |-> Idle, event |-> "pending", own |-> TRUE]

Init ==
  /\ order \in [Orders -> {BookedDoc("pending"), BookedDoc("delivered"), UnsavedDoc}]
  /\ \A o \in Orders \ Busy : order[o] = BookedDoc("pending")
  /\ polled \in Rankings
  /\ prov = [o \in Orders |->
               [a \in Awbs |-> IF a = 1 THEN "pending" ELSE "none"]]
  /\ said = [o \in Orders |-> [a \in Awbs |-> {}]]
  /\ sync = [todo |-> <<>>, doc |-> [o \in Orders |-> Gone], seen |-> "none"]
  /\ hook = NoHook
  /\ cancel = Idle
  /\ left = MaxDisturbances
  /\ astray = {}

-----------------------------------------------------------------------------
\* Which status may follow which (velocity.mapper.ts:32-50).

Rank == [reship |-> 5, pending |-> 20, transit |-> 35, ndr |-> 55, rto |-> 60,
         cancelled |-> 60, delivered |-> 70]

\* Mutation: a final status does not hold against the next event.
ShouldApplyAfterFinal(cur, inc) ==
  inc = cur \/ inc \in Final \/ cur \in Final \/ Rank[inc] >= Rank[cur]

ShouldApply(cur, inc) ==
  \/ inc = cur
  \/ inc \in Final
  \/ cur \notin Final /\ Rank[inc] >= Rank[cur]

\* The job may also correct a status that the courier does not confirm.
HealsTransit(cur, seen) == seen = "pending" /\ cur = "transit"
HealsDelivered(cur, seen) == cur = "delivered" /\ seen \in {"transit", "ndr", "rto"}

\* order.status after a poll.
PolledStatus(cur, seen) ==
  IF \/ HealsTransit(cur, seen) \/ HealsDelivered(cur, seen)
     \/ seen \in {"ndr", "rto"}
     \/ ShouldApply(cur, seen)
  THEN seen ELSE cur

\* Clear the shipment and move to reship: the same in the job, the webhook and
\* the cancellation (bookingVersion is bumped, providerBookingRaw stays).
Reship(d) ==
  [d EXCEPT !.by = "none", !.awb = NoAwb, !.ref = NoAwb, !.status = "reship",
            !.shown = "reship",
            !.version = IF @ < Attempts THEN @ + 1 ELSE @]

\* save() writes the fields that differ from the loaded document.
SavedOver(o, old, new) ==
  [order EXCEPT ![o] =
     [f \in DOMAIN @ |-> IF new[f] # old[f] THEN new[f] ELSE @[f]]]

\* A save with the version key: requests that loaded the order before it fail.
Overtakes(o) ==
  /\ hook' = [hook EXCEPT !.req.fresh = @ /\ hook.req.order # o]
  /\ cancel' = [cancel EXCEPT !.fresh = @ /\ cancel.order # o]

\* A request holds the order and its save would succeed.
Requested(o) == \E r \in {hook.req, cancel} : r.fresh /\ r.order = o

\* lastProviderStatusSyncedAt = now
Touched(o) ==
  [p \in Orders |->
     CASE p = o -> Cardinality(Orders)
       [] polled[p] > polled[o] -> polled[p] - 1
       [] OTHER -> polled[p]]

Disturb == left > 0 /\ left' = left - 1

-----------------------------------------------------------------------------
\* The batch job.

\* The query of syncEkartActiveShipmentStatuses.
Polls(o) ==
  /\ order[o].by = "ekart"
  /\ order[o].shown # "reship"
  /\ \/ /\ order[o].status \notin Final \cup {"reship"}
        /\ order[o].shown \notin {"delivered"}
     \/ order[o].status \in {"delivered", "cancelled"}
     \/ order[o].shown = "cancelled"

\* Of the orders that match, as many as the batch takes, the oldest first.
IsNextBatch(todo) ==
  LET taken == {todo[i] : i \in DOMAIN todo} IN
  /\ \A o \in taken : Polls(o)
  /\ \A i, j \in DOMAIN todo : i < j => polled[todo[i]] < polled[todo[j]]
  /\ \A o \in Orders \ taken : Polls(o) =>
       /\ Len(todo) = Batch
       /\ \A p \in taken : polled[p] < polled[o]

SyncStart ==
  /\ sync.todo = <<>>
  /\ \E n \in 1 .. Batch : \E todo \in [1 .. n -> Orders] :
       /\ IsNextBatch(todo)
       /\ sync' = [todo |-> todo, seen |-> "none",
                   doc |-> [o \in Orders |->
                              IF \E i \in 1 .. n : todo[i] = o THEN order[o]
                              ELSE Gone]]
  /\ UNCHANGED <<order, polled, prov, said, hook, cancel, left, astray>>

SyncNext ==
  sync' = [todo |-> Tail(sync.todo), seen |-> "none",
           doc |-> [sync.doc EXCEPT ![Head(sync.todo)] = Gone]]

\* What the job makes of the document of o, given what it saw.
SyncWrites(o, new) ==
  /\ order' = SavedOver(o, sync.doc[o], new)
  /\ polled' = Touched(o)
  /\ astray' = IF order[o] # sync.doc[o] \/ Requested(o)
                THEN astray \cup {o} ELSE astray

MarkedCancelled(d) == "cancelled" \in {d.status, d.shown}

\* A document that says cancelled needs no question to the courier.
SyncHeal ==
  LET o == Head(sync.todo) IN
  /\ sync.todo # <<>>
  /\ MarkedCancelled(sync.doc[o])
  /\ SyncWrites(o, Reship(sync.doc[o]))
  /\ SyncNext
  /\ UNCHANGED <<prov, said, hook, cancel, left>>

\* That save is outside the try: when it fails the batch is over.
SyncAborts ==
  /\ sync.todo # <<>>
  /\ MarkedCancelled(sync.doc[Head(sync.todo)])
  /\ Disturb
  /\ sync' = [todo |-> <<>>, doc |-> [o \in Orders |-> Gone], seen |-> "none"]
  /\ UNCHANGED <<order, polled, prov, said, hook, cancel, astray>>

\* trackShipment(awb) answers, with a status or without any, or it fails.
SyncTrack ==
  LET o == Head(sync.todo)
      d == sync.doc[o] IN
  /\ sync.todo # <<>>
  /\ sync.seen = "none"
  /\ ~MarkedCancelled(d)
  /\ \/ sync' = [sync EXCEPT !.seen = prov[o][d.awb]] /\ UNCHANGED left
     \/ \E s \in {"empty", "error"} :
          sync' = [sync EXCEPT !.seen = s] /\ Disturb
  /\ UNCHANGED <<order, polled, prov, said, hook, cancel, astray>>

\* Mutation: an answer without a status counts as a cancellation, as it did
\* before the comment at line 276 was written.
PolledEmptyIsReship(d, seen) ==
  CASE seen = "error" -> d
    [] seen \in {"cancelled", "empty"} -> Reship(d)
    [] OTHER -> [d EXCEPT !.status = PolledStatus(d.status, seen), !.shown = seen]

\* The document after an answer: only the time of the poll, the move to
\* reship, or status and shipmentStatus.
Polled(d, seen) ==
  CASE seen \in {"empty", "error"} -> d
    [] seen = "cancelled" -> Reship(d)
    [] OTHER -> [d EXCEPT !.status = PolledStatus(d.status, seen), !.shown = seen]

\* Mutation: a failed poll is not noted on the document.
SyncSaveUntouched ==
  LET o == Head(sync.todo) IN
  /\ sync.seen # "none"
  /\ order' = SavedOver(o, sync.doc[o], Polled(sync.doc[o], sync.seen))
  /\ SyncNext
  /\ UNCHANGED <<polled, prov, said, hook, cancel, left, astray>>

SyncSave ==
  LET o == Head(sync.todo) IN
  /\ sync.seen # "none"
  /\ SyncWrites(o, Polled(sync.doc[o], sync.seen))
  /\ SyncNext
  /\ UNCHANGED <<prov, said, hook, cancel, left>>

\* The save fails, and so does the one of the catch block, which carries the
\* same changes; the updateOne after it moves the order to the end of the
\* queue, or fails too.
SyncSaveFails ==
  /\ sync.seen # "none"
  /\ Disturb
  /\ polled' \in {polled, Touched(Head(sync.todo))}
  /\ SyncNext
  /\ UNCHANGED <<order, prov, said, hook, cancel, astray>>

SyncStep == SyncStart \/ SyncHeal \/ SyncTrack \/ SyncSave

-----------------------------------------------------------------------------
\* The courier.

MovesTo ==
  [pending |-> {"transit", "cancelled"}, transit |-> {"ndr", "delivered", "rto"},
   ndr |-> {"transit", "rto"}, delivered |-> {}, rto |-> {}, none |-> {},
   cancelled |-> {}]

CourierMoves(o, a) ==
  /\ \E s \in MovesTo[prov[o][a]] :
       /\ prov' = [prov EXCEPT ![o][a] = s]
       /\ said' = [said EXCEPT ![o][a] = @ \cup {s}]
  /\ UNCHANGED <<order, polled, sync, hook, cancel, left, astray>>

\* A webhook comes with any status reported so far, late or again, and finds
\* its order by the AWB or by the merchant reference.  Each shipment has the
\* reference of the attempt its AWB was made in, the order that of its last
\* booking, which may have taken over a shipment of an earlier attempt: the
\* event may be of another shipment than the order's own.  Without a match it
\* is accepted and nothing happens.
HookLoads(o, a, s) ==
  /\ hook.req.at = "idle"
  /\ Disturb
  /\ s \in said[o][a]
  /\ order[o].by = "ekart" /\ a \in {order[o].awb, order[o].ref}
  /\ hook' = [req |-> [at |-> "loaded", order |-> o, doc |-> order[o],
                       fresh |-> TRUE],
              event |-> s, own |-> order[o].awb = a]
  /\ UNCHANGED <<order, polled, prov, said, sync, cancel, astray>>

\* The document after the event.
Heard(d, s) ==
  IF s = "cancelled" THEN Reship(d)
  ELSE [d EXCEPT !.shown = s,
                 !.status = IF ShouldApply(@, s) THEN s ELSE @]

\* Mutation: the webhook's save does not mind the version.
HookSavesAnyway ==
  LET o == hook.req.order IN
  /\ hook.req.at = "loaded"
  /\ order' = SavedOver(o, hook.req.doc, Heard(hook.req.doc, hook.event))
  /\ polled' = Touched(o)
  /\ hook' = NoHook
  /\ cancel' = [cancel EXCEPT !.fresh = @ /\ cancel.order # o]
  /\ UNCHANGED <<prov, said, sync, left, astray>>

HookSaves ==
  LET o == hook.req.order IN
  /\ hook.req.at = "loaded" /\ hook.req.fresh
  /\ order' = SavedOver(o, hook.req.doc, Heard(hook.req.doc, hook.event))
  /\ polled' = Touched(o)
  /\ hook' = NoHook
  /\ cancel' = [cancel EXCEPT !.fresh = @ /\ cancel.order # o]
  /\ UNCHANGED <<prov, said, sync, left, astray>>

\* The save conflicts or fails; the courier is answered with an error.
HookFails ==
  /\ hook.req.at = "loaded"
  /\ hook' = NoHook
  /\ UNCHANGED <<order, polled, prov, said, sync, cancel, left, astray>>

-----------------------------------------------------------------------------
\* Users.

CancelLoads(o) ==
  /\ cancel.at = "idle"
  /\ order[o].by = "ekart"
  /\ Disturb
  /\ cancel' = [at |-> "loaded", order |-> o, doc |-> order[o], fresh |-> TRUE]
  /\ UNCHANGED <<order, polled, prov, said, sync, hook, astray>>

\* The courier accepts, now or because it had cancelled before.
CancelAccepted ==
  LET o == cancel.order
      a == cancel.doc.awb IN
  /\ cancel.at = "loaded"
  /\ prov[o][a] \in Moving \cup {"cancelled"}
  /\ prov' = [prov EXCEPT ![o][a] = "cancelled"]
  /\ said' = [said EXCEPT ![o][a] = @ \cup {"cancelled"}]
  /\ cancel' = [cancel EXCEPT !.at = "accepted"]
  /\ UNCHANGED <<order, polled, sync, hook, left, astray>>

\* It refuses: only the events of the attempt are saved.
CancelRefused ==
  /\ cancel.at = "loaded"
  /\ cancel' = Idle
  /\ hook' = [hook EXCEPT !.req.fresh =
                @ /\ ~(cancel.fresh /\ hook.req.order = cancel.order)]
  /\ UNCHANGED <<order, polled, prov, said, sync, left, astray>>

\* The partner API clears less and leaves the bookingVersion.
PartnerReship(d) == [Reship(d) EXCEPT !.version = d.version, !.ref = d.ref]

CancelSaves ==
  LET o == cancel.order IN
  /\ cancel.at = "accepted" /\ cancel.fresh
  /\ \E new \in {Reship(cancel.doc), PartnerReship(cancel.doc)} :
       order' = SavedOver(o, cancel.doc, new)
  /\ cancel' = Idle
  /\ hook' = [hook EXCEPT !.req.fresh = @ /\ hook.req.order # o]
  /\ UNCHANGED <<polled, prov, said, sync, left, astray>>

CancelSaveFails ==
  /\ cancel.at = "accepted"
  /\ cancel' = Idle
  /\ UNCHANGED <<order, polled, prov, said, sync, hook, left, astray>>

\* updateOrderStatus: an administrator marks an order cancelled.  The courier
\* is not told.
MarkCancelled(o) ==
  /\ Disturb
  /\ order' = [order EXCEPT ![o].status = "cancelled", ![o].shown = "cancelled"]
  /\ Overtakes(o)
  /\ UNCHANGED <<polled, prov, said, sync, astray>>

\* Statuses that "process selected" does not take (orderController.ts).
Blocked == {"pending", "transit", "ndr", "rto", "delivered"}

\* The AWB that bookEkartShipment asks for: the last one this order sent, or
\* one made from its bookingVersion.
TrackingId(d) == IF d.last # NoAwb THEN d.last ELSE d.version

\* An order without a shipment is booked with Ekart.  A tracking id that
\* exists is a duplicate: the shipment is taken over, unless it is cancelled
\* or on its way back (409).  A save that fails leaves the AWB by updateOne.
BookEkart(o) ==
  LET d == order[o]
      a == TrackingId(d)
      p == IF prov[o][a] = "none" THEN "pending" ELSE prov[o][a] IN
  /\ d.by = "none" /\ d.status \notin Blocked
  /\ p \notin {"cancelled", "rto"}
  /\ prov' = [prov EXCEPT ![o][a] = p]
  /\ Disturb
  /\ \/ /\ order' = [order EXCEPT ![o] =
              [d EXCEPT !.by = "ekart", !.awb = a, !.last = a, !.ref = d.version,
                        !.status = "pending", !.shown = p, !.flagged = FALSE]]
        /\ Overtakes(o) /\ UNCHANGED astray
     \/ /\ order' = [order EXCEPT ![o] =
              [d EXCEPT !.by = "ekart", !.awb = a, !.version = 1, !.ref = d.version,
                        !.flagged = TRUE]]
        /\ astray' = IF Requested(o) THEN astray \cup {o} ELSE astray
        /\ UNCHANGED <<hook, cancel>>
  /\ UNCHANGED <<polled, said, sync>>

\* Or with another courier.
BookOther(o) ==
  /\ order[o].by = "none" /\ order[o].status \notin Blocked
  /\ Disturb
  /\ order' = [order EXCEPT ![o].by = "other", ![o].status = "pending",
                            ![o].shown = "pending"]
  /\ Overtakes(o)
  /\ UNCHANGED <<polled, prov, said, sync, astray>>

-----------------------------------------------------------------------------
\* What follows is the same for cancelShipment, markOrderReship and
\* cancelPartnerShipment.
CancelStep ==
  CancelAccepted \/ CancelRefused \/ CancelSaves \/ CancelSaveFails

Next ==
  \/ SyncStart \/ SyncHeal \/ SyncAborts \/ SyncTrack \/ SyncSave \/ SyncSaveFails
  \/ \E o \in Busy, a \in Awbs :
       \/ CourierMoves(o, a)
       \/ \E s \in ProviderStatuses : HookLoads(o, a, s)
  \/ HookSaves \/ HookFails
  \/ \E o \in Busy : CancelLoads(o) \/ MarkCancelled(o)
  \/ CancelStep
  \/ \E o \in Busy : BookEkart(o) \/ BookOther(o)

Spec == Init /\ [][Next]_vars

\* The timer of server.ts starts the job again and again, and a batch goes on:
\* its calls have time limits.  Nothing else is required to happen.
FairSpec == Spec /\ WF_vars(SyncStep)

-----------------------------------------------------------------------------
Shipment(o) == prov[o][order[o].awb]
HasEkart(o) == order[o].by = "ekart"

\* Someone is about to save o over what others wrote since it was loaded.
SavesOver(o) ==
  \/ sync.todo # <<>> /\ Head(sync.todo) = o /\ sync.doc[o] # order[o]
  \/ /\ o \in astray
     /\ \E r \in {hook.req, cancel} :
          r.at # "idle" /\ r.order = o /\ r.doc # order[o]

\* A webhook about an earlier shipment of o is taken for news of its present one.
Misled(o) == hook.req.at # "idle" /\ hook.req.order = o /\ ~hook.own

\* A shipment that will be delivered leaves its order only by three ways: a save
\* over a newer document, which takes a write without the version; the order
\* had been marked cancelled by hand (ekart.statusSync.ts:249); or a webhook
\* found the order by a merchant reference that names another shipment.
LiveShipmentKept ==
  [][\A o \in Orders :
       /\ \/ order[o].by = "other"
          \/ HasEkart(o) /\ Shipment(o) \in Moving \cup {"delivered"}
       /\ order'[o].by = "none"
       => SavesOver(o) \/ MarkedCancelled(order[o]) \/ Misled(o)]_vars

\* An order without a shipment can be booked again, whatever requests met on
\* it, unless it was written without the version amid one of them.
UnbookedIsBookable ==
  \A o \in Orders :
    order[o].by = "none" /\ o \notin astray => order[o].status \notin Blocked

\* A delivery, once it is shown, stays, whatever webhooks arrive late or
\* again: only a save over a newer document, an answer that the job got before
\* the delivery, an event of another shipment, or a user, undoes it.
DeliveredStays ==
  [][\A o \in Orders :
       /\ HasEkart(o) /\ Shipment(o) = "delivered"
       /\ order[o].status = "delivered" /\ order'[o].status # "delivered"
       => \/ SavesOver(o) \/ Misled(o)
          \/ sync.todo # <<>> /\ Head(sync.todo) = o /\ sync.seen # "delivered"
          \/ order'[o].status = "cancelled"]_vars

Agrees(o) ==
  \/ ~HasEkart(o)
  \/ Shipment(o) \in {"delivered", "rto"} /\ order[o].status = Shipment(o)

\* "Polling remains the operational source of truth" (ekart.webhooks.ts:6):
\* what the courier ended with is what the order ends with, but for orders the
\* query does not find: a shipment put on an order in reship (by the fallback),
\* a shipmentStatus ahead of the status, and a final status from a save over a
\* newer document.
SettledInTheEnd ==
  \A o \in Orders :
    (HasEkart(o) /\ Shipment(o) \in Final)
      ~> \/ Agrees(o)
         \/ HasEkart(o) /\ "reship" \in {order[o].status, order[o].shown}
         \/ HasEkart(o) /\ order[o].shown = "delivered"
         \/ HasEkart(o) /\ o \in astray /\ order[o].status \in Final
=============================================================================
