---------------------------- MODULE PriorityBooking ----------------------------
(***************************************************************************)
(* "Process selected" on one order (processOneSelectedOrder in             *)
(* controllers/orderController.ts): the couriers of a priority list are    *)
(* tried one after the other until one of them books.                      *)
(*                                                                         *)
(* Lorrigo takes the claim ("claimed": the actions of LorrigoBooking).     *)
(* Ekart, which takes it too and then goes on in steps of its own, is not  *)
(* among the couriers here.  Velocity (bookForwardShipmentForOrder) takes  *)
(* none: it looks at the request's own document, which was loaded before   *)
(* the first courier was asked, and relies on the order_id it stores       *)
(* before it calls.                                                        *)
(*                                                                         *)
(* A worker is one such request; a retry is another worker.                *)
(***************************************************************************)
EXTENDS LorrigoBooking, Sequences

CONSTANTS
  Lists,       \* priority lists: sequences of "velocity" and "claimed"
  Reminted,    \* is the order_id of a kind that the service makes anew?
  VelocityIds  \* bound: the velocityOrderIds minted are 1 .. VelocityIds

ASSUME ListsAssumption ==
  /\ Lists \subseteq Seq({"velocity", "claimed"})
  /\ Reminted \in BOOLEAN
  /\ VelocityIds \in Nat \ {0}

Ids == 1 .. VelocityIds
NoId == 0

VARIABLES
  stage,     \* where each request is
  todo,      \* the couriers it has not tried yet
  mem,       \* its document: as last loaded or saved, and as edited since
  current,   \* requests whose document no array save has overtaken
  vid,       \* order.velocityOrderId as stored
  minted,    \* velocityOrderIds made so far
  shipped,   \* Velocity: the shipment under each order id
  made,      \* history: shipments that came to be for each request
  unstored,  \* history: shipments answered to the user but not stored
  named,     \* order.velocityShipmentId as stored
  dropped    \* history: shipments that were named, and no longer are

requestVars == <<stage, todo, mem, current, made>>
idVars == <<vid, minted, shipped, unstored>>
nameVars == <<named, dropped>>
velocityVars == <<idVars, nameVars>>
priorityVars == <<bookVars, requestVars, velocityVars>>

Stages == {"idle", "prep", "reloaded", "next", "claiming", "persist", "create",
           "save", "history", "fail", "mark", "updated", "skipped", "failed"}

Memories == [loaded: Orders, loadedVid: Ids \cup {NoId},
             order: Orders, vid: Ids \cup {NoId}]

\* A document as it is after a load or a save.
Remembered(o, i) == [loaded |-> o, loadedVid |-> i, order |-> o, vid |-> i]

\* What may be left of a list.
Rests ==
  UNION {{SubSeq(l, n, Len(l)) : n \in 1 .. Len(l) + 1} : l \in Lists \cup {<<>>}}

PriorityTypeOK ==
  /\ LorrigoTypeOK
  /\ stage \in [Workers -> Stages]
  /\ todo \in [Workers -> Rests]
  /\ mem \in [Workers -> Memories]
  /\ current \subseteq Workers
  /\ minted \in 0 .. VelocityIds /\ vid \in 0 .. minted
  /\ \A w \in Workers : mem[w].vid <= minted /\ mem[w].loadedVid <= minted
  /\ \A w \in Workers : stage[w] \in {"create", "save"} => mem[w].vid # NoId
  /\ shipped \in [Ids -> Awbs \cup {NoAwb}]
  /\ made \in [Workers -> SUBSET Awbs]
  /\ unstored \subseteq Awbs
  /\ named \in Awbs \cup {NoAwb} /\ dropped \subseteq Awbs

PriorityInit ==
  /\ LorrigoInit
  /\ stage = [w \in Workers |-> "idle"]
  /\ todo = [w \in Workers |-> <<>>]
  /\ mem = [w \in Workers |-> Remembered(order, NoId)]
  /\ current = {}
  /\ vid = NoId /\ minted = 0
  /\ shipped = [i \in Ids |-> NoAwb]
  /\ made = [w \in Workers |-> {}]
  /\ unstored = {}
  /\ named = NoAwb /\ dropped = {}

-----------------------------------------------------------------------------
Enter(w, s) == stage' = [stage EXCEPT ![w] = s]

HasShipment(o) == o.created \/ o.awb # NoAwb

\* Mutation: the save does not ask whether it was overtaken.
SavedUnversioned(w, new) ==
  /\ order' = SavedOver(mem[w].loaded, new)
  /\ current' = {w} /\ fresh' = {}
  /\ wiped' = wiped \cup ({order.awb} \ {NoAwb, order'.awb})
  /\ overridden' = (overridden \/ (order.inProgress /\ ~order'.inProgress
                                     /\ StillBooking(owner)))

\* The request's document is saved with an array in it (statusHistory): no
\* other such save may have come in between, and every other document loaded
\* before is overtaken.
SavedWithArrays(w, new) ==
  /\ w \in current
  /\ order' = SavedOver(mem[w].loaded, new)
  /\ current' = {w} /\ fresh' = {}
  /\ wiped' = wiped \cup ({order.awb} \ {NoAwb, order'.awb})
  /\ overridden' = (overridden \/ (order.inProgress /\ ~order'.inProgress
                                     /\ StillBooking(owner)))

\* The velocityOrderId that a save leaves stored: as edited, if it was.
SavedVid(w, i) == IF i = mem[w].loadedVid THEN vid ELSE i

\* The order names its shipment by n from now on.  Who looked for the one it
\* named before, or finds the order without shipmentCreated, misses it.
Names(n) ==
  /\ named' = n
  /\ dropped' = dropped \cup
       (IF n = named /\ (order.created => order'.created) THEN {}
        ELSE {named} \ {NoAwb})

\* Order.find of the batch.
Begin(w) ==
  /\ stage[w] = "idle"
  /\ \E l \in Lists : todo' = [todo EXCEPT ![w] = l]
  /\ mem' = [mem EXCEPT ![w] = Remembered(order, vid)]
  /\ current' = current \cup {w}
  /\ Enter(w, "prep")
  /\ UNCHANGED <<bookVars, made, velocityVars>>

Processable(o) == ~HasShipment(o) /\ o.status # "pending_pickup"

\* Already shipped, or in a status that is not processed.
Skip(w) ==
  /\ stage[w] = "prep"
  /\ ~Processable(mem[w].order)
  /\ Enter(w, "skipped")
  /\ UNCHANGED <<bookVars, todo, mem, current, made, velocityVars>>

\* restoreOrderFromFailedForProcess clears what is left of a failed booking,
\* applyProcessSelectedPrep what is left of a cancelled one; a document that
\* was loaded again sees the second only.
Clears(w) ==
  mem[w].order.status \in
    (IF stage[w] = "prep" THEN RebookableStatuses ELSE {"reship"})

Prepared(w) ==
  LET o == [mem[w].order EXCEPT !.status = "ready_to_ship"] IN
  IF Clears(w)
  THEN [o EXCEPT !.created = FALSE, !.awb = NoAwb, !.inProgress = FALSE,
                 !.key = NoKey]
  ELSE o

PreparedVid(w) == IF Clears(w) THEN NoId ELSE mem[w].vid

\* The save of the prepared document.  It holds no array when the order was
\* ready_to_ship, and is not held up then.
PrepSaves(w) ==
  /\ stage[w] \in {"prep", "reloaded"}
  /\ stage[w] = "prep" => Processable(mem[w].order)
  /\ IF mem[w].order.status = "ready_to_ship"
     THEN UNCHANGED <<order, current, fresh, wiped, overridden, vid, recorded,
                      nameVars>>
     ELSE /\ SavedWithArrays(w, Prepared(w))
          /\ Names(IF Clears(w) THEN NoAwb ELSE named)
          /\ vid' = SavedVid(w, PreparedVid(w))
          /\ recorded' = IF Clears(w) THEN NoAwb ELSE recorded
  /\ mem' = [mem EXCEPT ![w] = Remembered(Prepared(w), PreparedVid(w))]
  /\ Enter(w, "next")
  /\ UNCHANGED <<pc, key, owner, step, awbOf, loaded, courierVars, reconcile,
                 cancel, todo, made, minted, shipped, unstored>>

\* Overtaken: the order is loaded again and prepared whatever it is by now.
PrepReloads(w) ==
  /\ stage[w] = "prep"
  /\ Processable(mem[w].order) /\ mem[w].order.status # "ready_to_ship"
  /\ w \notin current
  /\ mem' = [mem EXCEPT ![w] = Remembered(order, vid)]
  /\ current' = current \cup {w}
  /\ Enter(w, "reloaded")
  /\ UNCHANGED <<bookVars, todo, made, velocityVars>>

\* Overtaken once more, or the database is in trouble.
PrepFails(w) ==
  /\ stage[w] \in {"prep", "reloaded"}
  /\ stage[w] = "prep" => Processable(mem[w].order)
  /\ Enter(w, "fail")
  /\ UNCHANGED <<bookVars, todo, mem, current, made, velocityVars>>

-----------------------------------------------------------------------------
\* The priority loop.

\* Mutation: the loop goes on although the request has a shipment.
TakeNextAnyway(w) ==
  /\ stage[w] = "next"
  /\ IF todo[w] = <<>>
     THEN Enter(w, "fail") /\ UNCHANGED todo
     ELSE /\ Enter(w, IF Head(todo[w]) = "velocity" THEN "persist" ELSE "claiming")
          /\ todo' = [todo EXCEPT ![w] = Tail(@)]
  /\ UNCHANGED <<bookVars, mem, current, made, velocityVars>>

TakeNext(w) ==
  /\ stage[w] = "next"
  /\ IF HasShipment(mem[w].order)
     THEN Enter(w, "updated") /\ UNCHANGED todo
     ELSE IF todo[w] = <<>>
     THEN Enter(w, "fail") /\ UNCHANGED todo
     ELSE /\ Enter(w, IF Head(todo[w]) = "velocity" THEN "persist" ELSE "claiming")
          /\ todo' = [todo EXCEPT ![w] = Tail(@)]
  /\ UNCHANGED <<bookVars, mem, current, made, velocityVars>>

\* The steps of a booking with a claim, and whether an array save is among
\* them.
ClaimedStep(w) ==
  \/ (Save(w) \/ NoteSaved(w)) /\ current' = {}
  \/ /\ \/ Claim(w) \/ Refuse(w) \/ Accept(w) \/ Reject(w) \/ NoteFails(w)
        \/ Timeout(w) \/ EndFailed(w) \/ SaveFails(w) \/ Fallback(w)
        \/ FallbackFails(w)
     /\ UNCHANGED current

\* Mutation: a booking that ended is taken for a shipment.
ClaimedBookingTrusting(w) ==
  /\ stage[w] = "claiming"
  /\ ClaimedStep(w)
  /\ Enter(w, IF pc'[w] # "idle" THEN "claiming" ELSE "updated")
  /\ made' = [made EXCEPT ![w] = @ \cup (issued' \ issued)]
  /\ Names(named)
  /\ UNCHANGED <<todo, mem, idVars>>

\* The request's own document learns nothing of it.
ClaimedBooking(w) ==
  /\ stage[w] = "claiming"
  /\ ClaimedStep(w)
  /\ Enter(w, IF pc'[w] # "idle" THEN "claiming"
              ELSE IF pc[w] = "reused" \/ step[w] = "accepted" THEN "updated"
              ELSE "next")
  /\ made' = [made EXCEPT ![w] = @ \cup (issued' \ issued)]
  /\ Names(named)
  /\ UNCHANGED <<todo, mem, idVars>>

-----------------------------------------------------------------------------
\* Velocity.

\* No warehouse, an invalid payload, an empty wallet.
VelocityRefuses(w) ==
  /\ stage[w] = "persist"
  /\ Enter(w, "next")
  /\ UNCHANGED <<bookVars, todo, mem, current, made, velocityVars>>

\* The order_id is made from the time, kept in the document, and stored before
\* the call, or the save fails, which is ignored.
Persist(w) ==
  /\ stage[w] = "persist"
  /\ IF mem[w].vid # NoId
     THEN UNCHANGED <<mem, vid, minted>>
     ELSE /\ minted < VelocityIds
          /\ minted' = minted + 1
          /\ \/ /\ vid' = minted + 1
                /\ mem' = [mem EXCEPT ![w].vid = minted + 1,
                                      ![w].loadedVid = minted + 1]
             \/ /\ UNCHANGED vid
                /\ mem' = [mem EXCEPT ![w].vid = minted + 1]
  /\ Enter(w, "create")
  /\ UNCHANGED <<bookVars, todo, current, made, shipped, unstored, nameVars>>

\* createForwardShipment normalises the order_id once more: of one with the
\* prefix shopify-, or of more than 30 characters without SA- or ORD, it makes
\* another, which is stored nowhere.
Sends(w, i) ==
  /\ i \in Ids
  /\ i = IF Reminted THEN minted + 1 ELSE mem[w].vid
  /\ minted' = IF Reminted THEN i ELSE minted

\* Velocity makes a shipment under the order_id, unless it has one ("order
\* already exists": a carrier is asked for that one).
Ships(w, i) ==
  IF shipped[i] # NoAwb
  THEN UNCHANGED <<shipped, live, issued, made>>
  ELSE \E a \in Awbs \ issued :
         /\ shipped' = [shipped EXCEPT ![i] = a]
         /\ live' = live \cup {a} /\ issued' = issued \cup {a}
         /\ made' = [made EXCEPT ![w] = @ \cup {a}]

\* The answer comes, with an AWB or without, and the document is marked before
\* anything else.
VelocityAccepts(w) ==
  /\ stage[w] = "create"
  /\ \E i \in Ids :
       /\ Sends(w, i) /\ Ships(w, i)
       /\ \E a \in {shipped'[i], NoAwb} :
            mem' = [mem EXCEPT ![w].vid = i,
                               ![w].order = [@ EXCEPT !.created = TRUE, !.awb = a,
                                                      !.status = "pending_pickup"]]
  /\ Enter(w, "save")
  /\ UNCHANGED <<claimVars, step, awbOf, loaded, fresh, lost, docVars, cancel,
                 todo, current, vid, unstored, nameVars>>

VelocityRejects(w) ==
  /\ stage[w] = "create"
  /\ Enter(w, "next")
  /\ UNCHANGED <<bookVars, todo, mem, current, made, velocityVars>>

\* It has the request and the answer is lost.
VelocityTimesOut(w) ==
  /\ stage[w] = "create"
  /\ \E i \in Ids :
       /\ Sends(w, i) /\ Ships(w, i)
       /\ lost' = lost \cup {shipped'[i]}
  /\ Enter(w, "next")
  /\ UNCHANGED <<claimVars, step, awbOf, loaded, fresh, docVars, cancel, todo,
                 mem, current, vid, unstored, nameVars>>

\* The shipment that a request which is about to save has from Velocity.
Made(w) == IF mem[w].vid = NoId THEN NoAwb ELSE shipped[mem[w].vid]

\* Mutation: the shipment's id is not kept.
VelocitySavesUnnamed(w) ==
  /\ stage[w] = "save"
  /\ SavedWithArrays(w, mem[w].order)
  /\ Names(named)
  /\ vid' = SavedVid(w, mem[w].vid)
  /\ mem' = [mem EXCEPT ![w] = Remembered(mem[w].order, mem[w].vid)]
  /\ Enter(w, "history")
  /\ UNCHANGED <<pc, key, owner, step, awbOf, loaded, courierVars, reconcile,
                 recorded, cancel, todo, made, minted, shipped, unstored>>

\* The save after the booking.
VelocitySaves(w) ==
  /\ stage[w] = "save"
  /\ SavedWithArrays(w, mem[w].order)
  /\ Names(Made(w))
  /\ vid' = SavedVid(w, mem[w].vid)
  /\ mem' = [mem EXCEPT ![w] = Remembered(mem[w].order, mem[w].vid)]
  /\ Enter(w, "history")
  /\ UNCHANGED <<pc, key, owner, step, awbOf, loaded, courierVars, reconcile,
                 recorded, cancel, todo, made, minted, shipped, unstored>>

\* saveOrderAfterBooking: an entry of statusHistory, tried again on a document
\* loaded anew; it may fail, too.
HistorySaves(w) ==
  /\ stage[w] = "history"
  /\ current' = {} /\ fresh' = {}
  /\ Enter(w, "updated")
  /\ UNCHANGED <<claimVars, step, awbOf, loaded, courierVars, docVars, cancel,
                 todo, mem, made, velocityVars>>

HistoryFails(w) ==
  /\ stage[w] = "history"
  /\ Enter(w, "updated")
  /\ UNCHANGED <<bookVars, todo, mem, current, made, velocityVars>>

\* It fails: the caller finds the shipment in its document.
VelocitySaveFails(w) ==
  /\ stage[w] = "save"
  /\ unstored' = unstored \cup {Made(w)}
  /\ Enter(w, "next")
  /\ UNCHANGED <<bookVars, todo, mem, current, made, vid, minted, shipped, nameVars>>

-----------------------------------------------------------------------------
\* No courier booked: the order is loaded again, and marked booking_failed if
\* it has no shipment.
Fail(w) ==
  /\ stage[w] = "fail"
  /\ IF HasShipment(mem[w].order) \/ Booked
     THEN Enter(w, "failed") /\ UNCHANGED <<mem, current>>
     ELSE /\ mem' = [mem EXCEPT ![w] = Remembered(order, vid)]
          /\ current' = current \cup {w}
          /\ Enter(w, "mark")
  /\ UNCHANGED <<bookVars, todo, made, velocityVars>>

MarkFailed(w) ==
  /\ stage[w] = "mark"
  /\ SavedWithArrays(w, [mem[w].order EXCEPT !.status = "booking_failed",
                                             !.inProgress = FALSE])
  /\ Enter(w, "failed")
  /\ UNCHANGED <<pc, key, owner, step, awbOf, loaded, courierVars, reconcile,
                 recorded, cancel, todo, mem, made, velocityVars>>

\* That save fails: logged.
MarkLost(w) ==
  /\ stage[w] = "mark"
  /\ Enter(w, "failed")
  /\ UNCHANGED <<bookVars, todo, mem, current, made, velocityVars>>

\* The process dies under the request.
Final == {"updated", "skipped", "failed"}

Dies(w) ==
  /\ Crashes
  /\ stage[w] \notin Final \cup {"idle"}
  /\ \/ Die(w)
     \/ /\ pc[w] = "idle"
        /\ lost' = lost \cup (IF stage[w] = "save" THEN {Made(w)} ELSE {})
        /\ UNCHANGED <<claimVars, step, awbOf, loaded, fresh, live, issued,
                       docVars, cancel>>
  /\ Enter(w, "failed")
  /\ UNCHANGED <<todo, mem, current, made, velocityVars>>

-----------------------------------------------------------------------------
RequestStep(w) ==
  \/ Begin(w) \/ Skip(w) \/ PrepSaves(w) \/ PrepReloads(w) \/ PrepFails(w)
  \/ TakeNext(w) \/ ClaimedBooking(w)
  \/ VelocityRefuses(w) \/ Persist(w) \/ VelocityAccepts(w) \/ VelocityRejects(w)
  \/ VelocityTimesOut(w) \/ VelocitySaves(w) \/ VelocitySaveFails(w)
  \/ HistorySaves(w) \/ HistoryFails(w)
  \/ Fail(w) \/ MarkFailed(w) \/ MarkLost(w) \/ Dies(w)

PriorityNext ==
  \/ \E w \in Workers : RequestStep(w)
  \/ ClaimAge /\ UNCHANGED <<requestVars, velocityVars>>

PrioritySpec == PriorityInit /\ [][PriorityNext]_priorityVars

-----------------------------------------------------------------------------
\* A request has a second shipment made only when the first one was forgotten
\* (no answer, or wiped from the order) or the order is flagged for
\* reconciliation ("Mark shipment immediately so priority fallback cannot book
\* another courier", velocity.controller.ts:1968).
OneShipmentPerRequest ==
  [][\A w \in Workers : \A a \in made[w] : made'[w] # made[w]
       => a \in Forgotten \/ reconcile]_priorityVars

\* Shipments of which the order once knew, and no longer does.
Erased == wiped \cup dropped

\* Every shipment a courier will deliver is in the order, by its AWB or, if
\* Velocity gave none, by its id; or in the hands of a request that is about
\* to save it; or was lost in a way that can be named.
EveryShipmentIsKnown ==
  \A a \in live \ (Forgotten \cup dropped \cup unstored) :
    \/ order.awb = a
    \/ order.created /\ named = a
    \/ InFlight(a)
    \/ \E w \in Workers : stage[w] = "save" /\ Made(w) = a

\* "updated" is answered only for an order that is booked then, unless the
\* request's booking was not stored (the refused save of bookForwardShipmentForOrder
\* is only logged, velocity.controller.ts:2001) or some request has taken a
\* shipment off the order.
UpdatedIsStored ==
  [][\A w \in Workers : stage[w] # "updated" /\ stage'[w] = "updated"
       => Booked' \/ Erased # {} \/ Made(w) \in unstored]_priorityVars

\* No request puts a booked order back to a status of the time before: its
\* document was overtaken by the booking and is not saved.  One exception is a
\* preparation that conflicts: it is made again on the document that is there by
\* then, booked or not (orderController.ts:2109).  The other is a shipment that
\* the fallback put on the order: it overtakes no document, and asks for
\* reconciliation.
ShippedStatusKept ==
  [][Booked /\ Booked' /\ order.status = "pending_pickup"
       => \/ order'.status = "pending_pickup"
          \/ \E w \in Workers : stage[w] = "reloaded" /\ stage'[w] = "next"
          \/ reconcile]_priorityVars

\* "Creates at most one Velocity order_id per ShipAmaze order, never remints
\* on retry" (velocity.controller.ts:1839).
OneVelocityShipment ==
  \A i, j \in Ids : shipped[i] # NoAwb /\ shipped[j] # NoAwb => i = j
=============================================================================
