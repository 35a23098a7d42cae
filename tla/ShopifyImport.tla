----------------------------- MODULE ShopifyImport -----------------------------
(***************************************************************************)
(* One order of a Shopify store and the order document that is made from   *)
(* it: the webhooks Shopify sends for every change until they are answered *)
(* 200 (handleWebhook in backend/src/controllers/shopifyController.ts),    *)
(* and the synchronisation that reads all orders of the store, started by  *)
(* a timer or by a user (services/shopifySyncRunner.ts).  Both merge what  *)
(* Shopify says into a document they loaded before                         *)
(* (services/shopifyOrderSync.ts).  What the merge makes of a document is  *)
(* known once it is loaded: edit holds the fields it changes.              *)
(*                                                                         *)
(* What else happens to the order (booking, cancellation, tracking, junk)  *)
(* is modelled in other modules; here each is one step on the document.    *)
(*                                                                         *)
(* order.save writes the fields that changed since the load.  With a whole *)
(* array among them it fails when another such save came first; without    *)
(* one it does not look.  An array that is set to what it was is not a     *)
(* change: a merge without news is saved without a look.                   *)
(***************************************************************************)
EXTENDS Naturals, Sequences, Functions, FiniteSetsExt

CONSTANTS
  Handlers,  \* webhook requests being handled
  Syncs,     \* runs of the synchronisation: the timer's and users'
  Timer,     \* the one that is started again and again
  MaxEdits,  \* bound: versions of the order in Shopify
  MaxAwbs    \* bound: shipments made for the order

ASSUME ImportAssumption ==
  /\ Handlers \cap Syncs = {} /\ Timer \in Syncs
  /\ MaxEdits \in Nat \ {0} /\ MaxAwbs \in Nat

VARIABLES
  shop,      \* Shopify: the versions of the order, each one a delivery
  awaited,   \* Shopify: the deliveries that are not answered 200
  receipts,  \* ShopifyWebhookReceipt: the deliveries claimed
  doc,       \* the order document
  at,        \* where each importer is
  news,      \* the version each importer brings
  edit,      \* the fields each importer is about to save: all of a new document
  saw,       \* the AWB in the document it loaded, if it is about to clear it
  stale,     \* importers whose document was overtaken, or deleted
  outcome    \* history: what has become of each delivery

Importers == Handlers \cup Syncs
Deliveries == 1 .. MaxEdits
Awbs == 0 .. MaxAwbs                \* 0: none

\* mapShopifyToInternalStatus, where pending stands for shipped too: an order
\* that is partly fulfilled in Shopify is in_transit here, without a shipment.
ShopStatus == {"pending", "in_transit", "cancelled"}

\* junk: isJunk too.
Status == ShopStatus \cup {"none", "booked", "reship", "junk"}

\* goods: the line items, of which the document has four arrays.  begun: there is
\* a shipment without an AWB, or Velocity's order_id for one (shipmentCreated,
\* velocityOrderId).
Versions == [goods : Deliveries, status : ShopStatus]
Documents ==
  [here : BOOLEAN, goods : 0 .. MaxEdits, status : Status, awb : Awbs, begun : BOOLEAN]

\* needless: a cancellation of an order that is not there; mishap: a handler has
\* claimed the delivery, and then failed or died; applied: it was saved by one.
Outcomes == {"none", "needless", "applied", "twice", "mishap"}

NoDoc == [here |-> FALSE, goods |-> 0, status |-> "none", awb |-> 0, begun |-> FALSE]

shopVars == <<shop, awaited>>
importVars == <<at, news, edit, saw, stale>>
vars == <<shopVars, receipts, doc, importVars, outcome>>

ImportTypeOK ==
  /\ shop \in Seq(Versions) /\ Len(shop) \in Deliveries
  /\ awaited \subseteq 1 .. Len(shop)
  /\ receipts \subseteq Deliveries
  /\ doc \in Documents
  /\ at \in [Importers -> {"idle", "listed", "loaded", "claimed", "saved", "undo"}]
  /\ news \in [Importers -> 0 .. MaxEdits]
  /\ \A i \in Importers : \E d \in Documents :
       edit[i] \in {Restrict(d, F) : F \in SUBSET DOMAIN d}
  /\ saw \in [Importers -> Awbs]
  /\ stale \subseteq Importers
  /\ outcome \in [Deliveries -> Outcomes]

ImportInit ==
  /\ shop = <<[goods |-> 1, status |-> "pending"]>>
  /\ awaited = {1}
  /\ receipts = {}
  /\ doc = NoDoc
  /\ at = [i \in Importers |-> "idle"]
  /\ news = [i \in Importers |-> 0]
  /\ edit = [i \in Importers |-> <<>>]
  /\ saw = [i \in Importers |-> 0]
  /\ stale = {}
  /\ outcome = [d \in Deliveries |-> "none"]

Current == shop[Len(shop)]

-----------------------------------------------------------------------------
\* applyShopifyCancellationToOrder, of an order that is not Protected: junk before
\* there is an AWB, reship after, nothing once the order is on its way.
Cancelled(o) ==
  CASE o.status = "in_transit" -> o
    [] o.status # "in_transit" /\ o.awb # 0 ->
         [o EXCEPT !.status = "reship", !.awb = 0, !.begun = FALSE]
    [] OTHER -> [o EXCEPT !.status = "junk"]

\* isShopifyProtectedLocalStatus.
Protected(o) == o.status \in {"junk", "reship"}

hasLocalShipment(o) == o.awb # 0 \/ o.begun

\* Mutation: the sync leaves the cancellation to the webhooks.
MergedUncancelled(o, v) ==
  LET n == [o EXCEPT !.goods = v.goods]
  IN IF Protected(o) \/ hasLocalShipment(o) THEN n ELSE [n EXCEPT !.status = v.status]

\* Mutation: a protected order is left as it is.
MergedUnlessProtected(o, v) ==
  LET n == [o EXCEPT !.goods = v.goods]
  IN CASE Protected(o) -> o
       [] ~Protected(o) /\ v.status = "cancelled" -> Cancelled(n)
       [] ~Protected(o) /\ v.status # "cancelled" /\ ~hasLocalShipment(o) ->
            [n EXCEPT !.status = v.status]
       [] OTHER -> n

\* mergeShopifyPayloadIntoOrder.
Merged(o, v) ==
  LET n == [o EXCEPT !.goods = v.goods]
  IN CASE Protected(o) -> n
       [] ~Protected(o) /\ v.status = "cancelled" -> Cancelled(n)
       [] ~Protected(o) /\ v.status # "cancelled" /\ ~hasLocalShipment(o) ->
            [n EXCEPT !.status = v.status]
       [] OTHER -> n

\* buildShopifyOrderPayload, for a new document.
Created(v) ==
  [here |-> TRUE, goods |-> v.goods, status |-> v.status, awb |-> 0, begun |-> FALSE]

\* What the merge changes.
Changes(o, v) ==
  LET n == Merged(o, v) IN Restrict(n, {f \in DOMAIN n : n[f] # o[f]})

IsNew(e) == "here" \in DOMAIN e

\* Mutation: a cancellation adds nothing to the statusHistory.
VersionedByGoods(e) == ~IsNew(e) /\ "goods" \in DOMAIN e

\* The save sets an array: the goods, or the statusHistory of a cancellation.
Versioned(e) ==
  /\ ~IsNew(e)
  /\ \/ "goods" \in DOMAIN e
     \/ "status" \in DOMAIN e /\ e.status \in {"junk", "reship"}

\* After a save with an array the others of its kind are refused.
Overtaken(versioned) ==
  IF versioned THEN stale \cup {i \in Importers : Versioned(edit[i])} ELSE stale

\* findOne, and the merge or the new document.
Load(i, l, v) ==
  LET e == IF doc.here THEN Changes(doc, shop[v]) ELSE Created(shop[v]) IN
  /\ at' = [at EXCEPT ![i] = l]
  /\ news' = [news EXCEPT ![i] = v]
  /\ edit' = [edit EXCEPT ![i] = e]
  /\ saw' = [saw EXCEPT ![i] = IF "awb" \in DOMAIN e THEN doc.awb ELSE 0]
  /\ UNCHANGED stale

\* The importer forgets the document.
Forget(i, others) ==
  /\ edit' = [edit EXCEPT ![i] = <<>>]
  /\ saw' = [saw EXCEPT ![i] = 0]
  /\ stale' = others \ {i}

\* The importer is done.
Done(i, others) ==
  /\ at' = [at EXCEPT ![i] = "idle"]
  /\ news' = [news EXCEPT ![i] = 0]
  /\ Forget(i, others)

\* A handler is done with the document, and goes on.
Imported(i, l, others) ==
  /\ at' = [at EXCEPT ![i] = l]
  /\ UNCHANGED news
  /\ Forget(i, others)

\* A mishap stays one.
Outcome(d, o) ==
  outcome' = [outcome EXCEPT ![d] = IF @ = "mishap" THEN "mishap" ELSE o]

\* 200, if Shopify still listens.
Answered(d) == awaited' = awaited \/ awaited' = awaited \ {d}

-----------------------------------------------------------------------------
\* handleWebhook, up to its findOne.  A cancellation of an order that is not
\* there is answered at once.
Receive(h, d) ==
  /\ at[h] = "idle" /\ d \in awaited
  /\ IF ~doc.here /\ shop[d].status = "cancelled"
     THEN /\ Answered(d)
          /\ Outcome(d, "needless")
          /\ UNCHANGED importVars
     ELSE /\ Load(h, "loaded", d)
          /\ UNCHANGED <<awaited, outcome>>
  /\ UNCHANGED <<shop, receipts, doc>>

\* Mutation: the receipt is written, not claimed.
ClaimDeliveryAgain(h) ==
  /\ h \in Handlers /\ at[h] = "loaded"
  /\ receipts' = receipts \cup {news[h]}
  /\ at' = [at EXCEPT ![h] = "claimed"]
  /\ UNCHANGED <<shopVars, doc, news, edit, saw, stale, outcome>>

\* claimWebhookDelivery.
ClaimDelivery(h) ==
  /\ h \in Handlers /\ at[h] = "loaded"
  /\ news[h] \notin receipts
  /\ receipts' = receipts \cup {news[h]}
  /\ at' = [at EXCEPT ![h] = "claimed"]
  /\ UNCHANGED <<shopVars, doc, news, edit, saw, stale, outcome>>

\* Another request has the delivery, or had it.
Duplicate(h) ==
  /\ h \in Handlers /\ at[h] = "loaded"
  /\ news[h] \in receipts
  /\ Answered(news[h])
  /\ Done(h, stale)
  /\ UNCHANGED <<shop, receipts, doc, outcome>>

\* A sync: getOrders, later the findOne for the order.
List(s) ==
  /\ at[s] = "idle"
  /\ at' = [at EXCEPT ![s] = "listed"]
  /\ news' = [news EXCEPT ![s] = Len(shop)]
  /\ UNCHANGED <<shopVars, receipts, doc, edit, saw, stale, outcome>>

Read(s) ==
  /\ at[s] = "listed"
  /\ Load(s, "loaded", news[s])
  /\ UNCHANGED <<shopVars, receipts, doc, outcome>>

\* The importer is about to save.
Importing(i) == at[i] = IF i \in Handlers THEN "claimed" ELSE "loaded"

\* How the handler or the sync goes on after the save.
AfterSave(i, others) ==
  IF i \in Handlers
  THEN /\ Imported(i, "saved", others)
       /\ Outcome(news[i], IF outcome[news[i]] = "applied" THEN "twice" ELSE "applied")
  ELSE /\ Done(i, others)
       /\ UNCHANGED outcome

\* existing.save().
Update(i) ==
  /\ Importing(i) /\ ~IsNew(edit[i])
  /\ i \notin stale
  /\ doc' = [f \in DOMAIN doc |-> IF f \in DOMAIN edit[i] THEN edit[i][f] ELSE doc[f]]
  /\ AfterSave(i, Overtaken(Versioned(edit[i])))
  /\ UNCHANGED <<shopVars, receipts>>

\* Order.create(mapped); orderId is unique.
Create(i) ==
  /\ Importing(i) /\ IsNew(edit[i])
  /\ ~doc.here
  /\ doc' = edit[i]
  /\ AfterSave(i, stale)
  /\ UNCHANGED <<shopVars, receipts>>

\* The save fails: a conflict, a document deleted or created meanwhile, the
\* database.  A handler takes its receipt back, a sync skips the order.
ImportFails(i) ==
  /\ Importing(i)
  /\ IF i \in Handlers
     THEN Imported(i, "undo", stale) /\ Outcome(news[i], "mishap")
     ELSE Done(i, stale) /\ UNCHANGED outcome
  /\ UNCHANGED <<shopVars, receipts, doc>>

\* conn.save() and the answer.
Answer(h) ==
  /\ at[h] = "saved"
  /\ Answered(news[h])
  /\ Done(h, stale)
  /\ UNCHANGED <<shop, receipts, doc, outcome>>

\* conn.save() fails: the order is saved, the receipt is taken back.
AnswerFails(h) ==
  /\ at[h] = "saved"
  /\ Imported(h, "undo", stale)
  /\ Outcome(news[h], "mishap")
  /\ UNCHANGED <<shopVars, receipts, doc>>

\* deleteOne of the receipt, whose failure is ignored, and 500.
Undo(h) ==
  /\ at[h] = "undo"
  /\ receipts' \in {receipts, receipts \ {news[h]}}
  /\ Done(h, stale)
  /\ UNCHANGED <<shopVars, doc, outcome>>

\* The process dies, or the handler fails before it has a receipt.
Die(h) ==
  /\ h \in Handlers /\ at[h] # "idle"
  /\ IF at[h] = "loaded" THEN UNCHANGED outcome ELSE Outcome(news[h], "mishap")
  /\ Done(h, stale)
  /\ UNCHANGED <<shopVars, receipts, doc>>

-----------------------------------------------------------------------------
\* The merchant changes the order: its goods, its status, both.
ShopEdit ==
  /\ Len(shop) < MaxEdits
  /\ \E s \in ShopStatus, g \in {Current.goods, Current.goods + 1} :
       /\ Current.status = "cancelled" => s = "cancelled"
       /\ shop' = Append(shop, [goods |-> g, status |-> s])
  /\ awaited' = awaited \cup {Len(shop')}
  /\ UNCHANGED <<receipts, doc, importVars, outcome>>

\* What requests and jobs of ShipAmaze do to the document.
Local(n, versioned) ==
  /\ doc' = n
  /\ stale' = Overtaken(versioned)
  /\ UNCHANGED <<shopVars, receipts, at, news, edit, saw, outcome>>

\* AWBs an importer has seen are not given out again.
FreeAwbs == 1 .. MaxAwbs \ {saw[i] : i \in Importers}

\* process-selected takes an order for a new booking, out of junk and reship too,
\* which clears what was begun.
Prepare ==
  /\ doc.here /\ doc.awb = 0 /\ doc.status \notin {"booked", "in_transit"}
  /\ \E versioned, b \in BOOLEAN :
       /\ doc.status # "pending" => versioned
       /\ b => doc.begun /\ ~Protected(doc)
       /\ Local([doc EXCEPT !.status = "pending", !.begun = b], versioned)

\* Velocity's order_id is saved before its call, or its shipment without an AWB.
Begin ==
  /\ doc.here /\ doc.awb = 0 /\ ~doc.begun
  /\ \E s \in {"booked", doc.status} :
       /\ doc.status = "junk" => s = "junk"
       /\ Local([doc EXCEPT !.begun = TRUE, !.status = s], s = "booked")

\* A booking is saved, by a save with arrays, one without (Velocity), or by the
\* updateOne of the fallback, which leaves the status: junk, too.
Book ==
  /\ doc.here /\ doc.awb = 0 /\ FreeAwbs # {}
  /\ \E versioned \in BOOLEAN, s \in {"booked", doc.status} :
       /\ versioned => s = "booked"
       /\ doc.status = "junk" => s = "junk"
       /\ Local([doc EXCEPT !.awb = Min(FreeAwbs), !.begun = TRUE, !.status = s],
                versioned)

\* markOrderReship, which asks for no shipment, and cancelShipment.
CancelShipment ==
  /\ doc.here
  /\ Local([doc EXCEPT !.awb = 0, !.begun = FALSE, !.status = "reship"], TRUE)

\* The status job: the courier has the parcel.
Move ==
  /\ doc.awb # 0 /\ doc.status = "booked"
  /\ \E versioned \in BOOLEAN : Local([doc EXCEPT !.status = "in_transit"], versioned)

MarkJunk ==
  /\ doc.here /\ doc.status # "junk" /\ doc.awb = 0
  /\ Local([doc EXCEPT !.status = "junk"], TRUE)

\* deleteJunkOrder: no document loaded before can be saved again.
DeleteJunk ==
  /\ doc.status = "junk"
  /\ doc' = NoDoc
  /\ stale' = {i \in Importers : at[i] \in {"loaded", "claimed"} /\ ~IsNew(edit[i])}
  /\ UNCHANGED <<shopVars, receipts, at, news, edit, saw, outcome>>

-----------------------------------------------------------------------------
Save(i) == Update(i) \/ Create(i)

Webhook(h) ==
  \/ \E d \in Deliveries : Receive(h, d)
  \/ ClaimDelivery(h) \/ Duplicate(h) \/ Answer(h) \/ AnswerFails(h) \/ Undo(h)
  \/ Die(h)

Import(i) == Save(i) \/ ImportFails(i)

ImportNext ==
  \/ \E h \in Handlers : Webhook(h)
  \/ \E s \in Syncs : List(s) \/ Read(s)
  \/ \E i \in Importers : Import(i)
  \/ ShopEdit
  \/ Prepare \/ Begin \/ Book \/ CancelShipment \/ Move \/ MarkJunk \/ DeleteJunk

ImportSpec == ImportInit /\ [][ImportNext]_vars

\* setInterval starts the sync again (server.ts:336), and its calls return; a
\* save that is tried again and again is not refused for ever.  Of webhooks
\* nothing is assumed.
ImportFairness ==
  /\ WF_vars(List(Timer)) /\ WF_vars(Read(Timer)) /\ WF_vars(Import(Timer))
  /\ SF_vars(Save(Timer))

ImportFairSpec == ImportSpec /\ ImportFairness

-----------------------------------------------------------------------------
Handling(d) == \E h \in Handlers : at[h] \in {"claimed", "saved"} /\ news[h] = d

\* "Records Shopify webhook delivery ids so retries / multiple app instances stay
\* idempotent" (ShopifyWebhookReceipt.ts:4).  A delivery Shopify will not repeat
\* has been saved, was needless, or is being handled; and none is saved twice:
\* unless a handler of it failed or died after it had claimed it.
HandledOnce ==
  /\ \A d \in 1 .. Len(shop) \ awaited : outcome[d] # "none" \/ Handling(d)
  /\ \A d \in Deliveries : outcome[d] # "twice"

\* "Keeps shipment/AWB fields when updating" (shopifyOrderSync.ts:3).  An import
\* takes from the order at most the shipment it had seen there, and this only
\* for a cancellation: one that was booked after its findOne survives it.
NewShipmentSurvives ==
  [][\A i \in Importers :
       Importing(i) /\ at'[i] # at[i] /\ doc.awb # 0 /\ doc'.awb = 0
         => shop[news[i]].status = "cancelled" /\ saw[i] = doc.awb]_vars

\* However late, twice or out of order the webhooks come, and whatever they
\* undo, the order is brought up to date with Shopify again and again.
UpToDateAgain == []<>(doc.here /\ doc.goods = Current.goods)

\* What a cancellation in Shopify can still reach.
Open == doc.here /\ ~Protected(doc) /\ doc.status # "in_transit"

\* A cancellation in Shopify is heard in the end by an order it can reach, even if
\* its webhook is lost, late or came before the order ("pre-shipment -> Junk,
\* post-AWB -> Reship", shopifyOrderSync.ts:246).  An order without an AWB is
\* junked, unless it is booked, or moved to reship by hand, before; one with an
\* AWB loses it.  An order in reship is not Open: whoever put it there, it never
\* hears the cancellation and can be booked again.
CancellationHeard ==
  /\ Current.status = "cancelled" /\ Open /\ doc.awb = 0 ~> ~Open \/ doc.awb # 0
  /\ Current.status = "cancelled" /\ Open /\ doc.awb # 0 ~> ~Open \/ doc.awb = 0
=============================================================================
