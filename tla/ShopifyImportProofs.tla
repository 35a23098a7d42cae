-------------------------- MODULE ShopifyImportProofs --------------------------
(***************************************************************************)
(* Two results for any number of requests that handle deliveries and of    *)
(* synchronisations, of versions in Shopify and of AWBs: a delivery is     *)
(* handled once, and an import takes no shipment it has not seen.          *)
(***************************************************************************)
EXTENDS ShopifyImport, TLAPS

Places == {"idle", "listed", "loaded", "claimed", "saved", "undo"}

\* The types of the variables the argument is about.
HandlingTypeOK ==
  /\ shop \in Seq([goods : Nat, status : ShopStatus]) /\ Len(shop) \in Deliveries
  /\ at \in [Importers -> Places]
  /\ news \in [Importers -> Nat]
  /\ outcome \in [Deliveries -> Outcomes]

Settled(d) == outcome[d] # "none"

\* A delivery that is answered, or has a receipt, is settled or being handled;
\* one that was saved keeps its receipt, which keeps it from being saved again.
DeliveryOK(d) ==
  /\ d \notin awaited /\ d \in 1 .. Len(shop) => Settled(d) \/ Handling(d)
  /\ d \in receipts => Settled(d) \/ Handling(d)
  /\ outcome[d] # "twice"
  /\ outcome[d] = "applied" => d \in receipts

\* What a handler that has claimed its delivery can count on, until another
\* handler of that delivery has failed.
HandlerOK(h) ==
  /\ at[h] # "idle" => news[h] \in Deliveries
  /\ at[h] \in {"claimed", "saved"} /\ outcome[news[h]] # "mishap"
       => news[h] \in receipts
  /\ at[h] = "claimed" => outcome[news[h]] # "applied"
  /\ at[h] = "saved" => Settled(news[h])
  /\ at[h] = "undo" => outcome[news[h]] = "mishap"

\* And the others have not claimed it.
AloneOK(h, g) ==
  h # g /\ at[h] = "claimed" /\ at[g] \in {"claimed", "saved"} /\ news[g] = news[h]
    => outcome[news[h]] = "mishap"

HandledInv ==
  /\ HandlingTypeOK
  /\ \A d \in Deliveries : DeliveryOK(d)
  /\ \A h \in Handlers : HandlerOK(h)
  /\ \A h, g \in Handlers : AloneOK(h, g)

-----------------------------------------------------------------------------
LEMMA InitHandled == ImportInit => HandledInv
<1> SUFFICES ASSUME ImportInit PROVE HandledInv
  OBVIOUS
<1> USE ImportAssumption DEF ImportInit
<1>1. HandlingTypeOK
  <2>1. /\ shop = <<[goods |-> 1, status |-> "pending"]>>
        /\ [goods |-> 1, status |-> "pending"] \in [goods : Nat, status : ShopStatus]
    BY DEF ShopStatus
  <2>2. shop \in Seq([goods : Nat, status : ShopStatus]) /\ Len(shop) \in Deliveries
    BY <2>1 DEF Deliveries
  <2> QED
    BY <2>2 DEF HandlingTypeOK, Places, Outcomes
<1>2. Len(shop) = 1
  OBVIOUS
<1>3. \A d \in Deliveries : DeliveryOK(d)
  BY <1>2 DEF DeliveryOK
<1>4. \A h, g \in Handlers : HandlerOK(h) /\ AloneOK(h, g)
  BY DEF HandlerOK, AloneOK, Importers
<1> QED
  BY <1>1, <1>3, <1>4 DEF HandledInv

\* Steps that touch neither a handler nor a delivery.
LEMMA OthersKeepHandled ==
  ASSUME HandledInv, HandlingTypeOK',
         UNCHANGED <<shop, awaited, receipts, outcome>>,
         \A h \in Handlers : at'[h] = at[h] /\ news'[h] = news[h]
  PROVE  HandledInv'
<1>1. \A d : Handling(d)' <=> Handling(d)
  BY DEF Handling
<1>2. \A d \in Deliveries : DeliveryOK(d)'
  BY <1>1 DEF HandledInv, DeliveryOK, Settled
<1>3. \A h, g \in Handlers : HandlerOK(h)' /\ AloneOK(h, g)'
  BY DEF HandledInv, HandlerOK, AloneOK, Settled
<1> QED
  BY <1>2, <1>3 DEF HandledInv

\* A step of handler h from one place to another, with its delivery d: what it
\* has to show for d and for itself.
LEMMA HandlerKeepsHandled ==
  ASSUME HandledInv, HandlingTypeOK', NEW h \in Handlers, NEW d \in Deliveries,
         shop' = shop,
         \A g \in Handlers \ {h} : at'[g] = at[g] /\ news'[g] = news[g],
         at[h] \in {"claimed", "saved"} => news[h] = d,
         at'[h] \in {"claimed", "saved"} => news'[h] = d,
         \A e \in Deliveries \ {d} :
           /\ outcome'[e] = outcome[e]
           /\ e \in awaited' <=> e \in awaited
           /\ e \in receipts' <=> e \in receipts,
         outcome[d] = "mishap" => outcome'[d] = "mishap",
         DeliveryOK(d)', HandlerOK(h)',
         outcome'[d] = "mishap" \/
           \A g \in Handlers \ {h} : HandlerOK(g)' /\ AloneOK(h, g)' /\ AloneOK(g, h)'
  PROVE  HandledInv'
<1>1. ASSUME NEW e \in Deliveries \ {d} PROVE DeliveryOK(e)'
  <2>1. Handling(e)' <=> Handling(e)
    BY <1>1 DEF Handling
  <2> QED
    BY <1>1, <2>1 DEF HandledInv, DeliveryOK, Settled
<1>2. ASSUME NEW g \in Handlers \ {h} PROVE HandlerOK(g)'
  <2>1. CASE outcome'[d] = "mishap"
    BY <1>2, <2>1 DEF HandledInv, HandlerOK, Settled
  <2> QED
    BY <2>1
<1>3. ASSUME NEW g \in Handlers, NEW f \in Handlers PROVE AloneOK(g, f)'
  <2>1. CASE g # h /\ f # h
    <3>1. HandlerOK(g) /\ AloneOK(g, f)
      BY DEF HandledInv
    <3> QED
      BY <2>1, <3>1 DEF AloneOK, HandlerOK
  <2>2. CASE g = h \/ f = h
    BY <2>2 DEF AloneOK
  <2> QED
    BY <2>1, <2>2
<1> QED
  BY <1>1, <1>2, <1>3 DEF HandledInv

-----------------------------------------------------------------------------
\* A new version is appended to the ones before.
LEMMA EditAppends ==
  ASSUME HandlingTypeOK, ShopEdit
  PROVE  /\ shop' \in Seq([goods : Nat, status : ShopStatus])
         /\ Len(shop') \in Deliveries /\ Len(shop') = Len(shop) + 1
<1> DEFINE V == [goods : Nat, status : ShopStatus]
<1>1. shop \in Seq(V) /\ Len(shop) \in 1 .. Len(shop) /\ Len(shop) \in Nat
  BY DEF HandlingTypeOK, Deliveries
<1>2. shop[Len(shop)] \in V
  <2> HIDE DEF V
  <2> QED
    BY <1>1
<1>3. PICK s \in ShopStatus, g \in {Current.goods, Current.goods + 1} :
        shop' = Append(shop, [goods |-> g, status |-> s])
  BY DEF ShopEdit
<1>4. [goods |-> g, status |-> s] \in V
  BY <1>2, <1>3 DEF Current
<1>5. shop' \in Seq(V) /\ Len(shop') = Len(shop) + 1
  <2> HIDE DEF V
  <2> QED
    BY <1>1, <1>3, <1>4
<1> QED
  BY <1>1, <1>5, ImportAssumption DEF ShopEdit, Deliveries

\* The types are kept by every step.
LEMMA NextHandlingType == HandlingTypeOK /\ [ImportNext]_vars => HandlingTypeOK'
<1> SUFFICES ASSUME HandlingTypeOK, [ImportNext]_vars PROVE HandlingTypeOK'
  OBVIOUS
<1> USE DEF HandlingTypeOK
<1>0. /\ {"idle", "listed", "loaded", "claimed", "saved", "undo"} \subseteq Places
      /\ {"needless", "applied", "twice", "mishap"} \subseteq Outcomes
      /\ Len(shop) \in Nat /\ Deliveries \subseteq Nat
      /\ Handlers \subseteq Importers /\ Syncs \subseteq Importers
  BY ImportAssumption DEF Places, Outcomes, Importers, Deliveries
<1>1. ASSUME NEW d, NEW o \in Outcomes, Outcome(d, o)
      PROVE  outcome' \in [Deliveries -> Outcomes]
  BY <1>0, <1>1 DEF Outcome
<1>2. ASSUME NEW i \in Importers, NEW l \in Places, at' = [at EXCEPT ![i] = l]
      PROVE  at' \in [Importers -> Places]
  BY <1>2
<1>3. ASSUME NEW i \in Importers, NEW v \in Nat, news' = [news EXCEPT ![i] = v]
      PROVE  news' \in [Importers -> Nat]
  BY <1>3
<1>4. ASSUME NEW h \in Handlers, Webhook(h) PROVE HandlingTypeOK'
  <2>1. ASSUME NEW d \in Deliveries, Receive(h, d) PROVE HandlingTypeOK'
    BY <1>0, <1>1, <1>2, <1>3, <2>1 DEF Receive, Load, shopVars, importVars
  <2>2. CASE ClaimDelivery(h)
    BY <1>0, <1>2, <2>2 DEF ClaimDelivery, shopVars
  <2>3. CASE Duplicate(h)
    BY <1>0, <1>2, <1>3, <2>3 DEF Duplicate, Done
  <2>4. CASE Answer(h)
    BY <1>0, <1>2, <1>3, <2>4 DEF Answer, Done
  <2>5. CASE AnswerFails(h)
    BY <1>0, <1>1, <1>2, <2>5 DEF AnswerFails, Imported, shopVars
  <2>6. CASE Undo(h)
    BY <1>0, <1>2, <1>3, <2>6 DEF Undo, Done, shopVars
  <2>7. CASE Die(h)
    BY <1>0, <1>1, <1>2, <1>3, <2>7 DEF Die, Done, shopVars
  <2> QED
    BY <1>4, <2>1, <2>2, <2>3, <2>4, <2>5, <2>6, <2>7 DEF Webhook
<1>5. ASSUME NEW s \in Syncs, List(s) \/ Read(s) PROVE HandlingTypeOK'
  BY <1>0, <1>2, <1>3, <1>5 DEF List, Read, Load, shopVars
<1>6. ASSUME NEW i \in Importers, Import(i) PROVE HandlingTypeOK'
  <2>1. ASSUME NEW others, AfterSave(i, others), UNCHANGED shop PROVE HandlingTypeOK'
    BY <1>0, <1>1, <1>2, <1>3, <2>1 DEF AfterSave, Imported, Done
  <2>2. CASE Save(i)
    BY <2>1, <2>2 DEF Save, Update, Create, shopVars
  <2>3. CASE ImportFails(i)
    BY <1>0, <1>1, <1>2, <1>3, <2>3 DEF ImportFails, Imported, Done, shopVars
  <2> QED
    BY <1>6, <2>2, <2>3 DEF Import
<1>7. CASE ShopEdit
  <2>1. UNCHANGED <<at, news, outcome>>
    BY <1>7 DEF ShopEdit, importVars
  <2> QED
    BY <1>7, <2>1, EditAppends
<1>8. CASE Prepare \/ Begin \/ Book \/ CancelShipment \/ Move \/ MarkJunk \/ DeleteJunk
  BY <1>8 DEF Prepare, Begin, Book, CancelShipment, Move, MarkJunk, DeleteJunk, Local, shopVars
<1>9. CASE UNCHANGED vars
  BY <1>9 DEF vars, shopVars, importVars
<1> QED
  BY <1>4, <1>5, <1>6, <1>7, <1>8, <1>9 DEF ImportNext

-----------------------------------------------------------------------------
\* The steps of a handler.
LEMMA WebhookKeepsHandled ==
  ASSUME HandledInv, HandlingTypeOK', NEW h \in Handlers, Webhook(h)
  PROVE  HandledInv'
<1> USE DEF HandlingTypeOK
<1>0. h \in Importers /\ HandlingTypeOK /\ HandlerOK(h)
  BY DEF Importers, HandledInv
<1>1. ASSUME NEW d \in Deliveries, Receive(h, d) PROVE HandledInv'
  <2>1. CASE at' = at
    <3>1. outcome' = [outcome EXCEPT ![d] = IF @ = "mishap" THEN "mishap" ELSE "needless"]
      BY <1>0, <1>1, <2>1 DEF Receive, Load, Outcome
    <3>2. /\ at[h] = "idle" /\ UNCHANGED <<shop, at, news, receipts>>
          /\ awaited' \in {awaited, awaited \ {d}}
      BY <1>0, <1>1, <2>1 DEF Receive, Load, Answered, importVars
    <3>3. DeliveryOK(d)'
      BY <1>0, <3>1, <3>2 DEF DeliveryOK, Settled
    <3>4. \A g \in Handlers : HandlerOK(g)' /\ AloneOK(h, g)' /\ AloneOK(g, h)'
      BY <1>0, <3>1, <3>2 DEF HandledInv, HandlerOK, AloneOK, Settled
    <3> QED
      BY <1>0, <3>1, <3>2, <3>3, <3>4, HandlerKeepsHandled
  <2>2. CASE at' # at
    <3>1. /\ at[h] = "idle" /\ at' = [at EXCEPT ![h] = "loaded"]
          /\ news' = [news EXCEPT ![h] = d]
          /\ UNCHANGED <<shop, awaited, receipts, outcome>>
      BY <1>1, <2>2 DEF Receive, Load, importVars
    <3>2. DeliveryOK(d)'
      <4>1. Handling(d) => Handling(d)'
        BY <1>0, <3>1 DEF Handling
      <4> QED
        BY <3>1, <4>1 DEF HandledInv, DeliveryOK, Settled
    <3>3. HandlerOK(h)'
      BY <1>0, <3>1 DEF HandlerOK
    <3>4. \A g \in Handlers \ {h} : HandlerOK(g)' /\ AloneOK(h, g)' /\ AloneOK(g, h)'
      BY <1>0, <3>1 DEF HandledInv, HandlerOK, AloneOK, Settled, Importers
    <3> QED
      BY <1>0, <3>1, <3>2, <3>3, <3>4, HandlerKeepsHandled DEF Importers
  <2> QED
    BY <2>1, <2>2
<1>d. PICK d : d = news[h]
  OBVIOUS
<1>2. ASSUME at[h] # "idle" PROVE d \in Deliveries /\ DeliveryOK(d)
  BY <1>0, <1>d, <1>2 DEF HandledInv, HandlerOK
<1>3. CASE ClaimDelivery(h)
  <2>1. /\ at[h] = "loaded" /\ at' = [at EXCEPT ![h] = "claimed"]
        /\ d \notin receipts /\ receipts' = receipts \cup {d}
        /\ UNCHANGED <<shop, awaited, news, outcome>>
    BY <1>d, <1>3 DEF ClaimDelivery, shopVars
  <2>2. outcome[d] # "applied" /\ d \in Deliveries
    BY <1>d, <1>2, <2>1 DEF DeliveryOK
  <2>3. DeliveryOK(d)'
    BY <1>d, <1>0, <1>2, <2>1, <2>2 DEF DeliveryOK, Handling
  <2>4. HandlerOK(h)'
    BY <1>d, <1>0, <2>1, <2>2 DEF HandlerOK
  <2>5. ASSUME NEW g \in Handlers \ {h}
        PROVE  HandlerOK(g)' /\ AloneOK(h, g)' /\ AloneOK(g, h)'
    <3>1. at'[g] = at[g] /\ HandlerOK(g)
      BY <1>d, <1>0, <2>1 DEF HandledInv, Importers
    <3>2. at[g] \in {"claimed", "saved"} /\ news[g] = d => outcome[d] = "mishap"
      BY <1>d, <2>1, <3>1 DEF HandlerOK
    <3> QED
      BY <1>d, <2>1, <3>1, <3>2 DEF HandlerOK, AloneOK, Settled
  <2> QED
    BY <1>d, <1>0, <2>1, <2>2, <2>3, <2>4, <2>5, HandlerKeepsHandled DEF Importers
<1>4. ASSUME at[h] # "idle", at' = [at EXCEPT ![h] = "idle"],
             \A g \in Handlers \ {h} : news'[g] = news[g],
             UNCHANGED <<shop, receipts>>,
             awaited' \in {awaited, awaited \ {d}},
             \/ outcome' = outcome /\ (Settled(d) \/ at[h] = "loaded")
             \/ outcome' = [outcome EXCEPT ![d] = "mishap"],
             awaited' = awaited \/ Settled(d) \/ Handling(d)
      PROVE  HandledInv'
  <2>1. d \in Deliveries /\ DeliveryOK(d)
    BY <1>d, <1>2, <1>4
  <2>2. DeliveryOK(d)'
    <3>1. CASE Settled(d)'
      BY <1>d, <1>0, <1>4, <2>1, <3>1 DEF DeliveryOK, Settled
    <3>2. CASE ~Settled(d)'
      <4>1. at[h] = "loaded" /\ outcome' = outcome
        BY <1>d, <1>0, <1>4, <2>1, <3>2 DEF Settled
      <4>2. Handling(d) => Handling(d)'
        BY <1>d, <1>0, <1>4, <4>1 DEF Handling, Importers
      <4> QED
        BY <1>d, <1>4, <2>1, <3>2, <4>1, <4>2 DEF DeliveryOK, Settled
    <3> QED
      BY <3>1, <3>2
  <2>3. HandlerOK(h)'
    BY <1>d, <1>0, <1>4 DEF HandlerOK
  <2>4. ASSUME NEW g \in Handlers \ {h}
        PROVE  HandlerOK(g)' /\ AloneOK(h, g)' /\ AloneOK(g, h)'
    <3>1. at'[g] = at[g] /\ HandlerOK(g) /\ at'[h] = "idle"
      BY <1>d, <1>0, <1>4 DEF HandledInv, Importers
    <3> QED
      BY <1>d, <1>0, <1>4, <2>1, <3>1 DEF HandlerOK, AloneOK, Settled
  <2>5. \A g \in Handlers \ {h} : at'[g] = at[g]
    BY <1>d, <1>0, <1>4 DEF Importers
  <2>6. at'[h] = "idle"
    BY <1>d, <1>0, <1>4
  <2> QED
    BY <1>d, <1>0, <1>4, <2>1, <2>2, <2>3, <2>4, <2>5, <2>6, HandlerKeepsHandled
<1>5. ASSUME NEW others, Done(h, others)
      PROVE  /\ at' = [at EXCEPT ![h] = "idle"]
             /\ \A g \in Handlers \ {h} : news'[g] = news[g]
  BY <1>d, <1>0, <1>5 DEF Done, Importers
<1>6. CASE Duplicate(h)
  BY <1>d, <1>2, <1>4, <1>5, <1>6 DEF Duplicate, Answered, DeliveryOK
<1>7. CASE Answer(h)
  BY <1>d, <1>0, <1>4, <1>5, <1>7 DEF Answer, Answered, HandlerOK
<1>8. CASE Die(h)
  BY <1>d, <1>0, <1>2, <1>4, <1>5, <1>8 DEF Die, Outcome, shopVars
<1>9. CASE Undo(h)
  <2>1. /\ at[h] = "undo" /\ at' = [at EXCEPT ![h] = "idle"]
        /\ \A g \in Handlers \ {h} : news'[g] = news[g]
        /\ receipts' \in {receipts, receipts \ {d}}
        /\ UNCHANGED <<shop, awaited, outcome>>
    BY <1>d, <1>5, <1>9 DEF Undo, shopVars
  <2>2. d \in Deliveries /\ outcome[d] = "mishap"
    BY <1>d, <1>0, <1>2, <2>1 DEF HandlerOK
  <2>3. DeliveryOK(d)' /\ HandlerOK(h)'
    BY <1>d, <1>0, <2>1, <2>2 DEF DeliveryOK, HandlerOK, Settled
  <2> QED
    BY <1>d, <1>0, <2>1, <2>2, <2>3, HandlerKeepsHandled DEF Importers
<1>10. CASE AnswerFails(h)
  <2>1. /\ at[h] = "saved" /\ at' = [at EXCEPT ![h] = "undo"]
        /\ UNCHANGED <<shop, awaited, news, receipts>>
        /\ outcome' = [outcome EXCEPT ![d] = "mishap"]
    BY <1>d, <1>0, <1>2, <1>10 DEF AnswerFails, Imported, Outcome, shopVars
  <2>2. d \in Deliveries /\ outcome'[d] = "mishap"
    BY <1>d, <1>0, <1>2, <2>1
  <2>3. DeliveryOK(d)' /\ HandlerOK(h)'
    BY <1>d, <1>0, <2>1, <2>2 DEF DeliveryOK, HandlerOK, Settled
  <2> QED
    BY <1>d, <1>0, <2>1, <2>2, <2>3, HandlerKeepsHandled DEF Importers
<1> QED
  BY <1>1, <1>3, <1>6, <1>7, <1>8, <1>9, <1>10 DEF Webhook

\* The saves, of a handler or of a sync.
LEMMA ImportKeepsHandled ==
  ASSUME HandledInv, HandlingTypeOK', NEW i \in Importers, Import(i)
  PROVE  HandledInv'
<1> USE DEF HandlingTypeOK
<1>0. HandlingTypeOK /\ UNCHANGED <<shop, awaited, receipts>> /\ Importing(i)
  BY DEF HandledInv, Import, Save, Update, Create, ImportFails, shopVars
<1>1. CASE i \notin Handlers
  <2>1. UNCHANGED outcome /\ \E others : Done(i, others)
    BY <1>1 DEF Import, Save, Update, Create, ImportFails, AfterSave
  <2>2. \A h \in Handlers : at'[h] = at[h] /\ news'[h] = news[h]
    BY <1>0, <1>1, <2>1 DEF Done, Importers
  <2> QED
    BY <1>0, <2>1, <2>2, OthersKeepHandled
<1>2. CASE i \in Handlers
  <2>0. PICK d : d = news[i]
    OBVIOUS
  <2>1. /\ at[i] = "claimed" /\ HandlerOK(i)
        /\ d \in Deliveries /\ DeliveryOK(d)
    BY <1>0, <1>2, <2>0 DEF Importing, HandledInv, HandlerOK
  <2>2. ASSUME at' = [at EXCEPT ![i] = "undo"], news' = news,
               outcome' = [outcome EXCEPT ![d] = "mishap"]
        PROVE  HandledInv'
    <3>1. outcome'[d] = "mishap" /\ at'[i] = "undo"
      BY <1>0, <2>1, <2>2
    <3>2. DeliveryOK(d)' /\ HandlerOK(i)'
      BY <1>0, <2>0, <2>1, <2>2, <3>1 DEF DeliveryOK, HandlerOK, Settled
    <3> QED
      BY <1>0, <1>2, <2>0, <2>1, <2>2, <3>1, <3>2, HandlerKeepsHandled DEF Importers
  <2>3. ASSUME at' = [at EXCEPT ![i] = "saved"], news' = news,
               outcome' = [outcome EXCEPT ![d] =
                             IF @ = "mishap" THEN "mishap" ELSE "applied"]
        PROVE  HandledInv'
    <3>1. outcome'[d] \in {"mishap", "applied"} /\ at'[i] = "saved"
      BY <1>0, <2>1, <2>3
    <3>2. outcome'[d] = "applied" => outcome[d] # "mishap" /\ d \in receipts
      BY <1>0, <2>0, <2>1, <2>3 DEF HandlerOK
    <3>3. DeliveryOK(d)' /\ HandlerOK(i)'
      BY <1>0, <2>0, <2>1, <2>3, <3>1, <3>2 DEF DeliveryOK, HandlerOK, Settled
    <3>4. ASSUME NEW g \in Handlers \ {i}, outcome'[d] # "mishap"
          PROVE  HandlerOK(g)' /\ AloneOK(i, g)' /\ AloneOK(g, i)'
      <4>1. HandlerOK(g) /\ AloneOK(i, g) /\ at'[g] = at[g]
        BY <1>0, <1>2, <2>3 DEF HandledInv, Importers
      <4>2. ~(at[g] \in {"claimed", "saved"} /\ news[g] = d)
        BY <2>0, <2>1, <3>1, <3>2, <3>4, <4>1 DEF AloneOK
      <4> QED
        BY <1>0, <2>0, <2>1, <2>3, <3>1, <4>1, <4>2 DEF HandlerOK, AloneOK, Settled
    <3> QED
      BY <1>0, <1>2, <2>0, <2>1, <2>3, <3>1, <3>3, <3>4, HandlerKeepsHandled
         DEF Importers
  <2>4. CASE Save(i)
    <3>1. \E others : AfterSave(i, others)
      BY <2>4 DEF Save, Update, Create
    <3>2. outcome[d] # "applied" \/ outcome[d] = "mishap"
      BY <2>0, <2>1 DEF HandlerOK
    <3> QED
      BY <1>0, <1>2, <2>0, <2>1, <2>3, <3>1, <3>2 DEF AfterSave, Imported, Outcome
  <2>5. CASE ImportFails(i)
    BY <1>0, <1>2, <2>0, <2>1, <2>2, <2>5 DEF ImportFails, Imported, Outcome
  <2> QED
    BY <2>4, <2>5 DEF Import
<1> QED
  BY <1>1, <1>2

\* A new version is a new delivery, and is awaited.
LEMMA EditKeepsHandled ==
  ASSUME HandledInv, HandlingTypeOK', ShopEdit
  PROVE  HandledInv'
<1>1. /\ UNCHANGED <<at, news, receipts, outcome>>
      /\ awaited' = awaited \cup {Len(shop')}
      /\ Len(shop') = Len(shop) + 1 /\ Len(shop) \in Nat
  <2>1. Len(shop) \in Nat
    BY ImportAssumption DEF HandledInv, HandlingTypeOK, Deliveries
  <2> QED
    BY <2>1, EditAppends DEF ShopEdit, importVars, HandledInv
<1>2. ASSUME NEW d \in Deliveries PROVE DeliveryOK(d)'
  <2>1. Handling(d)' <=> Handling(d)
    BY <1>1 DEF Handling
  <2>2. DeliveryOK(d) /\ d \in Nat
    BY DEF HandledInv, Deliveries
  <2> QED
    BY <1>1, <2>1, <2>2 DEF DeliveryOK, Settled
<1>3. \A h, g \in Handlers : HandlerOK(h)' /\ AloneOK(h, g)'
  BY <1>1 DEF HandledInv, HandlerOK, AloneOK, Settled
<1> QED
  BY <1>2, <1>3 DEF HandledInv

\* The inductive step.
LEMMA NextHandled == HandledInv /\ [ImportNext]_vars => HandledInv'
<1> SUFFICES ASSUME HandledInv, [ImportNext]_vars PROVE HandledInv'
  OBVIOUS
<1>0. HandlingTypeOK /\ HandlingTypeOK'
  BY NextHandlingType DEF HandledInv
<1>1. ASSUME NEW h \in Handlers, Webhook(h) PROVE HandledInv'
  BY <1>0, <1>1, WebhookKeepsHandled
<1>2. ASSUME NEW i \in Importers, Import(i) PROVE HandledInv'
  BY <1>0, <1>2, ImportKeepsHandled
<1>3. CASE ShopEdit
  BY <1>0, <1>3, EditKeepsHandled
<1>4. ASSUME NEW s \in Syncs, List(s) \/ Read(s) PROVE HandledInv'
  <2>1. UNCHANGED <<shop, awaited, receipts, outcome>>
    BY <1>4 DEF List, Read, shopVars
  <2>2. \A h \in Handlers : at'[h] = at[h] /\ news'[h] = news[h]
    BY <1>0, <1>4, ImportAssumption DEF List, Read, Load, HandlingTypeOK, Importers
  <2> QED
    BY <1>0, <2>1, <2>2, OthersKeepHandled
<1>5. CASE \/ Prepare \/ Begin \/ Book \/ CancelShipment \/ Move \/ MarkJunk \/ DeleteJunk
           \/ UNCHANGED vars
  <2>1. UNCHANGED <<shop, awaited, receipts, at, news, outcome>>
    BY <1>5 DEF Prepare, Begin, Book, CancelShipment, Move, MarkJunk, DeleteJunk, Local, shopVars,
       vars, importVars
  <2> QED
    BY <1>0, <2>1, OthersKeepHandled
<1> QED
  BY <1>1, <1>2, <1>3, <1>4, <1>5 DEF ImportNext

\* A delivery of Shopify that is answered has been saved, was needless or is in
\* hand, and none is saved twice, unless a handler of it failed or died: for
\* any number of requests handled at the same time, and any number of versions.
THEOREM HandledOnceAlways == ImportSpec => []HandledOnce
<1>1. HandledInv => HandledOnce
  <2> SUFFICES ASSUME HandledInv PROVE HandledOnce
    OBVIOUS
  <2>1. 1 .. Len(shop) \subseteq Deliveries
    BY ImportAssumption DEF HandledInv, HandlingTypeOK, Deliveries
  <2> QED
    BY <2>1 DEF HandledInv, HandledOnce, DeliveryOK, Settled
<1> QED
  BY <1>1, InitHandled, NextHandled, PTL DEF ImportSpec

-----------------------------------------------------------------------------
\* The second argument: what an import takes away from the order.
Fields == {"here", "goods", "status", "awb", "begun"}

\* An import that is about to clear the AWB brings a cancellation, saves an
\* array, and unless it was overtaken, has seen the AWB the order has.
ClearingOK(i) ==
  at[i] \in {"loaded", "claimed"} =>
    /\ IsNew(edit[i]) => DOMAIN edit[i] = Fields /\ edit[i]["awb"] = 0
    /\ ~IsNew(edit[i]) /\ i \notin stale => doc.here
    /\ ~IsNew(edit[i]) /\ "awb" \in DOMAIN edit[i] =>
         /\ Versioned(edit[i]) /\ edit[i]["awb"] = 0
         /\ shop[news[i]].status = "cancelled"
         /\ saw[i] # 0
         /\ i \notin stale => doc.awb = saw[i]

ClearingInv ==
  /\ HandlingTypeOK
  /\ DOMAIN doc = Fields /\ (~doc.here => doc.awb = 0)
  /\ awaited \subseteq 1 .. Len(shop)
  /\ DOMAIN edit = Importers /\ DOMAIN saw = Importers
  /\ \A i \in Importers : at[i] # "idle" => news[i] \in 1 .. Len(shop)
  /\ \A i \in Importers : ClearingOK(i)

\* The merge clears the AWB for a cancellation only, with an entry in the history.
LEMMA MergeClears ==
  ASSUME NEW o, NEW v, DOMAIN o = Fields
  PROVE  LET e == Changes(o, v) IN
         /\ "here" \notin DOMAIN e
         /\ "awb" \in DOMAIN e =>
              /\ v.status = "cancelled" /\ o.awb # 0
              /\ e["awb"] = 0 /\ Versioned(e)
<1> DEFINE n == Merged(o, v)
           g == [o EXCEPT !.goods = v.goods]
<1>1. DOMAIN g = Fields /\ g.here = o.here /\ g.status = o.status /\ g.awb = o.awb
  BY DEF Fields
<1>2. \/ n = g \/ n = o
      \/ ~Protected(o) /\ v.status = "cancelled" /\ n = Cancelled(g)
      \/ \E t : n = [g EXCEPT !.status = t]
  BY DEF Merged
<1>3. \/ Cancelled(g) = g
      \/ g.awb # 0 /\ Cancelled(g) = [g EXCEPT !.status = "reship", !.awb = 0, !.begun = FALSE]
      \/ Cancelled(g) = [g EXCEPT !.status = "junk"]
  BY DEF Cancelled
<1>4. DOMAIN n = Fields /\ n.here = o.here
  BY <1>1, <1>2, <1>3 DEF Fields
<1>5. n.awb # o.awb =>
        v.status = "cancelled" /\ o.awb # 0 /\ n.awb = 0
        /\ n.status = "reship" /\ o.status # "reship"
  BY <1>1, <1>2, <1>3 DEF Fields, Protected
<1> HIDE DEF n, g
<1>6. /\ DOMAIN Changes(o, v) = {f \in DOMAIN n : n[f] # o[f]}
      /\ \A f \in DOMAIN Changes(o, v) : Changes(o, v)[f] = n[f]
  BY DEF Changes, Restrict, n
<1> QED
  BY <1>4, <1>5, <1>6 DEF Fields, Versioned, IsNew

LEMMA InitClearing == ImportInit => ClearingInv
<1> SUFFICES ASSUME ImportInit PROVE ClearingInv
  OBVIOUS
<1>1. HandlingTypeOK
  BY InitHandled DEF HandledInv
<1>2. DOMAIN doc = Fields /\ doc.awb = 0
  BY DEF ImportInit, NoDoc, Fields
<1>3. awaited \subseteq 1 .. Len(shop)
  BY DEF ImportInit
<1>4. \A i \in Importers : at[i] = "idle"
  BY DEF ImportInit
<1> QED
  BY <1>1, <1>2, <1>3, <1>4 DEF ImportInit, ClearingInv, ClearingOK

\* An importer that does nothing while others change the document: it is
\* overtaken, or what it relies on has not changed.
LEMMA OthersKeepClearing ==
  ASSUME ClearingInv, NEW i \in Importers,
         at'[i] = at[i], news'[i] = news[i], edit'[i] = edit[i], saw'[i] = saw[i],
         at[i] # "idle" => shop'[news[i]] = shop[news[i]],
         at[i] \in {"loaded", "claimed"} /\ ~IsNew(edit[i]) /\ i \notin stale' =>
           /\ i \notin stale /\ (doc.here => doc'.here)
           /\ "awb" \in DOMAIN edit[i] => doc'.awb = doc.awb
  PROVE  ClearingOK(i)'
  BY DEF ClearingInv, ClearingOK, IsNew, Versioned

\* A step of one importer that leaves the document as it is, and loads none.
LEMMA ImporterKeepsClearing ==
  ASSUME ClearingInv, HandlingTypeOK', NEW i \in Importers, NEW l,
         UNCHANGED <<shop, doc>>, awaited' \subseteq awaited,
         at' = [at EXCEPT ![i] = l], l \notin {"loaded", "claimed"},
         \/ news' = news /\ at[i] # "idle"
         \/ news' = [news EXCEPT ![i] = 0] /\ l = "idle"
         \/ news' = [news EXCEPT ![i] = Len(shop)] /\ Len(shop) \in 1 .. Len(shop),
         \/ UNCHANGED <<edit, saw, stale>>
         \/ \E others : Forget(i, others) /\ stale \subseteq others
  PROVE  ClearingInv'
<1>1. ASSUME NEW j \in Importers \ {i} PROVE ClearingOK(j)'
  <2>1. /\ at'[j] = at[j] /\ news'[j] = news[j] /\ edit'[j] = edit[j] /\ saw'[j] = saw[j]
        /\ j \notin stale' => j \notin stale
    BY DEF ClearingInv, HandlingTypeOK, Forget
  <2> QED
    BY <2>1, OthersKeepClearing
<1>2. ClearingOK(i)'
  <2>1. at'[i] = l
    BY DEF ClearingInv, HandlingTypeOK
  <2> QED
    BY <2>1 DEF ClearingInv, ClearingOK, IsNew, Versioned
<1>3. DOMAIN edit' = Importers /\ DOMAIN saw' = Importers
  BY DEF ClearingInv, Forget
<1>4. \A j \in Importers : at'[j] # "idle" => news'[j] \in 1 .. Len(shop)
  BY DEF ClearingInv, HandlingTypeOK
<1> QED
  BY <1>1, <1>2, <1>3, <1>4 DEF ClearingInv

\* findOne and the merge.
LEMMA LoadKeepsClearing ==
  ASSUME ClearingInv, HandlingTypeOK', NEW i \in Importers, NEW v \in 1 .. Len(shop),
         Load(i, "loaded", v), UNCHANGED <<shop, awaited, doc>>
  PROVE  ClearingInv'
<1>1. ASSUME NEW j \in Importers \ {i} PROVE ClearingOK(j)'
  <2>1. /\ at'[j] = at[j] /\ news'[j] = news[j] /\ edit'[j] = edit[j] /\ saw'[j] = saw[j]
        /\ stale' = stale
    BY DEF ClearingInv, HandlingTypeOK, Load
  <2> QED
    BY <2>1, OthersKeepClearing
<1>2. ClearingOK(i)'
  <2>1. PICK e : /\ e = IF doc.here THEN Changes(doc, shop[v]) ELSE Created(shop[v])
                 /\ edit'[i] = e /\ saw'[i] = IF "awb" \in DOMAIN e THEN doc.awb ELSE 0
                 /\ news'[i] = v
    BY DEF ClearingInv, HandlingTypeOK, Load
  <2>2. CASE doc.here
    <3>1. ~IsNew(e) /\ ("awb" \in DOMAIN e =>
             shop[v].status = "cancelled" /\ doc.awb # 0 /\ e["awb"] = 0 /\ Versioned(e))
      BY <2>1, <2>2, MergeClears DEF ClearingInv, IsNew
    <3> QED
      BY <2>1, <2>2, <3>1 DEF ClearingOK
  <2>3. CASE ~doc.here
    <3>1. IsNew(e)
      BY <2>1, <2>3 DEF Created, IsNew
    <3>2. DOMAIN e = Fields /\ e["awb"] = 0
      BY <2>1, <2>3 DEF Created, Fields
    <3> QED
      BY <2>1, <3>1, <3>2 DEF ClearingOK, IsNew
  <2> QED
    BY <2>2, <2>3
<1>3. /\ DOMAIN edit' = Importers /\ DOMAIN saw' = Importers
      /\ \A j \in Importers : at'[j] # "idle" => news'[j] \in 1 .. Len(shop)
  BY DEF ClearingInv, HandlingTypeOK, Load
<1> QED
  BY <1>1, <1>2, <1>3 DEF ClearingInv

\* A save overtakes the imports that count on what it takes away.
LEMMA SaveKeepsClearing ==
  ASSUME ClearingInv, HandlingTypeOK', NEW i \in Importers, Save(i)
  PROVE  ClearingInv'
<1>0. /\ UNCHANGED <<shop, awaited>> /\ at[i] \in {"loaded", "claimed"}
      /\ ClearingOK(i) /\ DOMAIN doc = Fields
  BY DEF Save, Update, Create, shopVars, Importing, ClearingInv
<1>1. PICK others, l : /\ AfterSave(i, others) /\ Forget(i, others)
                       /\ at' = [at EXCEPT ![i] = l] /\ l \in {"saved", "idle"}
                       /\ others = IF IsNew(edit[i]) THEN stale
                                   ELSE Overtaken(Versioned(edit[i]))
  BY DEF Save, Update, Create, AfterSave, Imported, Done
<1>2. /\ DOMAIN doc' = Fields /\ (~doc'.here => doc'.awb = 0)
      /\ doc.here => doc'.here
      /\ ~doc.here \/ doc'.awb = doc.awb \/ (doc'.awb = 0 /\ Versioned(edit[i]))
  <2>1. CASE Update(i)
    <3>1. /\ ~IsNew(edit[i]) /\ i \notin stale
          /\ doc' = [f \in DOMAIN doc |->
                       IF f \in DOMAIN edit[i] THEN edit[i][f] ELSE doc[f]]
      BY <2>1 DEF Update
    <3> QED
      BY <1>0, <3>1 DEF ClearingOK, Fields, IsNew
  <2>2. CASE Create(i)
    <3>1. ~doc.here /\ doc' = edit[i] /\ IsNew(edit[i])
      BY <2>2 DEF Create
    <3> QED
      BY <1>0, <3>1 DEF ClearingOK
  <2> QED
    BY <2>1, <2>2 DEF Save
<1>3. ASSUME NEW j \in Importers \ {i} PROVE ClearingOK(j)'
  <2>1. /\ at'[j] = at[j] /\ news'[j] = news[j] /\ edit'[j] = edit[j] /\ saw'[j] = saw[j]
        /\ j \notin stale' => j \notin others
    BY <1>1 DEF ClearingInv, HandlingTypeOK, AfterSave, Imported, Done, Forget
  <2>2. j \notin others => j \notin stale
    BY <1>1 DEF Overtaken
  <2>3. Versioned(edit[i]) /\ Versioned(edit[j]) => j \in others
    BY <1>1 DEF Overtaken, Versioned
  <2>4. ClearingOK(j)
    BY DEF ClearingInv
  <2> QED
    BY <1>0, <1>2, <2>1, <2>2, <2>3, <2>4, OthersKeepClearing DEF ClearingOK
<1>4. ClearingOK(i)'
  BY <1>1 DEF ClearingInv, HandlingTypeOK, ClearingOK
<1>5. /\ DOMAIN edit' = Importers /\ DOMAIN saw' = Importers
      /\ \A j \in Importers : at'[j] # "idle" => news'[j] \in 1 .. Len(shop)
  BY <1>0, <1>1 DEF ClearingInv, HandlingTypeOK, AfterSave, Imported, Done, Forget
<1> QED
  BY <1>0, <1>2, <1>3, <1>4, <1>5 DEF ClearingInv

\* Bookings, cancellations, courier and junk.
LEMMA LocalKeepsClearing ==
  ASSUME ClearingInv, HandlingTypeOK',
         Prepare \/ Begin \/ Book \/ CancelShipment \/ Move \/ MarkJunk \/ DeleteJunk
  PROVE  ClearingInv'
<1>1. UNCHANGED <<shop, awaited, at, news, edit, saw>> /\ DOMAIN doc = Fields
  BY DEF Prepare, Begin, Book, CancelShipment, Move, MarkJunk, DeleteJunk, Local,
     shopVars, ClearingInv
<1>2. DOMAIN doc' = Fields /\ (~doc'.here => doc'.awb = 0)
  <2>1. CASE DeleteJunk
    BY <2>1 DEF DeleteJunk, NoDoc, Fields
  <2>2. CASE Prepare \/ Begin \/ Book
    BY <1>1, <2>2 DEF Prepare, Begin, Book, Local, Fields
  <2>3. CASE CancelShipment
    BY <1>1, <2>3 DEF CancelShipment, Local, Fields
  <2>4. CASE Move \/ MarkJunk
    <3>1. PICK t : doc' = [doc EXCEPT !.status = t]
      BY <2>4 DEF Move, MarkJunk, Local
    <3> QED
      BY <1>1, <3>1 DEF ClearingInv, Fields
  <2> QED
    BY <2>1, <2>2, <2>3, <2>4
<1>3. ASSUME NEW i \in Importers PROVE ClearingOK(i)'
  <2>1. CASE DeleteJunk
    <3>1. at[i] \in {"loaded", "claimed"} /\ ~IsNew(edit[i]) => i \in stale'
      BY <2>1 DEF DeleteJunk
    <3> QED
      BY <1>1, <3>1, OthersKeepClearing
  <2>2. CASE CancelShipment
    <3>1. doc'.here = doc.here /\ stale' = Overtaken(TRUE)
      BY <1>1, <2>2 DEF CancelShipment, Local, Fields
    <3>2. i \notin stale' => i \notin stale /\ ~Versioned(edit[i])
      BY <3>1 DEF Overtaken
    <3>3. ClearingOK(i)
      BY DEF ClearingInv
    <3> QED
      BY <1>1, <3>1, <3>2, <3>3, OthersKeepClearing DEF ClearingOK
  <2>3. CASE Prepare \/ Begin \/ Book \/ Move \/ MarkJunk
    <3>1. PICK versioned \in BOOLEAN : stale' = Overtaken(versioned)
      BY <2>3 DEF Prepare, Begin, Book, Move, MarkJunk, Local
    <3>2. doc'.here = doc.here /\ (doc'.awb = doc.awb \/ doc.awb = 0)
      BY <1>1, <2>3 DEF Prepare, Begin, Book, Move, MarkJunk, Local, Fields
    <3>3. i \notin stale' => i \notin stale
      BY <3>1 DEF Overtaken
    <3>4. ClearingOK(i)
      BY DEF ClearingInv
    <3> QED
      BY <1>1, <3>2, <3>3, <3>4, OthersKeepClearing DEF ClearingOK
  <2> QED
    BY <2>1, <2>2, <2>3
<1> QED
  BY <1>1, <1>2, <1>3 DEF ClearingInv

LEMMA EditKeepsClearing ==
  ASSUME ClearingInv, HandlingTypeOK', ShopEdit
  PROVE  ClearingInv'
<1>1. /\ Len(shop') = Len(shop) + 1 /\ Len(shop) \in Nat
      /\ \A n \in 1 .. Len(shop) : shop'[n] = shop[n]
  <2>1. Len(shop) \in Nat /\ shop \in Seq([goods : Nat, status : ShopStatus])
    BY ImportAssumption DEF ClearingInv, HandlingTypeOK, Deliveries
  <2>2. \E x : shop' = Append(shop, x)
    BY DEF ShopEdit
  <2>3. Len(shop') = Len(shop) + 1
    BY EditAppends DEF ClearingInv
  <2> QED
    BY <2>1, <2>2, <2>3
<1>2. /\ UNCHANGED <<doc, at, news, edit, saw, stale>>
      /\ awaited' = awaited \cup {Len(shop')}
  BY DEF ShopEdit, importVars
<1>3. \A i \in Importers : ClearingOK(i)'
  BY <1>1, <1>2, OthersKeepClearing DEF ClearingInv
<1>4. 1 .. Len(shop) \subseteq 1 .. Len(shop') /\ Len(shop') \in 1 .. Len(shop')
  <2>1. ASSUME NEW n \in Nat, NEW m, m = n + 1
        PROVE  1 .. n \subseteq 1 .. m /\ m \in 1 .. m
    BY <2>1
  <2> QED
    BY <1>1, <2>1
<1>5. /\ awaited' \subseteq 1 .. Len(shop')
      /\ \A i \in Importers : at'[i] # "idle" => news'[i] \in 1 .. Len(shop')
  BY <1>2, <1>4 DEF ClearingInv
<1> QED
  BY <1>2, <1>3, <1>5 DEF ClearingInv

LEMMA NextClearing == ClearingInv /\ [ImportNext]_vars => ClearingInv'
<1> SUFFICES ASSUME ClearingInv, [ImportNext]_vars PROVE ClearingInv'
  OBVIOUS
<1>0. HandlingTypeOK /\ HandlingTypeOK'
  BY NextHandlingType DEF ClearingInv
<1>1. ASSUME NEW i \in Importers, ImportFails(i) PROVE ClearingInv'
  <2>1. at[i] # "idle" /\ UNCHANGED <<shop, awaited, doc>>
    BY <1>1 DEF ImportFails, Importing, shopVars
  <2>2. CASE i \in Handlers
    BY <1>0, <1>1, <2>1, <2>2, ImporterKeepsClearing DEF ImportFails, Imported
  <2>3. CASE i \notin Handlers
    BY <1>0, <1>1, <2>1, <2>3, ImporterKeepsClearing DEF ImportFails, Done
  <2> QED
    BY <2>2, <2>3
<1>2. ASSUME NEW h \in Handlers, Webhook(h) PROVE ClearingInv'
  <2>0. h \in Importers
    BY DEF Importers
  <2>1. ASSUME NEW d \in Deliveries, Receive(h, d) PROVE ClearingInv'
    <3>1. CASE UNCHANGED importVars
      <4>1. UNCHANGED <<shop, doc>> /\ awaited' \subseteq awaited
        BY <2>1 DEF Receive, Answered, Load
      <4>2. \A j \in Importers : ClearingOK(j)'
        BY <3>1, <4>1, OthersKeepClearing DEF importVars, ClearingInv, ClearingOK
      <4> QED
        BY <1>0, <3>1, <4>1, <4>2 DEF importVars, ClearingInv
    <3>2. CASE Load(h, "loaded", d) /\ awaited' = awaited
      <4>1. d \in 1 .. Len(shop) /\ UNCHANGED <<shop, doc>>
        BY <2>1 DEF Receive, ClearingInv
      <4> QED
        BY <1>0, <2>0, <3>2, <4>1, LoadKeepsClearing
    <3>3. UNCHANGED importVars \/ (Load(h, "loaded", d) /\ awaited' = awaited)
      BY <2>1 DEF Receive
    <3> QED
      BY <3>1, <3>2, <3>3
  <2>2. CASE ClaimDelivery(h)
    <3>1. /\ at[h] = "loaded" /\ at' = [at EXCEPT ![h] = "claimed"]
          /\ UNCHANGED <<shop, awaited, doc, news, edit, saw, stale>>
      BY <2>2 DEF ClaimDelivery, shopVars
    <3>2. \A j \in Importers : at'[j] = at[j] \/ (j = h /\ at[j] = "loaded" /\ at'[j] = "claimed")
      BY <1>0, <3>1 DEF HandlingTypeOK
    <3>3. \A j \in Importers : ClearingOK(j)'
      BY <3>1, <3>2 DEF ClearingInv, ClearingOK, IsNew, Versioned
    <3> QED
      BY <1>0, <3>1, <3>2, <3>3 DEF ClearingInv
  <2>3. CASE Duplicate(h)
    BY <1>0, <2>0, <2>3, ImporterKeepsClearing DEF Duplicate, Done, Answered
  <2>4. CASE Answer(h)
    BY <1>0, <2>0, <2>4, ImporterKeepsClearing DEF Answer, Done, Answered
  <2>5. CASE AnswerFails(h)
    BY <1>0, <2>0, <2>5, ImporterKeepsClearing DEF AnswerFails, Imported, shopVars
  <2>6. CASE Undo(h)
    BY <1>0, <2>0, <2>6, ImporterKeepsClearing DEF Undo, Done, shopVars
  <2>7. CASE Die(h)
    BY <1>0, <2>0, <2>7, ImporterKeepsClearing DEF Die, Done, shopVars
  <2> QED
    BY <1>2, <2>1, <2>2, <2>3, <2>4, <2>5, <2>6, <2>7 DEF Webhook
<1>3. ASSUME NEW s \in Syncs, List(s) PROVE ClearingInv'
  <2>1. Len(shop) \in 1 .. Len(shop)
    BY <1>0, ImportAssumption DEF HandlingTypeOK, Deliveries
  <2> QED
    BY <1>0, <1>3, <2>1, ImporterKeepsClearing DEF List, shopVars, Importers
<1>4. ASSUME NEW s \in Syncs, Read(s) PROVE ClearingInv'
  BY <1>0, <1>4, LoadKeepsClearing DEF Read, shopVars, Importers, ClearingInv
<1>5. CASE UNCHANGED vars
  <2>1. \A j \in Importers : ClearingOK(j)'
    BY <1>5, OthersKeepClearing DEF vars, shopVars, importVars, ClearingInv, ClearingOK
  <2> QED
    BY <1>0, <1>5, <2>1 DEF vars, shopVars, importVars, ClearingInv
<1> QED
  BY <1>0, <1>1, <1>2, <1>3, <1>4, <1>5, SaveKeepsClearing, LocalKeepsClearing,
     EditKeepsClearing DEF ImportNext, Import

\* An import clears the AWB of an order only for a cancellation, and only the
\* AWB it had found there: a shipment booked since stays, however many imports,
\* bookings and cancellations of the order interleave.
THEOREM ShipmentSurvivesImports == ImportSpec => NewShipmentSurvives
<1>1. ASSUME ClearingInv, [ImportNext]_vars, NEW i \in Importers,
             Importing(i), at'[i] # at[i], doc.awb # 0, doc'.awb = 0
      PROVE  shop[news[i]].status = "cancelled" /\ saw[i] = doc.awb
  <2>0. at \in [Importers -> Places] /\ ClearingOK(i) /\ DOMAIN doc = Fields
        /\ (~doc.here => doc.awb = 0)
    BY <1>1 DEF ClearingInv, HandlingTypeOK
  <2>1. at[i] \in {"loaded", "claimed"}
    BY <1>1 DEF Importing
  <2>2. CASE Update(i)
    <3>1. /\ ~IsNew(edit[i]) /\ i \notin stale
          /\ doc' = [f \in DOMAIN doc |->
                       IF f \in DOMAIN edit[i] THEN edit[i][f] ELSE doc[f]]
      BY <2>2 DEF Update
    <3>2. "awb" \in DOMAIN edit[i]
      BY <1>1, <2>0, <3>1 DEF Fields
    <3> QED
      BY <2>0, <2>1, <3>1, <3>2 DEF ClearingOK
  <2>3. doc' # doc
    BY <1>1
  <2>4. CASE ~Update(i)
    <3>1. ASSUME NEW j \in Importers, Import(j) PROVE FALSE
      <4>1. j # i => at'[i] = at[i]
        BY <2>0, <3>1 DEF Import, Save, Update, Create, ImportFails, AfterSave, Imported,
           Done
      <4>2. CASE j = i
        BY <1>1, <2>0, <2>3, <2>4, <3>1, <4>2 DEF Import, Save, Create, ImportFails
      <4> QED
        BY <1>1, <4>1, <4>2
    <3>2. ASSUME NEW h \in Handlers, Webhook(h) PROVE FALSE
      BY <2>3, <3>2 DEF Webhook, Receive, ClaimDelivery, Duplicate, Answer, AnswerFails,
         Undo, Die
    <3>3. ASSUME NEW s \in Syncs, List(s) \/ Read(s) PROVE FALSE
      BY <2>3, <3>3 DEF List, Read
    <3>4. CASE ShopEdit \/ UNCHANGED vars
      BY <2>3, <3>4 DEF ShopEdit, vars
    <3>5. CASE Prepare \/ Begin \/ Book \/ CancelShipment \/ Move \/ MarkJunk \/ DeleteJunk
      BY <1>1, <3>5 DEF Prepare, Begin, Book, CancelShipment, Move, MarkJunk, DeleteJunk, Local
    <3> QED
      BY <1>1, <3>1, <3>2, <3>3, <3>4, <3>5 DEF ImportNext
  <2> QED
    BY <2>2, <2>4
<1>2. ClearingInv /\ [ImportNext]_vars =>
        \A i \in Importers :
          Importing(i) /\ at'[i] # at[i] /\ doc.awb # 0 /\ doc'.awb = 0
            => shop[news[i]].status = "cancelled" /\ saw[i] = doc.awb
  BY <1>1
<1> QED
  BY <1>2, InitClearing, NextClearing, PTL DEF ImportSpec, NewShipmentSurvives
=============================================================================
