------------------------- MODULE PriorityBookingProofs -------------------------
(***************************************************************************)
(* That "process selected" leaves no shipment unaccounted for, asks no     *)
(* second courier, and answers and marks orders truly, for any number of   *)
(* requests on the order, any priority lists and any number of AWBs.       *)
(***************************************************************************)
EXTENDS PriorityBooking, BookingProofs, SequenceTheorems

\* Booked without an AWB: Velocity gave the shipment's id alone.
Bare(o) == o.created /\ o.awb = NoAwb

\* A document has no AWB without the flag, and a save that clears one clears
\* both.
Sound(o) ==
  /\ o.awb # NoAwb => o.created
  /\ Bare(o) => o.status # "reship"

\* The holder of a claim loaded the order without a shipment.
HeldOK(w) == pc[w] = "booking" => ~HasShipment(loaded[w].order)

\* The request's document: as it was loaded or last saved, but for the shipment
\* that Velocity has just made.
DocumentOK(w) ==
  LET m == mem[w] IN
  /\ Sound(m.loaded)
  /\ stage[w] \in {"prep", "reloaded", "claiming", "persist", "create", "mark"} =>
       m.order = m.loaded
  /\ stage[w] \in {"claiming", "persist", "create", "mark"} => ~HasShipment(m.order)
  /\ stage[w] = "next" =>
       m.order = m.loaded \/ (HasShipment(m.order) /\ Made(w) \in unstored)
  /\ stage[w] \in {"next", "claiming", "persist", "create", "save"} =>
       m.loaded.status = "ready_to_ship"
  /\ stage[w] = "save" =>
       /\ ~HasShipment(m.loaded) /\ Made(w) # NoAwb
       /\ m.order.created /\ m.order.status = "pending_pickup"
  /\ pc[w] # "idle" => stage[w] = "claiming"

\* The shipments of a request are its own.
MadeApart ==
  \A w \in Workers :
    /\ made[w] \subseteq issued
    /\ stage[w] \in {"idle", "prep", "reloaded"} => made[w] = {}
    /\ awbOf[w] # NoAwb => awbOf[w] \in made[w]
    /\ \A u \in Workers \ {w} : made[u] \cap made[w] = {}

\* A request that may go on to a courier has had its shipments forgotten, or
\* the last one is in the order by the fallback.
MadeOK(w) ==
  /\ stage[w] \in {"next", "claiming", "persist", "create"}
  /\ ~HasShipment(mem[w].order)
  => \A a \in made[w] \ {awbOf[w]} : a \in Forgotten \/ (reconcile /\ order.awb = a)

\* What a document that nobody overtook says of the stored one.  Only the
\* fallback books an order without overtaking its documents.
CurrentOK(w) ==
  w \in current =>
    /\ stage[w] \in {"prep", "mark"} => mem[w].loaded.status = order.status
    /\ stage[w] = "mark" /\ Booked => reconcile
    /\ stage[w] \in {"prep", "reloaded"} /\ Bare(order) => Bare(mem[w].loaded)

\* Who has seen the order booked, or has booked it, can rely on it, unless a
\* shipment was taken off it since.
Kept == Booked \/ Erased # {}

StoredOK(w) ==
  \/ /\ stage[w] \in {"reloaded", "next"} /\ HasShipment(mem[w].order)
     /\ Made(w) \notin unstored
  \/ stage[w] = "history" \/ pc[w] = "reused"
  => Kept

Saving(a) == \E w \in Workers : stage[w] = "save" /\ Made(w) = a

ShipmentsKnown ==
  \A a \in live \ (Forgotten \cup dropped \cup unstored) :
    order.awb = a \/ (order.created /\ named = a) \/ InFlight(a) \/ Saving(a)

RequestOK(w) ==
  StepOK(w) /\ HeldOK(w) /\ DocumentOK(w) /\ MadeOK(w) /\ CurrentOK(w) /\ StoredOK(w)

PriorityInv ==
  /\ PriorityTypeOK
  /\ Sound(order)
  /\ Bare(order) => named # NoAwb
  /\ \A w \in Workers : RequestOK(w)
  /\ MadeApart
  /\ ShipmentsKnown

-----------------------------------------------------------------------------
\* Types.

LEMMA ListType ==
  ASSUME NEW l \in Lists \cup {<<>>}
  PROVE  l \in Seq({"velocity", "claimed"}) /\ Len(l) \in Nat
<1>1. <<>> \in Seq({"velocity", "claimed"})
  BY EmptySeq
<1>2. Lists \subseteq Seq({"velocity", "claimed"})
  BY ListsAssumption
<1> QED
  BY <1>1, <1>2, LenProperties

LEMMA FirstRest ==
  ASSUME NEW l \in Lists \cup {<<>>}
  PROVE  l \in Rests
<1>1. l \in Seq({"velocity", "claimed"}) /\ Len(l) \in Nat
  BY ListType
<1>2. l = SubSeq(l, 1, Len(l))
  BY <1>1, SubSeqFull
<1>3. l \in {SubSeq(l, n, Len(l)) : n \in 1 .. Len(l) + 1}
  BY <1>1, <1>2
<1> QED
  BY <1>3 DEF Rests

LEMMA NextRest ==
  ASSUME NEW r \in Rests, r # <<>>
  PROVE  Tail(r) \in Rests
<1>1. PICK l \in Lists \cup {<<>>} :
        r \in {SubSeq(l, n, Len(l)) : n \in 1 .. Len(l) + 1}
  BY Zenon DEF Rests
<1>2. PICK n \in 1 .. Len(l) + 1 : r = SubSeq(l, n, Len(l))
  BY <1>1, Zenon
<1>3. l \in Seq({"velocity", "claimed"}) /\ Len(l) \in Nat
  BY ListType
<1>4. n \in 1 .. Len(l)
  <2>1. CASE Len(l) < n
    BY <1>2, <1>3, <2>1, SubSeqEmpty
  <2> QED
    BY <1>3, <2>1
<1>5. Tail(r) = SubSeq(l, n + 1, Len(l)) /\ n + 1 \in 1 .. Len(l) + 1
  <2>1. Len(l) \in n .. Len(l) /\ n + 1 \in 1 .. Len(l) + 1
    BY <1>3, <1>4
  <2> QED
    BY <1>2, <1>3, <1>4, <2>1, HeadTailOfSubSeq
<1>6. Tail(r) \in {SubSeq(l, k, Len(l)) : k \in 1 .. Len(l) + 1}
  BY <1>5
<1> QED
  BY <1>6 DEF Rests

\* What a request's save writes is a document.
LEMMA SavedType ==
  ASSUME PriorityTypeOK, NEW w \in Workers, NEW new \in Orders,
         SavedWithArrays(w, new)
  PROVE  /\ order' \in Orders /\ overridden' \in BOOLEAN
         /\ fresh' = {} /\ current' = {w} /\ wiped' \subseteq Awbs
<1>1. /\ order \in Orders /\ mem[w].loaded \in Orders /\ wiped \subseteq Awbs
      /\ overridden \in BOOLEAN
  BY DEF PriorityTypeOK, LorrigoTypeOK, TypeOK, Memories
<1>2. order.awb \in Awbs \cup {NoAwb}
  BY <1>1 DEF Orders
<1> QED
  BY <1>1, <1>2, SavedFields DEF SavedWithArrays, StillBooking

LEMMA PreparedType ==
  ASSUME PriorityTypeOK, NEW w \in Workers
  PROVE  Prepared(w) \in Orders /\ PreparedVid(w) \in Ids \cup {NoId}
BY DEF PriorityTypeOK, Memories, Prepared, PreparedVid, Orders, Statuses, NoId

\* The part of the types that is not Lorrigo's.
RequestTypes ==
  /\ stage \in [Workers -> Stages]
  /\ todo \in [Workers -> Rests]
  /\ mem \in [Workers -> Memories]
  /\ current \subseteq Workers
  /\ minted \in 0 .. VelocityIds /\ vid \in 0 .. minted
  /\ \A w \in Workers : mem[w].vid <= minted /\ mem[w].loadedVid <= minted
  /\ \A w \in Workers : stage[w] \in {"create", "save"} => mem[w].vid # NoId
  /\ shipped \in [Ids -> Awbs \cup {NoAwb}]
  /\ made \in [Workers -> SUBSET Awbs]
  /\ unstored \subseteq Awbs
  /\ named \in Awbs \cup {NoAwb} /\ dropped \subseteq Awbs

\* What the order names its shipment by, and did.
NameTypes == named \in Awbs \cup {NoAwb} /\ dropped \subseteq Awbs

LEMMA NamesType ==
  ASSUME PriorityTypeOK, NEW n \in Awbs \cup {NoAwb}, Names(n)
  PROVE  NameTypes'
BY DEF PriorityTypeOK, Names, NameTypes

LEMMA TypeParts == PriorityTypeOK <=> LorrigoTypeOK /\ RequestTypes
  BY DEF PriorityTypeOK, RequestTypes

LEMMA InitTypes == PriorityInit => PriorityTypeOK
<1> SUFFICES ASSUME PriorityInit PROVE PriorityTypeOK
  OBVIOUS
<1>1. LorrigoTypeOK /\ order \in Orders
  BY InitBook DEF PriorityInit, BookInv, LorrigoTypeOK, TypeOK
<1>2. <<>> \in Rests
  BY FirstRest
<1>3. RequestTypes
  BY <1>1, <1>2, ListsAssumption
     DEF PriorityInit, RequestTypes, Remembered, Memories, Stages, NoId, Ids
<1> QED
  BY <1>1, <1>3, TypeParts

\* A step of request w, of which the types are seen at once but for those
\* that relate the minted ids to the documents.
LEMMA RequestTypesKeep ==
  ASSUME PriorityTypeOK, NEW w \in Workers,
         NEW s \in Stages, Enter(w, s),
         NEW m \in Memories, mem' = [mem EXCEPT ![w] = m],
         minted' \in minted .. VelocityIds, vid' \in 0 .. minted',
         m.vid <= minted', m.loadedVid <= minted',
         s \in {"create", "save"} => m.vid # NoId,
         todo' \in [Workers -> Rests], current' \subseteq Workers,
         shipped' \in [Ids -> Awbs \cup {NoAwb}],
         made' \in [Workers -> SUBSET Awbs], unstored' \subseteq Awbs, NameTypes'
  PROVE  RequestTypes'
<1>1. RequestTypes
  BY TypeParts
<1>2. minted \in Nat /\ minted' \in 0 .. VelocityIds /\ minted <= minted'
  BY <1>1, ListsAssumption DEF RequestTypes
<1>3. \A u \in Workers : mem[u].vid \in Int /\ mem[u].loadedVid \in Int
  BY <1>1 DEF RequestTypes, Memories, Ids, NoId
<1>4. \A u \in Workers : mem'[u].vid <= minted' /\ mem'[u].loadedVid <= minted'
  BY <1>1, <1>2, <1>3 DEF RequestTypes
<1>5. \A u \in Workers : stage'[u] \in {"create", "save"} => mem'[u].vid # NoId
  BY <1>1 DEF RequestTypes, Enter
<1>6. stage' \in [Workers -> Stages] /\ mem' \in [Workers -> Memories]
  BY <1>1 DEF RequestTypes, Enter
<1> QED
  BY <1>2, <1>4, <1>5, <1>6 DEF RequestTypes, NameTypes

\* The same when no id is minted, and no shipment made or missed.
LEMMA PlainTypes ==
  ASSUME PriorityTypeOK, LorrigoTypeOK', NEW w \in Workers,
         NEW s \in Stages, Enter(w, s),
         NEW m \in Memories, mem' = [mem EXCEPT ![w] = m],
         m.vid <= minted, m.loadedVid <= minted,
         s \in {"create", "save"} => m.vid # NoId,
         minted' = minted, vid' \in 0 .. minted,
         todo' \in [Workers -> Rests], current' \subseteq Workers,
         shipped' \in [Ids -> Awbs \cup {NoAwb}],
         made' \in [Workers -> SUBSET Awbs], unstored' \subseteq Awbs, NameTypes'
  PROVE  PriorityTypeOK'
<1>1. minted' \in minted .. VelocityIds
  BY ListsAssumption DEF PriorityTypeOK
<1>2. RequestTypes'
  BY <1>1, RequestTypesKeep
<1> QED
  BY <1>2 DEF PriorityTypeOK, RequestTypes

\* Steps that leave the document of the request, or load it again.
LEMMA SameTypes ==
  ASSUME PriorityTypeOK, LorrigoTypeOK', NEW w \in Workers,
         NEW s \in Stages, Enter(w, s), mem' = mem,
         s \in {"create", "save"} => mem[w].vid # NoId,
         UNCHANGED <<minted, vid, shipped>>, todo' \in [Workers -> Rests],
         current' \subseteq Workers, made' \in [Workers -> SUBSET Awbs],
         unstored' \subseteq Awbs, NameTypes'
  PROVE  PriorityTypeOK'
<1>1. RequestTypes
  BY TypeParts
<1>2. /\ mem[w] \in Memories /\ mem' = [mem EXCEPT ![w] = mem[w]]
      /\ mem[w].vid <= minted /\ mem[w].loadedVid <= minted
      /\ shipped' \in [Ids -> Awbs \cup {NoAwb}]
      /\ minted' = minted /\ vid' \in 0 .. minted
  BY <1>1 DEF RequestTypes
<1> QED
  BY <1>2, PlainTypes

LEMMA LoadedTypes ==
  ASSUME PriorityTypeOK, NEW w \in Workers, UNCHANGED bookVars,
         NEW s \in {"prep", "reloaded", "mark"}, Enter(w, s),
         mem' = [mem EXCEPT ![w] = Remembered(order, vid)],
         current' = current \cup {w},
         UNCHANGED velocityVars, made' = made, todo' \in [Workers -> Rests]
  PROVE  PriorityTypeOK'
<1>1. RequestTypes
  BY TypeParts
<1>2. LorrigoTypeOK' /\ order \in Orders
  BY NextLorrigoType DEF PriorityTypeOK, LorrigoTypeOK, TypeOK
<1>3. vid \in Ids \cup {NoId} /\ vid <= minted
  BY <1>1, ListsAssumption DEF RequestTypes, Ids, NoId
<1>4. /\ Remembered(order, vid) \in Memories
      /\ Remembered(order, vid).vid <= minted
      /\ Remembered(order, vid).loadedVid <= minted
  BY <1>2, <1>3 DEF Remembered, Memories
<1>5. /\ minted' = minted /\ vid' \in 0 .. minted /\ current' \subseteq Workers
      /\ shipped' \in [Ids -> Awbs \cup {NoAwb}] /\ made' \in [Workers -> SUBSET Awbs]
      /\ unstored' \subseteq Awbs /\ s \in Stages /\ NameTypes'
  BY <1>1 DEF RequestTypes, NameTypes, velocityVars, idVars, nameVars, Stages
<1> QED
  BY <1>2, <1>4, <1>5, PlainTypes

\* The steps of a request that say nothing to the store nor to a courier.
LEMMA OwnStepTypes ==
  ASSUME PriorityTypeOK, NEW w \in Workers, DocumentOK(w),
         \/ Begin(w) \/ Skip(w) \/ PrepReloads(w) \/ PrepFails(w)
         \/ TakeNext(w) \/ VelocityRefuses(w) \/ VelocityRejects(w)
         \/ HistoryFails(w) \/ VelocitySaveFails(w) \/ Fail(w) \/ MarkLost(w)
  PROVE  PriorityTypeOK'
<1>1. RequestTypes /\ mem[w] \in Memories
  BY TypeParts DEF RequestTypes
<1>2. UNCHANGED bookVars /\ LorrigoTypeOK'
  <2>1. UNCHANGED bookVars
    BY DEF Begin, Skip, PrepReloads, PrepFails, TakeNext, VelocityRefuses,
       VelocityRejects, HistoryFails, VelocitySaveFails, Fail, MarkLost
  <2> QED
    BY <2>1, NextLorrigoType DEF PriorityTypeOK
<1>3. CASE Begin(w)
  <2>1. todo' \in [Workers -> Rests]
    BY <1>1, <1>3, FirstRest DEF Begin, RequestTypes
  <2> QED
    BY <1>2, <1>3, <2>1, LoadedTypes DEF Begin
<1>4. CASE PrepReloads(w)
  BY <1>1, <1>2, <1>4, LoadedTypes DEF PrepReloads, RequestTypes
<1>5. CASE Fail(w) /\ ~(HasShipment(mem[w].order) \/ Booked)
  BY <1>1, <1>2, <1>5, LoadedTypes DEF Fail, RequestTypes
<1>6. ASSUME NEW s \in {"skipped", "fail", "next", "updated", "failed", "claiming",
                         "persist"},
             Enter(w, s),
             UNCHANGED <<mem, current, made, vid, minted, shipped, nameVars>>,
             todo' \in [Workers -> Rests], unstored' \subseteq Awbs
      PROVE  PriorityTypeOK'
  <2>1. /\ s \in Stages /\ current' \subseteq Workers
        /\ made' \in [Workers -> SUBSET Awbs] /\ NameTypes'
    BY <1>1, <1>6 DEF RequestTypes, NameTypes, nameVars, Stages
  <2> QED
    BY <1>2, <1>6, <2>1, SameTypes
<1>7. CASE Fail(w) /\ (HasShipment(mem[w].order) \/ Booked)
  BY <1>1, <1>6, <1>7 DEF Fail, velocityVars, idVars, RequestTypes
<1>8. CASE TakeNext(w)
  <2>1. todo[w] # <<>> => Tail(todo[w]) \in Rests
    BY <1>1, NextRest DEF RequestTypes
  <2>2. todo' \in [Workers -> Rests]
    BY <1>1, <1>8, <2>1 DEF TakeNext, RequestTypes
  <2>3. PICK s \in {"updated", "fail", "persist", "claiming"} : Enter(w, s)
    BY <1>8 DEF TakeNext
  <2> QED
    BY <1>1, <1>6, <1>8, <2>2, <2>3 DEF TakeNext, velocityVars, idVars, RequestTypes
<1>9. CASE VelocitySaveFails(w)
  <2>1. Made(w) \in Awbs
    BY <1>1, <1>9 DEF VelocitySaveFails, DocumentOK, Made, RequestTypes, Memories
  <2> QED
    BY <1>1, <1>6, <1>9, <2>1 DEF VelocitySaveFails, RequestTypes
<1>10. CASE \/ Skip(w) \/ PrepFails(w) \/ VelocityRefuses(w) \/ VelocityRejects(w)
            \/ HistoryFails(w) \/ MarkLost(w)
  <2>1. PICK s \in {"skipped", "fail", "next", "updated", "failed"} : Enter(w, s)
    BY <1>10 DEF Skip, PrepFails, VelocityRefuses, VelocityRejects, HistoryFails,
       MarkLost
  <2>2. UNCHANGED <<todo, mem, current, made, velocityVars>>
    BY <1>10 DEF Skip, PrepFails, VelocityRefuses, VelocityRejects, HistoryFails,
       MarkLost
  <2> QED
    BY <1>1, <1>6, <2>1, <2>2 DEF velocityVars, idVars, RequestTypes
<1> QED
  BY <1>3, <1>4, <1>5, <1>7, <1>8, <1>9, <1>10

\* The saves of a request: what they leave of Lorrigo's variables.
LEMMA SaveTypes ==
  ASSUME PriorityTypeOK, NEW w \in Workers, NEW new \in Orders,
         SavedWithArrays(w, new), recorded' \in {recorded, NoAwb},
         UNCHANGED <<pc, key, owner, step, awbOf, loaded, courierVars, reconcile,
                     cancel>>
  PROVE  LorrigoTypeOK'
<1>1. /\ order' \in Orders /\ overridden' \in BOOLEAN
      /\ fresh' = {} /\ wiped' \subseteq Awbs
  BY SavedType
<1> QED
  BY <1>1 DEF PriorityTypeOK, LorrigoTypeOK, TypeOK, courierVars

LEMMA PrepSavesTypes ==
  ASSUME PriorityTypeOK, NEW w \in Workers, PrepSaves(w)
  PROVE  PriorityTypeOK'
<1> DEFINE m == Remembered(Prepared(w), PreparedVid(w))
<1>1. RequestTypes /\ mem[w] \in Memories
  BY TypeParts DEF RequestTypes
<1>2. Prepared(w) \in Orders /\ PreparedVid(w) \in Ids \cup {NoId}
  BY PreparedType
<1>3. PreparedVid(w) <= minted /\ PreparedVid(w) \in 0 .. minted
  BY <1>1, <1>2, ListsAssumption DEF RequestTypes, PreparedVid, NoId, Ids
<1>4. m \in Memories /\ m.vid <= minted /\ m.loadedVid <= minted
  BY <1>2, <1>3 DEF Remembered, Memories
<1>5. /\ Enter(w, "next") /\ mem' = [mem EXCEPT ![w] = m]
      /\ UNCHANGED <<pc, key, owner, step, awbOf, loaded, courierVars, reconcile,
                     cancel, todo, made, minted, shipped, unstored>>
  BY DEF PrepSaves
<1>6. /\ LorrigoTypeOK' /\ current' \subseteq Workers /\ vid' \in 0 .. minted
      /\ NameTypes'
  <2>1. CASE mem[w].order.status = "ready_to_ship"
    <3>1. UNCHANGED <<order, current, fresh, wiped, overridden, vid, recorded, nameVars>>
      BY <2>1 DEF PrepSaves
    <3>2. UNCHANGED bookVars
      BY <1>5, <3>1 DEF bookVars, claimVars, docVars
    <3>3. NameTypes'
      BY <1>1, <3>1 DEF RequestTypes, NameTypes, nameVars
    <3> QED
      BY <1>1, <3>1, <3>2, <3>3, NextLorrigoType DEF PriorityTypeOK
  <2>2. CASE mem[w].order.status # "ready_to_ship"
    <3>1. /\ SavedWithArrays(w, Prepared(w)) /\ vid' = SavedVid(w, PreparedVid(w))
          /\ recorded' \in {recorded, NoAwb}
          /\ Names(IF Clears(w) THEN NoAwb ELSE named)
      BY <2>2 DEF PrepSaves
    <3>2. NameTypes'
      BY <1>1, <3>1, NamesType DEF RequestTypes
    <3> QED
      BY <1>1, <1>2, <1>3, <1>5, <3>1, <3>2, SaveTypes, SavedType
         DEF SavedVid, RequestTypes
  <2> QED
    BY <2>1, <2>2
<1>7. /\ todo' \in [Workers -> Rests] /\ made' \in [Workers -> SUBSET Awbs]
      /\ shipped' \in [Ids -> Awbs \cup {NoAwb}] /\ unstored' \subseteq Awbs
      /\ minted' = minted
  BY <1>1, <1>5 DEF RequestTypes
<1> QED
  BY <1>4, <1>5, <1>6, <1>7, PlainTypes DEF Stages

LEMMA VelocitySavesTypes ==
  ASSUME PriorityTypeOK, NEW w \in Workers, VelocitySaves(w)
  PROVE  PriorityTypeOK'
<1> DEFINE m == Remembered(mem[w].order, mem[w].vid)
<1>1. RequestTypes /\ mem[w] \in Memories /\ mem[w].order \in Orders
  BY TypeParts DEF RequestTypes, Memories
<1>2. m \in Memories /\ m.vid <= minted /\ m.loadedVid <= minted
  BY <1>1 DEF Remembered, Memories, RequestTypes
<1>3. LorrigoTypeOK' /\ current' \subseteq Workers
  BY <1>1, SaveTypes, SavedType DEF VelocitySaves
<1>4. vid' \in 0 .. minted
  BY <1>1, ListsAssumption
     DEF VelocitySaves, SavedVid, RequestTypes, Memories, Ids, NoId
<1>5. /\ todo' \in [Workers -> Rests] /\ made' \in [Workers -> SUBSET Awbs]
      /\ shipped' \in [Ids -> Awbs \cup {NoAwb}] /\ unstored' \subseteq Awbs
      /\ minted' = minted
  BY <1>1 DEF RequestTypes, VelocitySaves
<1>6. NameTypes'
  <2>1. Made(w) \in Awbs \cup {NoAwb}
    BY <1>1 DEF Made, RequestTypes, Memories
  <2> QED
    BY <2>1, NamesType DEF VelocitySaves
<1> QED
  BY <1>2, <1>3, <1>4, <1>5, <1>6, PlainTypes DEF Stages, VelocitySaves

LEMMA MarkFailedTypes ==
  ASSUME PriorityTypeOK, NEW w \in Workers, MarkFailed(w)
  PROVE  PriorityTypeOK'
<1>1. RequestTypes /\ mem[w] \in Memories /\ mem[w].order \in Orders
  BY TypeParts DEF RequestTypes, Memories
<1>2. [mem[w].order EXCEPT !.status = "booking_failed", !.inProgress = FALSE] \in Orders
  BY <1>1 DEF Orders, Statuses, RebookableStatuses
<1>3. LorrigoTypeOK' /\ current' \subseteq Workers
  BY <1>1, <1>2, SaveTypes, SavedType DEF MarkFailed
<1>4. /\ todo' \in [Workers -> Rests] /\ made' \in [Workers -> SUBSET Awbs]
      /\ unstored' \subseteq Awbs /\ NameTypes'
  BY <1>1 DEF RequestTypes, NameTypes, MarkFailed, velocityVars, idVars, nameVars
<1> QED
  BY <1>3, <1>4, SameTypes DEF Stages, MarkFailed, velocityVars, idVars

LEMMA PersistTypes ==
  ASSUME PriorityTypeOK, NEW w \in Workers, Persist(w)
  PROVE  PriorityTypeOK'
<1>1. RequestTypes /\ mem[w] \in Memories
  BY TypeParts DEF RequestTypes
<1>2. LorrigoTypeOK'
  BY NextLorrigoType DEF PriorityTypeOK, Persist
<1>3. /\ Enter(w, "create") /\ current' \subseteq Workers
      /\ todo' \in [Workers -> Rests] /\ made' \in [Workers -> SUBSET Awbs]
      /\ shipped' \in [Ids -> Awbs \cup {NoAwb}] /\ unstored' \subseteq Awbs
      /\ NameTypes'
  BY <1>1 DEF Persist, RequestTypes, NameTypes, nameVars
<1>4. CASE mem[w].vid # NoId
  <2>1. UNCHANGED <<mem, vid, minted, shipped>>
    BY <1>4 DEF Persist
  <2> QED
    BY <1>2, <1>3, <1>4, <2>1, SameTypes DEF Stages
<1>5. CASE mem[w].vid = NoId
  <2>1. /\ minted' = minted + 1 /\ minted' \in minted .. VelocityIds
        /\ minted' \in Ids /\ minted' # NoId
        /\ vid' \in 0 .. minted' /\ minted <= minted'
    BY <1>1, <1>5, ListsAssumption DEF Persist, RequestTypes, Ids, NoId
  <2>2. PICK i \in {mem[w].loadedVid, minted'} :
          mem' = [mem EXCEPT ![w] = [mem[w] EXCEPT !.vid = minted', !.loadedVid = i]]
    <3>1. CASE mem' = [mem EXCEPT ![w].vid = minted + 1, ![w].loadedVid = minted + 1]
      BY <1>1, <2>1, <3>1 DEF Memories, RequestTypes
    <3>2. CASE mem' = [mem EXCEPT ![w].vid = minted + 1]
      BY <1>1, <2>1, <3>2 DEF Memories, RequestTypes
    <3> QED
      BY <1>5, <3>1, <3>2 DEF Persist
  <2> DEFINE m == [mem[w] EXCEPT !.vid = minted', !.loadedVid = i]
  <2>3. m \in Memories /\ m.vid = minted' /\ m.loadedVid = i
    BY <1>1, <2>1 DEF Memories
  <2>4. m.vid <= minted' /\ m.loadedVid <= minted'
    BY <1>1, <2>1, <2>3, ListsAssumption DEF Memories, RequestTypes, Ids, NoId
  <2>5. RequestTypes'
    BY <1>3, <2>1, <2>2, <2>3, <2>4, RequestTypesKeep DEF Stages
  <2> QED
    BY <1>2, <2>5 DEF PriorityTypeOK, RequestTypes
<1> QED
  BY <1>4, <1>5

\* What Velocity's answer is about: a shipment of its own, made now or before,
\* under an order id that it keeps.
Grows == \A i \in Ids : shipped[i] # NoAwb => shipped'[i] = shipped[i]

LEMMA ShipsTypes ==
  ASSUME PriorityTypeOK, NEW w \in Workers, NEW i \in Ids, Ships(w, i)
  PROVE  /\ shipped'[i] \in Awbs
         /\ shipped' \in [Ids -> Awbs \cup {NoAwb}] /\ Grows
         /\ made' \in [Workers -> SUBSET Awbs]
         /\ \E new \in SUBSET (Awbs \ issued) :
              /\ new \subseteq {shipped'[i]}
              /\ live' = live \cup new /\ issued' = issued \cup new
              /\ made' = [made EXCEPT ![w] = made[w] \cup new]
<1>1. /\ shipped \in [Ids -> Awbs \cup {NoAwb}]
      /\ made \in [Workers -> SUBSET Awbs]
  BY TypeParts DEF RequestTypes
<1>2. CASE shipped[i] # NoAwb
  <2>1. UNCHANGED <<shipped, live, issued, made>>
    BY <1>2 DEF Ships
  <2>2. /\ live' = live \cup {} /\ issued' = issued \cup {}
        /\ made' = [made EXCEPT ![w] = made[w] \cup {}]
    BY <1>1, <2>1
  <2> QED
    BY <1>1, <1>2, <2>1, <2>2 DEF Grows
<1>3. CASE shipped[i] = NoAwb
  <2>1. PICK a \in Awbs \ issued :
          /\ shipped' = [shipped EXCEPT ![i] = a]
          /\ live' = live \cup {a} /\ issued' = issued \cup {a}
          /\ made' = [made EXCEPT ![w] = @ \cup {a}]
    BY <1>3 DEF Ships
  <2>2. {a} \in SUBSET (Awbs \ issued) /\ {a} \subseteq {shipped'[i]}
    BY <1>1, <2>1
  <2> QED
    BY <1>1, <1>3, <2>1, <2>2 DEF Grows
<1> QED
  BY <1>2, <1>3

\* The order id it is sent under: that of the document, or one made for it.
LEMMA SendsTypes ==
  ASSUME PriorityTypeOK, NEW w \in Workers, NEW i \in Ids, Sends(w, i)
  PROVE  minted' \in minted .. VelocityIds /\ i <= minted' /\ vid \in 0 .. minted'
<1>1. RequestTypes /\ mem[w] \in Memories
  BY TypeParts DEF RequestTypes
<1>2. /\ minted \in 0 .. VelocityIds /\ vid \in 0 .. minted /\ i \in 1 .. VelocityIds
      /\ mem[w].vid <= minted
  BY <1>1 DEF RequestTypes, Ids
<1> QED
  BY <1>2, ListsAssumption DEF Sends

\* The document after the answer.
Answered(w, i, a) ==
  [mem[w] EXCEPT !.vid = i,
                 !.order = [@ EXCEPT !.created = TRUE, !.awb = a,
                                     !.status = "pending_pickup"]]

LEMMA AnsweredType ==
  ASSUME PriorityTypeOK, NEW w \in Workers, NEW i \in Ids, NEW a \in Awbs \cup {NoAwb}
  PROVE  /\ Answered(w, i, a) \in Memories /\ Answered(w, i, a).vid = i
         /\ Answered(w, i, a).loaded = mem[w].loaded
         /\ Answered(w, i, a).loadedVid = mem[w].loadedVid
         /\ Answered(w, i, a).order.created
         /\ Answered(w, i, a).order.status = "pending_pickup"
         /\ Answered(w, i, a).order.inProgress = mem[w].order.inProgress
         /\ Answered(w, i, a).order.at = mem[w].order.at
<1>1. mem[w] \in Memories /\ mem[w].order \in Orders
  BY TypeParts DEF RequestTypes, Memories
<1>2. [mem[w].order EXCEPT !.created = TRUE, !.awb = a, !.status = "pending_pickup"]
        \in Orders
  BY <1>1 DEF Orders, Statuses
<1> QED
  BY <1>1, <1>2 DEF Answered, Memories, Orders

LEMMA VelocityStep ==
  ASSUME PriorityTypeOK, NEW w \in Workers, VelocityAccepts(w) \/ VelocityTimesOut(w)
  PROVE  \E i \in Ids :
           /\ Sends(w, i) /\ Ships(w, i)
           /\ \/ /\ VelocityAccepts(w) /\ Enter(w, "save")
                 /\ \E a \in Awbs \cup {NoAwb} :
                      mem' = [mem EXCEPT ![w] = Answered(w, i, a)]
              \/ /\ VelocityTimesOut(w) /\ Enter(w, "next") /\ mem' = mem
                 /\ shipped'[i] \in lost'
<1>1. mem \in [Workers -> Memories]
  BY TypeParts DEF RequestTypes
<1>2. CASE VelocityAccepts(w)
  <2>1. PICK i \in Ids : Sends(w, i) /\ Ships(w, i) /\ \E a \in {shipped'[i], NoAwb} :
          mem' = [mem EXCEPT ![w].vid = i,
                             ![w].order = [@ EXCEPT !.created = TRUE, !.awb = a,
                                                    !.status = "pending_pickup"]]
    BY <1>2 DEF VelocityAccepts
  <2>2. PICK a \in {shipped'[i], NoAwb} :
          mem' = [mem EXCEPT ![w].vid = i,
                             ![w].order = [@ EXCEPT !.created = TRUE, !.awb = a,
                                                    !.status = "pending_pickup"]]
    BY <2>1
  <2>3. a \in Awbs \cup {NoAwb}
    BY <2>1, <2>2, ShipsTypes
  <2>4. mem' = [mem EXCEPT ![w] = Answered(w, i, a)]
    BY <1>1, <2>2 DEF Answered, Memories
  <2> QED
    BY <1>2, <2>1, <2>3, <2>4 DEF VelocityAccepts
<1>3. CASE VelocityTimesOut(w)
  BY <1>3 DEF VelocityTimesOut
<1> QED
  BY <1>2, <1>3

LEMMA VelocityTypes ==
  ASSUME PriorityTypeOK, NEW w \in Workers, VelocityAccepts(w) \/ VelocityTimesOut(w)
  PROVE  PriorityTypeOK'
<1>0. PICK i \in Ids :
        /\ Sends(w, i) /\ Ships(w, i)
        /\ \/ /\ VelocityAccepts(w) /\ Enter(w, "save")
              /\ \E a \in Awbs \cup {NoAwb} :
                   mem' = [mem EXCEPT ![w] = Answered(w, i, a)]
           \/ /\ VelocityTimesOut(w) /\ Enter(w, "next") /\ mem' = mem
              /\ shipped'[i] \in lost'
  BY VelocityStep
<1>1. /\ RequestTypes /\ LorrigoTypeOK /\ TypeOK /\ mem[w] \in Memories
  BY TypeParts DEF RequestTypes, LorrigoTypeOK
<1>2. /\ shipped'[i] \in Awbs /\ shipped' \in [Ids -> Awbs \cup {NoAwb}]
      /\ made' \in [Workers -> SUBSET Awbs]
      /\ \E new \in SUBSET (Awbs \ issued) :
           live' = live \cup new /\ issued' = issued \cup new
  BY <1>0, ShipsTypes
<1>3. /\ live' \subseteq issued' /\ issued' \subseteq Awbs /\ lost' \subseteq Awbs
  <2>1. lost' \subseteq Awbs
    <3>1. CASE VelocityAccepts(w)
      BY <1>1, <3>1 DEF VelocityAccepts, LorrigoTypeOK
    <3>2. CASE VelocityTimesOut(w)
      <4>1. PICK j \in Ids : Ships(w, j) /\ lost' = lost \cup {shipped'[j]}
        BY <3>2 DEF VelocityTimesOut
      <4> QED
        BY <1>1, <4>1, ShipsTypes DEF LorrigoTypeOK
    <3> QED
      BY <3>1, <3>2
  <2> QED
    BY <1>1, <1>2, <2>1 DEF LorrigoTypeOK
<1>4. LorrigoTypeOK'
  <2>1. UNCHANGED <<claimVars, step, awbOf, loaded, fresh, docVars, cancel>>
    BY DEF VelocityAccepts, VelocityTimesOut
  <2> QED
    BY <1>1, <1>3, <2>1 DEF LorrigoTypeOK, TypeOK, claimVars, docVars
<1>5. /\ current' \subseteq Workers /\ NameTypes' /\ vid' = vid
      /\ todo' \in [Workers -> Rests] /\ unstored' \subseteq Awbs
  BY <1>1 DEF VelocityAccepts, VelocityTimesOut, RequestTypes, NameTypes, nameVars
<1>6. minted' \in minted .. VelocityIds /\ i <= minted' /\ vid' \in 0 .. minted'
  BY <1>0, <1>5, SendsTypes
<1>7. minted \in Nat /\ minted' \in Nat /\ minted <= minted'
  BY <1>1, <1>6, ListsAssumption DEF RequestTypes
<1>8. ASSUME NEW m \in Memories, mem' = [mem EXCEPT ![w] = m], NEW s \in {"save", "next"},
             Enter(w, s), m.vid <= minted', m.loadedVid <= minted',
             s = "save" => m.vid # NoId
      PROVE  PriorityTypeOK'
  <2>1. RequestTypes'
    BY <1>2, <1>5, <1>6, <1>8, RequestTypesKeep DEF Stages
  <2> QED
    BY <1>4, <2>1 DEF PriorityTypeOK, RequestTypes
<1>9. mem[w].loadedVid <= minted' /\ mem[w].vid <= minted'
  BY <1>1, <1>7 DEF RequestTypes, Memories, Ids, NoId
<1>10. CASE VelocityAccepts(w) /\ Enter(w, "save")
  <2>0. ~Enter(w, "next")
    BY <1>1, <1>10 DEF Enter, RequestTypes
  <2>1. PICK a \in Awbs \cup {NoAwb} : mem' = [mem EXCEPT ![w] = Answered(w, i, a)]
    BY <1>0, <2>0
  <2> DEFINE m == Answered(w, i, a)
  <2>2. m \in Memories /\ m.vid = i /\ m.loadedVid = mem[w].loadedVid /\ i # NoId
    BY AnsweredType DEF Ids, NoId
  <2> HIDE DEF m
  <2>3. mem' = [mem EXCEPT ![w] = m] /\ m.vid <= minted' /\ m.loadedVid <= minted'
    BY <1>6, <1>9, <2>1, <2>2 DEF m
  <2> QED
    BY <1>8, <1>10, <2>2, <2>3
<1>11. CASE Enter(w, "next") /\ mem' = mem
  <2>1. mem' = [mem EXCEPT ![w] = mem[w]]
    BY <1>1, <1>11 DEF RequestTypes
  <2> QED
    BY <1>1, <1>8, <1>9, <1>11, <2>1
<1> QED
  BY <1>0, <1>10, <1>11

LEMMA HistoryTypes ==
  ASSUME PriorityTypeOK, NEW w \in Workers, HistorySaves(w)
  PROVE  PriorityTypeOK'
<1>1. RequestTypes /\ LorrigoTypeOK
  BY TypeParts
<1>2. LorrigoTypeOK'
  BY <1>1 DEF HistorySaves, LorrigoTypeOK, TypeOK, claimVars, courierVars, docVars
<1>3. /\ Enter(w, "updated") /\ mem' = mem /\ UNCHANGED <<minted, vid, shipped>>
      /\ todo' \in [Workers -> Rests] /\ current' \subseteq Workers
      /\ made' \in [Workers -> SUBSET Awbs] /\ unstored' \subseteq Awbs /\ NameTypes'
  BY <1>1 DEF HistorySaves, RequestTypes, NameTypes, velocityVars, idVars, nameVars
<1> QED
  BY <1>2, <1>3, SameTypes DEF Stages

LEMMA ClaimedTypes ==
  ASSUME PriorityTypeOK, NEW w \in Workers, ClaimedBooking(w)
  PROVE  PriorityTypeOK'
<1>1. RequestTypes /\ LorrigoTypeOK
  BY TypeParts
<1>2. LorrigoTypeOK'
  <2>1. Claim(w) \/ BookingStep(w)
    BY DEF ClaimedBooking, ClaimedStep, BookingStep
  <2>2. LorrigoNext
    BY <2>1 DEF LorrigoNext
  <2> QED
    BY <1>1, <2>2, NextLorrigoType
<1>3. issued' \subseteq Awbs
  BY <1>2 DEF LorrigoTypeOK
<1>4. made' \in [Workers -> SUBSET Awbs] /\ current' \subseteq Workers
  BY <1>1, <1>3 DEF ClaimedBooking, ClaimedStep, RequestTypes
<1>5. /\ mem' = mem /\ UNCHANGED <<minted, vid, shipped>>
      /\ todo' \in [Workers -> Rests] /\ unstored' \subseteq Awbs /\ NameTypes'
  BY <1>1, NamesType DEF ClaimedBooking, RequestTypes, idVars
<1>6. PICK s \in {"claiming", "updated", "next"} : Enter(w, s)
  BY DEF ClaimedBooking
<1> QED
  BY <1>2, <1>4, <1>5, <1>6, SameTypes DEF Stages

LEMMA DiesTypes ==
  ASSUME PriorityTypeOK, NEW w \in Workers, DocumentOK(w), Dies(w)
  PROVE  PriorityTypeOK'
<1>1. RequestTypes /\ LorrigoTypeOK
  BY TypeParts
<1>2. LorrigoTypeOK'
  <2>1. CASE Die(w)
    BY <1>1, <2>1, NextLorrigoType DEF LorrigoNext
  <2>2. CASE ~Die(w)
    <3>1. stage[w] = "save" => Made(w) \in Awbs
      BY <1>1 DEF RequestTypes, DocumentOK, Made, Memories
    <3>2. lost' \subseteq Awbs
      BY <1>1, <2>2, <3>1 DEF Dies, LorrigoTypeOK
    <3> QED
      BY <1>1, <2>2, <3>2 DEF Dies, LorrigoTypeOK, TypeOK, claimVars, docVars
  <2> QED
    BY <2>1, <2>2
<1>3. /\ Enter(w, "failed") /\ mem' = mem /\ UNCHANGED <<minted, vid, shipped>>
      /\ todo' \in [Workers -> Rests] /\ current' \subseteq Workers
      /\ made' \in [Workers -> SUBSET Awbs] /\ unstored' \subseteq Awbs /\ NameTypes'
  BY <1>1 DEF Dies, RequestTypes, NameTypes, velocityVars, idVars, nameVars
<1> QED
  BY <1>2, <1>3, SameTypes DEF Stages

LEMMA NextTypes ==
  ASSUME PriorityTypeOK, \A w \in Workers : DocumentOK(w),
         [PriorityNext]_priorityVars
  PROVE  PriorityTypeOK'
<1>1. ASSUME NEW w \in Workers, RequestStep(w) PROVE PriorityTypeOK'
  BY <1>1, OwnStepTypes, PrepSavesTypes, ClaimedTypes, PersistTypes, VelocityTypes,
     VelocitySavesTypes, HistoryTypes, MarkFailedTypes, DiesTypes DEF RequestStep
<1>2. CASE (ClaimAge \/ UNCHANGED bookVars) /\ UNCHANGED <<requestVars, velocityVars>>
  <2>1. RequestTypes /\ LorrigoTypeOK
    BY TypeParts
  <2>2. LorrigoTypeOK'
    BY <1>2, <2>1, NextLorrigoType DEF LorrigoNext
  <2> QED
    BY <1>2, <2>1, <2>2 DEF PriorityTypeOK, RequestTypes, requestVars, velocityVars,
       idVars, nameVars
<1> QED
  BY <1>1, <1>2 DEF PriorityNext, priorityVars

-----------------------------------------------------------------------------
\* What a step of request w leaves to the others.
Alone(w) ==
  /\ Grows
  /\ \A u \in Workers \ {w} :
       /\ pc'[u] = pc[u] /\ step'[u] = step[u] /\ awbOf'[u] = awbOf[u]
       /\ loaded'[u] = loaded[u]
       /\ stage'[u] = stage[u] /\ mem'[u] = mem[u] /\ made'[u] = made[u]
       /\ u \in current' =>
            /\ u \in current /\ order'.status = order.status
            /\ Booked' => Booked \/ reconcile'
            /\ Bare(order') => Bare(order)
            /\ reconcile => reconcile'

\* No shipment leaves the order without a trace, and a request for
\* reconciliation stays with the shipment it is about.
Remembers(w) ==
  /\ lost \subseteq lost' /\ wiped \subseteq wiped' /\ unstored \subseteq unstored'
  /\ Sound(order') /\ (Bare(order') => named' # NoAwb)
  /\ order'.awb = order.awb \/ order.awb \in wiped' \cup {NoAwb}
  /\ \E n : Names(n)
  /\ reconcile /\ order'.awb = order.awb => reconcile' \/ order.awb \in made[w]

\* A name is given up only openly.
LEMMA NameKept ==
  ASSUME NEW n, Names(n), order.created, named # NoAwb
  PROVE  (order'.created /\ named' = named) \/ named \in dropped'
BY DEF Names

LEMMA DropsStay ==
  ASSUME NEW n, Names(n)
  PROVE  dropped \subseteq dropped'
BY DEF Names

\* Where nothing happens to the name nor to the flag.
LEMMA SameName ==
  ASSUME UNCHANGED nameVars, order'.created = order.created
  PROVE  Names(named)
BY DEF Names, nameVars

LEMMA InvTypes ==
  ASSUME PriorityInv
  PROVE  /\ order \in Orders /\ order.awb \in Awbs \cup {NoAwb} /\ NoAwb \notin Awbs
         /\ pc \in [Workers -> Pc] /\ step \in [Workers -> Steps]
         /\ awbOf \in [Workers -> Awbs \cup {NoAwb}]
         /\ loaded \in [Workers -> Documents]
         /\ live \subseteq issued /\ issued \subseteq Awbs
         /\ reconcile \in BOOLEAN
         /\ stage \in [Workers -> Stages] /\ mem \in [Workers -> Memories]
         /\ made \in [Workers -> SUBSET Awbs] /\ current \subseteq Workers
         /\ named \in Awbs \cup {NoAwb} /\ unstored \subseteq Awbs
         /\ \A w \in Workers : mem[w].order \in Orders /\ mem[w].loaded \in Orders
         /\ \A w \in Workers : Made(w) \in Awbs \cup {NoAwb}
<1>1. LorrigoTypeOK /\ TypeOK /\ RequestTypes
  BY TypeParts DEF PriorityInv, LorrigoTypeOK
<1>2. \A w \in Workers : Made(w) \in Awbs \cup {NoAwb}
  BY <1>1 DEF RequestTypes, Memories, Made
<1> QED
  BY <1>1, <1>2, ConstantsAssumption
     DEF LorrigoTypeOK, TypeOK, RequestTypes, Orders, Memories

LEMMA KeptStays ==
  ASSUME PriorityInv, NEW w \in Workers, Remembers(w), Kept
  PROVE  Kept'
<1>1. PICK n : Names(n)
  BY DEF Remembers
<1>2. CASE Erased # {}
  BY <1>1, <1>2, DropsStay DEF Remembers, Erased, Kept
<1>3. CASE order.awb # NoAwb
  BY <1>3, InvTypes DEF Remembers, Kept, Booked, Erased
<1>4. CASE order.created /\ order.awb = NoAwb
  BY <1>1, <1>4, NameKept DEF PriorityInv, Bare, Kept, Booked, Erased
<1> QED
  BY <1>2, <1>3, <1>4 DEF Kept, Booked

\* A shipment stays the one under its order id.
LEMMA MadeStays ==
  ASSUME PriorityInv, NEW u \in Workers, mem'[u] = mem[u], Grows, Made(u) # NoAwb
  PROVE  Made(u)' = Made(u)
<1>1. mem[u].vid \in Ids
  BY TypeParts DEF PriorityInv, RequestTypes, Memories, Made
<1> QED
  BY <1>1 DEF Made, Grows

LEMMA OthersKeep ==
  ASSUME PriorityInv, NEW w \in Workers, Alone(w), Remembers(w),
         NEW u \in Workers \ {w}
  PROVE  RequestOK(u)'
<1>0. RequestOK(u) /\ MadeApart
  BY DEF PriorityInv
<1>1. /\ pc'[u] = pc[u] /\ step'[u] = step[u] /\ awbOf'[u] = awbOf[u]
      /\ loaded'[u] = loaded[u]
      /\ stage'[u] = stage[u] /\ mem'[u] = mem[u] /\ made'[u] = made[u]
  BY DEF Alone
<1>2. StepOK(u)' /\ HeldOK(u)'
  BY <1>0, <1>1 DEF RequestOK, StepOK, HeldOK
<1>a. Made(u) # NoAwb => Made(u)' = Made(u)
  BY <1>1, MadeStays DEF Alone
<1>b. Made(u) \in unstored => Made(u)' \in unstored'
  BY <1>a, InvTypes DEF Remembers
<1>3. DocumentOK(u)'
  BY <1>0, <1>1, <1>a, <1>b DEF RequestOK, DocumentOK
<1>4. MadeOK(u)'
  <2> SUFFICES ASSUME NEW a \in made[u] \ {awbOf[u]},
                      a \in Forgotten \/ (reconcile /\ order.awb = a)
               PROVE  a \in Forgotten' \/ (reconcile' /\ order'.awb = a)
    BY <1>0, <1>1 DEF RequestOK, MadeOK
  <2>1. a \in Awbs /\ a # NoAwb /\ a \notin made[w]
    BY <1>0, InvTypes DEF MadeApart
  <2> QED
    BY <2>1 DEF Remembers, Forgotten
<1>5. CurrentOK(u)'
  BY <1>0, <1>1, InvTypes DEF RequestOK, CurrentOK, Alone
<1>6. StoredOK(u)'
  BY <1>0, <1>1, <1>b, KeptStays DEF RequestOK, StoredOK
<1> QED
  BY <1>2, <1>3, <1>4, <1>5, <1>6 DEF RequestOK

LEMMA MadeKeeps ==
  ASSUME PriorityInv, NEW w \in Workers, Alone(w),
         NEW new \in SUBSET (Awbs \ issued), issued' = issued \cup new,
         made' = [made EXCEPT ![w] = made[w] \cup new],
         stage'[w] \in {"idle", "prep", "reloaded"} => made'[w] = {},
         awbOf'[w] # NoAwb => awbOf'[w] \in made'[w]
  PROVE  MadeApart'
<1>1. /\ MadeApart /\ made \in [Workers -> SUBSET Awbs]
      /\ made'[w] = made[w] \cup new
  BY InvTypes DEF PriorityInv
<1>2. \A u \in Workers \ {w} :
        /\ made'[u] = made[u] /\ stage'[u] = stage[u] /\ awbOf'[u] = awbOf[u]
  BY DEF Alone
<1>3. \A u \in Workers : made[u] \subseteq issued
  BY <1>1 DEF MadeApart
<1>4. \A u, v \in Workers : u # v => made[u] \cap made[v] = {}
  BY <1>1 DEF MadeApart
<1>5. ASSUME NEW u \in Workers, NEW v \in Workers \ {u} PROVE made'[u] \cap made'[v] = {}
  <2>1. CASE u = w
    BY <1>1, <1>2, <1>3, <1>4, <2>1
  <2>2. CASE v = w
    BY <1>1, <1>2, <1>3, <1>4, <2>2
  <2>3. CASE u # w /\ v # w
    BY <1>2, <1>4, <2>3
  <2> QED
    BY <2>1, <2>2, <2>3
<1>6. ASSUME NEW u \in Workers
      PROVE  /\ made'[u] \subseteq issued'
             /\ stage'[u] \in {"idle", "prep", "reloaded"} => made'[u] = {}
             /\ awbOf'[u] # NoAwb => awbOf'[u] \in made'[u]
  <2>1. CASE u = w
    BY <1>1, <1>3, <2>1
  <2>2. CASE u # w
    BY <1>1, <1>2, <1>3, <2>2 DEF MadeApart
  <2> QED
    BY <2>1, <2>2
<1> QED
  BY <1>5, <1>6 DEF MadeApart

\* Where a shipment is, or that it is nowhere, for a reason that can be named.
Traced(a) ==
  \/ a \in Forgotten \cup dropped \cup unstored
  \/ order.awb = a \/ (order.created /\ named = a) \/ InFlight(a) \/ Saving(a)

LEMMA KnownKeeps ==
  ASSUME PriorityInv, NEW w \in Workers, Alone(w), Remembers(w),
         live' \subseteq Awbs,
         \A a \in live' \ live : Traced(a)',
         \A a \in Awbs : awbOf[w] = a => Traced(a)',
         \A a \in Awbs : stage[w] = "save" /\ Made(w) = a => Traced(a)'
  PROVE  ShipmentsKnown'
<1> SUFFICES ASSUME NEW a \in live' \cap live PROVE Traced(a)'
  BY DEF ShipmentsKnown, Traced
<1>1. /\ a \in Awbs /\ a # NoAwb
      /\ Traced(a)
  BY InvTypes DEF PriorityInv, ShipmentsKnown, Traced
<1>n. PICK n : Names(n)
  BY DEF Remembers
<1>2. CASE a \in Forgotten \cup dropped \cup unstored
  BY <1>2, <1>n, DropsStay DEF Traced, Forgotten, Remembers
<1>6. CASE order.created /\ named = a
  BY <1>1, <1>6, <1>n, NameKept DEF Traced
<1>3. CASE order.awb = a
  BY <1>1, <1>3 DEF Traced, Forgotten, Remembers
<1>4. CASE InFlight(a)
  <2>1. PICK u \in Workers : step[u] \in {"accepted", "fallback"} /\ awbOf[u] = a
    BY <1>4 DEF InFlight
  <2>2. CASE u = w
    BY <1>1, <2>1, <2>2
  <2>3. CASE u # w
    BY <2>1, <2>3 DEF Alone, Traced, InFlight
  <2> QED
    BY <2>2, <2>3
<1>5. CASE Saving(a)
  <2>1. PICK u \in Workers : stage[u] = "save" /\ Made(u) = a
    BY <1>5 DEF Saving
  <2>2. CASE u = w
    BY <1>1, <2>1, <2>2
  <2>3. CASE u # w
    <3>1. /\ stage'[u] = stage[u] /\ mem'[u] = mem[u] /\ Grows
      BY <2>3 DEF Alone
    <3>2. Made(u)' = a
      BY <1>1, <2>1, <3>1, MadeStays
    <3> QED
      BY <2>1, <3>1, <3>2 DEF Traced, Saving
  <2> QED
    BY <2>2, <2>3
<1> QED
  BY <1>1, <1>2, <1>3, <1>4, <1>5, <1>6 DEF Traced

LEMMA StepKeeps ==
  ASSUME PriorityInv, PriorityTypeOK', NEW w \in Workers, Alone(w), Remembers(w),
         RequestOK(w)', MadeApart', ShipmentsKnown'
  PROVE  PriorityInv'
BY OthersKeep DEF PriorityInv, Remembers

-----------------------------------------------------------------------------
\* The steps that say nothing to the store nor to a courier.
LEMMA OwnStepKeeps ==
  ASSUME PriorityInv, PriorityTypeOK', NEW w \in Workers,
         UNCHANGED <<bookVars, made, shipped, nameVars>>, NEW s \in Stages, Enter(w, s),
         \A u \in Workers \ {w} : mem'[u] = mem[u],
         current' \subseteq current \cup {w}, unstored \subseteq unstored',
         stage[w] = "save" => Made(w) \in unstored',
         s \in {"prep", "reloaded"} => stage[w] \in {"idle", "prep"}, s # "idle",
         DocumentOK(w)', MadeOK(w)', CurrentOK(w)', StoredOK(w)'
  PROVE  PriorityInv'
<1>0. /\ UNCHANGED <<order, pc, step, awbOf, loaded, live, issued, lost, wiped,
                     reconcile>>
      /\ stage \in [Workers -> Stages] /\ made \in [Workers -> SUBSET Awbs]
      /\ stage' = [stage EXCEPT ![w] = s] /\ made' = made
  BY InvTypes DEF bookVars, claimVars, courierVars, docVars, Enter
<1>1. Alone(w)
  BY <1>0 DEF Alone, Booked, Bare, Grows
<1>2. Remembers(w)
  <2>1. \E n : Names(n)
    BY <1>0, SameName
  <2> QED
    BY <1>0, <2>1 DEF Remembers, PriorityInv, Sound, Bare, nameVars
<1>3. MadeApart'
  <2>1. /\ issued' = issued \cup {} /\ made' = [made EXCEPT ![w] = made[w] \cup {}]
    BY <1>0
  <2>2. stage'[w] \in {"idle", "prep", "reloaded"} => made'[w] = {}
    BY <1>0 DEF PriorityInv, MadeApart
  <2>3. awbOf'[w] # NoAwb => awbOf'[w] \in made'[w]
    BY <1>0 DEF PriorityInv, MadeApart
  <2> QED
    BY <1>1, <2>1, <2>2, <2>3, MadeKeeps
<1>4. ShipmentsKnown'
  <2>1. \A a \in Awbs : awbOf[w] = a => Traced(a)'
    <3>1. \A a \in Awbs : awbOf[w] = a => InFlight(a)
      BY InvTypes DEF PriorityInv, RequestOK, StepOK, InFlight
    <3>2. \A a : InFlight(a) => InFlight(a)'
      BY <1>0 DEF InFlight
    <3> QED
      BY <3>1, <3>2 DEF Traced
  <2>2. \A a \in Awbs : stage[w] = "save" /\ Made(w) = a => Traced(a)'
    BY DEF Traced
  <2>3. live' \subseteq Awbs /\ live' \ live = {}
    BY <1>0, InvTypes
  <2> QED
    BY <1>1, <1>2, <2>1, <2>2, <2>3, KnownKeeps
<1>5. RequestOK(w)'
  BY <1>0 DEF PriorityInv, RequestOK, StepOK, HeldOK
<1> QED
  BY <1>1, <1>2, <1>3, <1>4, <1>5, StepKeeps

LEMMA OwnKeeps ==
  ASSUME PriorityInv, NEW w \in Workers,
         \/ Begin(w) \/ Skip(w) \/ PrepReloads(w) \/ PrepFails(w)
         \/ TakeNext(w) \/ VelocityRefuses(w) \/ VelocityRejects(w)
         \/ HistoryFails(w) \/ VelocitySaveFails(w) \/ Fail(w) \/ MarkLost(w)
  PROVE  PriorityInv'
<1>0. /\ PriorityTypeOK' /\ UNCHANGED <<bookVars, made, shipped, nameVars>>
      /\ RequestOK(w) /\ Sound(order) /\ PriorityTypeOK
  <2>1. PriorityTypeOK' 
    BY OwnStepTypes DEF PriorityInv, RequestOK
  <2> QED
    BY <2>1 DEF PriorityInv, Begin, Skip, PrepReloads, PrepFails, TakeNext,
       VelocityRefuses, VelocityRejects, HistoryFails, VelocitySaveFails, Fail, MarkLost,
       velocityVars, idVars
<1>1. /\ UNCHANGED <<order, pc, awbOf, lost, wiped, reconcile>>
      /\ stage \in [Workers -> Stages] /\ mem \in [Workers -> Memories]
      /\ order \in Orders /\ Forgotten' = Forgotten /\ Booked' = Booked
      /\ Kept' = Kept
  BY <1>0, InvTypes DEF bookVars, claimVars, courierVars, docVars, nameVars, Forgotten,
     Booked, Kept, Erased
\* The order is loaded.
<1>2. ASSUME NEW s \in {"prep", "reloaded", "mark"}, Enter(w, s),
             mem' = [mem EXCEPT ![w] = Remembered(order, vid)],
             current' = current \cup {w}, unstored' = unstored,
             stage[w] \in {"idle", "prep", "fail"},
             s \in {"prep", "reloaded"} => stage[w] \in {"idle", "prep"},
             s = "mark" => ~Booked
      PROVE  PriorityInv'
  <2>1. /\ stage'[w] = s /\ mem'[w].order = order /\ mem'[w].loaded = order
        /\ pc[w] = "idle"
    BY <1>0, <1>1, <1>2 DEF Enter, Remembered, RequestOK, DocumentOK
  <2>2. DocumentOK(w)'
    BY <1>0, <1>1, <1>2, <2>1 DEF DocumentOK, HasShipment, Booked
  <2>3. MadeOK(w)' /\ CurrentOK(w)'
    BY <1>1, <1>2, <2>1 DEF MadeOK, CurrentOK
  <2>4. StoredOK(w)'
    BY <1>1, <1>2, <2>1 DEF StoredOK, HasShipment, Kept, Booked
  <2> QED
    BY <1>0, <1>2, <2>2, <2>3, <2>4, OwnStepKeeps DEF Stages
\* It is not.
<1>3. ASSUME NEW s \in Stages, Enter(w, s), mem' = mem, current' = current,
             unstored \subseteq unstored',
             stage[w] = "save" => Made(w) \in unstored',
             s \in {"skipped", "fail", "next", "updated", "failed", "claiming",
                    "persist"},
             pc[w] = "idle" \/ s = "claiming",
             s \in {"claiming", "persist", "next"} =>
               \/ stage[w] = "save" /\ s = "next"
               \/ stage[w] \in {"next", "persist", "create"} /\ ~HasShipment(mem[w].order)
      PROVE  PriorityInv'
  <2>1. stage'[w] = s /\ mem'[w] = mem[w]
    BY <1>1, <1>3 DEF Enter
  <2>2. stage[w] = "save" => HasShipment(mem[w].order)
    BY <1>0 DEF RequestOK, DocumentOK, HasShipment
  <2>3. stage[w] = "next" /\ ~HasShipment(mem[w].order) => mem[w].order = mem[w].loaded
    BY <1>0, InvTypes DEF RequestOK, DocumentOK, HasShipment, PriorityTypeOK
  <2>a. Made(w)' = Made(w)
    BY <1>0, <2>1 DEF Made
  <2>4. DocumentOK(w)'
    BY <1>0, <1>1, <1>3, <2>1, <2>2, <2>3, <2>a DEF RequestOK, DocumentOK
  <2>5. MadeOK(w)'
    BY <1>0, <1>1, <1>3, <2>1, <2>2 DEF RequestOK, MadeOK
  <2>6. CurrentOK(w)'
    BY <1>3, <2>1 DEF CurrentOK
  <2>7. StoredOK(w)'
    BY <1>0, <1>1, <1>3, <2>1, <2>a DEF RequestOK, StoredOK
  <2> QED
    BY <1>0, <1>3, <2>4, <2>5, <2>6, <2>7, OwnStepKeeps
<1>4. stage[w] # "claiming" => pc[w] = "idle"
  BY <1>0 DEF RequestOK, DocumentOK
<1>5. CASE Begin(w)
  BY <1>2, <1>5 DEF Begin, velocityVars, idVars
<1>6. CASE PrepReloads(w)
  BY <1>2, <1>6 DEF PrepReloads, velocityVars, idVars
<1>7. CASE Fail(w)
  <2>1. CASE HasShipment(mem[w].order) \/ Booked
    BY <1>3, <1>4, <1>7, <2>1 DEF Fail, velocityVars, idVars, Stages
  <2>2. CASE ~(HasShipment(mem[w].order) \/ Booked)
    BY <1>2, <1>7, <2>2 DEF Fail, velocityVars, idVars
  <2> QED
    BY <2>1, <2>2
<1>8. CASE TakeNext(w)
  <2>1. CASE HasShipment(mem[w].order)
    BY <1>3, <1>4, <1>8, <2>1 DEF TakeNext, velocityVars, idVars, Stages
  <2>2. CASE ~HasShipment(mem[w].order)
    <3>1. PICK s \in {"fail", "persist", "claiming"} : Enter(w, s)
      BY <1>8, <2>2 DEF TakeNext
    <3> QED
      BY <1>3, <1>4, <1>8, <2>2, <3>1 DEF TakeNext, velocityVars, idVars, Stages
  <2> QED
    BY <2>1, <2>2
<1>9. CASE VelocitySaveFails(w)
  BY <1>3, <1>4, <1>9 DEF VelocitySaveFails, Stages
<1>10. CASE VelocityRefuses(w) \/ VelocityRejects(w)
  <2>1. stage[w] \in {"persist", "create"} => ~HasShipment(mem[w].order)
    BY <1>0 DEF RequestOK, DocumentOK
  <2> QED
    BY <1>3, <1>4, <1>10, <2>1 DEF VelocityRefuses, VelocityRejects, velocityVars,
       idVars, Stages
<1>11. CASE Skip(w) \/ PrepFails(w) \/ HistoryFails(w) \/ MarkLost(w)
  <2>1. PICK s \in {"skipped", "fail", "updated", "failed"} : Enter(w, s)
    BY <1>11 DEF Skip, PrepFails, HistoryFails, MarkLost
  <2> QED
    BY <1>3, <1>4, <1>11, <2>1 DEF Skip, PrepFails, HistoryFails, MarkLost,
       velocityVars, idVars, Stages
<1> QED
  BY <1>5, <1>6, <1>7, <1>8, <1>9, <1>10, <1>11

-----------------------------------------------------------------------------
\* The saves of a request.  They write a shipment only over the lack of one, or
\* the lack of one over a shipment, or leave both as they are.
Edits(old, new) ==
  /\ new.status # "reship"
  /\ \/ new.created = old.created /\ new.awb = old.awb
     \/ ~HasShipment(new) /\ ~Bare(old)
     \/ ~HasShipment(old) /\ new.created /\ new.status # old.status

LEMMA SaveRemembers ==
  ASSUME PriorityInv, NEW w \in Workers, NEW new \in Orders,
         SavedWithArrays(w, new), Edits(mem[w].loaded, new),
         NEW n, Names(n), Bare(order') => n # NoAwb,
         UNCHANGED <<courierVars, reconcile, unstored>>
  PROVE  /\ Remembers(w)
         /\ ~HasShipment(mem[w].loaded) /\ new.created => order'.created
<1> DEFINE old == mem[w].loaded
<1>0. /\ order \in Orders /\ old \in Orders /\ NoAwb \notin Awbs
      /\ Sound(old) /\ Sound(order) /\ lost' = lost
  BY InvTypes DEF PriorityInv, RequestOK, DocumentOK, courierVars
<1>1. /\ order' = SavedOver(old, new)
      /\ wiped' = wiped \cup ({order.awb} \ {NoAwb, order'.awb})
  BY DEF SavedWithArrays
<1>2. /\ order'.created = IF new.created # old.created THEN new.created ELSE order.created
      /\ order'.awb = IF new.awb # old.awb THEN new.awb ELSE order.awb
      /\ order'.status = IF new.status # old.status THEN new.status ELSE order.status
  BY <1>0, <1>1, SavedFields
<1>3. Sound(order')
  BY <1>0, <1>2 DEF Sound, Edits, Bare, HasShipment, Orders
<1>4. named' = n
  BY DEF Names
<1>5. ~HasShipment(old) /\ new.created => order'.created
  BY <1>0, <1>2 DEF HasShipment, Orders
<1> QED
  BY <1>0, <1>1, <1>2, <1>3, <1>4, <1>5 DEF Remembers

LEMMA SaveKeeps ==
  ASSUME PriorityInv, PriorityTypeOK', NEW w \in Workers, NEW new \in Orders,
         SavedWithArrays(w, new), Edits(mem[w].loaded, new),
         NEW n, Names(n), Bare(order') => n # NoAwb,
         UNCHANGED <<pc, step, awbOf, loaded, courierVars, reconcile, made, unstored,
                     shipped>>,
         NEW s \in {"next", "history", "failed"}, Enter(w, s),
         \A u \in Workers \ {w} : mem'[u] = mem[u],
         stage[w] = "save" => new.created /\ ~HasShipment(mem[w].loaded) /\ n = Made(w),
         DocumentOK(w)', MadeOK(w)', StoredOK(w)'
  PROVE  PriorityInv'
<1> DEFINE old == mem[w].loaded
<1>0. /\ order \in Orders /\ old \in Orders /\ stage \in [Workers -> Stages]
      /\ NoAwb \notin Awbs /\ made \in [Workers -> SUBSET Awbs]
      /\ Sound(order) /\ RequestOK(w) /\ MadeApart
      /\ live' = live /\ issued' = issued /\ live \subseteq Awbs /\ lost' = lost
  BY InvTypes DEF PriorityInv, RequestOK, DocumentOK, courierVars
<1>1. current' = {w}
  BY DEF SavedWithArrays
<1>2. Remembers(w) /\ (~HasShipment(old) /\ new.created => order'.created)
  BY SaveRemembers
<1>3. Alone(w)
  BY <1>0, <1>1 DEF Alone, Enter, Grows
<1>6. stage'[w] = s
  BY <1>0 DEF Enter
<1>7. MadeApart'
  <2>1. issued' = issued \cup {} /\ made' = [made EXCEPT ![w] = made[w] \cup {}]
    BY <1>0
  <2>2. awbOf'[w] # NoAwb => awbOf'[w] \in made'[w]
    BY <1>0 DEF MadeApart
  <2> QED
    BY <1>3, <1>6, <2>1, <2>2, MadeKeeps
<1>8. ShipmentsKnown'
  <2>1. \A a \in Awbs : awbOf[w] = a => Traced(a)'
    <3>1. \A a \in Awbs : awbOf[w] = a => InFlight(a)
      BY <1>0 DEF RequestOK, StepOK, InFlight
    <3>2. \A a : InFlight(a) => InFlight(a)'
      BY DEF InFlight
    <3> QED
      BY <3>1, <3>2 DEF Traced
  <2>2. \A a \in Awbs : stage[w] = "save" /\ Made(w) = a => Traced(a)'
    BY <1>2 DEF Traced, Names
  <2> QED
    BY <1>0, <1>2, <1>3, <2>1, <2>2, KnownKeeps
<1>9. RequestOK(w)'
  <2>1. CurrentOK(w)'
    BY <1>6 DEF CurrentOK
  <2> QED
    BY <1>0, <2>1 DEF RequestOK, StepOK, HeldOK
<1> QED
  BY <1>2, <1>3, <1>7, <1>8, <1>9, StepKeeps

LEMMA PrepSavesKeeps ==
  ASSUME PriorityInv, NEW w \in Workers, PrepSaves(w)
  PROVE  PriorityInv'
<1> DEFINE old == mem[w].loaded
           new == Prepared(w)
<1>0. /\ PriorityTypeOK' /\ PriorityTypeOK /\ RequestOK(w) /\ MadeApart
      /\ mem \in [Workers -> Memories] /\ stage \in [Workers -> Stages]
      /\ old \in Orders /\ mem[w].order = old /\ Sound(old)
      /\ NoAwb \notin Awbs /\ order \in Orders
      /\ stage[w] \in {"prep", "reloaded"}
  BY PrepSavesTypes, InvTypes DEF PriorityInv, PrepSaves, RequestOK, DocumentOK
<1>1. /\ new \in Orders
      /\ new.status = "ready_to_ship"
      /\ new.created = IF Clears(w) THEN FALSE ELSE old.created
      /\ new.awb = IF Clears(w) THEN NoAwb ELSE old.awb
  BY <1>0, PreparedType DEF Prepared, Orders
<1>2. /\ Enter(w, "next") /\ mem' = [mem EXCEPT ![w] = Remembered(new, PreparedVid(w))]
      /\ UNCHANGED <<pc, key, owner, step, awbOf, loaded, courierVars, reconcile,
                     cancel, todo, made, minted, shipped, unstored>>
  BY DEF PrepSaves
<1> HIDE DEF new
<1>3. /\ Sound(new)
  BY <1>0, <1>1 DEF Sound, Bare
\* What it clears is a shipment with an AWB, or none.
<1>a. ASSUME Clears(w) PROVE ~Bare(old)
  BY <1>0, <1>a DEF Clears, Bare, Sound, PrepSaves, Processable, HasShipment
<1>b. Edits(old, new)
  BY <1>1, <1>a DEF Edits, HasShipment
<1>c. Made(w)' = IF Clears(w) THEN NoAwb ELSE Made(w)
  BY <1>0, <1>2 DEF Made, PreparedVid, Remembered
<1>4. /\ stage'[w] = "next" /\ mem'[w].order = new /\ mem'[w].loaded = new
      /\ \A u \in Workers \ {w} : mem'[u] = mem[u]
      /\ pc[w] = "idle"
  BY <1>0, <1>2 DEF Enter, Remembered, RequestOK, DocumentOK
<1>5. DocumentOK(w)'
  BY <1>1, <1>2, <1>3, <1>4 DEF DocumentOK
<1>6. MadeOK(w)'
  <2>1. made'[w] = {}
    BY <1>0, <1>2 DEF MadeApart
  <2> QED
    BY <2>1 DEF MadeOK
\* A document prepared with a shipment was loaded again with it.
<1>7. ASSUME HasShipment(new) PROVE Kept \/ Made(w)' \in unstored
  <2>1. HasShipment(mem[w].order) /\ ~Clears(w)
    BY <1>0, <1>1, <1>7 DEF HasShipment
  <2>2. stage[w] = "reloaded"
    BY <1>0, <2>1 DEF PrepSaves, Processable
  <2> QED
    BY <1>0, <1>c, <2>1, <2>2 DEF RequestOK, StoredOK
<1>8. ASSUME Kept => Kept' PROVE StoredOK(w)'
  BY <1>2, <1>4, <1>7, <1>8 DEF StoredOK
<1>9. CASE mem[w].order.status = "ready_to_ship"
  <2>1. UNCHANGED <<order, current, fresh, wiped, overridden, vid, recorded, nameVars>>
    BY <1>9 DEF PrepSaves
  <2>2. UNCHANGED bookVars /\ Kept' = Kept
    BY <1>2, <2>1 DEF bookVars, claimVars, docVars, nameVars, Kept, Booked, Erased
  <2>3. CurrentOK(w)'
    BY <1>4 DEF CurrentOK
  <2> QED
    BY <1>0, <1>2, <1>4, <1>5, <1>6, <1>8, <2>1, <2>2, <2>3, OwnStepKeeps DEF Stages
<1>10. CASE mem[w].order.status # "ready_to_ship"
  <2> DEFINE n == IF Clears(w) THEN NoAwb ELSE named
  <2>1. SavedWithArrays(w, new) /\ Names(n) /\ w \in current
    BY <1>10 DEF PrepSaves, SavedWithArrays, new
  <2>2. ASSUME Bare(order') PROVE n # NoAwb
    <3>1. /\ order'.created = IF new.created # old.created THEN new.created
                              ELSE order.created
          /\ order'.awb = IF new.awb # old.awb THEN new.awb ELSE order.awb
      BY <1>0, <1>1, <2>1, SavedFields DEF SavedWithArrays
    <3>2. CASE Clears(w)
      <4>1. ~Bare(order)
        BY <1>0, <1>a, <2>1, <3>2 DEF RequestOK, CurrentOK
      <4> QED
        BY <1>0, <1>1, <1>a, <2>2, <3>1, <3>2, <4>1 DEF Bare, Sound, PriorityInv, Orders
    <3>3. CASE ~Clears(w)
      BY <1>1, <2>2, <3>1, <3>3 DEF Bare, PriorityInv
    <3> QED
      BY <3>2, <3>3
  <2> HIDE DEF n
  <2>3. Remembers(w)
    BY <1>1, <1>2, <1>b, <2>1, <2>2, SaveRemembers
  <2>4. StoredOK(w)'
    BY <1>8, <2>3, KeptStays
  <2> QED
    BY <1>0, <1>1, <1>2, <1>b, <1>4, <1>5, <1>6, <2>1, <2>2, <2>4, SaveKeeps
<1> QED
  BY <1>9, <1>10

LEMMA VelocitySavesKeeps ==
  ASSUME PriorityInv, NEW w \in Workers, VelocitySaves(w)
  PROVE  PriorityInv'
<1> DEFINE old == mem[w].loaded
           new == mem[w].order
<1>0. /\ PriorityTypeOK' /\ RequestOK(w) /\ stage[w] = "save"
      /\ mem \in [Workers -> Memories] /\ stage \in [Workers -> Stages]
      /\ new \in Orders /\ old \in Orders
      /\ new.created /\ new.status = "pending_pickup" /\ ~HasShipment(old)
      /\ old.status = "ready_to_ship" /\ Made(w) # NoAwb /\ pc[w] = "idle"
  BY VelocitySavesTypes, InvTypes DEF PriorityInv, VelocitySaves, RequestOK, DocumentOK
<1>1. /\ SavedWithArrays(w, new) /\ Enter(w, "history") /\ Names(Made(w))
      /\ mem' = [mem EXCEPT ![w] = Remembered(new, mem[w].vid)]
      /\ UNCHANGED <<pc, key, owner, step, awbOf, loaded, courierVars, reconcile,
                     cancel, todo, made, minted, shipped, unstored>>
  BY DEF VelocitySaves
<1>2. /\ stage'[w] = "history" /\ mem'[w].order = new /\ mem'[w].loaded = new
      /\ \A u \in Workers \ {w} : mem'[u] = mem[u]
  BY <1>0, <1>1 DEF Enter, Remembered
<1>3. Edits(old, new) /\ Sound(new)
  BY <1>0 DEF Edits, Sound, Bare
<1>4. order'.created
  BY <1>0, <1>1, <1>3, SaveRemembers
<1>5. DocumentOK(w)' /\ MadeOK(w)' /\ StoredOK(w)'
  BY <1>0, <1>1, <1>2, <1>3, <1>4 DEF DocumentOK, MadeOK, StoredOK, Kept, Booked
<1> QED
  BY <1>0, <1>1, <1>2, <1>3, <1>5, SaveKeeps

LEMMA MarkFailedKeeps ==
  ASSUME PriorityInv, NEW w \in Workers, MarkFailed(w)
  PROVE  PriorityInv'
<1> DEFINE old == mem[w].loaded
           new == [mem[w].order EXCEPT !.status = "booking_failed", !.inProgress = FALSE]
<1>0. /\ PriorityTypeOK' /\ RequestOK(w) /\ stage[w] = "mark"
      /\ stage \in [Workers -> Stages] /\ old \in Orders
      /\ mem[w].order = old /\ Sound(old) /\ pc[w] = "idle"
  BY MarkFailedTypes, InvTypes DEF PriorityInv, MarkFailed, RequestOK, DocumentOK
<1>1. /\ new \in Orders /\ new.awb = old.awb /\ new.created = old.created
      /\ Edits(old, new)
  BY <1>0 DEF Orders, Statuses, RebookableStatuses, Edits
<1>2. /\ SavedWithArrays(w, new) /\ Enter(w, "failed") /\ mem' = mem
      /\ UNCHANGED <<pc, key, owner, step, awbOf, loaded, courierVars, reconcile,
                     made, unstored, shipped, nameVars>>
  BY DEF MarkFailed, velocityVars, idVars
<1>3. stage'[w] = "failed"
  BY <1>0, <1>2 DEF Enter
<1>4. DocumentOK(w)' /\ MadeOK(w)' /\ StoredOK(w)'
  BY <1>0, <1>2, <1>3 DEF DocumentOK, MadeOK, StoredOK
<1> HIDE DEF new
<1>5. /\ order'.created = order.created /\ order'.awb = order.awb
  <2>1. order \in Orders
    BY InvTypes
  <2> QED
    BY <1>0, <1>1, <1>2, <2>1, SavedFields DEF SavedWithArrays
<1>6. Names(named) /\ (Bare(order') => named # NoAwb)
  BY <1>2, <1>5, SameName DEF Bare, PriorityInv
<1> QED
  BY <1>0, <1>1, <1>2, <1>4, <1>6, SaveKeeps

\* The entry in statusHistory overtakes every document; the order is the same.
LEMMA HistorySavesKeeps ==
  ASSUME PriorityInv, NEW w \in Workers, HistorySaves(w)
  PROVE  PriorityInv'
<1>0. /\ PriorityTypeOK' /\ RequestOK(w) /\ stage[w] = "history" /\ pc[w] = "idle"
      /\ stage \in [Workers -> Stages] /\ made \in [Workers -> SUBSET Awbs]
      /\ Sound(order) /\ (Bare(order) => named # NoAwb)
      /\ MadeApart /\ live \subseteq Awbs
  BY HistoryTypes, InvTypes DEF PriorityInv, HistorySaves, RequestOK, DocumentOK
<1>1. /\ UNCHANGED <<order, pc, step, awbOf, loaded, live, issued, lost, wiped,
                     reconcile, mem, made, unstored, shipped, nameVars>>
      /\ current' = {} /\ stage' = [stage EXCEPT ![w] = "updated"]
  BY DEF HistorySaves, claimVars, courierVars, docVars, velocityVars, idVars, Enter
<1>2. Alone(w) /\ Remembers(w) /\ stage'[w] = "updated"
  <2>1. Names(named)
    BY <1>1, SameName
  <2> QED
    BY <1>0, <1>1, <2>1 DEF Alone, Grows, Remembers, nameVars
<1>3. MadeApart'
  BY <1>0, <1>1, <1>2 DEF MadeApart
<1>4. ShipmentsKnown'
  <2>1. \A a : Traced(a) => Traced(a)'
    BY <1>0, <1>1 DEF Traced, Forgotten, InFlight, Saving, Made, nameVars
  <2> QED
    BY <1>1, <2>1 DEF PriorityInv, ShipmentsKnown, Traced
<1>5. RequestOK(w)'
  BY <1>0, <1>1, <1>2 DEF RequestOK, StepOK, HeldOK, DocumentOK, MadeOK, CurrentOK,
     StoredOK
<1> QED
  BY <1>0, <1>2, <1>3, <1>4, <1>5, StepKeeps

LEMMA PersistKeeps ==
  ASSUME PriorityInv, NEW w \in Workers, Persist(w)
  PROVE  PriorityInv'
<1>0. /\ PriorityTypeOK' /\ RequestOK(w) /\ stage[w] = "persist"
      /\ stage \in [Workers -> Stages] /\ mem \in [Workers -> Memories]
  BY PersistTypes, InvTypes DEF PriorityInv, Persist
<1>1. /\ Enter(w, "create")
      /\ UNCHANGED <<bookVars, made, current, unstored, shipped, nameVars>>
      /\ pc' = pc /\ awbOf' = awbOf /\ order' = order /\ reconcile' = reconcile
      /\ Forgotten' = Forgotten /\ stage'[w] = "create"
  BY <1>0 DEF Persist, bookVars, claimVars, courierVars, docVars, Forgotten, Enter
<1>2. /\ \A u \in Workers \ {w} : mem'[u] = mem[u]
      /\ mem'[w].order = mem[w].order /\ mem'[w].loaded = mem[w].loaded
  BY <1>0 DEF Persist, Memories
<1>3. DocumentOK(w)' /\ MadeOK(w)' /\ CurrentOK(w)' /\ StoredOK(w)'
  BY <1>0, <1>1, <1>2 DEF RequestOK, DocumentOK, MadeOK, CurrentOK, StoredOK
<1> QED
  BY <1>0, <1>1, <1>2, <1>3, OwnStepKeeps DEF Stages

-----------------------------------------------------------------------------
\* Velocity has made a shipment, or names the one it has under the order_id: the
\* request holds it from now on, or does not hear of it.
LEMMA VelocityKeeps ==
  ASSUME PriorityInv, NEW w \in Workers, VelocityAccepts(w) \/ VelocityTimesOut(w)
  PROVE  PriorityInv'
<1>0. /\ PriorityTypeOK' /\ RequestOK(w) /\ stage[w] = "create"
      /\ stage \in [Workers -> Stages] /\ mem \in [Workers -> Memories]
      /\ made \in [Workers -> SUBSET Awbs] /\ Sound(order) /\ PriorityTypeOK
      /\ mem[w].order \in Orders /\ NoAwb \notin Awbs /\ MadeApart
      /\ live \subseteq Awbs
  BY VelocityTypes, InvTypes DEF PriorityInv, VelocityAccepts, VelocityTimesOut
<1>1. /\ UNCHANGED <<order, pc, step, awbOf, loaded, wiped, reconcile, current,
                     unstored, nameVars>>
      /\ lost \subseteq lost'
  BY DEF VelocityAccepts, VelocityTimesOut, claimVars, docVars
<1>i. PICK i \in Ids :
        /\ Sends(w, i) /\ Ships(w, i)
        /\ \/ /\ VelocityAccepts(w) /\ Enter(w, "save")
              /\ \E b \in Awbs \cup {NoAwb} :
                   mem' = [mem EXCEPT ![w] = Answered(w, i, b)]
           \/ /\ VelocityTimesOut(w) /\ Enter(w, "next") /\ mem' = mem
              /\ shipped'[i] \in lost'
  BY <1>0, VelocityStep
<1>a. PICK a \in Awbs : a = shipped'[i]
  BY <1>0, <1>i, ShipsTypes
<1>g. Grows
  BY <1>0, <1>i, ShipsTypes
<1>2. PICK new \in SUBSET (Awbs \ issued) :
        /\ new \subseteq {a}
        /\ live' = live \cup new /\ issued' = issued \cup new
        /\ made' = [made EXCEPT ![w] = made[w] \cup new]
  BY <1>0, <1>i, <1>a, ShipsTypes
<1>3. /\ ~HasShipment(mem[w].order) /\ mem[w].order = mem[w].loaded
      /\ pc[w] = "idle" /\ awbOf[w] = NoAwb
  BY <1>0 DEF RequestOK, DocumentOK, StepOK
<1>4. \/ /\ stage' = [stage EXCEPT ![w] = "save"] /\ mem'[w].loaded = mem[w].loaded
         /\ Made(w)' = a /\ mem'[w].order.created
         /\ mem'[w].order.status = "pending_pickup"
      \/ /\ stage' = [stage EXCEPT ![w] = "next"] /\ mem' = mem /\ a \in lost'
  <2>1. ASSUME NEW b \in Awbs \cup {NoAwb}, mem' = [mem EXCEPT ![w] = Answered(w, i, b)]
        PROVE  /\ mem'[w].loaded = mem[w].loaded
               /\ Made(w)' = a /\ mem'[w].order.created
               /\ mem'[w].order.status = "pending_pickup"
    <3>1. mem'[w] = Answered(w, i, b)
      BY <1>0, <2>1
    <3>2. mem'[w].vid = i /\ i # NoId
      BY <1>0, <3>1, AnsweredType DEF Ids, NoId
    <3>3. Made(w)' = a
      BY <1>a, <3>2 DEF Made
    <3> QED
      BY <1>0, <3>1, <3>3, AnsweredType
  <2> QED
    BY <1>i, <1>a, <2>1 DEF Enter
<1>5. /\ stage'[w] \in {"save", "next"}
      /\ \A u \in Workers \ {w} : stage'[u] = stage[u] /\ mem'[u] = mem[u]
  <2>1. \A u \in Workers \ {w} : mem'[u] = mem[u]
    BY <1>0, <1>i
  <2> QED
    BY <1>0, <1>4, <2>1
<1>6. Alone(w)
  BY <1>0, <1>1, <1>2, <1>5, <1>g DEF Alone, Booked
<1>7. Remembers(w)
  <2>1. Names(named)
    BY <1>1, SameName
  <2> QED
    BY <1>0, <1>1, <2>1 DEF Remembers, PriorityInv, nameVars
<1>8. MadeApart'
  BY <1>0, <1>1, <1>2, <1>3, <1>5, <1>6, MadeKeeps
<1>9. ShipmentsKnown'
  <2>1. Traced(a)'
    <3>1. CASE stage' = [stage EXCEPT ![w] = "save"] /\ Made(w)' = a
      <4>1. stage'[w] = "save"
        BY <1>0, <3>1
      <4> QED
        BY <1>3, <3>1, <4>1 DEF Traced, Saving
    <3>2. CASE a \in lost'
      BY <3>2 DEF Traced, Forgotten
    <3> QED
      BY <1>4, <3>1, <3>2
  <2>2. live' \subseteq Awbs /\ live' \ live \subseteq {a}
    BY <1>0, <1>2
  <2> QED
    BY <1>0, <1>3, <1>6, <1>7, <2>1, <2>2, KnownKeeps DEF Traced
<1>10. DocumentOK(w)'
  <2>1. Sound(mem[w].loaded) /\ mem[w].loaded.status = "ready_to_ship"
    BY <1>0 DEF RequestOK, DocumentOK
  <2> QED
    BY <1>0, <1>1, <1>3, <1>4, <1>5, <2>1 DEF DocumentOK
<1>11. MadeOK(w)'
  <2>1. \A b \in made[w] : b \in Forgotten \/ (reconcile /\ order.awb = b)
    BY <1>0, <1>3, InvTypes DEF RequestOK, MadeOK, MadeApart
  <2>2. made'[w] \subseteq made[w] \cup {a}
    BY <1>0, <1>2
  <2> QED
    BY <1>0, <1>1, <1>4, <1>5, <2>1, <2>2 DEF MadeOK, Forgotten
<1>12. CurrentOK(w)' /\ StoredOK(w)'
  BY <1>0, <1>1, <1>3, <1>4, <1>5 DEF CurrentOK, StoredOK
<1>13. RequestOK(w)'
  BY <1>0, <1>1, <1>10, <1>11, <1>12 DEF RequestOK, StepOK, HeldOK
<1> QED
  BY <1>0, <1>6, <1>7, <1>8, <1>9, <1>13, StepKeeps

-----------------------------------------------------------------------------
\* A step of a booking with a claim, seen by the others ...
Apart(w) ==
  \A u \in Workers \ {w} :
    /\ pc'[u] = pc[u] /\ step'[u] = step[u] /\ awbOf'[u] = awbOf[u]
    /\ loaded'[u] = loaded[u]

LeavesCurrent ==
  \A u \in current' :
    /\ u \in current /\ order'.status = order.status
    /\ Booked' => Booked \/ reconcile'
    /\ Bare(order') => Bare(order)
    /\ reconcile => reconcile'

\* ... by the order ...
Stores(w) == step[w] = "accepted" /\ pc'[w] = "idle" /\ order'.awb = awbOf[w]

Records(w) ==
  /\ lost \subseteq lost' /\ wiped \subseteq wiped' /\ Sound(order')
  /\ Bare(order') => Bare(order)
  /\ order'.awb = order.awb \/ order.awb \in wiped' \cup {NoAwb}
  /\ (reconcile => reconcile') \/ Stores(w)

\* ... by the courier ...
Issues(w) ==
  \E new \in SUBSET (Awbs \ issued) :
    /\ new \subseteq {awbOf'[w]} /\ awbOf'[w] \in {NoAwb, awbOf[w]} \cup new
    /\ live' = live \cup new /\ issued' = issued \cup new

\* ... and by the request itself.
Keeps(w) ==
  \/ awbOf[w] \in lost' \cup {NoAwb, awbOf'[w]}
  \/ order'.awb = awbOf[w] /\ reconcile'
  \/ Stores(w)

Effect(w) ==
  /\ Apart(w) /\ LeavesCurrent /\ Records(w) /\ Issues(w) /\ Keeps(w)
  /\ StepOK(w)' /\ HeldOK(w)'
  /\ pc'[w] = "reused" => Booked'

LEMMA NothingIssued ==
  ASSUME NEW w, UNCHANGED <<live, issued>>, awbOf'[w] \in {NoAwb, awbOf[w]}
  PROVE  Issues(w)
<1>1. /\ {} \subseteq {awbOf'[w]} /\ awbOf'[w] \in {NoAwb, awbOf[w]} \cup {}
      /\ live' = live \cup {} /\ issued' = issued \cup {}
  OBVIOUS
<1> QED
  BY <1>1 DEF Issues

LEMMA ClaimEffect ==
  ASSUME PriorityInv, NEW w \in Workers, Claim(w), current' = current
  PROVE  Effect(w)
<1>0. /\ order \in Orders /\ StepOK(w) /\ Sound(order) /\ NoAwb \notin Awbs
      /\ pc \in [Workers -> Pc] /\ step \in [Workers -> Steps]
      /\ loaded \in [Workers -> Documents] /\ reconcile \in BOOLEAN
  BY InvTypes DEF PriorityInv, RequestOK
<1>1. /\ ClaimStep(w) /\ UNCHANGED <<awbOf, live, issued, lost, reconcile>>
      /\ wiped' = wiped \cup (IF order'.awb = order.awb THEN {} ELSE {order.awb} \ {NoAwb})
  BY DEF Claim, courierVars
<1>2. /\ pc[w] # "booking" /\ \E l : pc' = [pc EXCEPT ![w] = l]
      /\ step[w] = "none" /\ awbOf[w] = NoAwb
  BY <1>0, <1>1, ClaimMoves DEF StepOK
<1>3. PICK l : pc' = [pc EXCEPT ![w] = l]
  BY <1>2
<1>4. /\ order'.status = order.status /\ Sound(order')
      /\ \/ order'.awb = order.awb /\ order'.created = order.created
         \/ ~order'.created /\ order'.awb = NoAwb
      /\ l = "reused" => Booked'
      /\ l = "booking" => ~order'.created /\ order'.awb = NoAwb
  <2>1. CASE UNCHANGED order /\ l # "booking" /\ (l = "reused" => Booked)
    BY <1>0, <2>1 DEF Booked
  <2>2. l = pc'[w]
    BY <1>0, <1>3
  <2>3. ASSUME NEW k \in Keys, FindOrder(w, k)
        PROVE  UNCHANGED order /\ l # "booking" /\ (l = "reused" => Booked)
    BY <1>0, <2>2, <2>3 DEF FindOrder, Goto
  <2>4. CASE ResetLost(w) \/ Reread(w) \/ Answer(w)
    BY <1>0, <2>1, <2>2, <2>4 DEF ResetLost, Reread, Answer, Goto
  <2>5. CASE ResetForRebook(w)
    BY <1>0, <2>2, <2>5 DEF ResetForRebook, Goto, Orders, Sound, Bare
  <2>6. CASE TryClaim(w)
    <3>1. CASE ~Claimable
      BY <1>0, <2>1, <2>2, <2>6, <3>1 DEF TryClaim, Goto
    <3>2. CASE Claimable
      BY <1>0, <2>2, <2>6, <3>2 DEF TryClaim, Goto, Claimable, Orders, Sound, Bare
    <3> QED
      BY <3>1, <3>2
  <2> QED
    BY <1>1, <2>1, <2>3, <2>4, <2>5, <2>6 DEF ClaimStep
<1>5. /\ \A u \in Workers \ {w} : loaded'[u] = loaded[u]
      /\ step' = [step EXCEPT ![w] = IF l = "booking" THEN "request" ELSE "none"]
      /\ l = "booking" => loaded'[w].order = order'
  <2>1. pc'[w] = l
    BY <1>0, <1>3
  <2> QED
    BY <1>0, <1>2, <2>1 DEF Claim, At
<1>6. StepOK(w)' /\ HeldOK(w)'
  BY <1>0, <1>1, <1>2, <1>3, <1>4, <1>5 DEF StepOK, HeldOK, HasShipment
<1>7. Booked' => Booked
  BY <1>4 DEF Booked
<1>8. wiped \subseteq wiped' /\ (order'.awb = order.awb \/ order.awb \in wiped' \cup {NoAwb})
  BY <1>1
<1>9. pc'[w] = l /\ awbOf'[w] = NoAwb
  BY <1>0, <1>1, <1>2, <1>3
<1>10. Apart(w)
  BY <1>0, <1>1, <1>3, <1>5 DEF Apart
<1>11. LeavesCurrent /\ Records(w) /\ Keeps(w)
  BY <1>1, <1>2, <1>4, <1>7, <1>8 DEF LeavesCurrent, Records, Keeps, Bare
<1>12. Issues(w)
  BY <1>1, <1>9, NothingIssued
<1> QED
  BY <1>4, <1>6, <1>9, <1>10, <1>11, <1>12 DEF Effect

LEMMA QuietEffect ==
  ASSUME PriorityInv, NEW w \in Workers,
         \/ /\ \/ Refuse(w) \/ EndFailed(w) \/ Reject(w) \/ NoteFails(w) \/ Timeout(w)
               \/ SaveFails(w) \/ FallbackFails(w) \/ Die(w)
            /\ current' = current
         \/ NoteSaved(w) /\ current' = {}
  PROVE  Effect(w)
<1>0. /\ order \in Orders /\ StepOK(w) /\ HeldOK(w) /\ Sound(order) /\ NoAwb \notin Awbs
      /\ pc \in [Workers -> Pc] /\ step \in [Workers -> Steps]
      /\ awbOf \in [Workers -> Awbs \cup {NoAwb}]
  BY InvTypes DEF PriorityInv, RequestOK
<1>1. /\ UNCHANGED <<loaded, live, issued, wiped, reconcile>> /\ lost \subseteq lost'
      /\ order'.awb = order.awb /\ order'.created = order.created
      /\ order'.status = order.status
  BY <1>0 DEF Refuse, EndFailed, Reject, NoteSaved, NoteFails, Timeout, SaveFails,
     FallbackFails, Die, Release, Released, Crash, claimVars, courierVars, docVars, Orders
<1>2. Sound(order') /\ Booked' = Booked /\ (Bare(order') => Bare(order))
  BY <1>0, <1>1 DEF Sound, Booked, Bare
<1>3. CASE Refuse(w) \/ EndFailed(w) \/ FallbackFails(w) \/ Die(w)
  <2>1. /\ pc' = [pc EXCEPT ![w] = "idle"] /\ step' = [step EXCEPT ![w] = "none"]
        /\ awbOf' = [awbOf EXCEPT ![w] = NoAwb]
    BY <1>3 DEF Refuse, EndFailed, FallbackFails, Die, Release, Crash, Goto, Ended, At
  <2>2. awbOf[w] \in lost' \cup {NoAwb}
    BY <1>0, <1>3 DEF Refuse, EndFailed, FallbackFails, Die, StepOK
  <2>3. StepOK(w)' /\ HeldOK(w)'
    BY <1>0, <2>1 DEF StepOK, HeldOK
  <2>4. /\ pc'[w] = "idle" /\ awbOf'[w] = NoAwb
        /\ \A u \in Workers \ {w} :
             pc'[u] = pc[u] /\ step'[u] = step[u] /\ awbOf'[u] = awbOf[u]
    BY <1>0, <2>1
  <2>5. Apart(w) /\ LeavesCurrent /\ Records(w) /\ Keeps(w)
    BY <1>1, <1>2, <2>2, <2>4 DEF Apart, LeavesCurrent, Records, Keeps
  <2>6. Issues(w)
    BY <1>1, <2>4, NothingIssued
  <2> QED
    BY <2>3, <2>4, <2>5, <2>6 DEF Effect
<1>4. CASE Reject(w) \/ NoteSaved(w) \/ NoteFails(w) \/ Timeout(w) \/ SaveFails(w)
  <2>1. PICK s \in {"note", "release", "fallback"} : step' = [step EXCEPT ![w] = s]
    BY <1>4 DEF Reject, NoteSaved, NoteFails, Timeout, SaveFails, At
  <2>2. pc' = pc /\ pc[w] = "booking"
    BY <1>0, <1>4 DEF Reject, NoteSaved, NoteFails, Timeout, SaveFails, StepOK, claimVars
  <2>3. /\ awbOf' = awbOf \/ awbOf' = [awbOf EXCEPT ![w] = NoAwb]
        /\ awbOf[w] \in lost' \cup {NoAwb, awbOf'[w]}
        /\ awbOf'[w] # NoAwb <=> s = "fallback"
    BY <1>0, <1>4, <2>1 DEF Reject, NoteSaved, NoteFails, Timeout, SaveFails, StepOK, At
  <2>4. StepOK(w)' /\ HeldOK(w)'
    BY <1>0, <1>1, <2>1, <2>2, <2>3 DEF StepOK, HeldOK
  <2>5. /\ pc'[w] = "booking" /\ awbOf'[w] \in {NoAwb, awbOf[w]}
        /\ \A u \in Workers \ {w} :
             pc'[u] = pc[u] /\ step'[u] = step[u] /\ awbOf'[u] = awbOf[u]
    BY <1>0, <2>1, <2>2, <2>3
  <2>6. Apart(w) /\ LeavesCurrent /\ Records(w) /\ Keeps(w)
    BY <1>1, <1>2, <2>3, <2>5 DEF Apart, LeavesCurrent, Records, Keeps
  <2>7. Issues(w)
    BY <1>1, <2>5, NothingIssued
  <2> QED
    BY <2>4, <2>5, <2>6, <2>7 DEF Effect
<1> QED
  BY <1>3, <1>4

LEMMA AcceptEffect ==
  ASSUME PriorityInv, NEW w \in Workers, Accept(w), current' = current
  PROVE  Effect(w)
<1>0. /\ StepOK(w) /\ HeldOK(w) /\ Sound(order) /\ NoAwb \notin Awbs
      /\ step \in [Workers -> Steps] /\ awbOf \in [Workers -> Awbs \cup {NoAwb}]
  BY InvTypes DEF PriorityInv, RequestOK
<1>1. PICK b \in Awbs \ issued :
        /\ awbOf' = [awbOf EXCEPT ![w] = b] /\ live' = live \cup {b}
        /\ issued' = issued \cup {b}
  BY DEF Accept
<1>2. /\ UNCHANGED <<order, pc, loaded, lost, wiped, reconcile, current>>
      /\ step' = [step EXCEPT ![w] = "accepted"]
      /\ awbOf[w] = NoAwb /\ pc[w] = "booking"
  BY <1>0 DEF Accept, At, claimVars, docVars, StepOK
<1>3. /\ awbOf'[w] = b /\ step'[w] = "accepted"
      /\ \A u \in Workers \ {w} : step'[u] = step[u] /\ awbOf'[u] = awbOf[u]
  BY <1>0, <1>1, <1>2
<1>4. StepOK(w)' /\ HeldOK(w)'
  BY <1>0, <1>2, <1>3 DEF StepOK, HeldOK
<1>5. Issues(w)
  <2>1. /\ {b} \in SUBSET (Awbs \ issued)
        /\ {b} \subseteq {awbOf'[w]} /\ awbOf'[w] \in {NoAwb, awbOf[w]} \cup {b}
    BY <1>3
  <2> QED
    BY <1>1, <2>1 DEF Issues
<1>6. Apart(w) /\ LeavesCurrent /\ Records(w) /\ Keeps(w)
  BY <1>0, <1>2, <1>3 DEF Apart, LeavesCurrent, Records, Keeps, Booked
<1> QED
  BY <1>0, <1>2, <1>4, <1>5, <1>6 DEF Effect

\* The shipment gets to the order: by the save, or by the fallback.
LEMMA Written ==
  ASSUME PriorityInv, NEW w \in Workers, Save(w) \/ Fallback(w)
  PROVE  /\ order'.awb = awbOf[w] /\ order'.created
         /\ order'.status \in {order.status, "pending_pickup"}
<1>0. /\ order \in Orders /\ StepOK(w) /\ HeldOK(w) /\ Sound(order) /\ NoAwb \notin Awbs
      /\ pc \in [Workers -> Pc] /\ step \in [Workers -> Steps]
      /\ awbOf \in [Workers -> Awbs \cup {NoAwb}]
      /\ loaded \in [Workers -> Documents]
      /\ step[w] \in {"accepted", "fallback"} /\ awbOf[w] \in Awbs /\ pc[w] = "booking"
  BY InvTypes DEF PriorityInv, RequestOK, StepOK, Save, Fallback
<1>1. CASE Save(w)
  <2>1. /\ loaded[w].order \in Orders /\ loaded[w].order.awb = NoAwb
        /\ ~loaded[w].order.created
    BY <1>0 DEF Documents, HeldOK, HasShipment
  <2>2. /\ WithShipment(loaded[w].order, awbOf[w]) \in Orders
        /\ WithShipment(loaded[w].order, awbOf[w]).awb = awbOf[w]
        /\ WithShipment(loaded[w].order, awbOf[w]).created
        /\ WithShipment(loaded[w].order, awbOf[w]).status = "pending_pickup"
    BY <1>0, <2>1, EditedTypes DEF WithShipment, Orders
  <2> QED
    BY <1>0, <1>1, <2>1, <2>2, SavedFields DEF Save
<1>2. CASE Fallback(w)
  BY <1>0, <1>2 DEF Fallback, Orders
<1> QED
  BY <1>1, <1>2

LEMMA WriteEffect ==
  ASSUME PriorityInv, NEW w \in Workers,
         \/ Save(w) /\ current' = {}
         \/ Fallback(w) /\ current' = current
  PROVE  Effect(w)
<1>0. /\ order \in Orders /\ StepOK(w) /\ HeldOK(w) /\ Sound(order) /\ NoAwb \notin Awbs
      /\ pc \in [Workers -> Pc] /\ step \in [Workers -> Steps]
      /\ awbOf \in [Workers -> Awbs \cup {NoAwb}]
      /\ loaded \in [Workers -> Documents]
      /\ step[w] \in {"accepted", "fallback"} /\ awbOf[w] \in Awbs /\ pc[w] = "booking"
  BY InvTypes DEF PriorityInv, RequestOK, StepOK, Save, Fallback
<1>1. order'.awb = awbOf[w] /\ order'.created
  BY Written
<1>2. Sound(order') /\ ~Bare(order')
  BY <1>0, <1>1 DEF Sound, Bare
<1>3. /\ pc' = [pc EXCEPT ![w] = "idle"] /\ step' = [step EXCEPT ![w] = "none"]
      /\ awbOf' = [awbOf EXCEPT ![w] = NoAwb]
      /\ UNCHANGED <<loaded, live, issued, lost>>
      /\ wiped' = wiped \cup ({order.awb} \ {NoAwb, awbOf[w]})
  BY DEF Save, Fallback, Goto, Ended, At, courierVars
<1>4. StepOK(w)' /\ HeldOK(w)'
  BY <1>0, <1>3 DEF StepOK, HeldOK
<1>5. /\ pc'[w] = "idle" /\ awbOf'[w] = NoAwb
      /\ \A u \in Workers \ {w} :
           pc'[u] = pc[u] /\ step'[u] = step[u] /\ awbOf'[u] = awbOf[u]
  BY <1>0, <1>3
<1>6. Apart(w)
  BY <1>3, <1>5 DEF Apart
<1>7. LeavesCurrent /\ Records(w) /\ Keeps(w)
  <2>1. CASE Save(w) /\ current' = {}
    <3>1. Stores(w)
      BY <1>1, <1>5, <2>1 DEF Stores, Save
    <3> QED
      BY <1>1, <1>2, <1>3, <2>1, <3>1 DEF LeavesCurrent, Records, Keeps
  <2>2. CASE Fallback(w) /\ current' = current
    <3>1. reconcile' = TRUE /\ order'.status = order.status
      BY <1>0, <2>2 DEF Fallback, Orders
    <3> QED
      BY <1>1, <1>2, <1>3, <2>2, <3>1 DEF LeavesCurrent, Records, Keeps
  <2> QED
    BY <2>1, <2>2
<1>8. Issues(w)
  BY <1>3, <1>5, NothingIssued
<1> QED
  BY <1>4, <1>5, <1>6, <1>7, <1>8 DEF Effect

LEMMA ClaimedEffect ==
  ASSUME PriorityInv, NEW w \in Workers, ClaimedBooking(w)
  PROVE  Effect(w)
<1>1. ClaimedStep(w)
  BY DEF ClaimedBooking
<1>2. CASE \/ Save(w) /\ current' = {}
           \/ Fallback(w) /\ current' = current
  BY <1>2, WriteEffect
<1>3. CASE NoteSaved(w) /\ current' = {}
  BY <1>3, QuietEffect
<1>4. CASE Claim(w) /\ current' = current
  BY <1>4, ClaimEffect
<1>5. CASE Accept(w) /\ current' = current
  BY <1>5, AcceptEffect
<1>6. CASE /\ \/ Refuse(w) \/ EndFailed(w) \/ Reject(w) \/ NoteFails(w) \/ Timeout(w)
              \/ SaveFails(w) \/ FallbackFails(w)
           /\ current' = current
  BY <1>6, QuietEffect
<1> QED
  BY <1>1, <1>2, <1>3, <1>4, <1>5, <1>6 DEF ClaimedStep

LEMMA ClaimedKeeps ==
  ASSUME PriorityInv, NEW w \in Workers, ClaimedBooking(w)
  PROVE  PriorityInv'
<1>0. /\ PriorityTypeOK' /\ RequestOK(w) /\ stage[w] = "claiming"
      /\ stage \in [Workers -> Stages] /\ made \in [Workers -> SUBSET Awbs]
      /\ MadeApart /\ live \subseteq Awbs /\ NoAwb \notin Awbs
      /\ awbOf \in [Workers -> Awbs \cup {NoAwb}]
  BY ClaimedTypes, InvTypes DEF PriorityInv, ClaimedBooking
<1>1. /\ Apart(w) /\ LeavesCurrent /\ Records(w) /\ Keeps(w) /\ Effect(w)
      /\ StepOK(w)' /\ HeldOK(w)' /\ (pc'[w] = "reused" => Booked')
  BY ClaimedEffect DEF Effect
<1>2. PICK new \in SUBSET (Awbs \ issued) :
        /\ new \subseteq {awbOf'[w]} /\ awbOf'[w] \in {NoAwb, awbOf[w]} \cup new
        /\ live' = live \cup new /\ issued' = issued \cup new
  BY <1>1 DEF Effect, Issues
<1>3. /\ made' = [made EXCEPT ![w] = made[w] \cup new]
      /\ made'[w] = made[w] \cup new
  <2>1. issued' \ issued = new
    BY <1>2
  <2> QED
    BY <1>0, <2>1 DEF ClaimedBooking
<1>4. PICK s \in {"claiming", "updated", "next"} :
        /\ stage' = [stage EXCEPT ![w] = s]
        /\ pc'[w] # "idle" => s = "claiming"
        /\ Stores(w) => s = "updated"
  BY DEF ClaimedBooking, Enter, Stores
<1>5. /\ mem' = mem /\ unstored' = unstored /\ shipped' = shipped /\ stage'[w] = s
      /\ Names(named)
  BY <1>0, <1>4 DEF ClaimedBooking, idVars
<1>6. Alone(w)
  <2>1. \A u \in Workers \ {w} : stage'[u] = stage[u] /\ made'[u] = made[u]
    BY <1>0, <1>3, <1>4
  <2> QED
    BY <1>1, <1>5, <2>1 DEF Alone, Grows, Apart, LeavesCurrent
<1>7. Stores(w) => awbOf[w] \in made[w]
  BY <1>0 DEF Stores, RequestOK, StepOK, MadeApart
<1>8. Remembers(w)
  <2>1. Bare(order') => named' # NoAwb
    BY <1>1, <1>5 DEF Records, Names, PriorityInv
  <2> QED
    BY <1>1, <1>5, <1>7, <2>1 DEF Remembers, Records, Stores
<1>9. MadeApart'
  <2>1. awbOf'[w] # NoAwb => awbOf'[w] \in made'[w]
    BY <1>0, <1>2, <1>3 DEF MadeApart
  <2> QED
    BY <1>2, <1>3, <1>4, <1>5, <1>6, <2>1, MadeKeeps
<1>10. ShipmentsKnown'
  <2>1. ASSUME NEW a \in Awbs, awbOf'[w] = a PROVE Traced(a)'
    BY <1>0, <1>1, <2>1 DEF StepOK, InFlight, Traced
  <2>2. \A a \in Awbs : awbOf[w] = a => Traced(a)'
    BY <1>0, <1>1, <2>1 DEF Keeps, Stores, Traced, Forgotten
  <2>3. \A a \in live' \ live : a \in Awbs /\ awbOf'[w] = a
    BY <1>2
  <2> QED
    BY <1>0, <1>2, <1>6, <1>8, <2>1, <2>2, <2>3, KnownKeeps
<1>11. DocumentOK(w)'
  BY <1>0, <1>4, <1>5 DEF RequestOK, DocumentOK, Made
<1>12. MadeOK(w)'
  <2> SUFFICES ASSUME s # "updated", NEW a \in made'[w] \ {awbOf'[w]}
               PROVE  (a \in Forgotten \/ (reconcile /\ order.awb = a))'
    BY <1>5 DEF MadeOK
  <2>1. a \in made[w] /\ a # NoAwb /\ ~Stores(w)
    BY <1>0, <1>2, <1>3, <1>4
  <2>2. CASE a = awbOf[w]
    BY <1>1, <2>1, <2>2 DEF Keeps, Forgotten
  <2>3. CASE a # awbOf[w]
    <3>1. a \in Forgotten \/ (reconcile /\ order.awb = a)
      BY <1>0, <2>1, <2>3 DEF RequestOK, DocumentOK, MadeOK
    <3> QED
      BY <1>1, <2>1, <3>1 DEF Records, Forgotten
  <2> QED
    BY <2>2, <2>3
<1>13. CurrentOK(w)' /\ StoredOK(w)'
  BY <1>0, <1>1, <1>4, <1>5
     DEF RequestOK, DocumentOK, CurrentOK, StoredOK, Kept, Made
<1>14. RequestOK(w)'
  BY <1>1, <1>11, <1>12, <1>13 DEF RequestOK
<1> QED
  BY <1>0, <1>6, <1>8, <1>9, <1>10, <1>14, StepKeeps

\* The process dies: what it had and had not stored is lost.
LEMMA DiesKeeps ==
  ASSUME PriorityInv, NEW w \in Workers, Dies(w)
  PROVE  PriorityInv'
<1>0. /\ PriorityTypeOK' /\ RequestOK(w) /\ Sound(order) /\ order \in Orders
      /\ stage \in [Workers -> Stages] /\ made \in [Workers -> SUBSET Awbs]
      /\ MadeApart /\ live \subseteq Awbs /\ NoAwb \notin Awbs
      /\ pc \in [Workers -> Pc] /\ step \in [Workers -> Steps]
      /\ awbOf \in [Workers -> Awbs \cup {NoAwb}]
  BY DiesTypes, InvTypes DEF PriorityInv, RequestOK
<1>1. /\ UNCHANGED <<order, loaded, live, issued, wiped, reconcile, mem, made, current,
                     unstored, shipped, nameVars>>
      /\ stage' = [stage EXCEPT ![w] = "failed"]
      /\ lost \subseteq lost' /\ Booked' = Booked
  BY DEF Dies, Die, Crash, Enter, claimVars, docVars, velocityVars, idVars, Booked
<1>2. /\ stage'[w] = "failed" /\ \A u \in Workers \ {w} : stage'[u] = stage[u]
  BY <1>0, <1>1
<1>3. /\ Apart(w) /\ pc'[w] = "idle" /\ awbOf'[w] = NoAwb /\ step'[w] = "none"
      /\ \A a \in Awbs : awbOf[w] = a => a \in lost'
  <2>1. CASE Die(w)
    BY <1>0, <1>1, <2>1 DEF Die, Crash, Goto, Ended, At, Apart
  <2>2. CASE ~Die(w)
    BY <1>0, <2>2 DEF Dies, claimVars, Apart, RequestOK, StepOK
  <2> QED
    BY <2>1, <2>2
<1>4. stage[w] = "save" => Made(w) \in lost'
  BY <1>0 DEF Dies, Die, Crash, RequestOK, DocumentOK
<1>5. Alone(w) /\ Remembers(w)
  <2>1. Names(named)
    BY <1>1, SameName
  <2> QED
    BY <1>0, <1>1, <1>2, <1>3, <2>1
       DEF Alone, Grows, Remembers, Apart, nameVars, PriorityInv
<1>6. MadeApart'
  BY <1>0, <1>1, <1>2, <1>3, <1>5 DEF MadeApart, Apart
<1>7. ShipmentsKnown'
  <2>1. \A a \in Awbs : a \in lost' => Traced(a)'
    BY DEF Traced, Forgotten
  <2> QED
    BY <1>0, <1>1, <1>3, <1>4, <1>5, <2>1, KnownKeeps
<1>8. RequestOK(w)'
  BY <1>0, <1>1, <1>2, <1>3 DEF RequestOK, StepOK, HeldOK, DocumentOK, MadeOK,
     CurrentOK, StoredOK
<1> QED
  BY <1>0, <1>5, <1>6, <1>7, <1>8, StepKeeps

LEMMA InitInv == PriorityInit => PriorityInv
<1> SUFFICES ASSUME PriorityInit PROVE PriorityInv
  OBVIOUS
<1>1. PriorityTypeOK /\ NoAwb \notin Awbs
  BY InitTypes, ConstantsAssumption
<1>2. /\ Sound(order) /\ ~HasShipment(order) /\ live = {} /\ issued = {} /\ current = {}
  BY DEF PriorityInit, LorrigoInit, Init, Sound, Bare, HasShipment
<1>3. ASSUME NEW w \in Workers
      PROVE  /\ pc[w] = "idle" /\ step[w] = "none" /\ awbOf[w] = NoAwb
             /\ stage[w] = "idle" /\ made[w] = {} /\ mem[w] = Remembered(order, NoId)
  BY DEF PriorityInit, LorrigoInit, Init
<1>4. \A w \in Workers : RequestOK(w)
  BY <1>2, <1>3 DEF RequestOK, StepOK, HeldOK, DocumentOK, MadeOK, CurrentOK, StoredOK,
     Remembered
<1>5. MadeApart /\ ShipmentsKnown
  BY <1>2, <1>3 DEF MadeApart, ShipmentsKnown
<1> QED
  BY <1>1, <1>2, <1>4, <1>5 DEF PriorityInv, Bare, HasShipment

LEMMA NextInv == PriorityInv /\ [PriorityNext]_priorityVars => PriorityInv'
<1> SUFFICES ASSUME PriorityInv, [PriorityNext]_priorityVars PROVE PriorityInv'
  OBVIOUS
<1>1. ASSUME NEW w \in Workers, RequestStep(w) PROVE PriorityInv'
  BY <1>1, OwnKeeps, PrepSavesKeeps, ClaimedKeeps, PersistKeeps, VelocityKeeps,
     VelocitySavesKeeps, HistorySavesKeeps, MarkFailedKeeps, DiesKeeps DEF RequestStep
<1>2. CASE (ClaimAge \/ UNCHANGED bookVars) /\ UNCHANGED <<requestVars, velocityVars>>
  <2>1. PriorityTypeOK'
    <3>1. \A w \in Workers : DocumentOK(w)
      BY DEF PriorityInv, RequestOK
    <3>2. [PriorityNext]_priorityVars
      OBVIOUS
    <3> QED
      BY <3>1, <3>2, NextTypes DEF PriorityInv
  <2>2. /\ UNCHANGED <<pc, step, awbOf, loaded, live, issued, lost, wiped, reconcile,
                       stage, mem, current, made, unstored, shipped, named, dropped>>
        /\ order'.status = order.status /\ order'.awb = order.awb
        /\ order'.created = order.created
    BY <1>2, InvTypes DEF ClaimAge, ClaimAges, bookVars, claimVars, courierVars, docVars,
       requestVars, velocityVars, idVars, nameVars, Orders
  <2>3. /\ Booked' = Booked /\ Kept' = Kept /\ Sound(order') /\ Forgotten' = Forgotten
        /\ Bare(order') = Bare(order) /\ \A w \in Workers : Made(w)' = Made(w)
    BY <2>2 DEF Booked, Kept, Erased, Sound, Bare, Forgotten, Made, PriorityInv
  <2>4. ASSUME NEW w \in Workers PROVE RequestOK(w)'
    <3>1. RequestOK(w)
      BY DEF PriorityInv
    <3>2. StepOK(w)' /\ HeldOK(w)' /\ DocumentOK(w)'
      BY <2>2, <2>3, <3>1 DEF RequestOK, StepOK, HeldOK, DocumentOK
    <3>3. MadeOK(w)'
      BY <2>2, <2>3, <3>1 DEF RequestOK, MadeOK
    <3>4. CurrentOK(w)' /\ StoredOK(w)'
      BY <2>2, <2>3, <3>1 DEF RequestOK, CurrentOK, StoredOK
    <3> QED
      BY <3>2, <3>3, <3>4 DEF RequestOK
  <2>5. MadeApart'
    BY <2>2 DEF PriorityInv, MadeApart
  <2>6. ShipmentsKnown'
    BY <2>2, <2>3 DEF PriorityInv, ShipmentsKnown, InFlight, Saving
  <2> QED
    BY <2>1, <2>2, <2>3, <2>4, <2>5, <2>6 DEF PriorityInv
<1> QED
  BY <1>1, <1>2 DEF PriorityNext, priorityVars

\* At every moment of a batch: what each request's document says of the stored
\* order, whose shipments are whose, and where each of them is.
THEOREM PriorityInvariant == PrioritySpec => []PriorityInv
  BY InitInv, NextInv, PTL DEF PrioritySpec

-----------------------------------------------------------------------------
\* The variables of a request keep their types: what is left of its list, its
\* document, the order ids.
THEOREM PriorityTypeCorrect == PrioritySpec => []PriorityTypeOK
<1>1. PriorityInv => PriorityTypeOK
  BY DEF PriorityInv
<1> QED
  BY <1>1, PriorityInvariant, PTL

\* Every shipment a courier will deliver is in the order, by its AWB or by the
\* id that Velocity gave it, or in the hands of a request that is about to save
\* it, or was lost in a way that can be named
\* (bookForwardShipmentForOrder's save and its logged failure, the claim's save,
\* its fallback, a lost answer, a death).
THEOREM NoShipmentUnknown == PrioritySpec => []EveryShipmentIsKnown
<1>1. PriorityInv => EveryShipmentIsKnown
  BY DEF PriorityInv, ShipmentsKnown, EveryShipmentIsKnown, Saving
<1> QED
  BY <1>1, PriorityInvariant, PTL

\* A booking with a claim gives out a shipment in its acceptance only.
LEMMA ClaimedIssues ==
  ASSUME PriorityInv, NEW w \in Workers, ClaimedBooking(w), issued' # issued
  PROVE  awbOf[w] = NoAwb
<1>1. StepOK(w)
  BY DEF PriorityInv, RequestOK
<1>2. Accept(w)
  BY DEF ClaimedBooking, ClaimedStep, Save, NoteSaved, Claim, Refuse, Reject, NoteFails,
     Timeout, EndFailed, SaveFails, Fallback, FallbackFails, courierVars
<1> QED
  BY <1>1, <1>2 DEF StepOK, Accept

\* The loop over the couriers (processOneSelectedOrder) asks the next one only
\* for a request without a shipment, or whose shipments were forgotten, or when
\* the order is flagged for reconciliation.
THEOREM OneShipmentEach == PrioritySpec => OneShipmentPerRequest
<1>1. ASSUME PriorityInv, [PriorityNext]_priorityVars, NEW w \in Workers,
             made'[w] # made[w], NEW a \in made[w]
      PROVE  a \in Forgotten \/ reconcile
  <2>0. /\ RequestOK(w) /\ MadeApart /\ made \in [Workers -> SUBSET Awbs]
        /\ a \in Awbs /\ NoAwb \notin Awbs
    BY <1>1, InvTypes DEF PriorityInv
  <2>1. ASSUME stage[w] \in {"claiming", "create"}, awbOf[w] = NoAwb
        PROVE  a \in Forgotten \/ reconcile
    BY <1>1, <2>0, <2>1 DEF RequestOK, MadeOK, DocumentOK
  <2>2. ASSUME NEW u \in Workers, VelocityAccepts(u) \/ VelocityTimesOut(u)
        PROVE  a \in Forgotten \/ reconcile
    <3>1. stage[u] = "create" /\ \E i \in Ids : Ships(u, i)
      BY <2>2 DEF VelocityAccepts, VelocityTimesOut
    <3>2. u = w
      BY <1>1, <2>0, <3>1 DEF Ships
    <3>3. awbOf[w] = NoAwb
      BY <2>0, <3>1, <3>2 DEF RequestOK, DocumentOK, StepOK
    <3> QED
      BY <2>1, <3>1, <3>2, <3>3
  <2>3. ASSUME NEW u \in Workers, ClaimedBooking(u)
        PROVE  a \in Forgotten \/ reconcile
    <3>1. /\ stage[u] = "claiming"
          /\ made' = [made EXCEPT ![u] = @ \cup (issued' \ issued)]
      BY <2>3 DEF ClaimedBooking
    <3>2. u = w /\ issued' # issued
      BY <1>1, <2>0, <3>1
    <3> QED
      BY <1>1, <2>1, <2>3, <3>1, <3>2, ClaimedIssues
  <2>4. ASSUME NEW u \in Workers, RequestStep(u),
               ~VelocityAccepts(u), ~VelocityTimesOut(u), ~ClaimedBooking(u)
        PROVE  FALSE
    BY <1>1, <2>4 DEF RequestStep, Begin, Skip, PrepSaves, PrepReloads, PrepFails,
       TakeNext, VelocityRefuses, Persist, VelocityRejects, VelocitySaves,
       VelocitySaveFails, HistorySaves, HistoryFails, Fail, MarkFailed, MarkLost, Dies
  <2> QED
    BY <1>1, <2>2, <2>3, <2>4 DEF PriorityNext, priorityVars, requestVars
<1>2. PriorityInv /\ [PriorityNext]_priorityVars =>
        [\A w \in Workers : \A a \in made[w] : made'[w] # made[w]
           => a \in Forgotten \/ reconcile]_priorityVars
  BY <1>1
<1> QED
  BY <1>2, PriorityInvariant, PTL DEF PrioritySpec, OneShipmentPerRequest

\* A booking with a claim ends as a success only when its caller was told of a
\* shipment, or with the save.
LEMMA ClaimedUpdates ==
  ASSUME PriorityInv, NEW w \in Workers, ClaimedBooking(w), stage'[w] = "updated"
  PROVE  Booked' \/ Erased # {}
<1>0. /\ StepOK(w) /\ RequestOK(w) /\ stage \in [Workers -> Stages]
      /\ pc \in [Workers -> Pc] /\ step \in [Workers -> Steps]
  BY InvTypes DEF PriorityInv, RequestOK
<1>1. pc'[w] = "idle" /\ (pc[w] = "reused" \/ step[w] = "accepted")
  BY <1>0 DEF ClaimedBooking, Enter
<1>2. CASE step[w] = "accepted"
  <2>1. pc[w] = "booking" /\ (Claim(w) => FALSE)
    BY <1>0, <1>2, ClaimMoves DEF StepOK, Claim
  <2>2. Save(w)
    BY <1>1, <1>2, <2>1 DEF ClaimedBooking, ClaimedStep, NoteSaved, Refuse, Accept,
       Reject, NoteFails, Timeout, EndFailed, SaveFails, Fallback, FallbackFails,
       claimVars
  <2> QED
    BY <2>2, Written DEF Booked
<1>3. CASE step[w] # "accepted"
  <2>1. pc[w] = "reused" /\ step[w] = "none" /\ Kept
    BY <1>0, <1>1, <1>3 DEF StepOK, RequestOK, StoredOK
  <2>2. Claim(w)
    BY <2>1 DEF ClaimedBooking, ClaimedStep, Save, NoteSaved, Refuse, Accept, Reject,
       NoteFails, Timeout, EndFailed, SaveFails, Fallback, FallbackFails
  <2>3. Answer(w)
    BY <2>1, <2>2 DEF Claim, ClaimStep, FindOrder, ResetForRebook, ResetLost, TryClaim,
       Reread
  <2> QED
    BY <2>1, <2>3 DEF Answer, Kept, Booked
<1> QED
  BY <1>2, <1>3

\* "updated" is the truth, but for a shipment that was not stored and for an
\* order that some request has taken a shipment off.
THEOREM UpdatedIsTrue == PrioritySpec => UpdatedIsStored
<1>1. ASSUME PriorityInv, [PriorityNext]_priorityVars, NEW w \in Workers,
             stage[w] # "updated", stage'[w] = "updated"
      PROVE  Booked' \/ Erased # {} \/ Made(w) \in unstored
  <2>0. RequestOK(w) /\ stage \in [Workers -> Stages]
    BY <1>1, InvTypes DEF PriorityInv
  <2>1. ASSUME NEW u \in Workers, RequestStep(u) PROVE u = w
    <3>1. \E s : Enter(u, s)
      BY <2>1 DEF RequestStep, Begin, Skip, PrepSaves, PrepReloads, PrepFails, TakeNext,
         ClaimedBooking, VelocityRefuses, Persist, VelocityAccepts, VelocityRejects,
         VelocityTimesOut, VelocitySaves, VelocitySaveFails, HistorySaves, HistoryFails,
         Fail, MarkFailed, MarkLost, Dies
    <3> QED
      BY <1>1, <2>0, <3>1 DEF Enter
  <2>2. CASE TakeNext(w)
    <3>1. stage[w] = "next" /\ HasShipment(mem[w].order) /\ Booked' = Booked
      BY <1>1, <2>0, <2>2 DEF TakeNext, Enter, bookVars, claimVars, Booked
    <3> QED
      BY <2>0, <3>1 DEF RequestOK, StoredOK, Kept
  <2>3. CASE ClaimedBooking(w)
    BY <1>1, <2>3, ClaimedUpdates
  <2>4. CASE HistorySaves(w) \/ HistoryFails(w)
    <3>1. stage[w] = "history" /\ Booked' = Booked
      BY <2>4 DEF HistorySaves, HistoryFails, bookVars, claimVars, Booked
    <3> QED
      BY <2>0, <3>1 DEF RequestOK, StoredOK, Kept
  <2>5. ASSUME RequestStep(w), ~TakeNext(w), ~ClaimedBooking(w), ~HistorySaves(w),
               ~HistoryFails(w)
        PROVE  stage'[w] # "updated"
    <3>1. \E s \in Stages \ {"updated"} : Enter(w, s)
      BY <2>5 DEF RequestStep, Begin, Skip, PrepSaves, PrepReloads, PrepFails,
         VelocityRefuses, Persist, VelocityAccepts, VelocityRejects, VelocityTimesOut,
         VelocitySaves, VelocitySaveFails, Fail, MarkFailed, MarkLost, Dies, Stages
    <3> QED
      BY <2>0, <3>1 DEF Enter
  <2> QED
    BY <1>1, <2>1, <2>2, <2>3, <2>4, <2>5 DEF PriorityNext, priorityVars, requestVars
<1>2. PriorityInv /\ [PriorityNext]_priorityVars =>
        [\A w \in Workers : stage[w] # "updated" /\ stage'[w] = "updated"
           => Booked' \/ Erased # {} \/ Made(w) \in unstored]_priorityVars
  BY <1>1
<1> QED
  BY <1>2, PriorityInvariant, PTL DEF PrioritySpec, UpdatedIsStored

\* A booking with a claim writes one status: that of a shipment.
LEMMA ClaimedStatus ==
  ASSUME PriorityInv, NEW w \in Workers, ClaimedBooking(w)
  PROVE  order'.status \in {order.status, "pending_pickup"}
<1>0. order \in Orders
  BY InvTypes
<1>1. CASE Save(w) \/ Fallback(w)
  BY <1>1, Written
<1>2. CASE Claim(w)
  BY <1>0, <1>2 DEF Claim, ClaimStep, FindOrder, ResetForRebook, ResetLost, TryClaim,
     Reread, Answer, Orders
<1>3. CASE Refuse(w) \/ EndFailed(w)
  BY <1>0, <1>3 DEF Refuse, EndFailed, Release, Released, Orders
<1>4. CASE \/ Accept(w) \/ Reject(w) \/ NoteSaved(w) \/ NoteFails(w) \/ Timeout(w)
           \/ SaveFails(w) \/ FallbackFails(w)
  BY <1>4 DEF Accept, Reject, NoteSaved, NoteFails, Timeout, SaveFails, FallbackFails,
     claimVars
<1> QED
  BY <1>1, <1>2, <1>3, <1>4 DEF ClaimedBooking, ClaimedStep

\* A document that was overtaken by a booking is not saved: neither the failed
\* request's mark nor a preparation undoes the status of a shipment, unless it
\* is a preparation made again or the fallback's shipment.
THEOREM StatusStays == PrioritySpec => ShippedStatusKept
<1>1. ASSUME PriorityInv, [PriorityNext]_priorityVars,
             Booked, order.status = "pending_pickup", order'.status # "pending_pickup",
             ~reconcile, NEW w \in Workers, RequestStep(w)
      PROVE  stage[w] = "reloaded" /\ stage'[w] = "next"
  <2>0. /\ RequestOK(w) /\ order \in Orders /\ mem[w].order \in Orders
        /\ mem[w].loaded \in Orders /\ stage \in [Workers -> Stages]
    BY <1>1, InvTypes DEF PriorityInv
  <2>1. CASE PrepSaves(w)
    <3>1. /\ stage[w] \in {"prep", "reloaded"} /\ stage'[w] = "next"
          /\ mem[w].order = mem[w].loaded
      BY <2>0, <2>1 DEF PrepSaves, Enter, RequestOK, DocumentOK
    <3>2. ASSUME stage[w] = "prep" PROVE FALSE
      <4>1. w \in current
        BY <1>1, <2>1 DEF PrepSaves, SavedWithArrays
      <4> QED
        BY <1>1, <2>0, <2>1, <3>1, <3>2, <4>1
           DEF PrepSaves, Processable, RequestOK, CurrentOK
    <3> QED
      BY <3>1, <3>2
  <2>2. CASE VelocitySaves(w)
    <3>1. /\ order' = SavedOver(mem[w].loaded, mem[w].order)
          /\ mem[w].order.status = "pending_pickup"
      BY <2>0, <2>2 DEF VelocitySaves, SavedWithArrays, RequestOK, DocumentOK
    <3> QED
      BY <1>1, <2>0, <3>1, SavedFields
  <2>3. CASE MarkFailed(w)
    BY <1>1, <2>0, <2>3 DEF MarkFailed, SavedWithArrays, RequestOK, CurrentOK
  <2>4. CASE ClaimedBooking(w)
    BY <1>1, <2>4, ClaimedStatus
  <2>5. ASSUME ~PrepSaves(w), ~VelocitySaves(w), ~MarkFailed(w), ~ClaimedBooking(w)
        PROVE  order' = order
    BY <1>1, <2>5 DEF RequestStep, Begin, Skip, PrepReloads, PrepFails, TakeNext,
       VelocityRefuses, Persist, VelocityAccepts, VelocityRejects, VelocityTimesOut,
       VelocitySaveFails, HistorySaves, HistoryFails, Fail, MarkLost, Dies, Die, Crash,
       bookVars, claimVars
  <2> QED
    BY <1>1, <2>1, <2>2, <2>3, <2>4, <2>5
<1>2. ASSUME PriorityInv, ClaimAge \/ UNCHANGED priorityVars
      PROVE  order'.status = order.status
  BY <1>2, InvTypes DEF ClaimAge, ClaimAges, priorityVars, bookVars, claimVars, Orders
<1>3. PriorityInv /\ [PriorityNext]_priorityVars =>
        [Booked /\ Booked' /\ order.status = "pending_pickup"
           => \/ order'.status = "pending_pickup"
              \/ \E w \in Workers : stage[w] = "reloaded" /\ stage'[w] = "next"
              \/ reconcile]_priorityVars
  BY <1>1, <1>2 DEF PriorityNext
<1> QED
  BY <1>3, PriorityInvariant, PTL DEF PrioritySpec, ShippedStatusKept

-----------------------------------------------------------------------------
(***************************************************************************)
(* The claim among the other writers of the order: Velocity's saves, the   *)
(* preparations and the failure marks take no claim, and write over it.    *)
(***************************************************************************)

\* As long as no claim was overridden, the claim in the document is that of the
\* one worker that books.  (Not whether the order has a shipment: Velocity may
\* have put one there.)
HolderHolds ==
  overridden \/
    \A w \in Workers : pc[w] = "booking" => owner = w /\ order.inProgress

\* Velocity's answer leaves the claim fields of the request's document as they
\* were loaded, so that its save does not write them.
ClaimAsLoaded(w) ==
  stage[w] = "save" =>
    /\ mem[w].order.inProgress = mem[w].loaded.inProgress
    /\ mem[w].order.at = mem[w].loaded.at

HolderInv ==
  /\ PriorityInv
  /\ ClaimIsDated /\ HolderHolds
  /\ \A w \in Workers : ClaimAsLoaded(w)

\* A step that sets no claim: workers leave, and who stays has the claim still.
NobodyComes ==
  /\ Claimed' \subseteq Claimed
  /\ overridden => overridden'
  /\ order'.inProgress => order.inProgress /\ order'.at \in {order.at, "stale"}
  /\ \/ overridden' \/ Claimed' = {}
     \/ owner' = owner /\ (order.inProgress => order'.inProgress)

\* A step that does: nobody is there, or it is the override.
Comes(w) ==
  /\ Claimed' = Claimed \cup {w} /\ w \notin Claimed
  /\ overridden => overridden'
  /\ Claimed = {} \/ overridden'
  /\ owner' = w /\ order'.inProgress /\ order'.at = "recent"

LEMMA ClaimComes ==
  ASSUME HolderInv, NEW w \in Workers, Claim(w)
  PROVE  NobodyComes \/ Comes(w)
<1>0. /\ order \in Orders /\ pc \in [Workers -> Pc] /\ ClaimStep(w)
      /\ ClaimIsDated /\ HolderHolds
  BY InvTypes DEF HolderInv, Claim
<1>1. PICK l : pc[w] # "booking" /\ pc' = [pc EXCEPT ![w] = l]
  BY <1>0, ClaimMoves
<1>2. CASE UNCHANGED <<order, owner, overridden>> /\ l # "booking"
  BY <1>0, <1>1, <1>2 DEF NobodyComes, Claimed
<1>3. l = pc'[w]
  BY <1>0, <1>1
<1>4. ASSUME NEW k \in Keys, FindOrder(w, k) PROVE NobodyComes \/ Comes(w)
  <2>1. /\ UNCHANGED <<order, owner, overridden>>
        /\ \E m \in {"reset", "reused", "conflict", "claim"} : Goto(w, m)
    BY <1>4 DEF FindOrder
  <2>2. l # "booking"
    BY <1>0, <1>3, <2>1 DEF Goto
  <2> QED
    BY <1>2, <2>1, <2>2
<1>5. CASE ResetLost(w) \/ Reread(w) \/ Answer(w)
  BY <1>0, <1>2, <1>3, <1>5 DEF ResetLost, Reread, Answer, Goto
<1>6. CASE ResetForRebook(w)
  <2>1. /\ Claimed' \subseteq Claimed /\ ~order'.inProgress
        /\ overridden' = (overridden \/ StillBooking(owner))
    BY <1>0, <1>1, <1>3, <1>6 DEF ResetForRebook, Goto, Orders, Claimed
  <2>2. overridden' \/ Claimed = {}
    BY <1>0, <2>1 DEF HolderHolds, StillBooking, Claimed
  <2> QED
    BY <2>1, <2>2 DEF NobodyComes
<1>7. CASE TryClaim(w) /\ Claimable
  <2>1. /\ pc'[w] = "booking" /\ owner' = w
        /\ order'.inProgress /\ order'.at = "recent"
        /\ overridden' = (overridden \/ (StolenStale /\ StillBooking(owner)))
    BY <1>0, <1>7 DEF TryClaim, Goto, Orders
  <2>2. Claimed' = Claimed \cup {w} /\ w \notin Claimed
    BY <1>0, <1>1, <2>1 DEF Claimed
  <2>3. Claimed = {} \/ overridden'
    \* A booking worker owns the claim, which the filter found stale.
    BY <1>0, <1>7, <2>1 DEF HolderHolds, Claimable, ClaimIsDated, StolenStale,
       StillBooking, Claimed
  <2> QED
    BY <2>1, <2>2, <2>3 DEF Comes
<1>8. CASE TryClaim(w) /\ ~Claimable
  BY <1>0, <1>2, <1>3, <1>8 DEF TryClaim, Goto
<1> QED
  BY <1>0, <1>4, <1>5, <1>6, <1>7, <1>8 DEF ClaimStep

\* The other steps of a booking with a claim: it goes on, or the holder leaves
\* and nobody is left.
LEMMA BookingLeaves ==
  ASSUME HolderInv, NEW w \in Workers, BookingStep(w) \/ Die(w)
  PROVE  NobodyComes
<1>0. /\ order \in Orders /\ pc \in [Workers -> Pc] /\ StepOK(w)
      /\ loaded \in [Workers -> Documents] /\ awbOf \in [Workers -> Awbs \cup {NoAwb}]
      /\ HolderHolds
  BY InvTypes DEF HolderInv, PriorityInv, RequestOK
<1>1. CASE UNCHANGED claimVars
  BY <1>1 DEF claimVars, Claimed, NobodyComes
<1>2. ASSUME pc' = [pc EXCEPT ![w] = "idle"], UNCHANGED <<owner, overridden>>,
             order'.inProgress => order.inProgress /\ order'.at = order.at,
             pc[w] = "booking" \/ order' = order
      PROVE  NobodyComes
  <2>1. Claimed' = Claimed \ {w}
    BY <1>0, <1>2 DEF Claimed
  <2>2. pc[w] = "booking" => overridden' \/ Claimed' = {}
    BY <1>0, <1>2, <2>1 DEF HolderHolds, Claimed
  <2> QED
    BY <1>2, <2>1, <2>2 DEF NobodyComes
<1>3. CASE Refuse(w) \/ EndFailed(w) \/ FallbackFails(w) \/ Die(w)
  <2>1. /\ pc' = [pc EXCEPT ![w] = "idle"] /\ UNCHANGED <<owner, overridden>>
        /\ pc[w] = "booking" \/ order' = order
    BY <1>3 DEF Refuse, EndFailed, FallbackFails, Die, Release, Crash, Goto
  <2>2. order'.inProgress => order.inProgress /\ order'.at = order.at
    BY <1>0, <1>3 DEF Refuse, EndFailed, FallbackFails, Die, Release, Released,
       Crash, Orders
  <2> QED
    BY <1>2, <2>1, <2>2
<1>4. CASE Save(w) \/ Fallback(w)
  <2>1. /\ pc' = [pc EXCEPT ![w] = "idle"] /\ UNCHANGED <<owner, overridden>>
        /\ pc[w] = "booking" /\ awbOf[w] \in Awbs
    BY <1>0, <1>4 DEF Save, Fallback, Goto, StepOK
  <2>2. order'.inProgress => order.inProgress /\ order'.at = order.at
    <3>1. CASE Save(w)
      <4>1. loaded[w].order \in Orders
        BY <1>0 DEF Documents
      <4>2. /\ WithShipment(loaded[w].order, awbOf[w]) \in Orders
            /\ ~WithShipment(loaded[w].order, awbOf[w]).inProgress
            /\ WithShipment(loaded[w].order, awbOf[w]).at = loaded[w].order.at
        BY <2>1, <4>1, EditedTypes DEF WithShipment, Orders
      <4> QED
        BY <1>0, <3>1, <4>1, <4>2, SavedFields DEF Save, Orders
    <3>2. CASE Fallback(w)
      BY <1>0, <3>2 DEF Fallback, Orders
    <3> QED
      BY <1>4, <3>1, <3>2
  <2> QED
    BY <1>2, <2>1, <2>2
<1>5. CASE \/ Accept(w) \/ Reject(w) \/ NoteSaved(w) \/ NoteFails(w) \/ Timeout(w)
           \/ SaveFails(w)
  BY <1>1, <1>5 DEF Accept, Reject, NoteSaved, NoteFails, Timeout, SaveFails
<1> QED
  BY <1>3, <1>4, <1>5 DEF BookingStep

\* A save of a request's document sets no claim.  Where it clears one under its
\* holder, it is an override.
LEMMA SaveOverrides ==
  ASSUME HolderInv, NEW w \in Workers, NEW new \in Orders, SavedWithArrays(w, new),
         UNCHANGED <<pc, owner>>,
         new.inProgress \in {mem[w].loaded.inProgress, FALSE},
         new.at = mem[w].loaded.at
  PROVE  NobodyComes
<1>0. /\ order \in Orders /\ mem[w].loaded \in Orders /\ HolderHolds
  BY InvTypes DEF HolderInv
<1>1. /\ order'.inProgress \in {order.inProgress, FALSE} /\ order'.at = order.at
      /\ overridden' = (overridden \/ (order.inProgress /\ ~order'.inProgress
                                         /\ StillBooking(owner)))
  BY <1>0, SavedFields DEF SavedWithArrays
<1>2. Claimed' = Claimed
  BY DEF Claimed
<1>3. ~order'.inProgress /\ order.inProgress => overridden' \/ Claimed' = {}
  BY <1>0, <1>1, <1>2 DEF HolderHolds, StillBooking, Claimed
<1> QED
  BY <1>1, <1>2, <1>3 DEF NobodyComes

LEMMA RequestLeaves ==
  ASSUME HolderInv, NEW w \in Workers, RequestStep(w)
  PROVE  NobodyComes \/ Comes(w)
<1>0. /\ DocumentOK(w) /\ ClaimAsLoaded(w) /\ PriorityTypeOK
      /\ mem[w].order \in Orders /\ mem[w].loaded \in Orders
  BY InvTypes DEF HolderInv, PriorityInv, RequestOK
<1>1. CASE UNCHANGED claimVars
  BY <1>1 DEF claimVars, Claimed, NobodyComes
<1>2. CASE PrepSaves(w)
  <2>1. /\ Prepared(w) \in Orders /\ mem[w].order = mem[w].loaded
        /\ UNCHANGED <<pc, key, owner>>
    BY <1>0, <1>2, PreparedType DEF PrepSaves, DocumentOK
  <2>2. /\ Prepared(w).inProgress \in {mem[w].loaded.inProgress, FALSE}
        /\ Prepared(w).at = mem[w].loaded.at
    BY <1>0, <2>1 DEF Prepared, Orders
  <2>3. CASE SavedWithArrays(w, Prepared(w))
    BY <2>1, <2>2, <2>3, SaveOverrides
  <2>4. CASE UNCHANGED <<order, overridden>>
    BY <1>1, <2>1, <2>4 DEF claimVars
  <2> QED
    BY <1>2, <2>3, <2>4 DEF PrepSaves
<1>3. CASE VelocitySaves(w)
  BY <1>0, <1>3, SaveOverrides DEF VelocitySaves, ClaimAsLoaded
<1>4. CASE MarkFailed(w)
  <2>1. mem[w].order = mem[w].loaded
    BY <1>0, <1>4 DEF MarkFailed, DocumentOK
  <2> DEFINE new == [mem[w].order EXCEPT !.status = "booking_failed",
                                         !.inProgress = FALSE]
  <2>2. new \in Orders /\ new.inProgress = FALSE /\ new.at = mem[w].loaded.at
    BY <1>0, <2>1 DEF Orders, Statuses, RebookableStatuses
  <2>3. SavedWithArrays(w, new) /\ UNCHANGED <<pc, owner>>
    BY <1>4 DEF MarkFailed
  <2> HIDE DEF new
  <2> QED
    BY <2>2, <2>3, SaveOverrides
<1>5. CASE ClaimedBooking(w)
  BY <1>5, ClaimComes, BookingLeaves DEF ClaimedBooking, ClaimedStep, BookingStep
<1>6. CASE Dies(w)
  BY <1>1, <1>6, BookingLeaves DEF Dies
<1>7. CASE \/ Begin(w) \/ Skip(w) \/ PrepReloads(w) \/ PrepFails(w) \/ TakeNext(w)
           \/ VelocityRefuses(w) \/ Persist(w) \/ VelocityAccepts(w)
           \/ VelocityRejects(w) \/ VelocityTimesOut(w) \/ VelocitySaveFails(w)
           \/ HistorySaves(w) \/ HistoryFails(w) \/ Fail(w) \/ MarkLost(w)
  BY <1>1, <1>7 DEF Begin, Skip, PrepReloads, PrepFails, TakeNext, VelocityRefuses,
     Persist, VelocityAccepts, VelocityRejects, VelocityTimesOut, VelocitySaveFails,
     HistorySaves, HistoryFails, Fail, MarkLost, bookVars
<1> QED
  BY <1>2, <1>3, <1>4, <1>5, <1>6, <1>7 DEF RequestStep

LEMMA StepComes ==
  ASSUME HolderInv, [PriorityNext]_priorityVars
  PROVE  NobodyComes \/ \E w \in Workers : Comes(w)
<1>1. CASE ClaimAge
  <2>1. order \in Orders
    BY InvTypes DEF HolderInv
  <2> QED
    BY <1>1, <2>1 DEF ClaimAge, ClaimAges, Orders, Claimed, NobodyComes
<1>2. CASE UNCHANGED priorityVars
  BY <1>2 DEF priorityVars, bookVars, claimVars, Claimed, NobodyComes
<1> QED
  BY <1>1, <1>2, RequestLeaves DEF PriorityNext

\* Only Velocity's answer brings a request to its save.
LEMMA ClaimStaysAsLoaded ==
  ASSUME HolderInv, [PriorityNext]_priorityVars, NEW u \in Workers
  PROVE  ClaimAsLoaded(u)'
<1>0. /\ stage \in [Workers -> Stages] /\ mem \in [Workers -> Memories]
      /\ ClaimAsLoaded(u) /\ DocumentOK(u)
      /\ mem[u].order \in Orders
  BY InvTypes DEF HolderInv, PriorityInv, RequestOK
<1>1. ASSUME NEW w \in Workers, RequestStep(w), u # w
      PROVE  stage'[u] = stage[u] /\ mem'[u] = mem[u]
  <2>1. \A s : Enter(w, s) => stage'[u] = stage[u]
    BY <1>0, <1>1 DEF Enter
  <2>2. stage'[u] = stage[u]
    BY <1>1, <2>1 DEF RequestStep, Begin, Skip, PrepSaves, PrepReloads, PrepFails,
       TakeNext, ClaimedBooking, VelocityRefuses, Persist, VelocityAccepts,
       VelocityRejects, VelocityTimesOut, VelocitySaves, VelocitySaveFails,
       HistorySaves, HistoryFails, Fail, MarkFailed, MarkLost, Dies
  <2>3. mem'[u] = mem[u]
    BY <1>0, <1>1 DEF RequestStep, Begin, Skip, PrepSaves, PrepReloads, PrepFails,
       TakeNext, ClaimedBooking, VelocityRefuses, Persist, VelocityAccepts,
       VelocityRejects, VelocityTimesOut, VelocitySaves, VelocitySaveFails,
       HistorySaves, HistoryFails, Fail, MarkFailed, MarkLost, Dies
  <2> QED
    BY <2>2, <2>3
<1>2. CASE VelocityAccepts(u)
  <2>1. mem[u].order = mem[u].loaded /\ PriorityTypeOK
    BY <1>0, <1>2 DEF VelocityAccepts, DocumentOK, HolderInv, PriorityInv
  <2>2. PICK i \in Ids, a \in Awbs \cup {NoAwb} :
          mem' = [mem EXCEPT ![u] = Answered(u, i, a)]
    <3>1. stage'[u] = "save"
      BY <1>0, <1>2 DEF VelocityAccepts, Enter
    <3>2. ~Enter(u, "next")
      BY <1>0, <3>1 DEF Enter
    <3> QED
      BY <1>2, <2>1, <3>2, VelocityStep
  <2>3. mem'[u] = Answered(u, i, a)
    BY <1>0, <2>2
  <2> QED
    BY <2>1, <2>3, AnsweredType DEF ClaimAsLoaded
<1>3. ASSUME RequestStep(u), ~VelocityAccepts(u) PROVE stage'[u] # "save"
  <2>1. \A s : Enter(u, s) => stage'[u] = s
    BY <1>0 DEF Enter
  <2> QED
    BY <1>3, <2>1 DEF RequestStep, Begin, Skip, PrepSaves, PrepReloads, PrepFails,
       TakeNext, ClaimedBooking, VelocityRefuses, Persist, VelocityRejects,
       VelocityTimesOut, VelocitySaves, VelocitySaveFails, HistorySaves,
       HistoryFails, Fail, MarkFailed, MarkLost, Dies
<1>4. CASE UNCHANGED <<stage, mem>>
  BY <1>0, <1>4 DEF ClaimAsLoaded
<1>5. ASSUME NEW w \in Workers, RequestStep(w) PROVE ClaimAsLoaded(u)'
  BY <1>0, <1>1, <1>2, <1>3, <1>5 DEF ClaimAsLoaded
<1> QED
  BY <1>4, <1>5 DEF PriorityNext, priorityVars, requestVars

LEMMA NextHolderInv ==
  ASSUME HolderInv, [PriorityNext]_priorityVars
  PROVE  HolderInv'
<1>0. /\ order \in Orders /\ ClaimIsDated /\ HolderHolds
  BY InvTypes DEF HolderInv
<1>1. PriorityInv' /\ \A w \in Workers : ClaimAsLoaded(w)'
  BY NextInv, ClaimStaysAsLoaded DEF HolderInv
<1>2. ASSUME NobodyComes PROVE ClaimIsDated' /\ HolderHolds'
  <2>1. ClaimIsDated'
    BY <1>0, <1>2 DEF NobodyComes, ClaimIsDated
  <2>2. ASSUME ~overridden', NEW w \in Workers, pc'[w] = "booking"
        PROVE  owner' = w /\ order'.inProgress
    <3>1. pc[w] = "booking" /\ Claimed' # {} /\ ~overridden
      BY <1>2, <2>2 DEF NobodyComes, Claimed
    <3> QED
      BY <1>0, <1>2, <2>2, <3>1 DEF NobodyComes, HolderHolds
  <2> QED
    BY <2>1, <2>2 DEF HolderHolds
<1>3. ASSUME NEW w \in Workers, Comes(w) PROVE ClaimIsDated' /\ HolderHolds'
  BY <1>0, <1>3 DEF Comes, ClaimIsDated, HolderHolds, Claimed
<1> QED
  BY <1>1, <1>2, <1>3, StepComes DEF HolderInv, NobodyComes

\* The claim that Lorrigo takes stays an exclusive right among writers that do
\* not know of it: only the steps named by "overridden" (a reset over a live
\* claim, the theft of an old one, a save that clears it) let a second worker in.
THEOREM PriorityImplementsExclusive == PrioritySpec => ImplementsExclusive
<1>1. PriorityInit => HolderInv /\ Right!Init
  <2> SUFFICES ASSUME PriorityInit PROVE HolderInv /\ Right!Init
    OBVIOUS
  <2>1. /\ ~order.inProgress /\ overridden = FALSE
        /\ \A w \in Workers : pc[w] = "idle" /\ stage[w] = "idle"
    BY DEF PriorityInit, LorrigoInit, Init
  <2> QED
    BY <2>1, InitInv DEF HolderInv, ClaimIsDated, HolderHolds, ClaimAsLoaded,
       Claimed, Right!Init
<1>2. HolderInv /\ [PriorityNext]_priorityVars => [Right!Next]_(Right!exclusiveVars)
  BY StepComes DEF NobodyComes, Comes, Right!Next, Right!Enter, Right!Leave,
     Right!Lasting
<1> QED
  BY <1>1, <1>2, NextHolderInv, PTL DEF PrioritySpec, ImplementsExclusive, Right!Spec
=============================================================================
