--------------------------- MODULE StatusSyncProofs ---------------------------
(***************************************************************************)
(* That no poll, webhook or cancellation takes a live shipment off its     *)
(* order or undoes a delivery, but for the ways that the properties name,  *)
(* for any number of orders, AWBs, batch sizes and disturbances.           *)
(***************************************************************************)
EXTENDS StatusSync, SequenceTheorems, FiniteSetTheorems, TLAPS

\* A document that a job or a request holds has a shipment of Ekart.
Held(d) == d.by = "ekart" /\ d.awb \in Awbs

OrdersOK == \A o \in Orders : order[o].by = "ekart" => order[o].awb \in Awbs

\* The courier reports the end of a shipment only when it has come to it.
ReportsOK ==
  \A o \in Orders, a \in Awbs : \A s \in said[o][a] :
    s \in Final => prov[o][a] = s

\* What the job has heard that is final is so.
JobOK ==
  /\ \A o \in Orders : Held(sync.doc[o])
  /\ sync.seen # "none" =>
       LET d == sync.doc[Head(sync.todo)] IN
       /\ sync.todo # <<>> /\ ~MarkedCancelled(d)
       /\ sync.seen \in Final => prov[Head(sync.todo)][d.awb] = sync.seen

\* A request whose save would succeed holds the order as it is stored, unless
\* the order was written without the version.
RequestOK(r) ==
  r.at # "idle" =>
    /\ Held(r.doc)
    /\ r.fresh /\ r.order \notin astray => r.doc = order[r.order]

HookOK ==
  /\ RequestOK(hook.req)
  /\ hook.req.at # "idle" /\ hook.own /\ hook.event \in Final =>
       prov[hook.req.order][hook.req.doc.awb] = hook.event

CancelOK ==
  /\ RequestOK(cancel)
  /\ cancel.at = "accepted" => prov[cancel.order][cancel.doc.awb] = "cancelled"

SyncInv ==
  /\ SyncTypeOK
  /\ OrdersOK /\ ReportsOK /\ JobOK /\ HookOK /\ CancelOK
  /\ UnbookedIsBookable

-----------------------------------------------------------------------------
\* Documents: what each handler makes of one, and what a save stores of it.
LEMMA Sizes ==
  /\ Attempts \in Nat /\ 1 \in Awbs /\ NoAwb \notin Awbs /\ Awbs \subseteq Nat
  /\ Cardinality(Orders) \in Nat
  /\ Idle \in Requests /\ Idle.at = "idle" /\ ~Idle.fresh
  /\ NoHook \in [req: Requests, event: ProviderStatuses, own: BOOLEAN]
  /\ NoHook.req = Idle
<1>1. /\ Attempts \in Nat /\ 1 \in Awbs /\ NoAwb \notin Awbs /\ Awbs \subseteq Nat
      /\ Cardinality(Orders) \in Nat
  BY SyncAssumption, FS_CardinalityType DEF Awbs, NoAwb
<1>2. PICK o \in Orders : o = CHOOSE p \in Orders : TRUE
  BY SyncAssumption
<1>3. Gone \in Documents
  BY <1>1 DEF Gone, BookedDoc, Documents, OrderStatuses, ProviderStatuses, Moving
<1> QED
  <2>1. Idle \in Requests /\ Idle.at = "idle" /\ ~Idle.fresh
    BY <1>1, <1>2, <1>3 DEF Idle, Requests
  <2> QED
    BY <1>1, <2>1 DEF NoHook, ProviderStatuses, Moving

LEMMA Edited ==
  ASSUME NEW d \in Documents
  PROVE  /\ Reship(d) \in Documents /\ PartnerReship(d) \in Documents
         /\ Reship(d).by = "none" /\ PartnerReship(d).by = "none"
         /\ Reship(d).status = "reship" /\ PartnerReship(d).status = "reship"
         /\ Reship(d).awb = NoAwb /\ PartnerReship(d).awb = NoAwb
<1>1. d.version \in Awbs => (IF d.version < Attempts THEN d.version + 1
                                                    ELSE d.version) \in Awbs
  BY Sizes DEF Awbs
<1> QED
  BY <1>1 DEF Documents, Reship, PartnerReship, OrderStatuses, NoAwb

LEMMA PolledDoc ==
  ASSUME NEW d \in Documents, NEW s \in ProviderStatuses \cup {"empty", "error"}
  PROVE  /\ Polled(d, s) \in Documents
         /\ s # "cancelled" => /\ Polled(d, s).by = d.by
                               /\ Polled(d, s).awb = d.awb
         /\ s = "cancelled" => Polled(d, s) = Reship(d)
BY Edited
   DEF Polled, PolledStatus, Documents, OrderStatuses, ProviderStatuses, Moving, Final

LEMMA HeardDoc ==
  ASSUME NEW d \in Documents, NEW s \in ProviderStatuses
  PROVE  /\ Heard(d, s) \in Documents
         /\ s # "cancelled" => /\ Heard(d, s).by = d.by
                               /\ Heard(d, s).awb = d.awb
         /\ s = "cancelled" => Heard(d, s) = Reship(d)
BY Edited DEF Heard, Documents, OrderStatuses

LEMMA SavedFields ==
  ASSUME order \in [Orders -> Documents], NEW o \in Orders,
         NEW old \in Documents, NEW new \in Documents,
         order' = SavedOver(o, old, new)
  PROVE  /\ order' \in [Orders -> Documents]
         /\ \A p \in Orders \ {o} : order'[p] = order[p]
         /\ order'[o].by = IF new.by # old.by THEN new.by ELSE order[o].by
         /\ order'[o].awb = IF new.awb # old.awb THEN new.awb ELSE order[o].awb
         /\ old = order[o] => order'[o] = new
BY DEF Documents, SavedOver

LEMMA TouchedOK ==
  ASSUME polled \in Rankings, NEW o \in Orders
  PROVE  Touched(o) \in Rankings
<1> DEFINE n == Cardinality(Orders)
           q == Touched(o)
<1>1. n \in Nat /\ \A p \in Orders : polled[p] \in 1 .. n
  BY Sizes DEF Rankings
<1>2. \A p, r \in Orders : polled[p] = polled[r] => p = r
  BY DEF Rankings
<1>3. \A p \in Orders : q[p] = CASE p = o -> n
                                 [] polled[p] > polled[o] -> polled[p] - 1
                                 [] OTHER -> polled[p]
  BY DEF Touched
<1> HIDE DEF q
<1>4. \A p \in Orders \ {o} :
        \/ polled[p] > polled[o] /\ q[p] = polled[p] - 1
        \/ polled[p] < polled[o] /\ q[p] = polled[p]
  BY <1>1, <1>2, <1>3
<1>5. q[o] = n
  BY <1>1, <1>3
<1>6. \A p \in Orders \ {o} : q[p] \in 1 .. n /\ q[p] < n
  BY <1>1, <1>4
<1>7. q \in [Orders -> 1 .. n]
  <2>1. n \in 1 .. n
    BY <1>1
  <2> QED
    BY <1>5, <1>6, <2>1 DEF q, Touched
<1>8. ASSUME NEW p \in Orders, NEW r \in Orders, q[p] = q[r] PROVE p = r
  <2>1. CASE p = o \/ r = o
    BY <1>1, <1>5, <1>6, <1>8, <2>1
  <2>2. CASE p # o /\ r # o
    <3>1. polled[p] = polled[r]
      BY <1>1, <1>4, <1>8, <2>2
    <3> QED
      BY <1>2, <3>1
  <2> QED
    BY <2>1, <2>2
<1> QED
  BY <1>7, <1>8 DEF Rankings, q
-----------------------------------------------------------------------------
\* The job.

LEMMA InitInv == Init => SyncInv
<1> SUFFICES ASSUME Init PROVE SyncInv
  OBVIOUS
<1>1. \A s \in {"pending", "delivered"} : BookedDoc(s) \in Documents
      /\ Held(BookedDoc(s))
  BY Sizes DEF BookedDoc, Documents, OrderStatuses, ProviderStatuses, Moving,
     Final, Held
<1>2. UnsavedDoc \in Documents /\ Held(UnsavedDoc) /\ Gone \in Documents /\ Held(Gone)
  BY Sizes DEF UnsavedDoc, Gone, BookedDoc, Documents, OrderStatuses,
     ProviderStatuses, Moving, Final, Held
<1>3. order \in [Orders -> Documents] /\ \A o \in Orders : Held(order[o])
  BY <1>1, <1>2 DEF Init
<1>4. SyncTypeOK
  <2>1. /\ sync \in [todo: Seq(Orders), doc: [Orders -> Documents],
                     seen: ProviderStatuses \cup {"none", "empty", "error"}]
        /\ Len(sync.todo) <= Batch
    BY <1>2, SyncAssumption DEF Init
  <2>2. /\ hook \in [req: Requests, event: ProviderStatuses, own: BOOLEAN] /\ cancel \in Requests
        /\ prov \in [Orders -> [Awbs -> ProviderStatuses \cup {"none"}]]
        /\ said \in [Orders -> [Awbs -> SUBSET ProviderStatuses]]
        /\ left \in 0 .. MaxDisturbances
    <3>1. hook = NoHook /\ cancel = Idle
      BY DEF Init
    <3> QED
      BY <3>1, Sizes, SyncAssumption DEF Init, ProviderStatuses, Moving
  <2> QED
    BY <1>3, <2>1, <2>2 DEF Init, SyncTypeOK
<1>5. OrdersOK /\ UnbookedIsBookable
  BY <1>3 DEF OrdersOK, UnbookedIsBookable, Held
<1>6. ReportsOK
  BY DEF Init, ReportsOK
<1>7. JobOK
  BY <1>2 DEF Init, JobOK
<1>8. HookOK /\ CancelOK
  <2>1. hook = NoHook /\ cancel = Idle
    BY DEF Init
  <2> QED
    BY <2>1, Sizes DEF HookOK, CancelOK, RequestOK
<1> QED
  BY <1>4, <1>5, <1>6, <1>7, <1>8 DEF SyncInv

LEMMA StartKeeps == ASSUME SyncInv, SyncStart PROVE SyncInv'
<1>0. PICK n \in 1 .. Batch : \E todo \in [1 .. n -> Orders] :
        /\ IsNextBatch(todo)
        /\ sync' = [todo |-> todo, seen |-> "none",
                    doc |-> [o \in Orders |->
                               IF \E i \in 1 .. n : todo[i] = o THEN order[o]
                               ELSE Gone]]
  BY DEF SyncStart
<1>1. PICK todo \in [1 .. n -> Orders] :
        /\ IsNextBatch(todo)
        /\ sync' = [todo |-> todo, seen |-> "none",
                    doc |-> [o \in Orders |->
                               IF \E i \in 1 .. n : todo[i] = o THEN order[o]
                               ELSE Gone]]
  BY <1>0
<1>2. todo \in Seq(Orders) /\ Len(todo) = n /\ n \in Nat
  BY SyncAssumption
<1>3. Gone \in Documents /\ Held(Gone)
  BY Sizes DEF Gone, BookedDoc, Documents, OrderStatuses,
     ProviderStatuses, Moving, Held
<1>4. \A i \in 1 .. n : Polls(todo[i]) /\ todo[i] \in Orders
  <2>1. \A i \in DOMAIN todo : Polls(todo[i])
    BY <1>1 DEF IsNextBatch
  <2> QED
    BY <2>1
<1>5. \A i \in 1 .. n : Held(order[todo[i]])
  BY <1>4 DEF Polls, SyncInv, OrdersOK, Held
<1>6. sync'.doc \in [Orders -> Documents] /\ \A o \in Orders : Held(sync'.doc[o])
  BY <1>1, <1>3, <1>5 DEF SyncInv, SyncTypeOK
<1>7. SyncTypeOK'
  <2>1. /\ sync' \in [todo: Seq(Orders), doc: [Orders -> Documents],
                     seen: ProviderStatuses \cup {"none", "empty", "error"}]
        /\ Len(sync'.todo) <= Batch
    BY <1>1, <1>2, <1>6, SyncAssumption
  <2> QED
    BY <2>1 DEF SyncStart, SyncInv, SyncTypeOK
<1>8. JobOK'
  BY <1>1, <1>6 DEF JobOK
<1> QED
  BY <1>7, <1>8 DEF SyncStart, SyncInv, OrdersOK, ReportsOK, HookOK, CancelOK,
     RequestOK, UnbookedIsBookable

\* After an order, with or without a save, the job goes on to the next.
LEMMA NextOrder ==
  ASSUME SyncInv, sync.todo # <<>>, SyncNext
  PROVE  /\ sync' \in [todo: Seq(Orders), doc: [Orders -> Documents],
                       seen: ProviderStatuses \cup {"none", "empty", "error"}]
         /\ Len(sync'.todo) <= Batch
         /\ JobOK'
<1>1. /\ Head(sync.todo) \in Orders /\ Tail(sync.todo) \in Seq(Orders)
      /\ Len(Tail(sync.todo)) <= Batch
  BY HeadTailProperties, LenProperties, SyncAssumption DEF SyncInv, SyncTypeOK
<1>2. Gone \in Documents /\ Held(Gone)
  BY Sizes DEF Gone, BookedDoc, Documents, OrderStatuses,
     ProviderStatuses, Moving, Held
<1>3. /\ sync'.doc \in [Orders -> Documents] /\ sync'.seen = "none"
      /\ sync'.todo = Tail(sync.todo)
      /\ \A o \in Orders : Held(sync'.doc[o])
  BY <1>1, <1>2 DEF SyncNext, SyncInv, SyncTypeOK, JobOK
<1> QED
  BY <1>1, <1>3 DEF SyncNext, JobOK

\* A save of the job, over whatever is stored by then.
LEMMA JobSaves ==
  ASSUME SyncInv, sync.todo # <<>>, SyncNext,
         NEW s \in ProviderStatuses \cup {"empty", "error"},
         SyncWrites(Head(sync.todo), Polled(sync.doc[Head(sync.todo)], s)),
         UNCHANGED <<prov, said, hook, cancel, left>>
  PROVE  SyncInv'
<1> DEFINE o == Head(sync.todo)
           d == sync.doc[o]
           new == Polled(d, s)
<1>1. /\ o \in Orders /\ d \in Documents /\ Held(d)
      /\ order \in [Orders -> Documents] /\ new \in Documents
  BY HeadTailProperties, PolledDoc DEF SyncInv, SyncTypeOK, JobOK
<1>2. /\ s # "cancelled" => new.by = d.by /\ new.awb = d.awb
      /\ s = "cancelled" => /\ new.by = "none" /\ new.status = "reship"
                            /\ new.awb = NoAwb
  BY <1>1, PolledDoc, Edited
<1>10. order' = SavedOver(o, d, new)
  BY DEF SyncWrites
<1> HIDE DEF new, d, o
<1>3. /\ order' \in [Orders -> Documents]
      /\ \A p \in Orders \ {o} : order'[p] = order[p]
      /\ order'[o].by = IF new.by # d.by THEN new.by ELSE order[o].by
      /\ order'[o].awb = IF new.awb # d.awb THEN new.awb ELSE order[o].awb
      /\ d = order[o] => order'[o] = new
  BY <1>1, <1>10, SavedFields
<1>4. /\ polled' = Touched(o)
      /\ astray' = IF order[o] # d \/ Requested(o) THEN astray \cup {o} ELSE astray
  BY DEF SyncWrites, d, o
<1>5. SyncTypeOK'
  <2>1. polled' \in Rankings /\ astray' \subseteq Orders
    BY <1>1, <1>4, TouchedOK DEF SyncInv, SyncTypeOK
  <2> QED
    BY <1>3, <2>1, NextOrder DEF SyncInv, SyncTypeOK
<1>6. OrdersOK'
  BY <1>1, <1>2, <1>3, Sizes DEF SyncInv, OrdersOK, Held
<1>7. ReportsOK' /\ JobOK'
  BY NextOrder DEF SyncInv, ReportsOK
<1>8. HookOK' /\ CancelOK'
  <2> SUFFICES ASSUME NEW r \in {hook.req, cancel}, r.at # "idle", r.fresh,
                      r.order \notin astray'
               PROVE  order'[r.order] = order[r.order] /\ r.order \notin astray
    BY DEF SyncInv, HookOK, CancelOK, RequestOK
  <2>1. r.order \in Orders
    BY DEF SyncInv, SyncTypeOK, Requests
  <2>2. r.order # o /\ r.order \notin astray
    BY <1>4 DEF Requested
  <2> QED
    BY <1>3, <2>1, <2>2
<1>9. UnbookedIsBookable'
  <2> SUFFICES ASSUME order'[o].by = "none", o \notin astray'
               PROVE  order'[o].status \notin Blocked
    BY <1>3, <1>4 DEF SyncInv, UnbookedIsBookable
  <2>1. order'[o] = new
    BY <1>3, <1>4
  <2> QED
    BY <1>1, <1>2, <2>1 DEF Blocked, Held
<1> QED
  BY <1>5, <1>6, <1>7, <1>8, <1>9 DEF SyncInv
LEMMA HealKeeps == ASSUME SyncInv, SyncHeal PROVE SyncInv'
<1>1. sync.doc[Head(sync.todo)] \in Documents
  BY HeadTailProperties DEF SyncHeal, SyncInv, SyncTypeOK
<1>2. Reship(sync.doc[Head(sync.todo)])
        = Polled(sync.doc[Head(sync.todo)], "cancelled")
  BY <1>1, PolledDoc DEF ProviderStatuses, Final
<1> QED
  BY <1>2, JobSaves DEF SyncHeal, ProviderStatuses, Final

LEMMA SaveKeeps == ASSUME SyncInv, SyncSave PROVE SyncInv'
<1>1. sync.todo # <<>> /\ sync.seen \in ProviderStatuses \cup {"empty", "error"}
  BY DEF SyncSave, SyncInv, JobOK, SyncTypeOK
<1> QED
  BY <1>1, JobSaves DEF SyncSave

LEMMA SaveFailsKeeps == ASSUME SyncInv, SyncSaveFails PROVE SyncInv'
<1>1. sync.todo # <<>> /\ Head(sync.todo) \in Orders
  BY HeadTailProperties DEF SyncSaveFails, SyncInv, JobOK, SyncTypeOK
<1>2. polled' \in Rankings /\ left' \in 0 .. MaxDisturbances
  BY <1>1, TouchedOK, SyncAssumption
     DEF SyncSaveFails, SyncInv, SyncTypeOK, Disturb
<1>3. SyncTypeOK' /\ JobOK'
  BY <1>1, <1>2, NextOrder DEF SyncSaveFails, SyncInv, SyncTypeOK
<1> QED
  BY <1>3 DEF SyncSaveFails, SyncInv, OrdersOK, ReportsOK, HookOK, CancelOK,
     RequestOK, UnbookedIsBookable

LEMMA AbortsKeeps == ASSUME SyncInv, SyncAborts PROVE SyncInv'
<1>1. Gone \in Documents /\ Held(Gone)
  BY Sizes DEF Gone, BookedDoc, Documents, OrderStatuses,
     ProviderStatuses, Moving, Held
<1>2. SyncTypeOK'
  BY <1>1, SyncAssumption DEF SyncAborts, SyncInv, SyncTypeOK, Disturb
<1>3. JobOK'
  BY <1>1 DEF SyncAborts, JobOK
<1> QED
  BY <1>2, <1>3 DEF SyncAborts, SyncInv, OrdersOK, ReportsOK, HookOK, CancelOK,
     RequestOK, UnbookedIsBookable

LEMMA TrackKeeps == ASSUME SyncInv, SyncTrack PROVE SyncInv'
<1> DEFINE o == Head(sync.todo)
           d == sync.doc[o]
<1>1. o \in Orders /\ d \in Documents /\ Held(d)
  BY HeadTailProperties DEF SyncTrack, SyncInv, SyncTypeOK, JobOK
<1>2. prov[o][d.awb] \in ProviderStatuses \cup {"none"}
  BY <1>1 DEF Held, SyncInv, SyncTypeOK
<1>3. PICK s \in ProviderStatuses \cup {"none", "empty", "error"} :
        /\ sync' = [sync EXCEPT !.seen = s]
        /\ s \in {prov[o][d.awb], "empty", "error"}
        /\ left' \in 0 .. MaxDisturbances
  BY <1>2, SyncAssumption DEF SyncTrack, Disturb, SyncInv, SyncTypeOK
<1>4. /\ sync'.todo = sync.todo /\ sync'.doc = sync.doc /\ sync'.seen = s
      /\ sync.todo # <<>> /\ ~MarkedCancelled(d) /\ prov' = prov
  BY <1>3 DEF SyncInv, SyncTypeOK, SyncTrack
<1>5. SyncTypeOK'
  BY <1>3 DEF SyncTrack, SyncInv, SyncTypeOK
<1>6. JobOK'
  BY <1>3, <1>4 DEF SyncInv, JobOK, MarkedCancelled, Final
<1> QED
  BY <1>5, <1>6 DEF SyncTrack, SyncInv, OrdersOK, ReportsOK, HookOK, CancelOK,
     RequestOK, UnbookedIsBookable

-----------------------------------------------------------------------------
\* The courier and the requests.

\* What has come to its end at the courier stays so.
EndsStay ==
  \A o \in Orders, a \in Awbs : prov[o][a] \in Final => prov'[o][a] = prov[o][a]

LEMMA JobWaits ==
  ASSUME SyncInv, EndsStay, UNCHANGED sync
  PROVE  JobOK'
<1>1. sync.seen # "none" =>
        LET d == sync.doc[Head(sync.todo)] IN
        Head(sync.todo) \in Orders /\ d.awb \in Awbs
  BY HeadTailProperties DEF SyncInv, SyncTypeOK, JobOK, Held
<1> QED
  BY <1>1 DEF SyncInv, JobOK, EndsStay, MarkedCancelled

LEMMA MovesKeeps ==
  ASSUME SyncInv, NEW o \in Busy, NEW a \in Awbs, CourierMoves(o, a)
  PROVE  SyncInv'
<1>1. o \in Orders /\ prov[o][a] \in ProviderStatuses \cup {"none"}
  BY SyncAssumption DEF SyncInv, SyncTypeOK
<1>2. PICK s \in MovesTo[prov[o][a]] :
        /\ prov' = [prov EXCEPT ![o][a] = s]
        /\ said' = [said EXCEPT ![o][a] = @ \cup {s}]
  BY DEF CourierMoves
<1>3. prov[o][a] \notin Final /\ s \in ProviderStatuses
  BY <1>1 DEF MovesTo, ProviderStatuses, Moving, Final
<1>4. EndsStay
  BY <1>1, <1>2, <1>3 DEF EndsStay, SyncInv, SyncTypeOK
<1>5. ReportsOK'
  BY <1>1, <1>2, <1>3 DEF SyncInv, ReportsOK, SyncTypeOK
<1>6. SyncTypeOK'
  BY <1>1, <1>2, <1>3 DEF CourierMoves, SyncInv, SyncTypeOK
<1>7. HookOK' /\ CancelOK'
  BY <1>4 DEF CourierMoves, SyncInv, SyncTypeOK, HookOK, CancelOK, RequestOK,
     EndsStay, Held, Requests, Final
<1> QED
  BY <1>4, <1>5, <1>6, <1>7, JobWaits
     DEF CourierMoves, SyncInv, OrdersOK, UnbookedIsBookable
LEMMA HookLoadsKeeps ==
  ASSUME SyncInv, NEW o \in Busy, NEW a \in Awbs, NEW s \in ProviderStatuses,
         HookLoads(o, a, s)
  PROVE  SyncInv'
<1> DEFINE own == order[o].awb = a
<1>1. /\ o \in Orders /\ order[o] \in Documents /\ Held(order[o])
      /\ own \in BOOLEAN
  BY SyncAssumption, Sizes DEF HookLoads, SyncInv, SyncTypeOK, OrdersOK, Held, NoAwb
<1>2. hook' = [req |-> [at |-> "loaded", order |-> o, doc |-> order[o],
                        fresh |-> TRUE], event |-> s, own |-> own]
  BY DEF HookLoads
<1>own. own => order[o].awb = a
  OBVIOUS
<1> HIDE DEF own
<1>3. SyncTypeOK'
  <2>1. left' \in 0 .. MaxDisturbances
    BY SyncAssumption DEF HookLoads, Disturb, SyncInv, SyncTypeOK
  <2> QED
    BY <1>1, <1>2, <2>1 DEF HookLoads, SyncInv, SyncTypeOK, Requests
<1>4. HookOK'
  <2>1. RequestOK(hook.req)'
    BY <1>1, <1>2 DEF HookLoads, RequestOK
  <2>2. own /\ s \in Final => prov[o][order[o].awb] = s
    BY <1>1, <1>own DEF HookLoads, SyncInv, ReportsOK
  <2>3. prov' = prov
    BY DEF HookLoads
  <2> QED
    BY <1>2, <2>1, <2>2, <2>3 DEF HookOK
<1>5. CancelOK' /\ JobOK'
  BY JobWaits DEF HookLoads, SyncInv, CancelOK, RequestOK, EndsStay
<1> QED
  BY <1>3, <1>4, <1>5 DEF HookLoads, SyncInv, OrdersOK, ReportsOK, UnbookedIsBookable

\* The save of a webhook or a cancellation, over what it has loaded.
LEMMA RequestSaves ==
  ASSUME SyncInv, NEW r \in {hook.req, cancel}, r.at # "idle", r.fresh,
         NEW new \in Documents,
         \/ new.by = r.doc.by /\ new.awb = r.doc.awb
         \/ new.by = "none" /\ new.status = "reship" /\ new.awb = NoAwb,
         order' = SavedOver(r.order, r.doc, new), astray' = astray
  PROVE  /\ r.order \in Orders
         /\ order' \in [Orders -> Documents]
         /\ \A p \in Orders \ {r.order} : order'[p] = order[p]
         /\ OrdersOK' /\ UnbookedIsBookable'
<1> DEFINE o == r.order
<1>1. /\ o \in Orders /\ r.doc \in Documents /\ Held(r.doc)
      /\ order \in [Orders -> Documents]
      /\ o \notin astray => r.doc = order[o]
  BY DEF SyncInv, SyncTypeOK, Requests, HookOK, CancelOK, RequestOK
<1> HIDE DEF o
<1>2. /\ order' \in [Orders -> Documents]
      /\ \A p \in Orders \ {o} : order'[p] = order[p]
      /\ order'[o].by = IF new.by # r.doc.by THEN new.by ELSE order[o].by
      /\ order'[o].awb = IF new.awb # r.doc.awb THEN new.awb ELSE order[o].awb
      /\ r.doc = order[o] => order'[o] = new
  BY <1>1, SavedFields DEF o
<1>3. OrdersOK'
  BY <1>1, <1>2, Sizes DEF SyncInv, OrdersOK, Held
<1>4. UnbookedIsBookable'
  BY <1>1, <1>2 DEF SyncInv, UnbookedIsBookable, Blocked, Held
<1> QED
  BY <1>1, <1>2, <1>3, <1>4 DEF o

LEMMA HookSavesKeeps == ASSUME SyncInv, HookSaves PROVE SyncInv'
<1> DEFINE r == hook.req
           new == Heard(r.doc, hook.event)
<1>1. /\ r.doc \in Documents /\ hook.event \in ProviderStatuses
      /\ r.at # "idle" /\ r.fresh /\ hook' = NoHook
      /\ order' = SavedOver(r.order, r.doc, new) /\ astray' = astray
  BY DEF HookSaves, SyncInv, SyncTypeOK, Requests
<1>2. /\ new \in Documents
      /\ \/ new.by = r.doc.by /\ new.awb = r.doc.awb
         \/ new.by = "none" /\ new.status = "reship" /\ new.awb = NoAwb
  BY <1>1, HeardDoc, Edited
<1>3. /\ r.order \in Orders
      /\ order' \in [Orders -> Documents]
      /\ \A p \in Orders \ {r.order} : order'[p] = order[p]
      /\ OrdersOK' /\ UnbookedIsBookable'
  BY <1>1, <1>2, RequestSaves
<1> HIDE DEF new
<1>4. SyncTypeOK'
  <2>1. polled' \in Rankings
    BY <1>3, TouchedOK DEF HookSaves, SyncInv, SyncTypeOK
  <2>2. cancel' \in Requests /\ hook' \in [req: Requests, event: ProviderStatuses, own: BOOLEAN]
    BY <1>1, Sizes DEF HookSaves, SyncInv, SyncTypeOK, Requests
  <2> QED
    BY <1>3, <2>1, <2>2 DEF HookSaves, SyncInv, SyncTypeOK
<1>5. HookOK'
  BY <1>1, Sizes DEF HookOK, RequestOK
<1>6. CancelOK'
  <2>1. /\ cancel' = [cancel EXCEPT !.fresh = cancel.fresh /\ cancel.order # r.order]
        /\ cancel \in Requests
    BY DEF HookSaves, SyncInv, SyncTypeOK
  <2>2. /\ cancel'.at = cancel.at /\ cancel'.order = cancel.order
        /\ cancel'.doc = cancel.doc /\ cancel.order \in Orders
        /\ cancel'.fresh => cancel.fresh /\ cancel.order # r.order
    BY <2>1 DEF Requests
  <2>3. prov' = prov
    BY DEF HookSaves
  <2> QED
    BY <1>1, <1>3, <2>2, <2>3 DEF SyncInv, CancelOK, RequestOK
<1>7. JobOK' /\ ReportsOK'
  BY JobWaits DEF HookSaves, SyncInv, EndsStay, ReportsOK
<1> QED
  BY <1>3, <1>4, <1>5, <1>6, <1>7 DEF SyncInv

LEMMA HookFailsKeeps == ASSUME SyncInv, HookFails PROVE SyncInv'
<1>1. SyncTypeOK' /\ HookOK'
  BY Sizes DEF HookFails, SyncInv, SyncTypeOK, HookOK, RequestOK
<1>2. JobOK'
  BY JobWaits DEF HookFails, EndsStay
<1> QED
  BY <1>1, <1>2 DEF HookFails, SyncInv, OrdersOK, ReportsOK, CancelOK, RequestOK,
     UnbookedIsBookable

LEMMA CancelLoadsKeeps ==
  ASSUME SyncInv, NEW o \in Busy, CancelLoads(o)
  PROVE  SyncInv'
<1>1. o \in Orders /\ order[o] \in Documents /\ Held(order[o])
  BY SyncAssumption DEF CancelLoads, SyncInv, SyncTypeOK, OrdersOK, Held
<1>2. cancel' = [at |-> "loaded", order |-> o, doc |-> order[o], fresh |-> TRUE]
  BY DEF CancelLoads
<1>3. SyncTypeOK'
  <2>1. left' \in 0 .. MaxDisturbances
    BY SyncAssumption DEF CancelLoads, Disturb, SyncInv, SyncTypeOK
  <2> QED
    BY <1>1, <1>2, <2>1 DEF CancelLoads, SyncInv, SyncTypeOK, Requests
<1>4. CancelOK'
  BY <1>1, <1>2 DEF CancelLoads, CancelOK, RequestOK
<1>5. HookOK' /\ JobOK'
  BY JobWaits DEF CancelLoads, SyncInv, HookOK, RequestOK, EndsStay
<1> QED
  BY <1>3, <1>4, <1>5 DEF CancelLoads, SyncInv, OrdersOK, ReportsOK,
     UnbookedIsBookable

LEMMA AcceptedKeeps == ASSUME SyncInv, CancelAccepted PROVE SyncInv'
<1> DEFINE o == cancel.order
           a == cancel.doc.awb
<1>1. o \in Orders /\ a \in Awbs /\ cancel.at = "loaded" /\ cancel \in Requests
  BY DEF CancelAccepted, SyncInv, SyncTypeOK, Requests, CancelOK, RequestOK, Held
<1>2. /\ prov[o][a] \in Moving \cup {"cancelled"}
      /\ prov' = [prov EXCEPT ![o][a] = "cancelled"]
      /\ said' = [said EXCEPT ![o][a] = @ \cup {"cancelled"}]
      /\ cancel' = [cancel EXCEPT !.at = "accepted"]
  BY DEF CancelAccepted
<1>3. EndsStay
  BY <1>1, <1>2 DEF EndsStay, SyncInv, SyncTypeOK, Moving, Final
<1>4. ReportsOK'
  BY <1>1, <1>2 DEF SyncInv, ReportsOK, SyncTypeOK, Moving, Final
<1>5. SyncTypeOK'
  <2>1. "cancelled" \in ProviderStatuses
    BY DEF ProviderStatuses, Final
  <2>2. prov' \in [Orders -> [Awbs -> ProviderStatuses \cup {"none"}]]
    BY <1>1, <1>2, <2>1 DEF SyncInv, SyncTypeOK
  <2>3. said' \in [Orders -> [Awbs -> SUBSET ProviderStatuses]]
    BY <1>1, <1>2, <2>1 DEF SyncInv, SyncTypeOK
  <2>4. cancel' \in Requests
    BY <1>1, <1>2 DEF Requests
  <2> QED
    BY <2>2, <2>3, <2>4 DEF CancelAccepted, SyncInv, SyncTypeOK
<1>6. HookOK'
  BY <1>3 DEF CancelAccepted, SyncInv, SyncTypeOK, HookOK, RequestOK, EndsStay,
     Held, Requests
<1>7. CancelOK'
  BY <1>1, <1>2 DEF CancelAccepted, SyncInv, SyncTypeOK, CancelOK, RequestOK,
     Requests
<1> QED
  BY <1>3, <1>4, <1>5, <1>6, <1>7, JobWaits
     DEF CancelAccepted, SyncInv, OrdersOK, UnbookedIsBookable

LEMMA RefusedKeeps == ASSUME SyncInv, CancelRefused PROVE SyncInv'
<1>1. /\ cancel' = Idle /\ hook \in [req: Requests, event: ProviderStatuses, own: BOOLEAN]
      /\ \E b \in BOOLEAN : hook' = [hook EXCEPT !.req.fresh = hook.req.fresh /\ b]
  BY DEF CancelRefused, SyncInv, SyncTypeOK
<1>2. SyncTypeOK' /\ CancelOK'
  BY <1>1, Sizes DEF CancelRefused, SyncInv, SyncTypeOK, CancelOK, RequestOK, Requests
<1>3. HookOK'
  BY <1>1 DEF CancelRefused, SyncInv, HookOK, RequestOK, Requests
<1>4. JobOK'
  BY JobWaits DEF CancelRefused, EndsStay
<1> QED
  BY <1>2, <1>3, <1>4 DEF CancelRefused, SyncInv, OrdersOK, ReportsOK,
     UnbookedIsBookable

LEMMA CancelSavesKeeps == ASSUME SyncInv, CancelSaves PROVE SyncInv'
<1> DEFINE r == cancel
<1>1. /\ r.doc \in Documents /\ r.at # "idle" /\ r.fresh /\ cancel' = Idle
      /\ astray' = astray
  BY DEF CancelSaves, SyncInv, SyncTypeOK, Requests
<1>2. PICK new \in Documents :
        /\ new.by = "none" /\ new.status = "reship" /\ new.awb = NoAwb
        /\ order' = SavedOver(r.order, r.doc, new)
  BY <1>1, Edited DEF CancelSaves
<1>3. /\ r.order \in Orders
      /\ order' \in [Orders -> Documents]
      /\ \A p \in Orders \ {r.order} : order'[p] = order[p]
      /\ OrdersOK' /\ UnbookedIsBookable'
  BY <1>1, <1>2, RequestSaves
<1>4. /\ hook \in [req: Requests, event: ProviderStatuses, own: BOOLEAN]
      /\ hook' = [hook EXCEPT !.req.fresh = hook.req.fresh /\ hook.req.order # r.order]
  BY DEF CancelSaves, SyncInv, SyncTypeOK
<1>5. SyncTypeOK' /\ CancelOK'
  <2>1. hook' \in [req: Requests, event: ProviderStatuses, own: BOOLEAN]
    BY <1>4 DEF Requests
  <2> QED
    BY <1>1, <1>3, <2>1, Sizes
       DEF CancelSaves, SyncInv, SyncTypeOK, CancelOK, RequestOK
<1>6. HookOK'
  <2>1. /\ hook'.req.at = hook.req.at /\ hook'.req.order = hook.req.order
        /\ hook'.req.doc = hook.req.doc /\ hook.req.order \in Orders
        /\ hook'.req.fresh => hook.req.fresh /\ hook.req.order # r.order
        /\ hook'.event = hook.event /\ hook'.own = hook.own
    BY <1>4 DEF Requests
  <2>2. prov' = prov
    BY DEF CancelSaves
  <2> QED
    BY <1>1, <1>3, <2>1, <2>2 DEF SyncInv, HookOK, RequestOK
<1>7. JobOK' /\ ReportsOK'
  BY JobWaits DEF CancelSaves, SyncInv, EndsStay, ReportsOK
<1> QED
  BY <1>3, <1>5, <1>6, <1>7 DEF SyncInv

LEMMA CancelSaveFailsKeeps == ASSUME SyncInv, CancelSaveFails PROVE SyncInv'
<1>1. SyncTypeOK' /\ CancelOK'
  BY Sizes DEF CancelSaveFails, SyncInv, SyncTypeOK, CancelOK, RequestOK
<1>2. JobOK'
  BY JobWaits DEF CancelSaveFails, EndsStay
<1> QED
  BY <1>1, <1>2 DEF CancelSaveFails, SyncInv, OrdersOK, ReportsOK, HookOK,
     RequestOK, UnbookedIsBookable
-----------------------------------------------------------------------------
\* Users.

\* A write of order o that goes with the version: who holds o is overtaken.
LEMMA OvertakesKeeps ==
  ASSUME SyncInv, NEW o \in Orders, Overtakes(o), EndsStay,
         \A p \in Orders \ {o} : order'[p] = order[p], astray' = astray
  PROVE  /\ hook' \in [req: Requests, event: ProviderStatuses, own: BOOLEAN]
         /\ cancel' \in Requests
         /\ HookOK' /\ CancelOK'
<1>1. /\ hook \in [req: Requests, event: ProviderStatuses, own: BOOLEAN] /\ cancel \in Requests
      /\ hook' = [hook EXCEPT !.req.fresh = hook.req.fresh /\ hook.req.order # o]
      /\ cancel' = [cancel EXCEPT !.fresh = cancel.fresh /\ cancel.order # o]
  BY DEF Overtakes, SyncInv, SyncTypeOK
<1>2. /\ hook' \in [req: Requests, event: ProviderStatuses, own: BOOLEAN]
      /\ hook'.req.at = hook.req.at /\ hook'.req.order = hook.req.order
      /\ hook'.req.doc = hook.req.doc /\ hook.req.order \in Orders
      /\ hook'.req.fresh => hook.req.fresh /\ hook.req.order # o
      /\ hook'.event = hook.event /\ hook'.own = hook.own
  BY <1>1 DEF Requests
<1>3. /\ cancel' \in Requests
      /\ cancel'.at = cancel.at /\ cancel'.order = cancel.order
      /\ cancel'.doc = cancel.doc /\ cancel.order \in Orders
      /\ cancel'.fresh => cancel.fresh /\ cancel.order # o
  BY <1>1 DEF Requests
<1>4. HookOK'
  <2>1. RequestOK(hook.req)'
    BY <1>2 DEF SyncInv, HookOK, RequestOK
  <2>2. hook.req.at # "idle" => hook.req.doc.awb \in Awbs
    BY DEF SyncInv, HookOK, RequestOK, Held
  <2> QED
    BY <1>2, <2>1, <2>2 DEF SyncInv, HookOK, EndsStay
<1>5. CancelOK'
  <2>1. RequestOK(cancel)'
    BY <1>3 DEF SyncInv, CancelOK, RequestOK
  <2>2. cancel.at # "idle" => cancel.doc.awb \in Awbs
    BY DEF SyncInv, CancelOK, RequestOK, Held
  <2> QED
    BY <1>3, <2>1, <2>2 DEF SyncInv, CancelOK, EndsStay, Final
<1> QED
  BY <1>2, <1>3, <1>4, <1>5

LEMMA MarkKeeps ==
  ASSUME SyncInv, NEW o \in Busy, MarkCancelled(o)
  PROVE  SyncInv'
<1>1. o \in Orders /\ order[o] \in Documents /\ order \in [Orders -> Documents]
  BY SyncAssumption DEF SyncInv, SyncTypeOK
<1>2. /\ order' \in [Orders -> Documents]
      /\ \A p \in Orders \ {o} : order'[p] = order[p]
      /\ order'[o].by = order[o].by /\ order'[o].awb = order[o].awb
      /\ order'[o].status = "cancelled"
  BY <1>1 DEF MarkCancelled, Documents, OrderStatuses, ProviderStatuses, Final
<1>3. EndsStay /\ JobOK' /\ ReportsOK'
  BY JobWaits DEF MarkCancelled, EndsStay, SyncInv, ReportsOK
<1>4. HookOK' /\ CancelOK' /\ SyncTypeOK'
  <2>1. left' \in 0 .. MaxDisturbances
    BY SyncAssumption DEF MarkCancelled, Disturb, SyncInv, SyncTypeOK
  <2> QED
    BY <1>1, <1>2, <1>3, <2>1, OvertakesKeeps DEF MarkCancelled, SyncInv, SyncTypeOK
<1>5. OrdersOK' /\ UnbookedIsBookable'
  BY <1>1, <1>2 DEF MarkCancelled, SyncInv, OrdersOK, UnbookedIsBookable, Blocked
<1> QED
  BY <1>3, <1>4, <1>5 DEF SyncInv

LEMMA BookOtherKeeps ==
  ASSUME SyncInv, NEW o \in Busy, BookOther(o)
  PROVE  SyncInv'
<1>1. o \in Orders /\ order[o] \in Documents /\ order \in [Orders -> Documents]
  BY SyncAssumption DEF SyncInv, SyncTypeOK
<1>2. /\ order' \in [Orders -> Documents]
      /\ \A p \in Orders \ {o} : order'[p] = order[p]
      /\ order'[o].by = "other"
  BY <1>1 DEF BookOther, Documents, OrderStatuses, ProviderStatuses, Moving
<1>3. EndsStay /\ JobOK' /\ ReportsOK'
  BY JobWaits DEF BookOther, EndsStay, SyncInv, ReportsOK
<1>4. HookOK' /\ CancelOK' /\ SyncTypeOK'
  <2>1. left' \in 0 .. MaxDisturbances
    BY SyncAssumption DEF BookOther, Disturb, SyncInv, SyncTypeOK
  <2> QED
    BY <1>1, <1>2, <1>3, <2>1, OvertakesKeeps DEF BookOther, SyncInv, SyncTypeOK
<1>5. OrdersOK' /\ UnbookedIsBookable'
  BY <1>1, <1>2 DEF BookOther, SyncInv, OrdersOK, UnbookedIsBookable
<1> QED
  BY <1>3, <1>4, <1>5 DEF SyncInv

LEMMA BookEkartKeeps ==
  ASSUME SyncInv, NEW o \in Busy, BookEkart(o)
  PROVE  SyncInv'
<1> DEFINE d == order[o]
           a == TrackingId(d)
           p == IF prov[o][a] = "none" THEN "pending" ELSE prov[o][a]
<1>1. /\ o \in Orders /\ d \in Documents /\ order \in [Orders -> Documents]
      /\ a \in Awbs
  BY SyncAssumption DEF SyncInv, SyncTypeOK, TrackingId, Documents
<1>2. /\ p \in ProviderStatuses /\ prov' = [prov EXCEPT ![o][a] = p]
      /\ said' = said /\ sync' = sync /\ polled' = polled
  BY <1>1 DEF BookEkart, SyncInv, SyncTypeOK, ProviderStatuses, Moving
<1>3. EndsStay
  BY <1>1, <1>2 DEF EndsStay, SyncInv, SyncTypeOK, Final
<1>4. ReportsOK'
  BY <1>1, <1>2, <1>3 DEF SyncInv, ReportsOK, EndsStay
<1>5. left' \in 0 .. MaxDisturbances
  BY SyncAssumption DEF BookEkart, Disturb, SyncInv, SyncTypeOK
<1>6. prov' \in [Orders -> [Awbs -> ProviderStatuses \cup {"none"}]]
  BY <1>1, <1>2 DEF SyncInv, SyncTypeOK
<1>7. CASE /\ order' = [order EXCEPT ![o] =
                [d EXCEPT !.by = "ekart", !.awb = a, !.last = a, !.ref = d.version,
                          !.status = "pending", !.shown = p, !.flagged = FALSE]]
           /\ Overtakes(o) /\ UNCHANGED astray
  <2>1. /\ order' \in [Orders -> Documents]
        /\ \A q \in Orders \ {o} : order'[q] = order[q]
        /\ order'[o].by = "ekart" /\ order'[o].awb = a
    <3>1. [d EXCEPT !.by = "ekart", !.awb = a, !.last = a, !.ref = d.version,
                    !.status = "pending", !.shown = p, !.flagged = FALSE] \in Documents
      BY <1>1, <1>2 DEF Documents, OrderStatuses, ProviderStatuses, Moving
    <3> QED
      BY <1>1, <1>7, <3>1 DEF Documents
  <2>2. HookOK' /\ CancelOK' /\ SyncTypeOK'
    BY <1>1, <1>2, <1>3, <1>5, <1>6, <1>7, <2>1, OvertakesKeeps
       DEF SyncInv, SyncTypeOK
  <2>3. OrdersOK' /\ UnbookedIsBookable'
    BY <1>1, <1>7, <2>1 DEF SyncInv, OrdersOK, UnbookedIsBookable
  <2> QED
    BY <1>2, <1>3, <1>4, <2>2, <2>3, JobWaits DEF SyncInv
<1>8. CASE /\ order' = [order EXCEPT ![o] =
                [d EXCEPT !.by = "ekart", !.awb = a, !.version = 1, !.ref = d.version,
                          !.flagged = TRUE]]
           /\ astray' = IF Requested(o) THEN astray \cup {o} ELSE astray
           /\ UNCHANGED <<hook, cancel>>
  <2>1. /\ order' \in [Orders -> Documents]
        /\ \A q \in Orders \ {o} : order'[q] = order[q]
        /\ order'[o].by = "ekart" /\ order'[o].awb = a
    <3>1. [d EXCEPT !.by = "ekart", !.awb = a, !.version = 1, !.ref = d.version,
                    !.flagged = TRUE]
            \in Documents
      BY <1>1, Sizes DEF Documents
    <3> QED
      BY <1>1, <1>8, <3>1 DEF Documents
  <2>2. SyncTypeOK'
    BY <1>1, <1>2, <1>5, <1>6, <1>8, <2>1 DEF SyncInv, SyncTypeOK
  <2>3. RequestOK(hook.req)' /\ RequestOK(cancel)'
    <3> SUFFICES ASSUME NEW r \in {hook.req, cancel}, r.at # "idle", r.fresh,
                        r.order \notin astray'
                 PROVE  order'[r.order] = order[r.order] /\ r.order \notin astray
      BY <1>8 DEF SyncInv, HookOK, CancelOK, RequestOK
    <3>1. r.order \in Orders
      BY DEF SyncInv, SyncTypeOK, Requests
    <3>2. r.order # o /\ r.order \notin astray
      BY <1>8 DEF Requested
    <3> QED
      BY <2>1, <3>1, <3>2
  <2>4. HookOK' /\ CancelOK'
    <3>1. \A r \in {hook.req, cancel} :
            r.at # "idle" => r.doc.awb \in Awbs /\ r.order \in Orders
      BY DEF SyncInv, HookOK, CancelOK, RequestOK, Held, SyncTypeOK, Requests
    <3> QED
      BY <1>3, <1>8, <2>3, <3>1 DEF SyncInv, HookOK, CancelOK, EndsStay, Final
  <2>5. OrdersOK' /\ UnbookedIsBookable'
    BY <1>1, <1>8, <2>1 DEF SyncInv, OrdersOK, UnbookedIsBookable
  <2> QED
    BY <1>2, <1>3, <1>4, <2>2, <2>4, <2>5, JobWaits DEF SyncInv
<1> QED
  BY <1>7, <1>8 DEF BookEkart

-----------------------------------------------------------------------------
LEMMA NextInv == SyncInv /\ [Next]_vars => SyncInv'
<1> SUFFICES ASSUME SyncInv, [Next]_vars PROVE SyncInv'
  OBVIOUS
<1>1. CASE \/ SyncStart \/ SyncHeal \/ SyncAborts \/ SyncTrack \/ SyncSave
           \/ SyncSaveFails
  BY <1>1, StartKeeps, HealKeeps, AbortsKeeps, TrackKeeps, SaveKeeps,
     SaveFailsKeeps
<1>2. CASE \E o \in Busy, a \in Awbs :
             \/ CourierMoves(o, a)
             \/ \E s \in ProviderStatuses : HookLoads(o, a, s)
  BY <1>2, MovesKeeps, HookLoadsKeeps
<1>3. CASE HookSaves \/ HookFails
  BY <1>3, HookSavesKeeps, HookFailsKeeps
<1>4. CASE \E o \in Busy : CancelLoads(o) \/ MarkCancelled(o)
  BY <1>4, CancelLoadsKeeps, MarkKeeps
<1>5. CASE CancelStep
  BY <1>5, AcceptedKeeps, RefusedKeeps, CancelSavesKeeps, CancelSaveFailsKeeps
     DEF CancelStep
<1>6. CASE \E o \in Busy : BookEkart(o) \/ BookOther(o)
  BY <1>6, BookEkartKeeps, BookOtherKeeps
<1>7. CASE UNCHANGED vars
  BY <1>7 DEF vars, SyncInv, SyncTypeOK, OrdersOK, ReportsOK, JobOK, HookOK,
     CancelOK, RequestOK, UnbookedIsBookable, MarkedCancelled
<1> QED
  BY <1>1, <1>2, <1>3, <1>4, <1>5, <1>6, <1>7 DEF Next

\* What the jobs, webhooks, cancellations and users leave at every step: sound
\* orders, and documents that say what the order or the courier once said.
THEOREM SyncInvariant == Spec => []SyncInv
  BY InitInv, NextInv, PTL DEF Spec

\* Whatever polls, webhooks, cancellations, edits and bookings do to one
\* another, documents and requests keep their shape.
THEOREM SyncTypeCorrect == Spec => []SyncTypeOK
<1>1. SyncInv => SyncTypeOK
  BY DEF SyncInv
<1> QED
  BY <1>1, SyncInvariant, PTL

\* An order that lost its shipment is open to the next booking, unless it was
\* written without the version amid a request (moveEkartCancelledToReship,
\* applyEkartCriticalUpdate, cancelShipment).
THEOREM UnbookedStaysBookable == Spec => []UnbookedIsBookable
<1>1. SyncInv => UnbookedIsBookable
  BY DEF SyncInv
<1> QED
  BY <1>1, SyncInvariant, PTL

-----------------------------------------------------------------------------
\* The ways in which a step can change the document of order o.

JobWrites(o) ==
  /\ sync.todo # <<>> /\ Head(sync.todo) = o /\ order[o].by = "ekart"
  /\ \/ /\ MarkedCancelled(order[o]) /\ sync.seen # "delivered"
        /\ order'[o] = Reship(order[o])
     \/ /\ sync.seen \in ProviderStatuses \cup {"empty", "error"}
        /\ sync.seen \in Final => Shipment(o) = sync.seen
        /\ order'[o] = Polled(order[o], sync.seen)

HookWrites(o) ==
  /\ order[o].by = "ekart"
  /\ \E s \in ProviderStatuses :
       /\ s \in Final => Shipment(o) = s
       /\ order'[o] = Heard(order[o], s)

CancelWrites(o) == order[o].by = "ekart" /\ Shipment(o) = "cancelled"

UserWrites(o) ==
  \/ order[o].by = "none"
  \/ order'[o].by = order[o].by /\ order'[o].status = "cancelled"

WritesKnown ==
  \A o \in Orders :
    \/ order'[o] = order[o] \/ SavesOver(o)
    \/ JobWrites(o) \/ HookWrites(o) \/ CancelWrites(o) \/ UserWrites(o)
    \/ Misled(o)

LEMMA JobKnown == ASSUME SyncInv, SyncHeal \/ SyncSave PROVE WritesKnown
<1> DEFINE o == Head(sync.todo)
           d == sync.doc[o]
<1>1. /\ sync.todo # <<>> /\ o \in Orders /\ d \in Documents /\ Held(d)
      /\ order \in [Orders -> Documents]
  BY HeadTailProperties DEF SyncHeal, SyncSave, SyncInv, SyncTypeOK, JobOK
<1>2. ASSUME NEW new \in Documents, order' = SavedOver(o, d, new),
             d = order[o] /\ order'[o] = new => JobWrites(o)
      PROVE  WritesKnown
  <2>1. /\ \A p \in Orders \ {o} : order'[p] = order[p]
        /\ d = order[o] => order'[o] = new
    BY <1>1, <1>2, SavedFields
  <2> QED
    BY <1>1, <1>2, <2>1 DEF WritesKnown, SavesOver
<1>3. CASE SyncHeal
  <2>1. /\ order' = SavedOver(o, d, Reship(d)) /\ MarkedCancelled(d)
        /\ Reship(d) \in Documents
    BY <1>1, <1>3, Edited DEF SyncHeal, SyncWrites
  <2>2. sync.seen # "delivered"
    BY <2>1 DEF SyncInv, JobOK
  <2> QED
    BY <1>1, <1>2, <2>1, <2>2 DEF JobWrites, Held
<1>4. CASE SyncSave
  <2>1. /\ sync.seen \in ProviderStatuses \cup {"empty", "error"}
        /\ sync.seen \in Final => prov[o][d.awb] = sync.seen
    BY <1>4 DEF SyncSave, SyncInv, JobOK, SyncTypeOK
  <2>2. /\ order' = SavedOver(o, d, Polled(d, sync.seen))
        /\ Polled(d, sync.seen) \in Documents
    BY <1>1, <1>4, <2>1, PolledDoc DEF SyncSave, SyncWrites
  <2> QED
    BY <1>1, <1>2, <2>1, <2>2 DEF JobWrites, Held, Shipment
<1> QED
  BY <1>3, <1>4

\* What a request's save writes is over the document as it is stored, or the
\* order was written without the version.
LEMMA RequestKnown ==
  ASSUME SyncInv, NEW r \in {hook.req, cancel}, r.at # "idle", r.fresh,
         NEW new \in Documents, order' = SavedOver(r.order, r.doc, new)
  PROVE  /\ r.order \in Orders
         /\ \A p \in Orders \ {r.order} : order'[p] = order[p]
         /\ \/ SavesOver(r.order)
            \/ /\ r.doc = order[r.order] /\ order[r.order].by = "ekart"
               /\ order'[r.order] = new
<1>1. /\ r.order \in Orders /\ r.doc \in Documents /\ Held(r.doc)
      /\ order \in [Orders -> Documents]
      /\ r.order \notin astray => r.doc = order[r.order]
  BY DEF SyncInv, SyncTypeOK, Requests, HookOK, CancelOK, RequestOK
<1>2. /\ \A p \in Orders \ {r.order} : order'[p] = order[p]
      /\ r.doc = order[r.order] => order'[r.order] = new
  BY <1>1, SavedFields
<1> QED
  BY <1>1, <1>2 DEF SavesOver, Held

LEMMA HookKnown == ASSUME SyncInv, HookSaves PROVE WritesKnown
<1> DEFINE r == hook.req
           new == Heard(r.doc, hook.event)
<1>1. /\ r.at # "idle" /\ r.fresh /\ r.doc \in Documents
      /\ hook.event \in ProviderStatuses
      /\ order' = SavedOver(r.order, r.doc, new)
      /\ hook.own /\ hook.event \in Final => prov[r.order][r.doc.awb] = hook.event
  BY DEF HookSaves, SyncInv, SyncTypeOK, Requests, HookOK
<1>2. new \in Documents
  BY <1>1, HeardDoc
<1>3. /\ r.order \in Orders
      /\ \A p \in Orders \ {r.order} : order'[p] = order[p]
      /\ \/ SavesOver(r.order)
         \/ /\ r.doc = order[r.order] /\ order[r.order].by = "ekart"
            /\ order'[r.order] = new
  BY <1>1, <1>2, RequestKnown
<1>4. SavesOver(r.order) \/ HookWrites(r.order) \/ Misled(r.order)
  BY <1>1, <1>3 DEF HookWrites, Shipment, Misled
<1> QED
  BY <1>3, <1>4 DEF WritesKnown

LEMMA CancelKnown == ASSUME SyncInv, CancelSaves PROVE WritesKnown
<1>1. /\ cancel.at # "idle" /\ cancel.fresh /\ cancel.doc \in Documents
      /\ prov[cancel.order][cancel.doc.awb] = "cancelled"
  BY DEF CancelSaves, SyncInv, SyncTypeOK, Requests, CancelOK
<1>2. PICK new \in Documents : order' = SavedOver(cancel.order, cancel.doc, new)
  BY <1>1, Edited DEF CancelSaves
<1>3. /\ cancel.order \in Orders
      /\ \A p \in Orders \ {cancel.order} : order'[p] = order[p]
      /\ \/ SavesOver(cancel.order)
         \/ /\ cancel.doc = order[cancel.order]
            /\ order[cancel.order].by = "ekart"
  BY <1>1, <1>2, RequestKnown
<1>4. SavesOver(cancel.order) \/ CancelWrites(cancel.order)
  BY <1>1, <1>3 DEF CancelWrites, Shipment
<1> QED
  BY <1>3, <1>4 DEF WritesKnown

LEMMA UserKnown ==
  ASSUME SyncInv, NEW o \in Busy, MarkCancelled(o) \/ BookEkart(o) \/ BookOther(o)
  PROVE  WritesKnown
<1>1. o \in Orders /\ order[o] \in Documents /\ order \in [Orders -> Documents]
  BY SyncAssumption DEF SyncInv, SyncTypeOK
<1>2. CASE MarkCancelled(o)
  <2>1. /\ \A p \in Orders \ {o} : order'[p] = order[p]
        /\ order'[o].by = order[o].by /\ order'[o].status = "cancelled"
    BY <1>1, <1>2 DEF MarkCancelled, Documents
  <2> QED
    BY <2>1 DEF WritesKnown, UserWrites
<1>3. CASE BookEkart(o)
  <2>1. order[o].by = "none" /\ \A p \in Orders \ {o} : order'[p] = order[p]
    BY <1>1, <1>3 DEF BookEkart
  <2> QED
    BY <2>1 DEF WritesKnown, UserWrites
<1>4. CASE BookOther(o)
  <2>1. order[o].by = "none" /\ \A p \in Orders \ {o} : order'[p] = order[p]
    BY <1>1, <1>4 DEF BookOther
  <2> QED
    BY <2>1 DEF WritesKnown, UserWrites
<1> QED
  BY <1>2, <1>3, <1>4

LEMMA StepsKnown == ASSUME SyncInv, [Next]_vars PROVE WritesKnown
<1>1. CASE UNCHANGED order
  BY <1>1 DEF WritesKnown
<1>2. CASE SyncHeal \/ SyncSave
  BY <1>2, JobKnown
<1>3. CASE HookSaves \/ CancelSaves
  BY <1>3, HookKnown, CancelKnown
<1>4. CASE \E o \in Busy : MarkCancelled(o) \/ BookEkart(o) \/ BookOther(o)
  BY <1>4, UserKnown
<1>5. CASE SyncStart \/ SyncAborts \/ SyncTrack \/ SyncSaveFails \/ HookFails
  BY <1>1, <1>5 DEF SyncStart, SyncAborts, SyncTrack, SyncSaveFails, HookFails
<1>6. CASE \E o \in Busy :
             \/ CancelLoads(o)
             \/ \E a \in Awbs : \/ CourierMoves(o, a)
                               \/ \E s \in ProviderStatuses : HookLoads(o, a, s)
  BY <1>1, <1>6 DEF CancelLoads, CourierMoves, HookLoads
<1>7. CASE CancelAccepted \/ CancelRefused \/ CancelSaveFails
  BY <1>1, <1>7 DEF CancelAccepted, CancelRefused, CancelSaveFails
<1> QED
  BY <1>1, <1>2, <1>3, <1>4, <1>5, <1>6, <1>7 DEF Next, CancelStep, vars

\* The job, the webhook and the cancellations take a shipment off an order only
\* on the word of the courier that it is cancelled, and write it over the
\* document they read; a live one goes only over a newer document, by an order
\* that was marked cancelled by hand, or by a webhook about an earlier shipment
\* that found the order by its merchant reference (syncOneEkartOrder,
\* applyEkartCriticalUpdate, cancelShipment).
THEOREM LiveShipmentsKept == Spec => LiveShipmentKept
<1>1. SyncInv /\ [Next]_vars =>
        [\A o \in Orders :
           /\ \/ order[o].by = "other"
              \/ HasEkart(o) /\ Shipment(o) \in Moving \cup {"delivered"}
           /\ order'[o].by = "none"
           => SavesOver(o) \/ MarkedCancelled(order[o]) \/ Misled(o)]_vars
  <2> SUFFICES ASSUME SyncInv, [Next]_vars, NEW o \in Orders,
                      \/ order[o].by = "other"
                      \/ HasEkart(o) /\ Shipment(o) \in Moving \cup {"delivered"},
                      order'[o].by = "none", ~SavesOver(o), ~Misled(o)
               PROVE  MarkedCancelled(order[o])
    OBVIOUS
  <2>1. order[o] \in Documents /\ order[o].by # "none" /\ order'[o] # order[o]
    BY DEF SyncInv, SyncTypeOK, HasEkart
  <2>2. JobWrites(o) \/ HookWrites(o) \/ CancelWrites(o) \/ UserWrites(o)
    BY <2>1, StepsKnown DEF WritesKnown
  <2>3. CASE JobWrites(o)
    BY <2>1, <2>3, PolledDoc DEF JobWrites, HasEkart, Moving, Final
  <2>4. CASE HookWrites(o)
    BY <2>1, <2>4, HeardDoc DEF HookWrites, HasEkart, Moving, Final
  <2>5. CASE CancelWrites(o)
    BY <2>5 DEF CancelWrites, HasEkart, Moving
  <2>6. CASE UserWrites(o)
    BY <2>1, <2>6 DEF UserWrites
  <2> QED
    BY <2>2, <2>3, <2>4, <2>5, <2>6
<1> QED
  BY <1>1, SyncInvariant, PTL DEF Spec, LiveShipmentKept

\* An order that says delivered, rightly, goes on saying so, in whatever order
\* the courier's webhooks about that shipment arrive (shouldApplyShipAmazeStatus).
THEOREM DeliveriesStay == Spec => DeliveredStays
<1>1. SyncInv /\ [Next]_vars =>
        [\A o \in Orders :
           /\ HasEkart(o) /\ Shipment(o) = "delivered"
           /\ order[o].status = "delivered" /\ order'[o].status # "delivered"
           => \/ SavesOver(o) \/ Misled(o)
              \/ sync.todo # <<>> /\ Head(sync.todo) = o /\ sync.seen # "delivered"
              \/ order'[o].status = "cancelled"]_vars
  <2> SUFFICES ASSUME SyncInv, [Next]_vars, NEW o \in Orders,
                      HasEkart(o), Shipment(o) = "delivered",
                      order[o].status = "delivered",
                      order'[o].status # "delivered", ~SavesOver(o), ~Misled(o)
               PROVE  \/ /\ sync.todo # <<>> /\ Head(sync.todo) = o
                         /\ sync.seen # "delivered"
                      \/ order'[o].status = "cancelled"
    OBVIOUS
  <2>1. order[o] \in Documents /\ order[o].by = "ekart" /\ order'[o] # order[o]
    BY DEF SyncInv, SyncTypeOK, HasEkart
  <2>2. JobWrites(o) \/ HookWrites(o) \/ CancelWrites(o) \/ UserWrites(o)
    BY <2>1, StepsKnown DEF WritesKnown
  <2>3. CASE JobWrites(o)
    <3>1. Polled(order[o], "delivered").status = "delivered"
      BY <2>1 DEF Polled, PolledStatus, Documents, ShouldApply
    <3> QED
      BY <2>3, <3>1 DEF JobWrites
  <2>4. CASE HookWrites(o)
    <3>1. PICK s \in ProviderStatuses :
            /\ s \in Final => Shipment(o) = s
            /\ order'[o] = Heard(order[o], s)
      BY <2>4 DEF HookWrites
    <3>2. s = "delivered" \/ s \notin Final
      BY <3>1
    <3>3. Heard(order[o], s).status = "delivered"
      BY <2>1, <3>2 DEF Heard, Documents, ShouldApply, Final
    <3> QED
      BY <3>1, <3>3
  <2>5. CASE CancelWrites(o)
    BY <2>5 DEF CancelWrites
  <2>6. CASE UserWrites(o)
    BY <2>1, <2>6 DEF UserWrites
  <2> QED
    BY <2>2, <2>3, <2>4, <2>5, <2>6
<1> QED
  BY <1>1, SyncInvariant, PTL DEF Spec, DeliveredStays
=============================================================================
