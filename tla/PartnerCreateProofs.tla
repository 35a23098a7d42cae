-------------------------- MODULE PartnerCreateProofs --------------------------
(***************************************************************************)
(* That the partner API knows of every shipment there may be, for any      *)
(* number of requests, keys, bodies and orders.                            *)
(***************************************************************************)
EXTENDS PartnerCreate, TLAPS

RequestRecs ==
  [at: At, key: Keys \cup {NoKey}, body: Bodies \cup {NoBody},
   order: Ids \cup {NoOrder}, failed: BOOLEAN,
   err: {"none", "FAILED", "UNCERTAIN", "busy"}]

\* Requests that have gone as far as the booking have an order.
WithOrder == {"book", "courier", "save", "refresh", "release", "done", "failed",
              "uncertain"}

\* What a request relies on.  "refresh" without an error, and "done", are
\* reached with a booked order only, and bookings are never undone here.
RequestOK(q) ==
  /\ req[q].at # "idle" => req[q].key \in Keys /\ req[q].body \in Bodies
  /\ req[q].at \in WithOrder => req[q].order \in Ids
  /\ req[q].at = "refresh" /\ req[q].err = "none" => orders[req[q].order].booked
  /\ req[q].at = "done" => orders[req[q].order].booked

\* A request between the claim and the last write of its booking.
Holding(q) == req[q].at \in {"courier", "save"}

\* It has the claim, alone, on an order that is found or known to be adrift.
HolderOK(q) ==
  Holding(q) =>
    /\ orders[req[q].order].claimed
    /\ orders[req[q].order].ref \/ req[q].order \in adrift
    /\ \A p \in Requests \ {q} : Holding(p) => req[p].order # req[q].order

PartnerInv ==
  /\ PartnerTypeOK
  /\ \A q \in Requests : RequestOK(q) /\ HolderOK(q)
  /\ ShipmentIsFlagged
  /\ ShipmentFoundByReference
  /\ CompletedIsBooked

-----------------------------------------------------------------------------
LEMMA FoundType == Found \in Ids \cup {NoOrder}
  BY DEF Found, Active

LEMMA InitPartner == PartnerInit => PartnerInv
<1> SUFFICES ASSUME PartnerInit PROVE PartnerInv
  OBVIOUS
<1>1. PartnerTypeOK
  BY DEF PartnerInit, PartnerTypeOK, NoRecord, OrderDocs, NotMade, Idle, At
<1>2. \A q \in Requests : RequestOK(q) /\ HolderOK(q)
  BY DEF PartnerInit, RequestOK, HolderOK, Holding, Idle, WithOrder
<1>3. ShipmentIsFlagged /\ ShipmentFoundByReference
  BY DEF PartnerInit, ShipmentIsFlagged, ShipmentFoundByReference
<1>4. CompletedIsBooked
  BY DEF PartnerInit, CompletedIsBooked, NoRecord
<1> QED
  BY <1>1, <1>2, <1>3, <1>4 DEF PartnerInv

\* A step of one request leaves the others where they are.
LEMMA OnlyOne ==
  ASSUME PartnerTypeOK, NEW q \in Requests, RequestStep(q) \/ Crash(q),
         NEW p \in Requests, p # q
  PROVE  req'[p] = req[p]
<1> USE DEF PartnerTypeOK, Goto, Ends, Settles, Errs, Resolve
<1>1. ASSUME NEW k \in Keys, NEW b \in Bodies, Check(q, k, b) PROVE req'[p] = req[p]
  BY <1>1 DEF Check
<1>2. CASE Discard(q) \/ Find(q) \/ Lookup(q) \/ Reset(q) \/ Raced(q)
  BY <1>2 DEF Discard, Find, Lookup, Reset, Raced
<1>3. CASE Ensure(q) \/ Insert(q) \/ Create(q)
  BY <1>3 DEF Ensure, Insert, MakePending, Create
<1>4. CASE Book(q) \/ Rejected(q) \/ Accepted(q) \/ Timeout(q) \/ SecondTryLost(q)
  BY <1>4 DEF Book, Rejected, Accepted, Timeout, SecondTryLost
<1>5. CASE Save(q) \/ Refresh(q) \/ Release(q) \/ Complete(q) \/ Crash(q)
  BY <1>5 DEF Save, Refresh, Release, Complete, Crash
<1> QED
  BY <1>1, <1>2, <1>3, <1>4, <1>5 DEF RequestStep

\* Up to the booking, and once it is over, only the request and its record
\* change, and the request neither has a claim nor gets one.
Aside(q) ==
  \/ \E k \in Keys, b \in Bodies : Check(q, k, b)
  \/ Discard(q) \/ Find(q) \/ Lookup(q) \/ Reset(q) \/ Ensure(q) \/ Insert(q)
  \/ Raced(q) \/ Refresh(q) \/ Complete(q)

LEMMA AsideHolds ==
  ASSUME PartnerTypeOK, NEW q \in Requests, Aside(q)
  PROVE  ~Holding(q) /\ ~Holding(q)' /\ UNCHANGED <<orders, live, lost, adrift>>
<1> USE DEF PartnerTypeOK, Goto, Ends, Settles, Errs, Resolve, Holding, Idle
<1>1. ASSUME NEW k \in Keys, NEW b \in Bodies, Check(q, k, b)
      PROVE  ~Holding(q) /\ ~Holding(q)' /\ UNCHANGED <<orders, live, lost, adrift>>
  BY <1>1 DEF Check
<1>2. CASE Discard(q) \/ Find(q) \/ Lookup(q) \/ Reset(q) \/ Raced(q)
  BY <1>2 DEF Discard, Find, Lookup, Reset, Raced
<1>3. CASE Ensure(q) \/ Insert(q)
  BY <1>3 DEF Ensure, Insert, MakePending
<1>4. CASE Refresh(q) \/ Complete(q)
  BY <1>4 DEF Refresh, Complete
<1> QED
  BY <1>1, <1>2, <1>3, <1>4 DEF Aside

\* What there is of an order, apart from its reference and the claim, stays:
\* a booking is never undone, and only a booking settles a flag.
LEMMA OrdersKeep ==
  ASSUME PartnerTypeOK, NEW o \in Ids, \A q \in Requests : RequestOK(q),
         [PartnerNext]_partnerVars
  PROVE  /\ orders[o].booked => orders'[o].booked
         /\ orders[o].uncertain => orders'[o].uncertain \/ orders'[o].booked
<1> DEFINE G == /\ orders[o].booked => orders'[o].booked
                /\ orders[o].uncertain => orders'[o].uncertain \/ orders'[o].booked
<1> USE DEF PartnerTypeOK, OrderDocs
<1>1. ASSUME NEW q \in Requests, Aside(q) PROVE G
  BY <1>1, AsideHolds
<1>2. ASSUME NEW q \in Requests, Create(q) PROVE G
  <2>1. CASE UNCHANGED orders
    BY <2>1
  <2>2. ASSUME NEW p \in Ids,
               orders' = [orders EXCEPT ![p].made = TRUE, ![p].ref = TRUE]
        PROVE  G
    BY <2>2
  <2> QED
    BY <1>2, <2>1, <2>2 DEF Create
<1>3. ASSUME NEW q \in Requests,
             Book(q) \/ Rejected(q) \/ Accepted(q) \/ Timeout(q) \/ SecondTryLost(q)
      PROVE  G
  BY <1>3 DEF Book, Rejected, Accepted, Timeout, SecondTryLost
<1>4. ASSUME NEW q \in Requests, Save(q) \/ Release(q) \/ Crash(q) PROVE G
  BY <1>4 DEF Save, Release, Crash
<1>5. ASSUME NEW k \in Keys, RecordAges(k) \/ RecordExpires(k) PROVE G
  BY <1>5 DEF RecordAges, RecordExpires
<1>6. ASSUME NEW p \in Ids, ClaimAges(p) PROVE G
  BY <1>6 DEF ClaimAges
<1>7. CASE UNCHANGED partnerVars
  BY <1>7 DEF partnerVars
<1> QED
  BY <1>1, <1>2, <1>3, <1>4, <1>5, <1>6, <1>7 DEF PartnerNext, RequestStep, Aside

-----------------------------------------------------------------------------
\* Types, with what each request relies on: first the ways a request goes on.
LEMMA Going ==
  ASSUME req \in [Requests -> RequestRecs], NEW q \in Requests, NEW l \in At
  PROVE  /\ Goto(q, l) =>
              /\ req' \in [Requests -> RequestRecs]
              /\ req'[q].at = l /\ req'[q].err = req[q].err
              /\ req'[q].order = req[q].order
              /\ req'[q].key = req[q].key /\ req'[q].body = req[q].body
         /\ Settles(q, l) =>
              /\ req' \in [Requests -> RequestRecs]
              /\ req'[q].at = l /\ req'[q].err = "none"
              /\ req'[q].order = req[q].order
              /\ req'[q].key = req[q].key /\ req'[q].body = req[q].body
  BY DEF RequestRecs, Goto, Settles

LEMMA Ending ==
  ASSUME req \in [Requests -> RequestRecs], NEW q \in Requests, Ends(q)
  PROVE  req' \in [Requests -> RequestRecs] /\ RequestOK(q)'
<1>1. Idle \in RequestRecs /\ Idle.at = "idle"
  BY DEF RequestRecs, Idle, At
<1>2. req' = [req EXCEPT ![q] = Idle]
  BY DEF Ends
<1>3. req' \in [Requests -> RequestRecs] /\ req'[q].at = "idle"
  BY <1>1, <1>2
<1> QED
  BY <1>3 DEF RequestOK, WithOrder

LEMMA Erring ==
  ASSUME req \in [Requests -> RequestRecs], NEW q \in Requests,
         NEW e \in {"none", "FAILED", "UNCERTAIN", "busy"}, Errs(q, e)
  PROVE  /\ req' \in [Requests -> RequestRecs]
         /\ req'[q].at = "refresh" /\ req'[q].err = e
         /\ req'[q].order = req[q].order
         /\ req'[q].key = req[q].key /\ req'[q].body = req[q].body
  BY DEF RequestRecs, Errs, At

LEMMA Resolving ==
  ASSUME req \in [Requests -> RequestRecs], NEW q \in Requests, NEW o \in Ids,
         RequestOK(q), req[q].at # "idle", Resolve(q, o), UNCHANGED orders
  PROVE  req' \in [Requests -> RequestRecs] /\ RequestOK(q)'
<1> DEFINE l == IF orders[o].booked THEN "done" ELSE "ensure"
           r == [req[q] EXCEPT !.at = l, !.order = o, !.failed = FALSE]
<1>1. l \in At
  BY DEF At
<1>2. r \in RequestRecs /\ r.at = l /\ r.order = o
      /\ r.key = req[q].key /\ r.body = req[q].body
  <2> HIDE DEF l
  <2> QED
    BY <1>1 DEF RequestRecs
<1>3. req' = [req EXCEPT ![q] = r]
  <2> HIDE DEF l
  <2>1. req' = [req EXCEPT ![q].at = l, ![q].order = o, ![q].failed = FALSE]
    BY DEF Resolve, l
  <2> QED
    BY <2>1
<1>4. req' \in [Requests -> RequestRecs] /\ req'[q] = r
  <2> HIDE DEF r
  <2> QED
    BY <1>2, <1>3
<1> QED
  BY <1>2, <1>4 DEF RequestOK, WithOrder

\* A place before the booking asks for no more than the key and the body; one
\* after it for the order, too.
LEMMA Arriving ==
  ASSUME NEW q \in Requests, RequestOK(q), req[q].at # "idle",
         req'[q].key = req[q].key, req'[q].body = req[q].body,
         req'[q].order = req[q].order,
         req'[q].at \in WithOrder => req[q].order \in Ids,
         (req'[q].at = "done" \/ (req'[q].at = "refresh" /\ req'[q].err = "none"))
           => orders'[req[q].order].booked
  PROVE  RequestOK(q)'
  BY DEF RequestOK, WithOrder

LEMMA AsideTypes ==
  ASSUME PartnerTypeOK, NEW q \in Requests, RequestOK(q), Aside(q)
  PROVE  PartnerTypeOK' /\ RequestOK(q)'
<1> DEFINE R == req' \in [Requests -> RequestRecs]
           T == rec' \in [Keys -> Records \cup {NoRecord}]
<1>0. /\ req \in [Requests -> RequestRecs]
      /\ rec \in [Keys -> Records \cup {NoRecord}]
  BY DEF PartnerTypeOK, RequestRecs
<1> SUFFICES R /\ T /\ RequestOK(q)'
  BY AsideHolds DEF PartnerTypeOK, RequestRecs
<1>1. ASSUME NEW k \in Keys, NEW b \in Bodies, Check(q, k, b)
      PROVE  R /\ T /\ RequestOK(q)'
  <2>1. rec[k].order \in Ids \cup {NoOrder}
    BY <1>0 DEF Records, NoRecord
  <2>2. PICK l \in {"lookup", "discard", "find"}, f \in BOOLEAN,
             o \in Ids \cup {NoOrder} :
          req' = [req EXCEPT ![q] = [at |-> l, key |-> k, body |-> b,
                    order |-> o, failed |-> f, err |-> "none"]]
    BY <1>1, <2>1 DEF Check
  <2>3. [at |-> l, key |-> k, body |-> b, order |-> o, failed |-> f,
         err |-> "none"] \in RequestRecs
    BY <2>2 DEF RequestRecs, At
  <2>4. R /\ req'[q] = [at |-> l, key |-> k, body |-> b, order |-> o,
                        failed |-> f, err |-> "none"]
    BY <1>0, <2>2, <2>3
  <2> QED
    BY <1>0, <1>1, <2>4 DEF Check, RequestOK, WithOrder
<1>2. CASE Discard(q)
  <2>1. Goto(q, "lookup") /\ "lookup" \in At /\ req[q].at # "idle"
    BY <1>2 DEF Discard, At
  <2>2. T
    BY <1>0, <1>2 DEF Discard
  <2> QED
    BY <1>0, <2>1, <2>2, Going, Arriving DEF WithOrder
<1>3. CASE Find(q) \/ Lookup(q) \/ Raced(q)
  <2>1. req[q].at # "idle" /\ UNCHANGED <<rec, orders>>
    BY <1>3 DEF Find, Lookup, Raced
  <2>2. \/ \E o \in Ids : Resolve(q, o)
        \/ Ends(q)
        \/ \E l \in {"lookup", "reset", "ensure"} : Goto(q, l)
    BY <1>0, <1>3, FoundType DEF Find, Lookup, Raced, RequestRecs
  <2>3. ASSUME NEW l \in {"lookup", "reset", "ensure"}, Goto(q, l)
        PROVE  R /\ RequestOK(q)'
    BY <1>0, <2>1, <2>3, Going, Arriving DEF At, WithOrder
  <2> QED
    BY <1>0, <2>1, <2>2, <2>3, Ending, Resolving
<1>5. CASE Reset(q)
  <2>1. /\ req' = [req EXCEPT ![q].at = "ensure", ![q].failed = FALSE]
        /\ req[q].at # "idle"
    BY <1>5 DEF Reset
  <2>2. /\ R /\ req'[q].at = "ensure" /\ req'[q].order = req[q].order
        /\ req'[q].key = req[q].key /\ req'[q].body = req[q].body
    BY <1>0, <2>1 DEF RequestRecs, At
  <2>3. T
    BY <1>0, <1>5 DEF Reset
  <2> QED
    BY <2>1, <2>2, <2>3, Arriving DEF WithOrder
<1>6. CASE Ensure(q) \/ Insert(q)
  <2>1. req[q].key \in Keys /\ req[q].body \in Bodies /\ req[q].at # "idle"
    BY <1>6 DEF Ensure, Insert, RequestOK
  <2>2. Pended(q) \in Records
    <3>1. rec[req[q].key].order \in Ids \cup {NoOrder}
          /\ rec[req[q].key].stale \in BOOLEAN
      <4>1. rec[req[q].key] \in Records \cup {NoRecord}
        BY <1>0, <2>1
      <4>2. CASE rec[req[q].key] \in Records
        BY <4>2 DEF Records
      <4>3. CASE rec[req[q].key] = NoRecord
        BY <4>3 DEF NoRecord
      <4> QED
        BY <4>1, <4>2, <4>3
    <3>2. req[q].order \in Ids \cup {NoOrder}
      BY <1>0 DEF RequestRecs
    <3> QED
      BY <2>1, <3>1, <3>2 DEF Pended, Records
  <2>3. ASSUME MakePending(q) PROVE R /\ T /\ RequestOK(q)'
    <3>1. T
      BY <1>0, <2>2, <2>3 DEF MakePending
    <3>2. CASE Goto(q, "create")
      BY <1>0, <2>1, <3>1, <3>2, Going, Arriving DEF At, WithOrder
    <3>3. CASE Goto(q, "book") /\ req[q].order # NoOrder
      <4>1. req[q].order \in Ids
        BY <1>0, <3>3 DEF RequestRecs
      <4> QED
        BY <1>0, <2>1, <3>1, <3>3, <4>1, Going, Arriving DEF At
    <3> QED
      BY <2>3, <3>2, <3>3 DEF MakePending
  <2>4. ASSUME Goto(q, "insert"), UNCHANGED rec PROVE R /\ T /\ RequestOK(q)'
    BY <1>0, <2>1, <2>4, Going, Arriving DEF At, WithOrder
  <2>5. ASSUME Ends(q), UNCHANGED rec PROVE R /\ T /\ RequestOK(q)'
    BY <1>0, <2>5, Ending
  <2> QED
    BY <1>6, <2>3, <2>4, <2>5 DEF Ensure, Insert
<1>8. CASE Refresh(q)
  <2>1. /\ req[q].at = "refresh" /\ UNCHANGED <<rec, orders>>
        /\ req[q].order \in Ids
    BY <1>8 DEF Refresh, RequestOK, WithOrder
  <2>2. \/ Settles(q, "done") /\ orders[req[q].order].booked
        \/ Ends(q)
        \/ \E l \in {"uncertain", "release", "failed"} : Settles(q, l)
    BY <1>8, <2>1 DEF Refresh, RequestOK
  <2>3. ASSUME NEW l \in {"uncertain", "release", "failed"}, Settles(q, l)
        PROVE  R /\ RequestOK(q)'
    BY <1>0, <2>1, <2>3, Going, Arriving DEF At
  <2>4. ASSUME Settles(q, "done"), orders[req[q].order].booked
        PROVE  R /\ RequestOK(q)'
    BY <1>0, <2>1, <2>4, Going, Arriving DEF At
  <2> QED
    BY <1>0, <2>1, <2>2, <2>3, <2>4, Ending
<1>9. CASE Complete(q)
  <2>1. req[q].order \in Ids
    BY <1>9 DEF Complete, RequestOK, WithOrder
  <2>2. StatusOf(req[q].at) \in {"COMPLETED", "FAILED", "UNCERTAIN"}
    BY <1>9 DEF Complete, StatusOf
  <2>3. T
    BY <1>0, <1>9, <2>1, <2>2 DEF Complete, Records
  <2> QED
    BY <1>0, <1>9, <2>3, Ending DEF Complete
<1> QED
  BY <1>1, <1>2, <1>3, <1>5, <1>6, <1>8, <1>9 DEF Aside

LEMMA BookingTypes ==
  ASSUME PartnerTypeOK, NEW q \in Requests, RequestOK(q),
         RequestStep(q) \/ Crash(q), ~Aside(q)
  PROVE  PartnerTypeOK' /\ RequestOK(q)'
<1> DEFINE R == req' \in [Requests -> RequestRecs]
           D == /\ orders' \in [Ids -> OrderDocs]
                /\ live' \subseteq Ids /\ lost' \subseteq Ids /\ adrift' \subseteq Ids
<1>0. /\ req \in [Requests -> RequestRecs]
      /\ orders \in [Ids -> OrderDocs]
      /\ live \subseteq Ids /\ lost \subseteq Ids /\ adrift \subseteq Ids
  BY DEF PartnerTypeOK, RequestRecs
<1> SUFFICES R /\ D /\ RequestOK(q)'
  <2>1. UNCHANGED rec
    BY DEF RequestStep, Aside, Create, Book, Rejected, Accepted, Timeout,
       SecondTryLost, Save, Release, Crash
  <2> QED
    BY <2>1 DEF PartnerTypeOK, RequestRecs
<1>a. ASSUME NEW l \in {"raced", "courier", "save", "failed"},
             Goto(q, l), req[q].at # "idle",
             l # "raced" => req[q].order \in Ids
      PROVE  R /\ RequestOK(q)'
  BY <1>0, <1>a, Going, Arriving DEF At, WithOrder
<1>b. ASSUME NEW e \in {"none", "FAILED", "UNCERTAIN", "busy"},
             Errs(q, e), req[q].at # "idle", req[q].order \in Ids,
             e = "none" => orders'[req[q].order].booked
      PROVE  R /\ RequestOK(q)'
  BY <1>0, <1>b, Erring, Arriving
<1>c. req[q].at \in WithOrder => req[q].order \in Ids /\ req[q].at # "idle"
  BY DEF RequestOK, WithOrder
<1>1. CASE Create(q)
  <2>1. CASE Goto(q, "raced") /\ UNCHANGED orders
    BY <1>0, <1>1, <1>a, <2>1 DEF Create
  <2>2. CASE Ends(q) /\ UNCHANGED orders
    BY <1>0, <1>1, <2>2, Ending DEF Create
  <2>3. ASSUME NEW o \in Ids,
               orders' = [orders EXCEPT ![o].made = TRUE, ![o].ref = TRUE],
               req' = [req EXCEPT ![q].at = "book", ![q].order = o]
        PROVE  R /\ D /\ RequestOK(q)'
    <3>1. /\ R /\ req'[q].at = "book" /\ req'[q].order = o
          /\ req'[q].key = req[q].key /\ req'[q].body = req[q].body
      BY <1>0, <2>3 DEF RequestRecs, At
    <3>2. D
      BY <1>0, <1>1, <2>3 DEF Create, OrderDocs
    <3> QED
      BY <1>1, <3>1, <3>2 DEF Create, RequestOK
  <2> QED
    BY <1>0, <1>1, <2>1, <2>2, <2>3 DEF Create
<1>2. CASE Book(q)
  <2>1. D
    BY <1>0, <1>2, <1>c DEF Book, OrderDocs, WithOrder
  <2> QED
    BY <1>2, <1>a, <1>b, <1>c, <2>1 DEF Book, WithOrder
<1>3. CASE Rejected(q) \/ Accepted(q)
  <2>1. D
    BY <1>0, <1>3, <1>c DEF Rejected, Accepted, OrderDocs, WithOrder
  <2> QED
    BY <1>3, <1>a, <1>b, <1>c, <2>1 DEF Rejected, Accepted, WithOrder
<1>4. CASE Timeout(q) \/ SecondTryLost(q)
  <2>1. req[q].order \in Ids
    BY <1>4, <1>c DEF Timeout, SecondTryLost, WithOrder
  <2>2. orders' \in [Ids -> OrderDocs]
    <3>1. orders[req[q].order] \in OrderDocs
      BY <1>0, <2>1
    <3>2. PICK d \in OrderDocs : orders' = [orders EXCEPT ![req[q].order] = d]
      <4>1. CASE Timeout(q) /\ orders' = [orders EXCEPT ![req[q].order].claimed = FALSE,
                                              ![req[q].order].uncertain = TRUE]
        <5>1. orders' = [orders EXCEPT ![req[q].order] =
                  [orders[req[q].order] EXCEPT !.claimed = FALSE, !.uncertain = TRUE]]
          BY <1>0, <2>1, <4>1
        <5>2. [orders[req[q].order] EXCEPT !.claimed = FALSE, !.uncertain = TRUE]
                \in OrderDocs
          BY <3>1 DEF OrderDocs
        <5> QED
          BY <5>1, <5>2
      <4>2. CASE orders' = [orders EXCEPT ![req[q].order].claimed = FALSE]
        <5>1. [orders[req[q].order] EXCEPT !.claimed = FALSE] \in OrderDocs
          BY <3>1 DEF OrderDocs
        <5> QED
          BY <4>2, <5>1
      <4> QED
        BY <1>4, <4>1, <4>2 DEF Timeout, SecondTryLost
    <3> QED
      BY <1>0, <3>2
  <2>3. D
    BY <1>0, <1>4, <2>1, <2>2 DEF Timeout, SecondTryLost
  <2> QED
    BY <1>4, <1>b, <1>c, <2>3 DEF Timeout, SecondTryLost, WithOrder
<1>5. CASE Save(q)
  <2>1. req[q].order \in Ids
    BY <1>5, <1>c DEF Save, WithOrder
  <2>2. orders' \in [Ids -> OrderDocs]
    <3>1. ASSUME NEW u \in BOOLEAN,
                 orders' = [orders EXCEPT ![req[q].order].booked = TRUE,
                                          ![req[q].order].claimed = FALSE,
                                          ![req[q].order].uncertain = u]
          PROVE  orders' \in [Ids -> OrderDocs]
      <4> DEFINE d == [orders[req[q].order] EXCEPT !.booked = TRUE,
                         !.claimed = FALSE, !.uncertain = u]
      <4>1. d \in OrderDocs
        BY <1>0, <2>1 DEF OrderDocs
      <4>2. orders' = [orders EXCEPT ![req[q].order] = d]
        BY <1>0, <2>1, <3>1
      <4> QED
        BY <1>0, <4>1, <4>2
    <3> QED
      BY <1>0, <1>5, <3>1 DEF Save
  <2>3. Errs(q, "none") => orders'[req[q].order].booked
    BY <1>0, <1>5, <2>1, Erring DEF Save, OrderDocs
  <2> QED
    BY <1>0, <1>5, <1>b, <1>c, <2>1, <2>2, <2>3 DEF Save, WithOrder
<1>6. CASE Release(q)
  <2>1. D
    BY <1>0, <1>6, <1>c DEF Release, OrderDocs, WithOrder
  <2> QED
    BY <1>6, <1>a, <1>c, <2>1 DEF Release, WithOrder
<1>7. CASE Crash(q)
  <2>1. lost' \subseteq Ids
    BY <1>0, <1>7, <1>c DEF Crash, WithOrder
  <2> QED
    BY <1>0, <1>7, <2>1, Ending DEF Crash
<1> QED
  BY <1>1, <1>2, <1>3, <1>4, <1>5, <1>6, <1>7 DEF RequestStep, Aside

LEMMA NextTypes ==
  PartnerTypeOK /\ (\A q \in Requests : RequestOK(q)) /\ [PartnerNext]_partnerVars
    => PartnerTypeOK' /\ \A q \in Requests : RequestOK(q)'
<1> SUFFICES ASSUME PartnerTypeOK, \A q \in Requests : RequestOK(q),
                    [PartnerNext]_partnerVars
             PROVE  PartnerTypeOK' /\ \A q \in Requests : RequestOK(q)'
  OBVIOUS
<1>1. ASSUME NEW q \in Requests, req'[q] = req[q] PROVE RequestOK(q)'
  <2>1. req[q].at \in WithOrder => req[q].order \in Ids
    BY DEF RequestOK
  <2> QED
    BY <1>1, <2>1, OrdersKeep DEF RequestOK, WithOrder
<1>2. ASSUME NEW q \in Requests, RequestStep(q) \/ Crash(q)
      PROVE  PartnerTypeOK' /\ \A p \in Requests : RequestOK(p)'
  <2>1. PartnerTypeOK' /\ RequestOK(q)'
    BY <1>2, AsideTypes, BookingTypes
  <2> QED
    BY <1>1, <1>2, <2>1, OnlyOne
<1>3. ASSUME NEW k \in Keys, RecordAges(k) \/ RecordExpires(k) PROVE PartnerTypeOK'
  BY <1>3 DEF RecordAges, RecordExpires, PartnerTypeOK, Records
<1>4. ASSUME NEW o \in Ids, ClaimAges(o) PROVE PartnerTypeOK'
  BY <1>4 DEF ClaimAges, PartnerTypeOK, OrderDocs
<1>5. CASE UNCHANGED partnerVars
  BY <1>1, <1>5 DEF partnerVars, PartnerTypeOK
<1> QED
  BY <1>1, <1>2, <1>3, <1>4, <1>5 DEF PartnerNext, RecordAges, RecordExpires,
     ClaimAges

-----------------------------------------------------------------------------
\* What a step must leave of the claims: those of the others, on orders that
\* are found or adrift, and for the request itself one that is its own.
KeepsClaims(q) ==
  /\ \A p \in Requests \ {q} : Holding(p) =>
       /\ orders'[req[p].order].claimed
       /\ orders'[req[p].order].ref \/ req[p].order \in adrift'
  /\ Holding(q)' =>
       /\ orders'[req'[q].order].claimed
       /\ orders'[req'[q].order].ref \/ req'[q].order \in adrift'
       /\ \A p \in Requests \ {q} : Holding(p) => req[p].order # req'[q].order

LEMMA ClaimsKept ==
  ASSUME PartnerTypeOK, \A p \in Requests : RequestOK(p) /\ HolderOK(p),
         NEW q \in Requests, RequestStep(q) \/ Crash(q)
  PROVE  KeepsClaims(q)
<1>0. /\ orders \in [Ids -> OrderDocs] /\ req \in [Requests -> RequestRecs]
      /\ \A p \in Requests : Holding(p) => req[p].order \in Ids
  BY DEF PartnerTypeOK, RequestRecs, RequestOK, Holding, WithOrder
<1>1. \A p \in Requests : Holding(p) =>
        /\ orders[req[p].order].claimed
        /\ orders[req[p].order].ref \/ req[p].order \in adrift
  BY DEF HolderOK
<1>2. Holding(q) => \A p \in Requests \ {q} :
        Holding(p) => req[p].order # req[q].order
  BY DEF HolderOK
<1>3. CASE Aside(q)
  BY <1>1, <1>3, AsideHolds DEF KeepsClaims
<1>4. CASE Create(q)
  <2>1. ~Holding(q)' /\ UNCHANGED adrift
    <3>1. ASSUME NEW o \in Ids, req' = [req EXCEPT ![q].at = "book", ![q].order = o]
          PROVE  ~Holding(q)'
      BY <1>0, <3>1 DEF RequestRecs, Holding
    <3>2. ASSUME Goto(q, "raced") \/ Ends(q) PROVE ~Holding(q)'
      BY <1>0, <3>2 DEF Goto, Ends, Idle, Holding, RequestRecs
    <3> QED
      BY <1>4, <3>1, <3>2 DEF Create
  <2>2. ASSUME NEW o \in Ids,
               orders' = [orders EXCEPT ![o].made = TRUE, ![o].ref = TRUE]
        PROVE  \A p \in Ids : /\ orders'[p].claimed = orders[p].claimed
                              /\ orders[p].ref => orders'[p].ref
    BY <1>0, <2>2 DEF OrderDocs
  <2>3. \A p \in Ids : /\ orders'[p].claimed = orders[p].claimed
                       /\ orders[p].ref => orders'[p].ref
    BY <1>4, <2>2 DEF Create
  <2> QED
    BY <1>0, <1>1, <2>1, <2>3 DEF KeepsClaims
<1>5. CASE Book(q)
  <2>1. req[q].order \in Ids
    BY <1>5 DEF Book, RequestOK, WithOrder
  <2>2. CASE UNCHANGED <<orders, adrift>> /\ ~Holding(q)'
    BY <1>1, <2>2 DEF KeepsClaims
  <2>3. ASSUME ~orders[req[q].order].claimed,
               orders' = [orders EXCEPT ![req[q].order].claimed = TRUE],
               adrift' = IF orders[req[q].order].ref THEN adrift
                         ELSE adrift \cup {req[q].order},
               Goto(q, "courier")
        PROVE  KeepsClaims(q)
    <3>1. req'[q].order = req[q].order
      BY <1>0, <2>3, Going DEF At
    <3>2. /\ orders'[req[q].order].claimed
          /\ orders'[req[q].order].ref = orders[req[q].order].ref
      BY <1>0, <2>1, <2>3 DEF OrderDocs
    <3>3. \A p \in Requests \ {q} : Holding(p) =>
            /\ req[p].order # req[q].order
            /\ orders'[req[p].order] = orders[req[p].order]
      BY <1>0, <1>1, <2>1, <2>3
    <3> QED
      BY <1>1, <2>3, <3>1, <3>2, <3>3 DEF KeepsClaims
  <2>4. ASSUME NEW e \in {"none", "FAILED", "UNCERTAIN", "busy"}, Errs(q, e)
        PROVE  ~Holding(q)'
    BY <1>0, <2>4, Erring DEF Holding
  <2> QED
    BY <1>5, <2>2, <2>3, <2>4 DEF Book
<1>6. CASE Rejected(q) \/ Timeout(q) \/ SecondTryLost(q) \/ Save(q)
  <2>1. Holding(q) /\ UNCHANGED adrift
    BY <1>6 DEF Rejected, Timeout, SecondTryLost, Save, Holding
  <2>2. PICK e \in {"none", "FAILED", "UNCERTAIN", "busy"} : Errs(q, e)
    BY <1>6 DEF Rejected, Timeout, SecondTryLost, Save
  <2>3. ~Holding(q)'
    BY <1>0, <2>2, Erring DEF Holding
  <2>4. \A o \in Ids \ {req[q].order} : orders'[o] = orders[o]
    <3>1. CASE Rejected(q) \/ SecondTryLost(q)
      BY <1>0, <3>1 DEF Rejected, SecondTryLost
    <3>2. CASE Timeout(q)
      BY <1>0, <3>2 DEF Timeout
    <3>3. CASE Save(q)
      BY <1>0, <3>3 DEF Save
    <3> QED
      BY <1>6, <3>1, <3>2, <3>3
  <2> QED
    BY <1>0, <1>1, <1>2, <2>1, <2>3, <2>4 DEF KeepsClaims
<1>7. CASE Accepted(q)
  <2>1. Holding(q) /\ UNCHANGED <<orders, adrift>> /\ Goto(q, "save")
    BY <1>7 DEF Accepted, Holding
  <2>2. req'[q].order = req[q].order
    BY <1>0, <2>1, Going DEF At
  <2> QED
    BY <1>1, <1>2, <2>1, <2>2 DEF KeepsClaims
<1>8. CASE Release(q)
  <2>1. req[q].order \in Ids
    BY <1>8 DEF Release, RequestOK, WithOrder
  <2>2. ~Holding(q)'
    BY <1>0, <1>8, Going DEF Release, At, Holding
  <2>3. CASE UNCHANGED <<orders, adrift>>
    BY <1>1, <2>2, <2>3 DEF KeepsClaims
  <2>4. CASE /\ orders' = [orders EXCEPT ![req[q].order].ref = FALSE]
             /\ adrift' = IF orders[req[q].order].claimed
                               \/ orders[req[q].order].booked
                               \/ orders[req[q].order].uncertain
                          THEN adrift \cup {req[q].order} ELSE adrift
    <3>1. \A o \in Ids : /\ orders'[o].claimed = orders[o].claimed
                         /\ o # req[q].order => orders'[o].ref = orders[o].ref
      BY <1>0, <2>1, <2>4 DEF OrderDocs
    <3>2. /\ adrift \subseteq adrift'
          /\ orders[req[q].order].claimed => req[q].order \in adrift'
      BY <2>4
    <3> QED
      BY <1>0, <1>1, <2>2, <3>1, <3>2 DEF KeepsClaims
  <2> QED
    BY <1>8, <2>3, <2>4 DEF Release
<1>9. CASE Crash(q)
  <2>1. ~Holding(q)' /\ UNCHANGED <<orders, adrift>>
    BY <1>0, <1>9 DEF Crash, Ends, Idle, Holding
  <2> QED
    BY <1>1, <2>1 DEF KeepsClaims
<1> QED
  BY <1>3, <1>4, <1>5, <1>6, <1>7, <1>8, <1>9 DEF RequestStep, Aside

LEMMA NextHolders ==
  ASSUME PartnerTypeOK, \A q \in Requests : RequestOK(q) /\ HolderOK(q),
         [PartnerNext]_partnerVars, NEW p \in Requests
  PROVE  HolderOK(p)'
<1>1. ASSUME NEW q \in Requests, RequestStep(q) \/ Crash(q) PROVE HolderOK(p)'
  <2>1. \A r \in Requests \ {q} : req'[r] = req[r] /\ (Holding(r)' <=> Holding(r))
    BY <1>1, OnlyOne DEF Holding
  <2>2. KeepsClaims(q)
    BY <1>1, ClaimsKept
  <2>3. CASE p = q
    BY <2>1, <2>2, <2>3 DEF KeepsClaims, HolderOK
  <2>4. CASE p # q
    <3>1. HolderOK(p)
      OBVIOUS
    <3> QED
      BY <2>1, <2>2, <2>4, <3>1 DEF KeepsClaims, HolderOK
  <2> QED
    BY <2>3, <2>4
<1>2. ASSUME UNCHANGED <<req, adrift>>,
             \A q \in Requests : Holding(q) =>
               orders'[req[q].order] = orders[req[q].order]
      PROVE  HolderOK(p)'
  <2>1. HolderOK(p)
    OBVIOUS
  <2> QED
    BY <1>2, <2>1 DEF HolderOK, Holding
<1>3. ASSUME NEW k \in Keys, RecordAges(k) \/ RecordExpires(k) PROVE HolderOK(p)'
  BY <1>2, <1>3 DEF RecordAges, RecordExpires
<1>4. ASSUME NEW o \in Ids, ClaimAges(o) PROVE HolderOK(p)'
  <2>1. \A q \in Requests : Holding(q) => req[q].order # o /\ req[q].order \in Ids
    BY <1>4 DEF ClaimAges, Holding, RequestOK, WithOrder
  <2>2. \A i \in Ids \ {o} : orders'[i] = orders[i]
    BY <1>4 DEF ClaimAges, PartnerTypeOK
  <2> QED
    BY <1>2, <1>4, <2>1, <2>2 DEF ClaimAges
<1>5. CASE UNCHANGED partnerVars
  BY <1>2, <1>5 DEF partnerVars
<1> QED
  BY <1>1, <1>3, <1>4, <1>5 DEF PartnerNext

-----------------------------------------------------------------------------
\* Flagged: what a step adds to the shipments it knows of, or takes from the
\* lost ones, it accounts for.
LEMMA NextFlagged ==
  ASSUME PartnerInv, [PartnerNext]_partnerVars
  PROVE  ShipmentIsFlagged'
<1> USE DEF PartnerInv
<1>0. /\ orders \in [Ids -> OrderDocs] /\ req \in [Requests -> RequestRecs]
      /\ live \subseteq Ids /\ lost \subseteq Ids
      /\ \A p \in Requests : Holding(p) => req[p].order \in Ids
  BY DEF PartnerTypeOK, RequestRecs, RequestOK, Holding, WithOrder
<1>1. \A o \in Ids :
        orders[o].booked \/ orders[o].uncertain
          => orders'[o].booked \/ orders'[o].uncertain
  BY OrdersKeep
\* A shipment that was known of stays so, unless the save of it ends.
<1>2. ASSUME NEW o \in live \ lost,
             \A q \in Requests : req[q].order = o /\ req[q].at = "save" =>
               \/ req'[q] = req[q]
               \/ orders'[o].booked \/ orders'[o].uncertain
      PROVE  orders'[o].booked \/ orders'[o].uncertain \/ InFlight(o)'
  <2>1. orders[o].booked \/ orders[o].uncertain \/ InFlight(o)
    BY DEF ShipmentIsFlagged
  <2> QED
    BY <1>0, <1>1, <1>2, <2>1 DEF InFlight
<1>3. ASSUME NEW q \in Requests, RequestStep(q) \/ Crash(q)
      PROVE  ShipmentIsFlagged'
  <2>1. \A p \in Requests \ {q} : req'[p] = req[p]
    BY <1>3, OnlyOne
  <2>2. ASSUME live' = live, lost' = lost, req[q].at # "save"
        PROVE  ShipmentIsFlagged'
    BY <1>2, <2>1, <2>2 DEF ShipmentIsFlagged
  <2>3. CASE Aside(q)
    BY <2>2, <2>3, AsideHolds DEF Holding
  <2>4. CASE Create(q) \/ Book(q) \/ Rejected(q) \/ Release(q)
    BY <2>2, <2>4 DEF Create, Book, Rejected, Release
  <2>5. CASE Accepted(q)
    <3>1. req'[q].at = "save" /\ req'[q].order = req[q].order
      BY <1>0, <2>5, Going DEF Accepted, At
    <3>2. \A o \in Ids : o = req[q].order => InFlight(o)'
      BY <3>1 DEF InFlight
    <3>3. \A o \in live \ lost : orders'[o].booked \/ orders'[o].uncertain \/ InFlight(o)'
      BY <1>2, <2>1, <2>5 DEF Accepted
    <3> QED
      BY <1>0, <2>5, <3>2, <3>3 DEF Accepted, ShipmentIsFlagged, Holding
  <2>6. CASE Timeout(q) \/ SecondTryLost(q)
    <3>1. req[q].at = "courier" /\ req[q].order \in Ids
          /\ live' \in {live, live \cup {req[q].order}}
      BY <1>0, <2>6 DEF Timeout, SecondTryLost, Holding
    <3>2. \A o \in live \ lost : orders'[o].booked \/ orders'[o].uncertain \/ InFlight(o)'
      BY <1>2, <2>1, <3>1
    <3>3. \/ orders'[req[q].order].uncertain /\ lost' = lost
          \/ orders[req[q].order].uncertain /\ lost' = lost
          \/ lost' = lost \cup (live' \ live)
      BY <1>0, <2>6, <3>1 DEF Timeout, SecondTryLost, OrderDocs
    <3> QED
      BY <1>1, <3>1, <3>2, <3>3 DEF ShipmentIsFlagged
  <2>7. CASE Save(q)
    <3>1. req[q].order \in Ids /\ live' = live
      BY <1>0, <2>7 DEF Save, Holding
    <3>2. \A o \in (live \ lost) \ {req[q].order} :
            orders'[o].booked \/ orders'[o].uncertain \/ InFlight(o)'
      BY <1>2, <2>1
    <3>3. \/ orders'[req[q].order].booked /\ lost' = lost \ {req[q].order}
          \/ lost' = lost \cup {req[q].order}
      BY <1>0, <2>7, <3>1 DEF Save, OrderDocs
    <3> QED
      BY <3>1, <3>2, <3>3 DEF ShipmentIsFlagged
  <2>8. CASE Crash(q)
    <3>1. live' = live /\ lost \subseteq lost'
          /\ (req[q].at = "save" => req[q].order \in lost')
      BY <2>8 DEF Crash
    <3> QED
      BY <1>2, <2>1, <3>1 DEF ShipmentIsFlagged
  <2> QED
    BY <1>3, <2>3, <2>4, <2>5, <2>6, <2>7, <2>8 DEF RequestStep, Aside
<1>4. ASSUME UNCHANGED <<req, live, lost>> PROVE ShipmentIsFlagged'
  BY <1>2, <1>4 DEF ShipmentIsFlagged
<1> QED
  BY <1>3, <1>4 DEF PartnerNext, RecordAges, RecordExpires, ClaimAges, partnerVars

\* Found: a new shipment is that of the request with the claim, and a
\* reference given up is that of an order without a known one, or one adrift.
LEMMA NextFound ==
  ASSUME PartnerInv, [PartnerNext]_partnerVars
  PROVE  ShipmentFoundByReference'
<1> USE DEF PartnerInv
<1>0. /\ orders \in [Ids -> OrderDocs] /\ req \in [Requests -> RequestRecs]
      /\ live \subseteq Ids /\ lost \subseteq Ids
      /\ \A p \in Requests : Holding(p) =>
           /\ req[p].order \in Ids
           /\ orders[req[p].order].ref \/ req[p].order \in adrift
  BY DEF PartnerTypeOK, RequestRecs, RequestOK, Holding, WithOrder, HolderOK
<1>1. ASSUME adrift \subseteq adrift', lost \subseteq lost', live' = live,
             \A o \in Ids : orders[o].ref => orders'[o].ref
      PROVE  ShipmentFoundByReference'
  BY <1>0, <1>1 DEF ShipmentFoundByReference
<1>2. ASSUME NEW q \in Requests, Aside(q) PROVE ShipmentFoundByReference'
  BY <1>1, <1>2, AsideHolds
<1>3. ASSUME NEW q \in Requests, Create(q) PROVE ShipmentFoundByReference'
  <2>1. ASSUME NEW o \in Ids,
               orders' = [orders EXCEPT ![o].made = TRUE, ![o].ref = TRUE]
        PROVE  \A p \in Ids : orders[p].ref => orders'[p].ref
    BY <1>0, <2>1 DEF OrderDocs
  <2>2. \A p \in Ids : orders[p].ref => orders'[p].ref
    BY <1>3, <2>1 DEF Create
  <2> QED
    BY <1>1, <1>3, <2>2 DEF Create
<1>4. ASSUME NEW q \in Requests, Book(q) \/ Rejected(q)
      PROVE  ShipmentFoundByReference'
  <2>1. \A p \in Ids : orders'[p].ref = orders[p].ref
    BY <1>0, <1>4 DEF Book, Rejected, OrderDocs
  <2> QED
    BY <1>1, <1>4, <2>1 DEF Book, Rejected
<1>5. ASSUME NEW q \in Requests,
             Accepted(q) \/ Timeout(q) \/ SecondTryLost(q) \/ Save(q)
      PROVE  ShipmentFoundByReference'
  <2>1. /\ Holding(q) /\ UNCHANGED adrift
        /\ live' \subseteq live \cup {req[q].order}
        /\ lost \subseteq lost' \cup {req[q].order}
    BY <1>5 DEF Accepted, Timeout, SecondTryLost, Save, Holding
  <2>2. \A p \in Ids : orders'[p].ref = orders[p].ref
    <3>1. CASE Accepted(q) \/ SecondTryLost(q)
      BY <1>0, <3>1 DEF Accepted, SecondTryLost, OrderDocs
    <3>2. CASE Timeout(q)
      BY <1>0, <3>2 DEF Timeout, OrderDocs
    <3>3. CASE Save(q)
      BY <1>0, <3>3 DEF Save, OrderDocs
    <3> QED
      BY <1>5, <3>1, <3>2, <3>3
  <2> QED
    BY <1>0, <2>1, <2>2 DEF ShipmentFoundByReference
<1>6. ASSUME NEW q \in Requests, Release(q) PROVE ShipmentFoundByReference'
  <2>1. UNCHANGED <<live, lost>> /\ req[q].order \in Ids
    BY <1>6 DEF Release, RequestOK, WithOrder
  <2>2. CASE UNCHANGED <<orders, adrift>>
    BY <1>1, <2>1, <2>2
  <2>3. CASE /\ orders' = [orders EXCEPT ![req[q].order].ref = FALSE]
             /\ adrift' = IF orders[req[q].order].claimed
                               \/ orders[req[q].order].booked
                               \/ orders[req[q].order].uncertain
                          THEN adrift \cup {req[q].order} ELSE adrift
    <3>1. \A o \in Ids \ {req[q].order} : orders'[o].ref = orders[o].ref
      BY <1>0, <2>1, <2>3
    <3>2. ASSUME req[q].order \in live \ lost PROVE req[q].order \in adrift'
      <4>1. \/ orders[req[q].order].booked \/ orders[req[q].order].uncertain
            \/ InFlight(req[q].order)
        BY <3>2 DEF ShipmentIsFlagged
      <4>2. InFlight(req[q].order) => orders[req[q].order].claimed
        BY DEF InFlight, HolderOK, Holding
      <4> QED
        BY <2>3, <4>1, <4>2
    <3>3. adrift \subseteq adrift'
      BY <2>3
    <3> QED
      BY <1>0, <2>1, <3>1, <3>2, <3>3 DEF ShipmentFoundByReference
  <2> QED
    BY <1>6, <2>2, <2>3 DEF Release
<1>7. ASSUME NEW q \in Requests, Crash(q) PROVE ShipmentFoundByReference'
  BY <1>1, <1>7 DEF Crash
<1>8. ASSUME NEW o \in Ids, ClaimAges(o) PROVE ShipmentFoundByReference'
  <2>1. \A p \in Ids : orders'[p].ref = orders[p].ref
    BY <1>0, <1>8 DEF ClaimAges, OrderDocs
  <2> QED
    BY <1>1, <1>8, <2>1 DEF ClaimAges
<1>9. CASE UNCHANGED <<orders, live, lost, adrift>>
  BY <1>1, <1>9
<1> QED
  BY <1>2, <1>3, <1>4, <1>5, <1>6, <1>7, <1>8, <1>9 DEF PartnerNext, RequestStep,
     Aside, RecordAges, RecordExpires, partnerVars

\* Completed: only a request that saw its order booked completes a record.
LEMMA NextCompleted ==
  ASSUME PartnerInv, [PartnerNext]_partnerVars
  PROVE  CompletedIsBooked'
<1> USE DEF PartnerInv
<1>0. /\ rec \in [Keys -> Records \cup {NoRecord}]
      /\ NoOrder \notin Ids
      /\ \A o \in Ids : orders[o].booked => orders'[o].booked
      /\ \A k \in Keys : rec[k].order \in Ids \cup {NoOrder}
  <2>1. rec \in [Keys -> Records \cup {NoRecord}]
    BY DEF PartnerTypeOK
  <2> QED
    BY <2>1, OrdersKeep, PartnerAssumption DEF Records, NoRecord
\* Enough that a completed record was there, or is of a booked order.
<1>1. ASSUME \A k \in Keys : rec'[k].status = "COMPLETED" =>
               \/ rec[k].status = "COMPLETED" /\ rec'[k].order = rec[k].order
               \/ rec'[k].order \in Ids /\ orders'[rec'[k].order].booked
      PROVE  CompletedIsBooked'
  BY <1>0, <1>1 DEF CompletedIsBooked
<1>2. CASE UNCHANGED rec
  BY <1>1, <1>2
<1>3. ASSUME NEW q \in Requests, Discard(q) \/ Reset(q)
      PROVE  CompletedIsBooked'
  BY <1>0, <1>1, <1>3 DEF Discard, Reset, NoRecord
<1>4. ASSUME NEW q \in Requests, Ensure(q) \/ Insert(q) PROVE CompletedIsBooked'
  BY <1>0, <1>1, <1>2, <1>4 DEF Ensure, Insert, MakePending, Pended
<1>5. ASSUME NEW q \in Requests, Complete(q) PROVE CompletedIsBooked'
  <2>1. req[q].order \in Ids /\ (req[q].at = "done" => orders[req[q].order].booked)
    BY <1>5 DEF Complete, RequestOK, WithOrder
  <2>2. StatusOf(req[q].at) = "COMPLETED" => req[q].at = "done"
    BY <1>5 DEF Complete, StatusOf
  <2>3. CASE /\ rec[req[q].key] # NoRecord
             /\ rec' = [rec EXCEPT ![req[q].key].status = StatusOf(req[q].at),
                                   ![req[q].key].order = req[q].order]
    <3>1. req[q].key \in Keys /\ rec[req[q].key] \in Records
      BY <1>0, <1>5, <2>3 DEF Complete, RequestOK
    <3>2. /\ rec'[req[q].key].status = StatusOf(req[q].at)
          /\ rec'[req[q].key].order = req[q].order
      BY <1>0, <2>3, <3>1 DEF Records
    <3>3. \A k \in Keys \ {req[q].key} : rec'[k] = rec[k]
      BY <1>0, <2>3
    <3> QED
      BY <1>0, <1>1, <2>1, <2>2, <3>1, <3>2, <3>3
  <2> QED
    BY <1>2, <1>5, <2>3 DEF Complete
<1>6. ASSUME NEW k \in Keys, RecordAges(k) \/ RecordExpires(k)
      PROVE  CompletedIsBooked'
  BY <1>0, <1>1, <1>6 DEF RecordAges, RecordExpires, NoRecord, Records
<1> QED
  BY <1>2, <1>3, <1>4, <1>5, <1>6 DEF PartnerNext, RequestStep, Check, Find, Lookup,
     Create, Raced, Book, Rejected, Accepted, Timeout, SecondTryLost, Save, Refresh,
     Release, Crash, ClaimAges, partnerVars

-----------------------------------------------------------------------------
\* What holds at every moment of the work on a reference: types, what each
\* request relies on, who holds the claim, and the three properties themselves.
\* The release of a reference needs them together: it goes by the flags alone
\* (ShipmentIsFlagged), and a booking under way is known by its claim (HolderOK).
THEOREM PartnerInvariant == PartnerSpec => []PartnerInv
<1>1. PartnerInv /\ [PartnerNext]_partnerVars => PartnerInv'
  <2> SUFFICES ASSUME PartnerInv, [PartnerNext]_partnerVars PROVE PartnerInv'
    OBVIOUS
  <2>1. PartnerTypeOK /\ \A q \in Requests : RequestOK(q) /\ HolderOK(q)
    BY DEF PartnerInv
  <2> QED
    BY <2>1, NextTypes, NextHolders, NextFlagged, NextFound, NextCompleted
       DEF PartnerInv
<1> QED
  BY <1>1, InitPartner, PTL DEF PartnerSpec

\* A shipment the courier may have is in the order or about to be, or the order
\* is flagged (bookEkartShipment's time-outs and its last updateOne).
THEOREM ShipmentsAreFlagged == PartnerSpec => []ShipmentIsFlagged
<1>1. PartnerInv => ShipmentIsFlagged
  BY DEF PartnerInv
<1> QED
  BY <1>1, PartnerInvariant, PTL

\* The reference leads to every shipment but those that went astray by a step
\* that can be named (releasePartnerReferenceAfterFailedBooking).
THEOREM ShipmentsAreFound == PartnerSpec => []ShipmentFoundByReference
<1>1. PartnerInv => ShipmentFoundByReference
  BY DEF PartnerInv
<1> QED
  BY <1>1, PartnerInvariant, PTL

\* What completePartnerIdempotency stores for replay is a booked order.
THEOREM CompletedAreBooked == PartnerSpec => []CompletedIsBooked
<1>1. PartnerInv => CompletedIsBooked
  BY DEF PartnerInv
<1> QED
  BY <1>1, PartnerInvariant, PTL

-----------------------------------------------------------------------------
\* A request that comes to hold an order finds nobody there: only its own step
\* moves it, and once there it is alone.
LEMMA StepOfBooking ==
  ASSUME PartnerInv, PartnerInv', [PartnerNext]_partnerVars, NEW o \in Ids
  PROVE  Right(o)!Next
<1>0. /\ \A q \in Requests : q \in Booking(o) <=> Holding(q) /\ req[q].order = o
      /\ Booking(o) \subseteq Requests
  BY DEF Booking, Holding
<1>1. /\ \A q \in Requests : q \in Booking(o)' <=> Holding(q)' /\ req'[q].order = o
      /\ Booking(o)' \subseteq Requests
  BY DEF Booking, Holding
<1>2. ASSUME Booking(o)' \subseteq Booking(o) PROVE Right(o)!Next
  BY <1>2 DEF Right!Next, Right!Leave, Right!Lasting
<1>3. ASSUME NEW q \in Requests, RequestStep(q) \/ Crash(q) PROVE Right(o)!Next
  <2>1. \A p \in Requests \ {q} : p \in Booking(o)' <=> p \in Booking(o)
    BY <1>0, <1>1, <1>3, OnlyOne DEF Holding, PartnerInv
  <2>2. CASE q \in Booking(o) \/ q \notin Booking(o)'
    BY <1>0, <1>1, <1>2, <2>1, <2>2
  <2>3. CASE q \notin Booking(o) /\ q \in Booking(o)'
    <3>1. \A p \in Requests \ {q} : p \notin Booking(o)'
      BY <1>1, <2>3 DEF PartnerInv, HolderOK
    <3>2. Booking(o) = {} /\ Booking(o)' = Booking(o) \cup {q}
      BY <1>0, <1>1, <2>1, <2>3, <3>1
    <3> QED
      BY <2>3, <3>2 DEF Right!Next, Right!Enter, Right!Lasting
  <2> QED
    BY <2>2, <2>3
<1>4. ASSUME req' = req PROVE Right(o)!Next
  BY <1>2, <1>4 DEF Booking
<1> QED
  BY <1>3, <1>4 DEF PartnerNext, RecordAges, RecordExpires, ClaimAges, partnerVars

\* Whatever keys, bodies and references bring requests to an order, one of them
\* at a time takes it to the courier, and the right is never taken from it
\* (bookPartnerShipment behind claimOrderForBooking).
THEOREM PartnersBookAlone ==
  ASSUME NEW o \in Ids
  PROVE  PartnerSpec => BooksExclusively(o)
<1>1. PartnerInit => Right(o)!Init
  BY DEF PartnerInit, Idle, Booking, Right!Init
<1>2. PartnerInv /\ PartnerInv' /\ [PartnerNext]_partnerVars
        => [Right(o)!Next]_(Right(o)!exclusiveVars)
  BY StepOfBooking
<1> QED
  BY <1>1, <1>2, PartnerInvariant, PTL DEF PartnerSpec, BooksExclusively, Right!Spec
=============================================================================
