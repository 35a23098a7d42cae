---------------------------- MODULE BookingProofs ----------------------------
(***************************************************************************)
(* What the booking claim guarantees, and with it the booking at Lorrigo:  *)
(* the claim excludes, no shipment of Lorrigo goes missing and no order    *)
(* has two, for any number of requests that book the order, of keys and    *)
(* of AWBs.                                                                *)
(***************************************************************************)
EXTENDS LorrigoBooking, TLAPS

(***************************************************************************)
(* The claim.                                                              *)
(***************************************************************************)
\* The inductive invariant: the claim is dated, and as long as no claim was
\* overridden every booking worker is the recorded owner of the document.
Owned(w) ==
  /\ owner = w
  /\ order.inProgress
  /\ ~Booked
  /\ order.key = key[w]

OwnersOnly ==
  overridden \/ \A w \in Workers : pc[w] = "booking" => Owned(w)

IInv == TypeOK /\ ClaimIsDated /\ OwnersOnly

-----------------------------------------------------------------------------
LEMMA InitTypeOK == Init => TypeOK
<1> SUFFICES ASSUME Init PROVE TypeOK
  OBVIOUS
<1> USE ConstantsAssumption, InitialStatusesAssumption
<1>1. PICK s \in InitialStatuses :
        order = [status |-> s, created |-> FALSE, awb |-> NoAwb,
                 inProgress |-> FALSE, at |-> "none", key |-> NoKey]
  BY DEF Init
<1>2. s \in Statuses
  OBVIOUS
<1>3. order \in Orders
  BY <1>1, <1>2 DEF Orders
<1>4. /\ pc \in [Workers -> Pc]
      /\ key \in [Workers -> Keys \cup {NoKey}]
      /\ owner \in Workers \cup {NoWorker}
      /\ overridden \in BOOLEAN
  BY DEF Init, Pc
<1> QED
  BY <1>3, <1>4 DEF TypeOK

\* Every action of the claim protocol keeps the type of its variables.
LEMMA NextTypeOK == TypeOK /\ [Next]_claimVars => TypeOK'
<1> SUFFICES ASSUME TypeOK, [Next]_claimVars PROVE TypeOK'
  OBVIOUS
<1> USE ConstantsAssumption, InitialStatusesAssumption
<1> USE DEF TypeOK, Orders, Pc, Statuses, Goto
<1>1. ASSUME NEW w \in Workers, NEW k \in Keys, FindOrder(w, k) PROVE TypeOK'
  BY <1>1 DEF FindOrder
<1>2. ASSUME NEW w \in Workers, ResetForRebook(w) PROVE TypeOK'
  BY <1>2 DEF ResetForRebook, StillBooking
<1>3. ASSUME NEW w \in Workers, ResetLost(w) PROVE TypeOK'
  BY <1>3 DEF ResetLost
<1>4. ASSUME NEW w \in Workers, TryClaim(w) PROVE TypeOK'
  <2>1. overridden' \in BOOLEAN
    BY <1>4 DEF TryClaim, StillBooking, StolenStale
  <2>2. \/ UNCHANGED <<order, owner>>
        \/ /\ order' = [order EXCEPT !.inProgress = TRUE, !.at = "recent",
                                      !.key = key[w]]
           /\ owner' = w
    BY <1>4 DEF TryClaim
  <2>3. order' \in Orders /\ owner' \in Workers \cup {NoWorker}
    BY <2>2
  <2> QED
    BY <1>4, <2>1, <2>3 DEF TryClaim
<1>5. ASSUME NEW w \in Workers, Reread(w) PROVE TypeOK'
  BY <1>5 DEF Reread
<1>6. ASSUME NEW w \in Workers, Answer(w) PROVE TypeOK'
  BY <1>6 DEF Answer
<1>7. ASSUME NEW w \in Workers, Release(w) PROVE TypeOK'
  BY <1>7 DEF Release, Released
<1>8. ASSUME NEW w \in Workers, Complete(w) PROVE TypeOK'
  BY <1>8 DEF Complete, WithShipment
<1>9. ASSUME NEW w \in Workers, Crash(w) PROVE TypeOK'
  BY <1>9 DEF Crash
<1>10. CASE ClaimAges
  BY <1>10 DEF ClaimAges
<1>11. CASE Cancel
  BY <1>11 DEF Cancel, ToReship, RebookableStatuses
<1>12. CASE UNCHANGED claimVars
  BY <1>12 DEF claimVars
<1> QED
  BY <1>1, <1>2, <1>3, <1>4, <1>5, <1>6, <1>7, <1>8, <1>9, <1>10, <1>11,
     <1>12 DEF Next, ClaimStep

\* The claim fields keep their types.
THEOREM TypeCorrect == Spec => []TypeOK
  BY InitTypeOK, NextTypeOK, PTL DEF Spec

-----------------------------------------------------------------------------
LEMMA InitIInv == Init => IInv
<1> SUFFICES ASSUME Init PROVE IInv
  OBVIOUS
<1>1. TypeOK
  BY InitTypeOK
<1>2. ClaimIsDated
  BY DEF Init, ClaimIsDated
<1>3. OwnersOnly
  BY DEF Init, OwnersOnly
<1> QED
  BY <1>1, <1>2, <1>3 DEF IInv

LEMMA NextIInv == IInv /\ TypeOK' /\ [Next]_claimVars => IInv'
<1> SUFFICES ASSUME IInv, TypeOK', [Next]_claimVars
             PROVE  ClaimIsDated' /\ OwnersOnly'
  BY DEF IInv
<1> USE ConstantsAssumption
<1> USE DEF IInv, TypeOK, Orders, Pc, Goto, ClaimIsDated, OwnersOnly, Owned,
            Booked, StillBooking
<1>1. ASSUME NEW w \in Workers, NEW k \in Keys, FindOrder(w, k)
      PROVE ClaimIsDated' /\ OwnersOnly'
  BY <1>1 DEF FindOrder
<1>2. ASSUME NEW w \in Workers, ResetForRebook(w)
      PROVE ClaimIsDated' /\ OwnersOnly'
  BY <1>2 DEF ResetForRebook
<1>3. ASSUME NEW w \in Workers, ResetLost(w)
      PROVE ClaimIsDated' /\ OwnersOnly'
  BY <1>3 DEF ResetLost
<1>4. ASSUME NEW w \in Workers, TryClaim(w)
      PROVE ClaimIsDated' /\ OwnersOnly'
  <2>1. CASE ~Claimable
    BY <1>4, <2>1 DEF TryClaim
  <2>2. CASE Claimable
    <3>1. ClaimIsDated'
      BY <1>4, <2>2 DEF TryClaim
    <3>2. ASSUME ~overridden' PROVE \A u \in Workers \ {w} : pc[u] # "booking"
      \* A booking worker would be the owner, with the flag set; the filter
      \* then found the claim stale, and the step is an override.
      BY <1>4, <2>2, <3>2 DEF TryClaim, Claimable, StolenStale
    <3>3. Owned(w)'
      <4>1. /\ owner' = w
            /\ key' = key
            /\ order' = [order EXCEPT !.inProgress = TRUE, !.at = "recent",
                                      !.key = key[w]]
        BY <1>4, <2>2 DEF TryClaim
      <4>2. /\ order'.inProgress
            /\ order'.key = key[w]
            /\ order'.created = order.created
            /\ order'.awb = order.awb
        BY <4>1
      <4>3. ~order.created /\ order.awb = NoAwb
        BY <2>2 DEF Claimable
      <4> QED
        BY <4>1, <4>2, <4>3
    <3>4. ASSUME ~overridden', NEW u \in Workers, pc'[u] = "booking"
          PROVE  u = w
      BY <1>4, <2>2, <3>2, <3>4 DEF TryClaim
    <3>5. OwnersOnly'
      BY <3>3, <3>4
    <3> QED
      BY <3>1, <3>5
  <2> QED
    BY <2>1, <2>2
<1>5. ASSUME NEW w \in Workers, Reread(w)
      PROVE ClaimIsDated' /\ OwnersOnly'
  BY <1>5 DEF Reread
<1>6. ASSUME NEW w \in Workers, Answer(w)
      PROVE ClaimIsDated' /\ OwnersOnly'
  BY <1>6 DEF Answer
<1>7. ASSUME NEW w \in Workers, Release(w)
      PROVE ClaimIsDated' /\ OwnersOnly'
  BY <1>7 DEF Release, Released
<1>8. ASSUME NEW w \in Workers, Complete(w)
      PROVE ClaimIsDated' /\ OwnersOnly'
  BY <1>8 DEF Complete, WithShipment
<1>9. ASSUME NEW w \in Workers, Crash(w)
      PROVE ClaimIsDated' /\ OwnersOnly'
  BY <1>9 DEF Crash
<1>10. ASSUME ClaimAges PROVE ClaimIsDated' /\ OwnersOnly'
  BY <1>10 DEF ClaimAges
<1>11. ASSUME Cancel PROVE ClaimIsDated' /\ OwnersOnly'
  BY <1>11 DEF Cancel, ToReship
<1>12. ASSUME UNCHANGED claimVars PROVE ClaimIsDated' /\ OwnersOnly'
  BY <1>12 DEF claimVars
<1> QED
  BY <1>1, <1>2, <1>3, <1>4, <1>5, <1>6, <1>7, <1>8, <1>9, <1>10, <1>11,
     <1>12 DEF Next, ClaimStep

\* The claim is dated, and its holder recorded, whatever requests meet.
THEOREM Invariance == Spec => []IInv
<1>1. Spec => []TypeOK
  BY TypeCorrect
<1>2. QED
  BY <1>1, InitIInv, NextIInv, PTL DEF Spec

\* For every set of workers, keys and statuses: two workers book the same
\* order at once only after a claim was overridden (bookingClaim.ts:52-64 over
\* a live claim, or the stale branch of the filter).
THEOREM Exclusion == Spec => []ClaimExclusion
<1>1. IInv => ClaimExclusion
  BY DEF IInv, OwnersOnly, Owned, ClaimExclusion, OneWorker
<1> QED
  BY <1>1, Invariance, PTL

\* Until then the booking worker's claim is the one the document carries.
THEOREM HolderIsRecorded == Spec => []HolderOwnsDocument
<1>1. IInv => HolderOwnsDocument
  BY DEF IInv, OwnersOnly, Owned, HolderOwnsDocument
<1> QED
  BY <1>1, Invariance, PTL

\* No claim is ever without its date.
THEOREM ClaimsAreDated == Spec => []ClaimIsDated
<1>1. IInv => ClaimIsDated
  BY DEF IInv
<1> QED
  BY <1>1, Invariance, PTL

-----------------------------------------------------------------------------
\* Each step lets one worker in, or lets workers go.
LEMMA StepOfRight ==
  ASSUME IInv, IInv', [Next]_claimVars
  PROVE  Right!Next
<1> USE DEF Goto, Claimed
<1>0. pc \in [Workers -> Pc]
  BY DEF IInv, TypeOK
<1>1. ASSUME Claimed' \subseteq Claimed, overridden => overridden'
      PROVE  Right!Next
  BY <1>1 DEF Right!Next, Right!Leave, Right!Lasting
<1>2. ASSUME NEW w \in Workers, NEW k \in Keys, FindOrder(w, k)
      PROVE  Right!Next
  BY <1>0, <1>1, <1>2 DEF FindOrder
<1>3. ASSUME NEW w \in Workers,
             ResetForRebook(w) \/ ResetLost(w) \/ Reread(w) \/ Answer(w)
      PROVE  Right!Next
  BY <1>0, <1>1, <1>3 DEF ResetForRebook, ResetLost, Reread, Answer
<1>4. ASSUME NEW w \in Workers, TryClaim(w) PROVE Right!Next
  <2>1. CASE ~Claimable
    BY <1>0, <1>1, <1>4, <2>1 DEF TryClaim
  <2>2. CASE Claimable
    <3>1. /\ pc[w] = "claim" /\ pc' = [pc EXCEPT ![w] = "booking"]
          /\ overridden => overridden'
      BY <1>4, <2>2 DEF TryClaim
    <3>2. Claimed' = Claimed \cup {w} /\ w \notin Claimed
      BY <1>0, <3>1
    <3>3. Claimed = {} \/ overridden'
      \* Two workers would be booking at once, both recorded as the owner.
      <4>1. \A u, v \in Claimed' : overridden' \/ u = v
        BY DEF IInv, OwnersOnly, Owned
      <4> QED
        BY <3>2, <4>1
    <3> QED
      BY <3>1, <3>2, <3>3 DEF Right!Next, Right!Enter, Right!Lasting
  <2> QED
    BY <2>1, <2>2
<1>5. ASSUME NEW w \in Workers, Release(w) \/ Complete(w) \/ Crash(w)
      PROVE  Right!Next
  BY <1>0, <1>1, <1>5 DEF Release, Complete, Crash
<1>6. CASE ClaimAges \/ Cancel
  BY <1>1, <1>6 DEF ClaimAges, Cancel
<1>7. CASE UNCHANGED claimVars
  BY <1>1, <1>7 DEF claimVars
<1> QED
  BY <1>2, <1>3, <1>4, <1>5, <1>6, <1>7 DEF Next, ClaimStep

\* The four awaits of claimOrderForBooking, with everything that may happen
\* between them, implement an exclusive right to book the order.
THEOREM ClaimImplementsExclusive == Spec => ImplementsExclusive
<1>1. Init => Right!Init
  BY DEF Init, Claimed, Right!Init
<1>2. IInv /\ IInv' /\ [Next]_claimVars => [Right!Next]_(Right!exclusiveVars)
  BY StepOfRight
<1> QED
  BY <1>1, <1>2, Invariance, PTL DEF Spec, ImplementsExclusive, Right!Spec

-----------------------------------------------------------------------------
(***************************************************************************)
(* The booking at Lorrigo.                                                 *)
(***************************************************************************)
\* As long as no claim was overridden, one worker books, on an order without
\* a shipment.  (Not the document's key: a cancellation may wipe it.)
HolderBooks ==
  overridden \/
    \A w \in Workers : pc[w] = "booking" =>
      owner = w /\ order.inProgress /\ ~Booked

\* The steps of a booking are those of a claimed order; an AWB is held from
\* the courier's answer to the last write.
StepOK(w) ==
  /\ step[w] # "none" <=> pc[w] = "booking"
  /\ awbOf[w] # NoAwb <=> step[w] \in {"accepted", "fallback"}

\* A worker loads the document as it claims it: the save of a booking changes
\* the AWB and both flags.  Only array saves change the status: while there was
\* none, the status is the stored one.
LoadedOK(w) ==
  /\ pc[w] = "booking" =>
       /\ loaded[w].order.inProgress
       /\ ~loaded[w].order.created /\ loaded[w].order.awb = NoAwb
  /\ w \in fresh => pc[w] = "booking" /\ loaded[w].order.status = order.status

\* Likewise the document of the cancellation.  A shipment saved since it was
\* loaded was saved by the fallback.
CancelOK ==
  cancel.step # "idle" /\ cancel.fresh =>
    /\ cancel.order.status = order.status
    /\ order.created /\ order.awb # NoAwb =>
         cancel.order.created \/ cancel.order.awb # NoAwb \/ reconcile

BookInv ==
  /\ LorrigoTypeOK
  /\ ClaimIsDated
  /\ HolderBooks
  /\ \A w \in Workers : StepOK(w) /\ LoadedOK(w)
  /\ CancelOK
  /\ LiveIsKnown
  /\ UnsavedIsFlagged

-----------------------------------------------------------------------------
\* What a save of document old, edited to new, makes of the stored fields.
LEMMA SavedFields ==
  ASSUME order \in Orders, NEW old \in Orders, NEW new \in Orders
  PROVE  /\ SavedOver(old, new) \in Orders
         /\ LET s == SavedOver(old, new) IN
            /\ s.status = IF new.status # old.status THEN new.status ELSE order.status
            /\ s.created = IF new.created # old.created THEN new.created ELSE order.created
            /\ s.awb = IF new.awb # old.awb THEN new.awb ELSE order.awb
            /\ s.inProgress = IF new.inProgress # old.inProgress
                              THEN new.inProgress ELSE order.inProgress
            /\ s.at = IF new.at # old.at THEN new.at ELSE order.at
  BY DEF Orders, SavedOver

LEMMA EditedTypes ==
  ASSUME NEW o \in Orders, NEW a \in Awbs
  PROVE  WithShipment(o, a) \in Orders /\ ToReship(o) \in Orders
  BY DEF Orders, WithShipment, ToReship, Statuses, RebookableStatuses

LEMMA InitBook == LorrigoInit => BookInv
<1> SUFFICES ASSUME LorrigoInit PROVE BookInv
  OBVIOUS
<1>1. TypeOK /\ order \in Orders
  BY InitTypeOK DEF LorrigoInit, TypeOK
<1>2. ~order.created /\ order.awb = NoAwb /\ ~order.inProgress
  BY DEF LorrigoInit, Init
<1>3. LorrigoTypeOK
  BY <1>1 DEF LorrigoInit, LorrigoTypeOK, Steps, Documents
<1>4. \A w \in Workers : pc[w] = "idle" /\ step[w] = "none" /\ awbOf[w] = NoAwb
  BY DEF LorrigoInit, Init
<1>5. HolderBooks /\ \A w \in Workers : StepOK(w) /\ LoadedOK(w)
  BY <1>4 DEF HolderBooks, StepOK, LoadedOK, LorrigoInit
<1> QED
  BY <1>2, <1>3, <1>5 DEF BookInv, ClaimIsDated, CancelOK, LiveIsKnown,
     UnsavedIsFlagged, LorrigoInit

-----------------------------------------------------------------------------
\* The claim's part of the types is known; the rest is kept step by step.
LEMMA NextLorrigoType == LorrigoTypeOK /\ [LorrigoNext]_bookVars => LorrigoTypeOK'
<1> SUFFICES ASSUME LorrigoTypeOK, [LorrigoNext]_bookVars PROVE LorrigoTypeOK'
  OBVIOUS
<1> USE DEF LorrigoTypeOK
<1>0. TypeOK /\ order \in Orders /\ order.awb \in Awbs \cup {NoAwb}
  BY DEF TypeOK, Orders
<1>1. ASSUME NEW w \in Workers, ClaimStep(w) \/ Release(w) \/ Crash(w) \/ ClaimAges
      PROVE  TypeOK' /\ order' \in Orders
  BY <1>0, <1>1, NextTypeOK DEF Next, TypeOK
<1>2. ASSUME NEW w \in Workers, Claim(w) PROVE LorrigoTypeOK'
  <2>1. TypeOK' /\ order' \in Orders
    BY <1>1, <1>2 DEF Claim
  <2>2. loaded' \in [Workers -> Documents]
    BY <1>2, <2>1 DEF Claim, Documents
  <2> QED
    BY <1>0, <1>2, <2>1, <2>2 DEF Claim, At, Steps, courierVars
<1>3. ASSUME NEW w \in Workers, Refuse(w) \/ EndFailed(w) PROVE LorrigoTypeOK'
  BY <1>1, <1>3 DEF Refuse, EndFailed, Ended, At, Steps, courierVars, docVars
<1>4. ASSUME NEW w \in Workers, Accept(w) PROVE LorrigoTypeOK'
  BY <1>0, <1>4 DEF Accept, At, Steps, docVars, claimVars, TypeOK
<1>5. ASSUME NEW w \in Workers, Reject(w) \/ NoteSaved(w) \/ NoteFails(w)
      PROVE  LorrigoTypeOK'
  BY <1>0, <1>5 DEF Reject, NoteSaved, NoteFails, Overtakes, At, Steps, docVars,
     courierVars, claimVars, TypeOK
<1>6. ASSUME NEW w \in Workers, Timeout(w) \/ SaveFails(w) PROVE LorrigoTypeOK'
  BY <1>0, <1>6 DEF Timeout, SaveFails, At, Steps, docVars,
     courierVars, claimVars, TypeOK
<1>7. ASSUME NEW w \in Workers, Save(w) PROVE LorrigoTypeOK'
  <2>1. awbOf[w] \in Awbs \cup {NoAwb} /\ loaded[w].order \in Orders
    BY <1>7 DEF Documents
  <2>2. WithShipment(loaded[w].order, awbOf[w]) \in Orders
    BY <2>1 DEF WithShipment, Orders, Statuses
  <2>3. order' \in Orders
    BY <1>0, <1>7, <2>1, <2>2, SavedFields DEF Save
  <2>4. TypeOK'
    BY <1>7, <2>3 DEF Save, Goto, Pc, TypeOK
  <2> QED
    BY <1>0, <1>7, <2>1, <2>4 DEF Save, At, Steps, courierVars
<1>8. ASSUME NEW w \in Workers, Fallback(w) \/ FallbackFails(w) PROVE LorrigoTypeOK'
  <2>1. awbOf[w] \in Awbs \cup {NoAwb} /\ key[w] \in Keys \cup {NoKey}
    BY <1>8 DEF TypeOK
  <2>2. order' \in Orders
    BY <1>0, <1>8, <2>1 DEF Fallback, FallbackFails, Orders
  <2>3. TypeOK'
    BY <1>8, <2>2 DEF Fallback, FallbackFails, Goto, Pc, TypeOK
  <2> QED
    BY <1>0, <1>8, <2>1, <2>3 DEF Fallback, FallbackFails, Ended, At, Steps,
       courierVars, docVars
<1>9. ASSUME NEW w \in Workers, Die(w) PROVE LorrigoTypeOK'
  BY <1>1, <1>9 DEF Die, Ended, At, Steps, docVars
<1>10. CASE ClaimAge
  <2>1. TypeOK' /\ order' \in Orders
    BY <1>0, <1>10, NextTypeOK DEF ClaimAge, Next, TypeOK
  <2> QED
    BY <1>10, <2>1 DEF ClaimAge, courierVars, docVars
<1>11. CASE CancelRead \/ CancelAccepted \/ CancelRefused \/ CancelSaveFails
  <2>1. TypeOK' /\ UNCHANGED <<step, awbOf, loaded, reconcile, recorded>>
    BY <1>0, <1>11 DEF CancelRead, CancelAccepted, CancelRefused, CancelSaveFails,
       claimVars, docVars, TypeOK
  <2>2. fresh' \subseteq Workers
    BY <1>11 DEF CancelRead, CancelAccepted, CancelRefused, CancelSaveFails
  <2>3. cancel' \in [step: {"idle", "loaded", "cancelled"}, order: Orders,
                     target: Awbs \cup {NoAwb}, fresh: BOOLEAN]
    <3>1. CASE CancelRead
      <4>1. cancel' = [step |-> "loaded", order |-> order, target |-> recorded,
                       fresh |-> TRUE]
        BY <3>1 DEF CancelRead
      <4> QED
        BY <1>0, <4>1
    <3>2. CASE CancelAccepted \/ CancelRefused \/ CancelSaveFails
      <4>1. PICK l \in {"idle", "cancelled"} : cancel' = [cancel EXCEPT !.step = l]
        BY <3>2 DEF CancelAccepted, CancelRefused, CancelSaveFails
      <4> QED
        BY <4>1
    <3> QED
      BY <1>11, <3>1, <3>2
  <2> QED
    BY <1>11, <2>1, <2>2, <2>3 DEF CancelRead, CancelAccepted, CancelRefused,
       CancelSaveFails, courierVars, docVars
<1>12. CASE CancelSave
  <2>1. ToReship(cancel.order) \in Orders /\ cancel.order \in Orders
    BY DEF ToReship, Orders, Statuses, RebookableStatuses
  <2>2. order' \in Orders
    BY <1>0, <1>12, <2>1, SavedFields DEF CancelSave
  <2>3. TypeOK'
    BY <1>12, <2>2 DEF CancelSave, TypeOK, StillBooking
  <2> QED
    BY <1>0, <1>12, <2>3 DEF CancelSave, courierVars
<1>13. CASE UNCHANGED bookVars
  BY <1>13 DEF bookVars, claimVars, courierVars, docVars, TypeOK
<1> QED
  BY <1>2, <1>3, <1>4, <1>5, <1>6, <1>7, <1>8, <1>9, <1>10, <1>11, <1>12, <1>13
     DEF LorrigoNext, BookingStep, CancelStep

-----------------------------------------------------------------------------
\* A worker that claims is not booking yet, and moves no other.
LEMMA ClaimMoves ==
  ASSUME NEW w \in Workers, ClaimStep(w)
  PROVE  pc[w] # "booking" /\ \E l : pc' = [pc EXCEPT ![w] = l]
<1>1. ASSUME NEW k \in Keys, FindOrder(w, k)
      PROVE  pc[w] = "idle" /\ \E l : pc' = [pc EXCEPT ![w] = l]
  BY <1>1 DEF FindOrder, Goto
<1>2. ASSUME TryClaim(w)
      PROVE  pc[w] = "claim" /\ \E l : pc' = [pc EXCEPT ![w] = l]
  BY <1>2 DEF TryClaim, Goto
<1>3. ASSUME ResetForRebook(w) \/ ResetLost(w) \/ Reread(w) \/ Answer(w)
      PROVE  pc[w] # "booking" /\ \E l : pc' = [pc EXCEPT ![w] = l]
  BY <1>3 DEF ResetForRebook, ResetLost, Reread, Answer, Goto
<1> QED
  BY <1>1, <1>2, <1>3 DEF ClaimStep

\* Who holds the claim: one worker, if none was overridden.
LEMMA NextHolder ==
  ASSUME BookInv, LorrigoTypeOK', [LorrigoNext]_bookVars
  PROVE  /\ ClaimIsDated' /\ HolderBooks'
         /\ \A w \in Workers : StepOK(w)'
<1> DEFINE Goal == ClaimIsDated' /\ HolderBooks' /\ \A w \in Workers : StepOK(w)'
<1>0. /\ pc \in [Workers -> Pc] /\ step \in [Workers -> Steps]
      /\ awbOf \in [Workers -> Awbs \cup {NoAwb}] /\ order \in Orders
      /\ order.awb \in Awbs \cup {NoAwb} /\ NoAwb \notin Awbs
      /\ ClaimIsDated /\ HolderBooks /\ \A w \in Workers : StepOK(w)
      /\ overridden \in BOOLEAN
  BY ConstantsAssumption DEF BookInv, LorrigoTypeOK, TypeOK, Orders
<1>1. ASSUME NEW w \in Workers, Claim(w) PROVE Goal
  <2>1. \A u \in Workers : StepOK(u)'
    <3>1. PICK l : pc[w] # "booking" /\ pc' = [pc EXCEPT ![w] = l]
      BY <1>1, ClaimMoves DEF Claim
    <3>2. awbOf' = awbOf
          /\ step' = IF pc'[w] = "booking" THEN [step EXCEPT ![w] = "request"] ELSE step
      BY <1>1 DEF Claim, At
    <3>3. StepOK(w)'
      BY <1>0, <3>1, <3>2 DEF StepOK
    <3>4. ASSUME NEW u \in Workers \ {w} PROVE StepOK(u)'
      BY <1>0, <3>1, <3>2 DEF StepOK
    <3> QED
      BY <3>3, <3>4
  <2>2. ASSUME UNCHANGED <<order, owner, overridden>>, NEW l,
               pc' = [pc EXCEPT ![w] = l], l # "booking"
        PROVE  ClaimIsDated' /\ HolderBooks'
    <3>1. \A u \in Workers : pc'[u] = "booking" => pc[u] = "booking"
      BY <1>0, <2>2
    <3> QED
      BY <1>0, <2>2, <3>1 DEF ClaimIsDated, HolderBooks, Booked
  <2>3. ASSUME NEW k \in Keys, FindOrder(w, k) PROVE ClaimIsDated' /\ HolderBooks'
    BY <2>2, <2>3 DEF FindOrder, Goto
  <2>4. CASE ResetForRebook(w)
    <3>1. ~order'.inProgress
      BY <1>0, <2>4 DEF ResetForRebook, Orders
    <3>2. pc' = [pc EXCEPT ![w] = "claim"] /\ overridden' = (overridden \/ StillBooking(owner))
      BY <2>4 DEF ResetForRebook, Goto
    <3>3. overridden' \/ \A u \in Workers : pc'[u] # "booking"
      BY <1>0, <3>2 DEF HolderBooks, StillBooking
    <3> QED
      BY <2>1, <3>1, <3>3 DEF ClaimIsDated, HolderBooks
  <2>5. CASE ResetLost(w)
    BY <2>1, <2>2, <2>5 DEF ResetLost, Goto
  <2>6. CASE Reread(w)
    BY <2>1, <2>2, <2>6 DEF Reread, Goto
  <2>7. CASE Answer(w)
    BY <2>1, <2>2, <2>7 DEF Answer, Goto
  <2>8. CASE TryClaim(w)
    <3>1. CASE ~Claimable
      BY <2>1, <2>2, <2>8, <3>1 DEF TryClaim, Goto
    <3>2. CASE Claimable
      <4>1. /\ order' = [order EXCEPT !.inProgress = TRUE, !.at = "recent",
                                      !.key = key[w]]
            /\ owner' = w /\ pc' = [pc EXCEPT ![w] = "booking"]
            /\ overridden' = (overridden \/ (StolenStale /\ StillBooking(owner)))
        BY <2>8, <3>2 DEF TryClaim, Goto
      <4>2. /\ order'.inProgress /\ order'.at = "recent"
            /\ ~order'.created /\ order'.awb = NoAwb
        BY <1>0, <3>2, <4>1 DEF Orders, Claimable
      <4>3. ASSUME ~overridden', NEW u \in Workers \ {w} PROVE pc'[u] # "booking"
        BY <1>0, <3>2, <4>1, <4>3 DEF HolderBooks, Claimable, StolenStale,
           StillBooking, ClaimIsDated
      <4>4. ClaimIsDated'
        BY <4>2 DEF ClaimIsDated
      <4>5. HolderBooks'
        <5> SUFFICES ASSUME ~overridden', NEW u \in Workers, pc'[u] = "booking"
                     PROVE  owner' = u /\ order'.inProgress /\ ~Booked'
          BY DEF HolderBooks
        <5>1. u = w
          BY <4>3
        <5> QED
          BY <4>1, <4>2, <5>1 DEF Booked
      <4> QED
        BY <2>1, <4>4, <4>5
    <3> QED
      BY <3>1, <3>2
  <2> QED
    BY <1>1, <2>1, <2>3, <2>4, <2>5, <2>6, <2>7, <2>8 DEF Claim, ClaimStep
<1>2. ASSUME NEW w \in Workers, pc[w] = "booking", pc' = [pc EXCEPT ![w] = "idle"],
             UNCHANGED <<overridden, owner>>, Ended(w) \/ Save(w),
             order'.inProgress => order.inProgress /\ order'.at = order.at
      PROVE  Goal
  <2>1. overridden' \/ \A u \in Workers : pc'[u] # "booking"
    BY <1>0, <1>2 DEF HolderBooks
  <2>2. \A u \in Workers : StepOK(u)'
    BY <1>0, <1>2 DEF Ended, Save, At, StepOK
  <2> QED
    BY <1>0, <1>2, <2>1, <2>2 DEF ClaimIsDated, HolderBooks
<1>3. ASSUME NEW w \in Workers, Refuse(w) \/ EndFailed(w) \/ Die(w) PROVE Goal
  <2>1. order'.inProgress => order.inProgress /\ order'.at = order.at
    BY <1>0, <1>3 DEF Refuse, EndFailed, Die, Release, Released, Crash, Orders
  <2>2. CASE pc[w] = "booking"
    BY <1>2, <1>3, <2>1, <2>2 DEF Refuse, EndFailed, Die, Release, Crash, Goto
  <2>3. CASE pc[w] # "booking"
    <3>1. /\ UNCHANGED <<order, owner, overridden>> /\ Ended(w)
          /\ pc' = [pc EXCEPT ![w] = "idle"]
      BY <1>3, <2>3 DEF Refuse, EndFailed, Die, Release, Crash, Goto
    <3>2. \A u \in Workers : StepOK(u)'
      BY <1>0, <2>3, <3>1 DEF Ended, At, StepOK
    <3>3. \A u \in Workers : pc'[u] = "booking" => pc[u] = "booking"
      BY <1>0, <3>1
    <3> QED
      BY <1>0, <3>1, <3>2, <3>3 DEF ClaimIsDated, HolderBooks, Booked
  <2> QED
    BY <2>2, <2>3
<1>4. ASSUME NEW w \in Workers, Save(w) \/ Fallback(w) \/ FallbackFails(w)
      PROVE  Goal
  <2>1. pc[w] = "booking" /\ pc' = [pc EXCEPT ![w] = "idle"]
        /\ UNCHANGED <<overridden, owner>> /\ (Ended(w) \/ Save(w))
    BY <1>0, <1>4 DEF StepOK, Save, Fallback, FallbackFails, Goto
  <2>2. order'.inProgress => order.inProgress /\ order'.at = order.at
    <3>1. CASE Save(w)
      <4>1. loaded[w].order.inProgress
        BY <2>1 DEF BookInv, LoadedOK
      <4>2. loaded[w].order \in Orders /\ awbOf[w] \in Awbs
        BY <1>0, <3>1 DEF BookInv, LorrigoTypeOK, Documents, Save, StepOK
      <4>3. /\ WithShipment(loaded[w].order, awbOf[w]) \in Orders
            /\ ~WithShipment(loaded[w].order, awbOf[w]).inProgress
        BY <4>2, EditedTypes DEF WithShipment, Orders
      <4> QED
        BY <1>0, <3>1, <4>1, <4>2, <4>3, SavedFields DEF Save
    <3>2. CASE Fallback(w)
      BY <1>0, <3>2 DEF Fallback, Orders
    <3>3. CASE FallbackFails(w)
      BY <3>3 DEF FallbackFails
    <3> QED
      BY <1>4, <3>1, <3>2, <3>3
  <2> QED
    BY <1>2, <2>1, <2>2
<1>5. ASSUME NEW w \in Workers,
             Accept(w) \/ Reject(w) \/ NoteSaved(w) \/ NoteFails(w) \/ Timeout(w)
               \/ SaveFails(w)
      PROVE  Goal
  <2>1. UNCHANGED claimVars
    BY <1>5 DEF Accept, Reject, NoteSaved, NoteFails, Timeout, SaveFails
  <2>2. ClaimIsDated' /\ HolderBooks'
    BY <1>0, <2>1 DEF claimVars, ClaimIsDated, HolderBooks, Booked
  <2>3. \A u \in Workers : StepOK(u)'
    BY <1>0, <1>5, <2>1 DEF claimVars, Accept, Reject, NoteSaved, NoteFails,
       Timeout, SaveFails, At, StepOK
  <2> QED
    BY <2>2, <2>3
<1>6. CASE CancelRead \/ CancelAccepted \/ CancelRefused \/ CancelSaveFails
           \/ UNCHANGED bookVars
  <2>1. UNCHANGED <<claimVars, step, awbOf>>
    BY <1>6 DEF CancelRead, CancelAccepted, CancelRefused, CancelSaveFails, bookVars
  <2> QED
    BY <1>0, <2>1 DEF claimVars, ClaimIsDated, HolderBooks, Booked, StepOK
<1>7. CASE ClaimAge
  BY <1>0, <1>7 DEF ClaimAge, ClaimAges, ClaimIsDated, HolderBooks, Booked, StepOK,
     Orders
<1>8. CASE CancelSave
  <2>1. cancel.order \in Orders /\ ToReship(cancel.order) \in Orders
    BY DEF BookInv, LorrigoTypeOK, ToReship, Orders, Statuses, RebookableStatuses
  <2>2. /\ ~ToReship(cancel.order).inProgress /\ ~ToReship(cancel.order).created
        /\ ToReship(cancel.order).awb = NoAwb
        /\ ToReship(cancel.order).at = cancel.order.at
    BY <2>1 DEF ToReship, Orders
  <2>3. /\ order'.inProgress => order.inProgress /\ order'.at = order.at
        /\ order'.created => order.created
        /\ order'.awb # NoAwb => order'.awb = order.awb
    BY <1>0, <1>8, <2>1, <2>2, SavedFields DEF CancelSave
  <2>4. overridden' = (overridden \/ (order.inProgress /\ ~order'.inProgress
                                       /\ StillBooking(owner)))
        /\ UNCHANGED <<pc, owner, step, awbOf>>
    BY <1>8 DEF CancelSave
  <2> QED
    BY <1>0, <2>3, <2>4 DEF ClaimIsDated, HolderBooks, Booked, StepOK, StillBooking
<1> QED
  BY <1>1, <1>3, <1>4, <1>5, <1>6, <1>7, <1>8 DEF LorrigoNext, BookingStep, CancelStep

-----------------------------------------------------------------------------
\* No array save, no booked order that was not booked before or is flagged.
Quiet ==
  /\ order'.status = order.status
  /\ order'.created /\ order'.awb # NoAwb =>
       reconcile' \/ (order.created /\ order.awb # NoAwb)
  /\ reconcile => reconcile'

\* What the documents in memory say of the stored one.
LEMMA NextDocuments ==
  ASSUME BookInv, LorrigoTypeOK', [LorrigoNext]_bookVars
  PROVE  /\ \A w \in Workers : LoadedOK(w)'
         /\ CancelOK' /\ UnsavedIsFlagged'
<1> DEFINE Goal == (\A w \in Workers : LoadedOK(w)') /\ CancelOK' /\ UnsavedIsFlagged'
<1>0. /\ pc \in [Workers -> Pc] /\ step \in [Workers -> Steps]
      /\ awbOf \in [Workers -> Awbs \cup {NoAwb}] /\ order \in Orders
      /\ loaded \in [Workers -> Documents] /\ fresh \subseteq Workers
      /\ reconcile \in BOOLEAN
      /\ CancelOK /\ UnsavedIsFlagged
      /\ \A w \in Workers : StepOK(w) /\ LoadedOK(w)
  BY DEF BookInv, LorrigoTypeOK, TypeOK
<1>1. cancel \in [step: {"idle", "loaded", "cancelled"}, order: Orders,
                  target: Awbs \cup {NoAwb}, fresh: BOOLEAN]
  BY DEF BookInv, LorrigoTypeOK
<1>2. ASSUME Quiet, cancel' = cancel \/ ~cancel'.fresh \/ cancel'.step = "idle"
                      \/ (/\ cancel'.order = cancel.order /\ cancel'.fresh = cancel.fresh
                          /\ cancel.step # "idle")
      PROVE  CancelOK' /\ UnsavedIsFlagged'
  BY <1>0, <1>2 DEF Quiet, CancelOK, UnsavedIsFlagged
<1>3. ASSUME Quiet, loaded' = loaded, fresh' \subseteq fresh,
             \A u \in Workers : pc'[u] = "booking" => pc[u] = "booking",
             \A u \in fresh' : pc'[u] = "booking"
      PROVE  \A u \in Workers : LoadedOK(u)'
  BY <1>0, <1>3 DEF Quiet, LoadedOK
<1>4. ASSUME NEW w \in Workers, Claim(w) PROVE Goal
  <2>1. Quiet
    BY <1>0, <1>4 DEF Claim, ClaimStep, FindOrder, ResetForRebook, ResetLost, TryClaim,
       Reread, Answer, Orders, Quiet
  <2>2. PICK l : pc[w] # "booking" /\ pc' = [pc EXCEPT ![w] = l]
    BY <1>4, ClaimMoves DEF Claim
  <2>3. CASE pc'[w] = "booking"
    <3>1. /\ loaded' = [loaded EXCEPT ![w] = [order |-> order', reconcile |-> reconcile]]
          /\ fresh' = fresh \cup {w}
      BY <1>4, <2>3 DEF Claim
    <3>2. /\ Claimable /\ order' = [order EXCEPT !.inProgress = TRUE,
                                       !.at = "recent", !.key = key[w]]
      BY <1>0, <1>4, <2>2, <2>3 DEF Claim, ClaimStep, FindOrder, ResetForRebook,
         ResetLost, TryClaim, Reread, Answer, Goto
    <3>3. order'.inProgress /\ ~order'.created /\ order'.awb = NoAwb
      BY <1>0, <3>2 DEF Claimable, Orders
    <3>4. LoadedOK(w)'
      BY <1>0, <2>3, <3>1, <3>3 DEF LoadedOK
    <3>5. ASSUME NEW u \in Workers \ {w} PROVE LoadedOK(u)'
      BY <1>0, <2>1, <2>2, <3>1 DEF LoadedOK, Quiet
    <3> QED
      BY <1>2, <1>4, <2>1, <3>4, <3>5 DEF Claim
  <2>4. CASE pc'[w] # "booking"
    <3>1. \A u \in Workers : pc'[u] = "booking" <=> pc[u] = "booking"
      BY <1>0, <2>2, <2>4
    <3> QED
      BY <1>0, <1>2, <1>3, <1>4, <2>1, <2>4, <3>1 DEF Claim, LoadedOK
  <2> QED
    BY <2>3, <2>4
<1>5. ASSUME NEW w \in Workers, Refuse(w) \/ EndFailed(w) \/ Fallback(w)
                                 \/ FallbackFails(w) \/ Die(w)
      PROVE  Goal
  <2>1. Quiet
    <3>1. reconcile' = reconcile \/ reconcile' = TRUE
      BY <1>5 DEF Refuse, EndFailed, Fallback, FallbackFails, Die, docVars
    <3>2. \/ reconcile' = TRUE
          \/ order'.awb = order.awb /\ order'.created = order.created
      BY <1>0, <1>5 DEF Refuse, EndFailed, Fallback, FallbackFails, Die, Release,
         Released, Crash, Orders
    <3>3. order'.status = order.status
      BY <1>0, <1>5 DEF Refuse, EndFailed, Fallback, FallbackFails, Die, Release,
         Released, Crash, Orders
    <3> QED
      BY <3>1, <3>2, <3>3 DEF Quiet
  <2>2. /\ pc' = [pc EXCEPT ![w] = "idle"] /\ loaded' = loaded
        /\ fresh' = fresh \ {w} /\ cancel' = cancel
    BY <1>5 DEF Refuse, EndFailed, Fallback, FallbackFails, Die, Release, Crash,
       Goto, Ended
  <2> QED
    BY <1>0, <1>2, <1>3, <2>1, <2>2 DEF LoadedOK
<1>6. ASSUME NEW w \in Workers,
             Accept(w) \/ Reject(w) \/ NoteSaved(w) \/ NoteFails(w) \/ Timeout(w)
               \/ SaveFails(w)
      PROVE  Goal
  <2>1. /\ UNCHANGED <<claimVars, loaded, reconcile>> /\ fresh' \subseteq fresh
        /\ cancel' = cancel \/ cancel' = [cancel EXCEPT !.fresh = FALSE]
    BY <1>6 DEF Accept, Reject, NoteSaved, NoteFails, Timeout, SaveFails, docVars,
       Overtakes
  <2>2. Quiet /\ pc' = pc
    BY <2>1 DEF Quiet, claimVars
  <2> QED
    BY <1>0, <1>1, <1>2, <1>3, <2>1, <2>2 DEF LoadedOK
<1>7. ASSUME NEW w \in Workers, Save(w) PROVE Goal
  <2>1. /\ pc[w] = "booking" /\ pc' = [pc EXCEPT ![w] = "idle"]
        /\ loaded' = loaded /\ fresh' = {} /\ w \in fresh
        /\ cancel' = [cancel EXCEPT !.fresh = FALSE]
    BY <1>0, <1>7 DEF Save, StepOK, Goto
  <2>2. order'.status = "pending_pickup"
    <3>1. /\ loaded[w].order \in Orders /\ awbOf[w] \in Awbs
          /\ loaded[w].order.status = order.status
      BY <1>0, <1>7, <2>1 DEF Documents, Save, StepOK, LoadedOK
    <3>2. /\ WithShipment(loaded[w].order, awbOf[w]) \in Orders
          /\ WithShipment(loaded[w].order, awbOf[w]).status = "pending_pickup"
      BY <3>1, EditedTypes DEF WithShipment, Orders
    <3> QED
      BY <1>0, <1>7, <3>1, <3>2, SavedFields DEF Save
  <2>3. \A u \in Workers : LoadedOK(u)'
    BY <1>0, <2>1 DEF LoadedOK
  <2> QED
    BY <1>1, <2>1, <2>2, <2>3 DEF CancelOK, UnsavedIsFlagged
<1>8. CASE ClaimAge
  <2>1. Quiet
    BY <1>0, <1>8 DEF ClaimAge, ClaimAges, docVars, Orders, Quiet
  <2> QED
    BY <1>0, <1>2, <1>3, <1>8, <2>1 DEF ClaimAge, ClaimAges, LoadedOK
<1>9. CASE UNCHANGED bookVars
  BY <1>0, <1>9 DEF bookVars, claimVars, docVars, LoadedOK, CancelOK, UnsavedIsFlagged
<1>10. CASE CancelRead
  <2>1. /\ UNCHANGED <<order, pc, loaded, fresh, reconcile>>
        /\ cancel'.order = order
    BY <1>10 DEF CancelRead, claimVars, docVars
  <2> QED
    BY <1>0, <2>1 DEF CancelOK, UnsavedIsFlagged, LoadedOK
<1>11. CASE CancelAccepted \/ CancelRefused \/ CancelSaveFails
  <2>1. /\ UNCHANGED <<claimVars, loaded, reconcile>> /\ fresh' \subseteq fresh
        /\ cancel.step # "idle"
        /\ cancel' \in {[cancel EXCEPT !.step = l] : l \in {"idle", "cancelled"}}
    BY <1>11 DEF CancelAccepted, CancelRefused, CancelSaveFails, docVars
  <2>2. Quiet /\ pc' = pc
    BY <2>1 DEF Quiet, claimVars
  <2> QED
    BY <1>0, <1>1, <1>2, <1>3, <2>1, <2>2 DEF LoadedOK
<1>12. CASE CancelSave
  <2>1. cancel.order \in Orders /\ ToReship(cancel.order) \in Orders
    BY <1>1 DEF ToReship, Orders, Statuses, RebookableStatuses
  <2>2. /\ ~ToReship(cancel.order).created /\ ToReship(cancel.order).awb = NoAwb
        /\ ToReship(cancel.order).status = "reship"
    BY <2>1 DEF ToReship, Orders
  <2>3. /\ order'.created => order.created /\ ~cancel.order.created
        /\ order'.awb # NoAwb => order'.awb = order.awb /\ cancel.order.awb = NoAwb
    BY <1>0, <1>12, <2>1, <2>2, SavedFields DEF CancelSave
  <2>4. /\ UNCHANGED <<pc, loaded, reconcile>> /\ fresh' = {} /\ cancel'.step = "idle"
        /\ cancel.step = "cancelled" /\ cancel.fresh
    BY <1>1, <1>12 DEF CancelSave
  <2>5. UnsavedIsFlagged'
    BY <1>0, <2>3, <2>4 DEF CancelOK, UnsavedIsFlagged
  <2> QED
    BY <1>0, <2>4, <2>5 DEF CancelOK, LoadedOK
<1> QED
  BY <1>4, <1>5, <1>6, <1>7, <1>8, <1>9, <1>10, <1>11, <1>12 DEF LorrigoNext,
     BookingStep, CancelStep

-----------------------------------------------------------------------------
\* No step makes a shipment unknown without a trace.
LEMMA NextKnown ==
  ASSUME BookInv, LorrigoTypeOK', [LorrigoNext]_bookVars
  PROVE  LiveIsKnown'
<1>0. /\ step \in [Workers -> Steps] /\ awbOf \in [Workers -> Awbs \cup {NoAwb}]
      /\ order \in Orders /\ live \subseteq Awbs /\ live' \subseteq Awbs
      /\ NoAwb \notin Awbs
      /\ LiveIsKnown /\ \A w \in Workers : StepOK(w)
  BY ConstantsAssumption DEF BookInv, LorrigoTypeOK, TypeOK
\* A step that keeps the AWB of the order, or records its loss, and lets the
\* other requests alone.
<1>1. ASSUME NEW w \in Workers,
             \A u \in Workers \ {w} : step'[u] = step[u] /\ awbOf'[u] = awbOf[u],
             order'.awb = order.awb \/ order.awb \in wiped' \cup {NoAwb},
             live' \subseteq live, lost \subseteq lost', wiped \subseteq wiped',
             \A a \in Awbs : awbOf[w] = a =>
               a \in lost' \/ order'.awb = a \/ InFlight(a)'
      PROVE  LiveIsKnown'
  <2> SUFFICES ASSUME NEW a \in live' \ Forgotten' PROVE order'.awb = a \/ InFlight(a)'
    BY DEF LiveIsKnown
  <2>1. a \in live \ Forgotten /\ a \in Awbs /\ a # NoAwb
    BY <1>0, <1>1 DEF Forgotten
  <2>2. CASE order.awb = a
    BY <1>1, <2>1, <2>2 DEF Forgotten
  <2>3. CASE InFlight(a)
    <3>1. PICK u \in Workers : step[u] \in {"accepted", "fallback"} /\ awbOf[u] = a
      BY <2>3 DEF InFlight
    <3>2. CASE u = w
      BY <1>1, <2>1, <3>1, <3>2 DEF Forgotten
    <3>3. CASE u # w
      BY <1>1, <3>1, <3>3 DEF InFlight
    <3> QED
      BY <3>2, <3>3
  <2> QED
    BY <1>0, <2>1, <2>2, <2>3 DEF LiveIsKnown
<1>2. ASSUME UNCHANGED <<step, awbOf>>, live' \subseteq live, lost' = lost,
             wiped \subseteq wiped',
             order'.awb = order.awb \/ order.awb \in wiped' \cup {NoAwb}
      PROVE  LiveIsKnown'
  <2>1. ASSUME NEW a PROVE InFlight(a)' <=> InFlight(a)
    BY <1>2 DEF InFlight
  <2>2. live' \ Forgotten' \subseteq live \ Forgotten
    BY <1>2 DEF Forgotten
  <2> QED
    BY <1>0, <1>2, <2>1, <2>2 DEF LiveIsKnown, Forgotten
<1>3. ASSUME NEW w \in Workers, Claim(w) PROVE LiveIsKnown'
  <2>1. pc[w] # "booking"
    BY <1>3, ClaimMoves DEF Claim
  <2>2. awbOf[w] = NoAwb
    BY <1>0, <2>1 DEF StepOK
  <2>3. /\ UNCHANGED <<awbOf, live, lost>> /\ wiped \subseteq wiped'
        /\ order'.awb = order.awb \/ order.awb \in wiped' \cup {NoAwb}
        /\ \A u \in Workers \ {w} : step'[u] = step[u]
    BY <1>0, <1>3 DEF Claim, At, courierVars
  <2> QED
    BY <1>0, <1>1, <2>2, <2>3
<1>4. ASSUME NEW w \in Workers, Refuse(w) \/ EndFailed(w) PROVE LiveIsKnown'
  <2>1. awbOf[w] = NoAwb
    BY <1>0, <1>4 DEF Refuse, EndFailed, StepOK
  <2>2. order'.awb = order.awb
    BY <1>0, <1>4 DEF Refuse, EndFailed, Release, Released, Orders
  <2>3. /\ UNCHANGED <<live, lost, wiped>>
        /\ \A u \in Workers \ {w} : step'[u] = step[u] /\ awbOf'[u] = awbOf[u]
    BY <1>0, <1>4 DEF Refuse, EndFailed, Ended, At, courierVars, docVars
  <2> QED
    BY <1>0, <1>1, <2>1, <2>2, <2>3
<1>5. ASSUME NEW w \in Workers, Accept(w) PROVE LiveIsKnown'
  <2>1. PICK b \in Awbs : /\ awbOf' = [awbOf EXCEPT ![w] = b] /\ live' = live \cup {b}
                          /\ step' = [step EXCEPT ![w] = "accepted"]
                          /\ UNCHANGED <<order, lost, wiped>>
    BY <1>5 DEF Accept, At, claimVars, docVars
  <2>2. InFlight(b)' /\ awbOf[w] = NoAwb
    BY <1>0, <1>5, <2>1 DEF InFlight, Accept, StepOK
  <2>3. ASSUME NEW a \in live \ Forgotten PROVE order'.awb = a \/ InFlight(a)'
    <3>1. CASE InFlight(a)
      <4>1. PICK u \in Workers : step[u] \in {"accepted", "fallback"} /\ awbOf[u] = a
        BY <3>1 DEF InFlight
      <4>2. u # w
        BY <1>0, <2>2, <4>1
      <4> QED
        BY <1>0, <2>1, <4>1, <4>2 DEF InFlight
    <3> QED
      BY <1>0, <2>1, <3>1 DEF LiveIsKnown
  <2> QED
    BY <2>1, <2>2, <2>3 DEF LiveIsKnown, Forgotten
<1>6. ASSUME NEW w \in Workers, Reject(w) \/ NoteSaved(w) \/ NoteFails(w)
      PROVE  LiveIsKnown'
  <2>1. awbOf[w] = NoAwb
    BY <1>0, <1>6 DEF Reject, NoteSaved, NoteFails, StepOK
  <2>2. /\ UNCHANGED <<order, awbOf, live, lost, wiped>>
        /\ \A u \in Workers \ {w} : step'[u] = step[u]
    BY <1>0, <1>6 DEF Reject, NoteSaved, NoteFails, At, claimVars, courierVars, docVars
  <2> QED
    BY <1>0, <1>1, <2>1, <2>2
<1>7. ASSUME NEW w \in Workers, Timeout(w) \/ FallbackFails(w) \/ Die(w)
      PROVE  LiveIsKnown'
  <2>1. /\ lost' = lost \cup ({awbOf[w]} \ {NoAwb}) /\ UNCHANGED <<live, wiped, order>>
        /\ \A u \in Workers \ {w} : step'[u] = step[u] /\ awbOf'[u] = awbOf[u]
    BY <1>0, <1>7 DEF Timeout, FallbackFails, Die, Crash, Ended, At, claimVars, docVars
  <2> QED
    BY <1>0, <1>1, <2>1
<1>8. ASSUME NEW w \in Workers, Save(w) \/ Fallback(w) PROVE LiveIsKnown'
  <2>1. awbOf[w] \in Awbs
    BY <1>0, <1>8 DEF Save, Fallback, StepOK
  <2>2. order'.awb = awbOf[w]
    <3>1. CASE Save(w)
      <4>1. loaded[w].order \in Orders /\ loaded[w].order.awb = NoAwb
        BY <1>0, <3>1 DEF BookInv, LorrigoTypeOK, Documents, Save, LoadedOK, StepOK
      <4>2. /\ WithShipment(loaded[w].order, awbOf[w]) \in Orders
            /\ WithShipment(loaded[w].order, awbOf[w]).awb = awbOf[w]
        BY <2>1, <4>1, EditedTypes DEF WithShipment, Orders
      <4> QED
        BY <1>0, <2>1, <3>1, <4>1, <4>2, SavedFields DEF Save
    <3>2. CASE Fallback(w)
      BY <1>0, <3>2 DEF Fallback, Orders
    <3> QED
      BY <1>8, <3>1, <3>2
  <2>3. /\ UNCHANGED <<live, lost>> /\ wiped' = wiped \cup ({order.awb} \ {NoAwb, awbOf[w]})
        /\ \A u \in Workers \ {w} : step'[u] = step[u] /\ awbOf'[u] = awbOf[u]
    BY <1>0, <1>8 DEF Save, Fallback, Ended, At, courierVars
  <2> QED
    BY <1>1, <2>2, <2>3
<1>9. ASSUME NEW w \in Workers, SaveFails(w) PROVE LiveIsKnown'
  <2>1. /\ UNCHANGED <<order, awbOf, live, lost, wiped>>
        /\ step' = [step EXCEPT ![w] = "fallback"]
    BY <1>9 DEF SaveFails, At, claimVars, courierVars, docVars
  <2>2. \A a \in Awbs : awbOf[w] = a => InFlight(a)'
    BY <1>0, <2>1 DEF InFlight
  <2> QED
    BY <1>0, <1>1, <2>1, <2>2
<1>10. CASE ClaimAge
  BY <1>0, <1>2, <1>10 DEF ClaimAge, ClaimAges, courierVars, docVars, Orders
<1>11. CASE CancelStep
  BY <1>0, <1>2, <1>11 DEF CancelStep, CancelRead, CancelAccepted, CancelRefused,
     CancelSave, CancelSaveFails, claimVars, courierVars, docVars
<1>12. CASE UNCHANGED bookVars
  BY <1>2, <1>12 DEF bookVars, claimVars, courierVars, docVars
<1> QED
  BY <1>3, <1>4, <1>5, <1>6, <1>7, <1>8, <1>9, <1>10, <1>11, <1>12 DEF LorrigoNext,
     BookingStep

LEMMA NextBook == BookInv /\ [LorrigoNext]_bookVars => BookInv'
  BY NextLorrigoType, NextHolder, NextDocuments, NextKnown DEF BookInv

\* What the documents and AWBs in the hands of requests have to do with the
\* stored order, at every step of a booking or a cancellation.
THEOREM BookInvariant == LorrigoSpec => []BookInv
  BY InitBook, NextBook, PTL DEF LorrigoSpec

-----------------------------------------------------------------------------
\* Every shipment that exists is in the order, in the hands of a request, or was
\* forgotten by a crash, a lost answer, a failed write or a named overwrite.
THEOREM ShipmentsAreKnown == LorrigoSpec => []LiveIsKnown
<1>1. BookInv => LiveIsKnown
  BY DEF BookInv
<1> QED
  BY <1>1, BookInvariant, PTL

\* Two requests with a shipment in hand would both book; a request with one and
\* an order with another would be a booking of a booked order.
THEOREM OneShipmentAtMost == LorrigoSpec => []OneKnownShipment
<1>1. BookInv => OneKnownShipment
  <2> SUFFICES ASSUME BookInv, ~overridden, NEW a \in live \ Forgotten,
                      NEW b \in live \ Forgotten
               PROVE  a = b
    BY DEF OneKnownShipment
  <2>1. /\ a # NoAwb /\ b # NoAwb
        /\ order.awb = a \/ InFlight(a)
        /\ order.awb = b \/ InFlight(b)
    BY ConstantsAssumption DEF BookInv, LorrigoTypeOK, LiveIsKnown
  <2>2. ASSUME NEW c, InFlight(c)
        PROVE  order.awb = NoAwb /\ \E w \in Workers : owner = w /\ awbOf[w] = c
    BY <2>2 DEF BookInv, HolderBooks, StepOK, InFlight, Booked
  <2> QED
    BY <2>1, <2>2
<1> QED
  BY <1>1, BookInvariant, PTL

\* What the fallback saved without a status is flagged for reconciliation, also
\* after every later save over it.
THEOREM FallbackIsFlagged == LorrigoSpec => []UnsavedIsFlagged
<1>1. BookInv => UnsavedIsFlagged
  BY DEF BookInv
<1> QED
  BY <1>1, BookInvariant, PTL

\* A booking of a booked order needs an override, and nothing else puts an AWB
\* in the place of another.
THEOREM AwbStays == LorrigoSpec => AwbNotReplaced
<1>1. ASSUME BookInv, BookInv', [LorrigoNext]_bookVars,
             order.awb # NoAwb, order'.awb # NoAwb, order'.awb # order.awb
      PROVE  overridden'
  <2>0. order \in Orders
    BY <1>1 DEF BookInv, LorrigoTypeOK, TypeOK
  <2>1. ASSUME NEW w \in Workers, Claim(w) PROVE FALSE
    BY <1>1, <2>0, <2>1 DEF Claim, ClaimStep, FindOrder, ResetForRebook, ResetLost,
       TryClaim, Reread, Answer, Orders
  <2>2. ASSUME NEW w \in Workers, Save(w) \/ Fallback(w) PROVE overridden'
    BY <1>1, <2>2 DEF BookInv, HolderBooks, StepOK, Booked, Save, Fallback
  <2>3. ASSUME NEW w \in Workers, Refuse(w) \/ EndFailed(w) \/ Die(w) PROVE FALSE
    BY <1>1, <2>0, <2>3 DEF Refuse, EndFailed, Die, Release, Released, Crash, Orders
  <2>4. ASSUME NEW w \in Workers,
               Accept(w) \/ Reject(w) \/ NoteSaved(w) \/ NoteFails(w) \/ Timeout(w)
                 \/ SaveFails(w) \/ FallbackFails(w)
        PROVE  FALSE
    BY <1>1, <2>4 DEF Accept, Reject, NoteSaved, NoteFails, Timeout, SaveFails,
       FallbackFails, claimVars
  <2>5. CASE ClaimAge
    BY <1>1, <2>0, <2>5 DEF ClaimAge, ClaimAges, Orders
  <2>6. CASE CancelSave
    <3>1. cancel.order \in Orders /\ ToReship(cancel.order) \in Orders
      BY <1>1 DEF BookInv, LorrigoTypeOK, ToReship, Orders, Statuses, RebookableStatuses
    <3>2. ToReship(cancel.order).awb = NoAwb
      BY <3>1 DEF ToReship, Orders
    <3> QED
      BY <1>1, <2>0, <2>6, <3>1, <3>2, SavedFields DEF CancelSave
  <2>7. CASE CancelRead \/ CancelAccepted \/ CancelRefused \/ CancelSaveFails
             \/ UNCHANGED bookVars
    BY <1>1, <2>7 DEF CancelRead, CancelAccepted, CancelRefused, CancelSaveFails,
       claimVars, bookVars
  <2> QED
    BY <1>1, <2>1, <2>2, <2>3, <2>4, <2>5, <2>6, <2>7 DEF LorrigoNext, BookingStep,
       CancelStep
<1> QED
  BY <1>1, BookInvariant, PTL DEF LorrigoSpec, AwbNotReplaced
-----------------------------------------------------------------------------
\* What the holder of a claim goes through, and what befalls the order behind
\* its back, does not weaken the claim: one worker comes, or workers leave.
LEMMA StepOfBooking ==
  ASSUME BookInv, BookInv', [LorrigoNext]_bookVars
  PROVE  Right!Next
<1> USE DEF Claimed
<1>0. pc \in [Workers -> Pc] /\ \A w \in Workers : StepOK(w)
  BY DEF BookInv, LorrigoTypeOK, TypeOK
<1>1. ASSUME Claimed' \subseteq Claimed, overridden => overridden'
      PROVE  Right!Next
  BY <1>1 DEF Right!Next, Right!Leave, Right!Lasting
<1>2. ASSUME NEW w \in Workers, Claim(w) PROVE Right!Next
  <2>1. PICK l : pc[w] # "booking" /\ pc' = [pc EXCEPT ![w] = l]
    BY <1>2, ClaimMoves DEF Claim
  <2>2. overridden => overridden'
    BY <1>2 DEF Claim, ClaimStep, FindOrder, ResetForRebook, ResetLost, TryClaim,
       Reread, Answer
  <2>3. CASE l # "booking"
    BY <1>0, <1>1, <2>1, <2>2, <2>3
  <2>4. CASE l = "booking"
    <3>1. Claimed' = Claimed \cup {w} /\ w \notin Claimed
      BY <1>0, <2>1, <2>4
    <3>2. \A u, v \in Claimed' : overridden' \/ u = v
      BY DEF BookInv, HolderBooks
    <3>3. Claimed = {} \/ overridden'
      BY <3>1, <3>2
    <3> QED
      BY <2>2, <3>1, <3>3 DEF Right!Next, Right!Enter, Right!Lasting
  <2> QED
    BY <2>3, <2>4
<1>3. ASSUME NEW w \in Workers,
             Refuse(w) \/ EndFailed(w) \/ Save(w) \/ Fallback(w) \/ FallbackFails(w)
               \/ Die(w)
      PROVE  Right!Next
  <2>1. pc' = [pc EXCEPT ![w] = "idle"] /\ overridden' = overridden
    BY <1>3 DEF Refuse, EndFailed, Save, Fallback, FallbackFails, Die, Release,
       Crash, Goto
  <2> QED
    BY <1>0, <1>1, <2>1
<1>4. ASSUME NEW w \in Workers,
             Accept(w) \/ Reject(w) \/ NoteSaved(w) \/ NoteFails(w) \/ Timeout(w)
               \/ SaveFails(w)
      PROVE  Right!Next
  BY <1>1, <1>4 DEF Accept, Reject, NoteSaved, NoteFails, Timeout, SaveFails,
     claimVars
<1>5. CASE ClaimAge \/ CancelStep
  BY <1>1, <1>5 DEF ClaimAge, ClaimAges, CancelStep, CancelRead, CancelAccepted,
     CancelRefused, CancelSave, CancelSaveFails, claimVars
<1>6. CASE UNCHANGED bookVars
  BY <1>1, <1>6 DEF bookVars, claimVars
<1> QED
  BY <1>2, <1>3, <1>4, <1>5, <1>6 DEF LorrigoNext, BookingStep

\* The whole booking at Lorrigo, with the courier's lost answers, the failed
\* saves and the cancellation, keeps the exclusive right to book the order: the
\* claim's promise holds for the program around it, too.
THEOREM BookingImplementsExclusive == LorrigoSpec => ImplementsExclusive
<1>1. LorrigoInit => Right!Init
  BY DEF LorrigoInit, Init, Claimed, Right!Init
<1>2. BookInv /\ BookInv' /\ [LorrigoNext]_bookVars
        => [Right!Next]_(Right!exclusiveVars)
  BY StepOfBooking
<1> QED
  BY <1>1, <1>2, BookInvariant, PTL DEF LorrigoSpec, ImplementsExclusive, Right!Spec

\* A shipment comes into being only when none is known: its request is the
\* only one that books, and the order it books has none.
LEMMA StepOfShipping ==
  ASSUME BookInv, [LorrigoNext]_bookVars
  PROVE  Shipping!Next
<1> DEFINE Known == live \ Forgotten
<1>0. /\ live \subseteq issued /\ issued \subseteq Awbs /\ NoAwb \notin Awbs
      /\ \A w \in Workers : StepOK(w)
  BY ConstantsAssumption DEF BookInv, LorrigoTypeOK
<1>1. ASSUME live' \subseteq live, lost \subseteq lost', wiped \subseteq wiped',
             overridden => overridden'
      PROVE  Shipping!Next
  BY <1>1 DEF Forgotten, Shipping!Next, Shipping!Leave, Shipping!Lasting
<1>2. ASSUME NEW w \in Workers, Accept(w) PROVE Shipping!Next
  <2>1. PICK a \in Awbs \ issued :
          live' = live \cup {a} /\ UNCHANGED <<lost, wiped, overridden>>
    BY <1>2 DEF Accept, docVars, claimVars
  <2>2. CASE a \in Forgotten
    BY <2>1, <2>2 DEF Forgotten, Shipping!Next, Shipping!Leave, Shipping!Lasting
  <2>3. CASE a \notin Forgotten
    <3>1. Known' = Known \cup {a} /\ a \notin Known
      BY <1>0, <2>1, <2>3 DEF Forgotten
    <3>2. step[w] = "request" /\ pc[w] = "booking"
      BY <1>0, <1>2 DEF Accept, StepOK
    <3>3. ASSUME NEW b \in Known, ~overridden PROVE FALSE
      <4>1. owner = w /\ order.awb = NoAwb
        BY <3>2, <3>3 DEF BookInv, HolderBooks, Booked
      <4>2. InFlight(b)
        BY <1>0, <3>3, <4>1 DEF BookInv, LiveIsKnown
      <4>3. PICK u \in Workers : step[u] \in {"accepted", "fallback"}
        BY <4>2 DEF InFlight
      <4>4. owner = u
        BY <1>0, <3>3, <4>3 DEF BookInv, HolderBooks, StepOK
      <4> QED
        BY <3>2, <4>1, <4>3, <4>4
    <3> QED
      BY <2>1, <3>1, <3>3 DEF Shipping!Next, Shipping!Enter, Shipping!Lasting
  <2> QED
    BY <2>2, <2>3
<1>3. ASSUME NEW w \in Workers, Claim(w) PROVE Shipping!Next
  <2>1. overridden => overridden'
    BY <1>3 DEF Claim, ClaimStep, FindOrder, ResetForRebook, ResetLost, TryClaim,
       Reread, Answer
  <2> QED
    BY <1>1, <1>3, <2>1 DEF Claim, courierVars
<1>4. ASSUME NEW w \in Workers,
             Refuse(w) \/ EndFailed(w) \/ Save(w) \/ Fallback(w) \/ FallbackFails(w)
               \/ Die(w)
      PROVE  Shipping!Next
  BY <1>1, <1>4 DEF Refuse, EndFailed, Save, Fallback, FallbackFails, Die, Release,
     Crash, courierVars, docVars
<1>5. ASSUME NEW w \in Workers,
             Reject(w) \/ NoteSaved(w) \/ NoteFails(w) \/ Timeout(w) \/ SaveFails(w)
      PROVE  Shipping!Next
  BY <1>1, <1>5 DEF Reject, NoteSaved, NoteFails, Timeout, SaveFails, claimVars,
     courierVars, docVars
<1>6. CASE ClaimAge \/ CancelStep
  BY <1>1, <1>6 DEF ClaimAge, ClaimAges, CancelStep, CancelRead, CancelAccepted,
     CancelRefused, CancelSave, CancelSaveFails, claimVars, courierVars, docVars
<1>7. CASE UNCHANGED bookVars
  BY <1>1, <1>7 DEF bookVars, claimVars, courierVars, docVars
<1> QED
  BY <1>2, <1>3, <1>4, <1>5, <1>6, <1>7 DEF LorrigoNext, BookingStep

\* Shipments are exclusive like claims: the courier makes one for the order only
\* when none is known, unless a claim was overridden.
THEOREM ShipmentsAreExclusive == LorrigoSpec => ShipsExclusively
<1>1. LorrigoInit => Shipping!Init
  BY DEF LorrigoInit, Init, Forgotten, Shipping!Init
<1>2. BookInv /\ [LorrigoNext]_bookVars => [Shipping!Next]_(Shipping!exclusiveVars)
  BY StepOfShipping
<1> QED
  BY <1>1, <1>2, BookInvariant, PTL DEF LorrigoSpec, ShipsExclusively, Shipping!Spec
=============================================================================
