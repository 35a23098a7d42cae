---------------------------- MODULE ShipmentWallet ----------------------------
(***************************************************************************)
(* Charging shipments to the wallet of a dropshipper                       *)
(* (backend/src/services/shipmentWallet.ts, walletDebitReconciliation.ts   *)
(* and their callers): a booking request checks the funds, books and then  *)
(* debits; what could not be debited is marked walletDebitPending and      *)
(* tried again by a job.  All orders belong to one user.                   *)
(*                                                                         *)
(* markWalletDebitPendingIfBookedWithoutDebit, by which the status syncs   *)
(* would mark booked orders they find unmarked, has no action here: both   *)
(* load their orders without dropshipperId and partnerId                   *)
(* (lorrigo.statusSync.ts:75, ekart.statusSync.ts:230), so it returns      *)
(* before it looks at the shipment.                                        *)
(*                                                                         *)
(* The wallet is the account book of WalletAccount, which WalletLedger     *)
(* implements: a debit is one step.                                        *)
(*                                                                         *)
(* walletDebitFailedAt matters only for the order in which the job takes   *)
(* pending orders, so the pending orders are kept as a queue by that date. *)
(* No save here has an array in it: each writes the fields that its owner  *)
(* changed since it loaded the order.                                      *)
(***************************************************************************)
EXTENDS WalletAccount, FiniteSets, SequencesExt

CONSTANTS
  User,
  Orders,
  Charge,      \* shipping charge of each order
  Batch,       \* how many pending orders one run of the job takes (50)
  MaxOthers,   \* bound: postings that are no shipment's
  MaxFaults    \* bound: crashes, database errors and lost acknowledgements

ASSUME ShipmentAssumption ==
  /\ Users = {User}
  /\ Orders = Refs
  /\ Charge \in [Orders -> Amounts \ {0}]
  /\ Batch \in Nat \ {0} /\ MaxOthers \in Nat /\ MaxFaults \in Nat
  /\ {"shipment", "adjust"} \subseteq Calls

VARIABLES
  booked,   \* shipmentCreated or an AWB, per order
  queue,    \* orders with walletDebitPending, oldest walletDebitFailedAt first
  req,      \* the booking request of each order
  job,      \* the reconciliation job
  missed,   \* history: a fault kept the debit of the order from being tracked
  renewed,  \* history: orders cancelled since, or debited by a step whose
            \* record was lost, which may be debited again
  others, faults

shipVars ==
  <<accountVars, booked, queue, req, job, missed, renewed, others, faults>>

Outcomes == {"applied", "duplicate", "insufficient", "debit_failed"}
Settled == {"applied", "duplicate"}

ShipmentTypeOK ==
  /\ balance \in [Users -> Int] /\ ledger \in [Users -> Seq(Rows)]
  /\ booked \in [Orders -> BOOLEAN]
  /\ queue \in Seq(Orders) /\ IsInjective(queue)
  /\ req \in [Orders -> [at: {"none", "checked", "booked", "persist"},
                         settled: BOOLEAN, pending: BOOLEAN]]
  /\ job \in [at: {"idle", "run", "persist"}, todo: Seq(Orders),
              seen: SUBSET Orders, settled: BOOLEAN]
  /\ missed \subseteq Orders /\ renewed \subseteq Orders
  /\ others \in 0 .. MaxOthers /\ faults \in 0 .. MaxFaults

NoRequest == [at |-> "none", settled |-> FALSE, pending |-> FALSE]
NoJob == [at |-> "idle", todo |-> << >>, seen |-> {}, settled |-> FALSE]

ShipmentInit ==
  /\ AccountInit
  /\ booked = [o \in Orders |-> FALSE]
  /\ queue = << >>
  /\ req = [o \in Orders |-> NoRequest]
  /\ job = NoJob
  /\ missed = {} /\ renewed = {}
  /\ others = 0 /\ faults = 0

-----------------------------------------------------------------------------
Pending(o) == o \in ToSet(queue)

Cleared(o) ==
  IF Pending(o) THEN RemoveAt(queue, CHOOSE i \in DOMAIN queue : queue[i] = o)
  ELSE queue

\* walletDebitPending set with a new walletDebitFailedAt.
Marked(o) == Append(Cleared(o), o)

\* Mutation: the date of the first failure is kept.
PostponedNever(o) == queue

\* A new walletDebitFailedAt alone.
Postponed(o) == IF Pending(o) THEN Marked(o) ELSE queue

Fault ==
  /\ faults < MaxFaults
  /\ faults' = faults + 1

\* debitShipmentChargeIfApplicable: the funds are looked at before the unique
\* index is, and every other error becomes "debit_failed".
Debit(o, outcome) ==
  \/ /\ outcome = "applied"
     /\ Post("shipment", User, "Debit", Charge[o], o)
     /\ UNCHANGED <<renewed, faults>>
  \/ /\ outcome = "insufficient"
     /\ balance[User] < Charge[o]
     /\ UNCHANGED <<accountVars, renewed, faults>>
  \/ /\ outcome = "duplicate"
     /\ balance[User] >= Charge[o]
     /\ Posted(User, o)
     /\ UNCHANGED <<accountVars, renewed, faults>>
  \/ /\ outcome = "debit_failed"
     /\ Fault
     /\ \/ UNCHANGED <<accountVars, renewed>>
        \/ /\ Post("shipment", User, "Debit", Charge[o], o)
           /\ renewed' = renewed \cup {o}

\* Mutation: a debit that failed is not marked.
TrackedSuccessOnly(o, wasPending, settled) ==
  IF settled /\ wasPending THEN Cleared(o)
  ELSE queue

\* Mutation: a pending order that could be debited stays pending.
TrackedStillPending(o, wasPending, settled) ==
  IF settled THEN queue
  ELSE IF wasPending THEN Postponed(o) ELSE Marked(o)

\* What attemptAndTrackShipmentWalletDebit makes of the pending flag of the
\* order it loaded (with the flag set or not) when the debit has been tried.
Tracked(o, wasPending, settled) ==
  IF settled
  THEN IF wasPending THEN Cleared(o) ELSE queue
  ELSE IF wasPending THEN Postponed(o) ELSE Marked(o)

Charged(o) == \E i \in DOMAIN ledger[User] : ledger[User][i].ref = o

-----------------------------------------------------------------------------
\* bookPartnerShipment: the funds are checked, not reserved.
Precheck(o) ==
  /\ req[o].at = "none"
  /\ ~booked[o]
  /\ balance[User] >= Charge[o]
  /\ req' = [req EXCEPT ![o].at = "checked"]
  /\ UNCHANGED <<accountVars, booked, queue, job, missed, renewed, others, faults>>

\* The courier books the order, or does not.  What an earlier booking missed
\* is forgotten with it.
Book(o) ==
  /\ req[o].at = "checked"
  /\ \/ /\ booked' = [booked EXCEPT ![o] = TRUE]
        /\ req' = [req EXCEPT ![o] = [@ EXCEPT !.at = "booked",
                                               !.pending = Pending(o)]]
        /\ missed' = missed \ {o}
     \/ /\ req' = [req EXCEPT ![o] = NoRequest]
        /\ UNCHANGED <<booked, missed>>
  /\ UNCHANGED <<accountVars, queue, job, renewed, others, faults>>

\* No AWB yet: awaiting_awb.
AwaitAwb(o) ==
  /\ req[o].at = "booked"
  /\ queue' = Marked(o)
  /\ req' = [req EXCEPT ![o] = NoRequest]
  /\ UNCHANGED <<accountVars, booked, job, missed, renewed, others, faults>>

RequestDebit(o) ==
  /\ req[o].at = "booked"
  /\ \E outcome \in Outcomes :
       /\ Debit(o, outcome)
       /\ req' = [req EXCEPT ![o].at = "persist", ![o].settled = outcome \in Settled]
  /\ UNCHANGED <<booked, queue, job, missed, others>>

RequestPersist(o) ==
  /\ req[o].at = "persist"
  /\ queue' = Tracked(o, req[o].pending, req[o].settled)
  /\ req' = [req EXCEPT ![o] = NoRequest]
  /\ UNCHANGED <<accountVars, booked, job, missed, renewed, others, faults>>

\* The process dies, or save and updateOne both fail after the debit.
RequestDies(o) ==
  /\ req[o].at # "none"
  /\ Fault
  /\ missed' = IF req[o].at = "checked" THEN missed ELSE missed \cup {o}
  /\ req' = [req EXCEPT ![o] = NoRequest]
  /\ UNCHANGED <<accountVars, booked, queue, job, renewed, others>>

-----------------------------------------------------------------------------
\* reconcilePendingWalletDebits: the oldest pending orders, as they are now.
JobStart ==
  /\ job.at = "idle"
  /\ queue # << >>
  /\ LET batch == SubSeq(queue, 1, Min({Batch, Len(queue)}))
     IN  job' = [NoJob EXCEPT !.at = "run", !.todo = batch,
                   !.seen = {o \in ToSet(batch) : booked[o]}]
  /\ UNCHANGED <<accountVars, booked, queue, req, missed, renewed, others, faults>>

NextOf(j) ==
  [j EXCEPT !.at = IF Len(j.todo) = 1 THEN "idle" ELSE "run",
            !.todo = Tail(j.todo), !.settled = FALSE,
            !.seen = j.seen \ {Head(j.todo)}]

\* An order without a shipment stays pending, and where it is.
JobSkip ==
  /\ job.at = "run"
  /\ Head(job.todo) \notin job.seen
  /\ job' = NextOf(job)
  /\ UNCHANGED <<accountVars, booked, queue, req, missed, renewed, others, faults>>

JobDebit ==
  /\ job.at = "run"
  /\ Head(job.todo) \in job.seen
  /\ \E outcome \in Outcomes :
       /\ Debit(Head(job.todo), outcome)
       /\ job' = [job EXCEPT !.at = "persist", !.settled = outcome \in Settled]
  /\ UNCHANGED <<booked, queue, req, missed, others>>

JobPersist ==
  /\ job.at = "persist"
  /\ queue' = Tracked(Head(job.todo), TRUE, job.settled)
  /\ job' = NextOf(job)
  /\ UNCHANGED <<accountVars, booked, req, missed, renewed, others, faults>>

\* A failed persist goes on with the next order, a crash ends the run: a debit
\* just made leaves its order pending.
JobFails ==
  /\ job.at # "idle"
  /\ Fault
  /\ \/ job.at = "persist" /\ job' = NextOf(job)
     \/ job' = NoJob
  /\ renewed' = IF job.at = "persist" /\ job.settled
                THEN renewed \cup {Head(job.todo)} ELSE renewed
  /\ UNCHANGED <<accountVars, booked, queue, req, missed, others>>

-----------------------------------------------------------------------------
\* Cancelling or reshipping an order takes its shipment away and leaves
\* walletDebitPending and the wallet alone.
Cancel(o) ==
  /\ booked[o]
  /\ booked' = [booked EXCEPT ![o] = FALSE]
  /\ renewed' = renewed \cup {o}
  /\ UNCHANGED <<accountVars, queue, req, job, missed, others, faults>>

\* A recharge or an adjustment by an admin, either way.
Adjust ==
  /\ others < MaxOthers
  /\ others' = others + 1
  /\ \E a \in Amounts, type \in Signs : Post("adjust", User, type, a, NoRef)
  /\ UNCHANGED <<booked, queue, req, job, missed, renewed, faults>>

RequestStep(o) ==
  Book(o) \/ AwaitAwb(o) \/ RequestDebit(o) \/ RequestPersist(o)
JobStep == JobStart \/ JobSkip \/ JobDebit \/ JobPersist

ShipmentNext ==
  \/ \E o \in Orders : Precheck(o) \/ RequestStep(o) \/ RequestDies(o)
  \/ JobStep \/ JobFails
  \/ \E o \in Orders : Cancel(o)
  \/ Adjust

ShipmentSpec == ShipmentInit /\ [][ShipmentNext]_shipVars

\* Requests go on, and the job runs every three minutes (server.ts:184).
ShipmentFairness ==
  /\ \A o \in Orders : WF_shipVars(RequestStep(o))
  /\ WF_shipVars(JobStep)

ShipmentFairSpec == ShipmentSpec /\ ShipmentFairness

-----------------------------------------------------------------------------
\* No shipment goes out unnoticed by the wallet: it was charged, or it is
\* marked for a later debit, or its request is still at work, unless a fault
\* hit that very request.
ChargeTracked ==
  \A o \in Orders : booked[o] /\ ~Charged(o) =>
    Pending(o) \/ req[o].at \in {"booked", "persist"} \/ o \in missed

\* The request and the job, each of which debits without looking whether the
\* other did, charge an order once: the pending flag is all that keeps them
\* apart.  It does so unless the shipment was cancelled or the record of a
\* debit was lost on its way into the flag.
ChargedOnce ==
  \A o \in Orders \ renewed :
    \A i, j \in DOMAIN ledger[User] :
      ledger[User][i].ref = o /\ ledger[User][j].ref = o => i = j

\* As many pending orders as the job takes at a time, none of them with a
\* shipment, stand before o: the job skips them where they are, for ever.
Crowded(o) ==
  \E n \in DOMAIN queue :
    /\ queue[n] = o
    /\ Cardinality({i \in 1 .. n - 1 : ~booked[queue[i]]}) >= Batch

\* A booked order is charged in the end ("Every ~3 minutes the server runs
\* reconcilePendingWalletDebits", docs/partner-api-runbook.md:67), or is
\* cancelled, or the wallet cannot pay it, or a fault kept it from being
\* tracked, or orders without a shipment crowd it out.
ChargedInTheEnd ==
  \A o \in Orders :
    booked[o] /\ o \notin missed ~>
      \/ Charged(o) \/ ~booked[o]
      \/ balance[User] < Charge[o] \/ o \in missed \/ Crowded(o)
=============================================================================
