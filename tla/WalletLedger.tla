----------------------------- MODULE WalletLedger -----------------------------
(***************************************************************************)
(* The wallet ledger (backend/src/services/walletLedger.ts): creditWallet, *)
(* debitWallet and adminAdjustWallet, each a MongoDB transaction that      *)
(* reads the wallet, checks the funds, saves the new balance, inserts the  *)
(* Transaction row and commits.                                            *)
(*                                                                         *)
(* A call is one invocation of one of the three functions.  Its arguments  *)
(* are fixed when it is made; a retry is another call.  The transaction    *)
(* has snapshot isolation: a write to a wallet that another open           *)
(* transaction wrote, or that changed since the snapshot, is refused with  *)
(* a write conflict and the call fails.  adminAdjustWallet makes a fresh   *)
(* reference of its own, which no other call repeats: NoRef here.          *)
(***************************************************************************)
EXTENDS WalletAccount

VARIABLES
  call,     \* arguments of each call
  pc,       \* where each call is; its last value is the answer
  snap,     \* balance and version the call's transaction read
  version,  \* how often each wallet document was written
  exists,   \* does the wallet document exist?
  writer    \* calls whose open transaction has written a wallet document

ledgerVars == <<balance, ledger, call, pc, snap, version, exists, writer>>

Answers == {"applied", "insufficient", "duplicate", "failed"}
Pc == {"new", "read", "saved", "inserted"} \cup Answers

\* Only a debit with a reference can have an amount that rounds to nothing:
\* recharges are at least one rupee and adminAdjustWallet refuses zero.
Arguments ==
  {a \in [user: Users, type: Signs, amount: Amounts, ref: Refs \cup {NoRef}] :
     a.amount = 0 => a.type = "Debit" /\ a.ref # NoRef}

TypeOK ==
  /\ balance \in [Users -> Int]
  /\ ledger \in [Users -> Seq(Rows)]
  /\ call \in [Calls -> Arguments]
  /\ pc \in [Calls -> Pc]
  /\ snap \in [Calls -> [balance: Int, version: Nat]]
  /\ version \in [Users -> Nat]
  /\ exists \in [Users -> BOOLEAN]
  /\ writer \subseteq Calls

Init ==
  /\ AccountInit
  /\ call \in [Calls -> Arguments]
  /\ pc = [c \in Calls |-> "new"]
  /\ snap = [c \in Calls |-> [balance |-> 0, version |-> 0]]
  /\ version = [u \in Users |-> 0]
  /\ exists \in {e \in [Users -> BOOLEAN] :
                   \A u \in Users : Opening[u] # 0 => e[u]}
  /\ writer = {}

-----------------------------------------------------------------------------
Goto(c, l) == pc' = [pc EXCEPT ![c] = l]

\* Another open transaction has written the wallet document of user u.
WrittenByOther(c, u) == \E d \in writer \ {c} : call[d].user = u

\* Mutation: any money in the wallet is taken for enough money.
OverdrawsWhenEmpty(c, b) == call[c].type = "Debit" /\ b = 0

Overdraws(c, b) == call[c].type = "Debit" /\ b < call[c].amount

\* startTransaction, ensureWalletDoc and the check of the funds.  A missing
\* wallet document is created inside the transaction.
Read(c) ==
  LET u == call[c].user IN
  /\ pc[c] = "new"
  /\ snap' = [snap EXCEPT ![c] = [balance |-> balance[u],
                                  version |-> version[u]]]
  /\ \/ /\ ~exists[u] /\ WrittenByOther(c, u)
        /\ Goto(c, "failed")
        /\ UNCHANGED writer
     \/ /\ exists[u] \/ ~WrittenByOther(c, u)
        /\ Overdraws(c, balance[u])
        /\ Goto(c, "insufficient")
        /\ UNCHANGED writer
     \/ /\ exists[u] \/ ~WrittenByOther(c, u)
        /\ ~Overdraws(c, balance[u])
        /\ Goto(c, "read")
        /\ writer' = IF exists[u] THEN writer ELSE writer \cup {c}
  /\ UNCHANGED <<balance, ledger, call, version, exists>>

\* Mutation: the balance is written without looking at who else wrote it.
NeverConflicts(c) == FALSE

\* Snapshot isolation refuses the second writer of a document.
Conflicts(c) ==
  \/ WrittenByOther(c, call[c].user)
  \/ version[call[c].user] # snap[c].version

\* wallet.save: mongoose writes nothing when the balance does not change.
Save(c) ==
  /\ pc[c] = "read"
  /\ \/ /\ call[c].amount = 0
        /\ Goto(c, "saved")
        /\ UNCHANGED writer
     \/ /\ call[c].amount # 0
        /\ Conflicts(c)
        /\ Goto(c, "failed")
        /\ writer' = writer \ {c}
     \/ /\ call[c].amount # 0
        /\ ~Conflicts(c)
        /\ Goto(c, "saved")
        /\ writer' = writer \cup {c}
  /\ UNCHANGED <<balance, ledger, call, snap, version, exists>>

\* Mutation: the row is inserted without passing the session.
InsertOutsideSession(c) ==
  /\ pc[c] = "saved"
  /\ ~Posted(call[c].user, call[c].ref)
  /\ Goto(c, "inserted")
  /\ ledger' = [ledger EXCEPT ![call[c].user] = Append(@,
       [call |-> c, type |-> call[c].type, amount |-> call[c].amount,
        before |-> snap[c].balance,
        after |-> Moved(call[c].type, snap[c].balance, call[c].amount),
        ref |-> call[c].ref])]
  /\ UNCHANGED <<balance, call, snap, version, exists, writer>>

\* insertTransaction: error 11000 of the unique index becomes a 409 and the
\* transaction is aborted.
Insert(c) ==
  /\ pc[c] = "saved"
  /\ \/ /\ Posted(call[c].user, call[c].ref)
        /\ Goto(c, "duplicate")
        /\ writer' = writer \ {c}
     \/ /\ ~Posted(call[c].user, call[c].ref)
        /\ Goto(c, "inserted")
        /\ UNCHANGED writer
  /\ UNCHANGED <<balance, ledger, call, snap, version, exists>>

RowOf(c) ==
  [call |-> c, type |-> call[c].type, amount |-> call[c].amount,
   before |-> snap[c].balance,
   after |-> Moved(call[c].type, snap[c].balance, call[c].amount),
   ref |-> call[c].ref]

\* Two inserts of one reference in open transactions conflict as well; only
\* calls that did not write the wallet document can meet here.
InsertConflicts(c) ==
  /\ call[c].ref # NoRef
  /\ Posted(call[c].user, call[c].ref)

\* What a commit makes visible: the saved balance and the inserted row.
Publish(c) ==
  LET u == call[c].user IN
  /\ ledger' = [ledger EXCEPT ![u] = Append(@, RowOf(c))]
  /\ IF c \in writer
     THEN /\ balance' = [balance EXCEPT ![u] = RowOf(c).after]
          /\ version' = [version EXCEPT ![u] = @ + 1]
          /\ exists' = [exists EXCEPT ![u] = TRUE]
     ELSE UNCHANGED <<balance, version, exists>>
  /\ writer' = writer \ {c}

Commit(c) ==
  /\ pc[c] = "inserted"
  /\ ~InsertConflicts(c)
  /\ Publish(c)
  /\ Goto(c, "applied")
  /\ UNCHANGED <<call, snap>>

\* The commit reaches the database but its acknowledgement is lost: the
\* caller gets an error for a posting that was made.
CommitUnacknowledged(c) ==
  /\ pc[c] = "inserted"
  /\ ~InsertConflicts(c)
  /\ Publish(c)
  /\ Goto(c, "failed")
  /\ UNCHANGED <<call, snap>>

\* Any database error or the death of the process before the commit: the
\* transaction leaves nothing.
Abort(c) ==
  /\ pc[c] \in {"read", "saved", "inserted"}
  /\ Goto(c, "failed")
  /\ writer' = writer \ {c}
  /\ UNCHANGED <<balance, ledger, call, snap, version, exists>>

\* getWalletBalance and the wallet page create a missing document outside
\* any transaction.
EnsureWallet(u) ==
  /\ ~exists[u]
  /\ ~\E d \in writer : call[d].user = u
  /\ exists' = [exists EXCEPT ![u] = TRUE]
  /\ version' = [version EXCEPT ![u] = @ + 1]
  /\ UNCHANGED <<balance, ledger, call, pc, snap, writer>>

CallStep(c) ==
  Read(c) \/ Save(c) \/ Insert(c) \/ Commit(c) \/ CommitUnacknowledged(c)
    \/ Abort(c)

Next ==
  \/ \E c \in Calls : CallStep(c)
  \/ \E u \in Users : EnsureWallet(u)

Spec == Init /\ [][Next]_ledgerVars

-----------------------------------------------------------------------------
PostedBy(c) ==
  \E u \in Users : \E i \in 1 .. Len(ledger[u]) : ledger[u][i].call = c

\* What a caller may conclude from an answer: "applied" means the row is
\* there, "insufficient" and "duplicate" mean this call left none, and a
\* duplicate's reference has been charged by an earlier call.  "failed" says
\* nothing: the commit may have been made.
AnswerIsTrue ==
  \A c \in Calls :
    /\ pc[c] = "applied" => PostedBy(c)
    /\ pc[c] \notin {"applied", "failed"} => ~PostedBy(c)
    /\ pc[c] = "duplicate" => Posted(call[c].user, call[c].ref)

\* The ledger implements the account book: no step of a transaction shows
\* but the commit, and that is a posting.
ImplementsAccount == AccountSpec
=============================================================================
