---------------------------- MODULE WalletAccount ----------------------------
(***************************************************************************)
(* What the wallet promises its callers: an account book.  Every posting   *)
(* is one indivisible step that moves the balance and adds the row that    *)
(* explains the move; a debit never overdraws, and a reference is posted   *)
(* at most once per user, if the unique index of the rows exists.          *)
(* WalletLedger implements it with MongoDB transactions.                   *)
(***************************************************************************)
EXTENDS Integers, Sequences

CONSTANTS
  Users,
  Calls,      \* the calls of the ledger API that are ever made
  Amounts,    \* amounts after roundMoney, in paise
  Refs,       \* (referenceType, referenceId) pairs
  NoRef,      \* a call without a referenceId: not covered by the unique index
  Indexed,    \* is the unique index on Transaction there?
  Opening     \* balances given by the account seeding, without a row

ASSUME AccountAssumption ==
  /\ Amounts \subseteq Nat
  /\ NoRef \notin Refs
  /\ Indexed \in BOOLEAN
  /\ Opening \in [Users -> Nat]

VARIABLES
  balance,    \* Wallet.balance of each user
  ledger      \* the Transaction rows of each user, in the order of commit

accountVars == <<balance, ledger>>

Signs == {"Credit", "Debit"}

Rows == [call: Calls, type: Signs, amount: Amounts, before: Int, after: Int,
         ref: Refs \cup {NoRef}]

Moved(type, b, a) == IF type = "Credit" THEN b + a ELSE b - a

\* What the unique index on (userId, referenceType, referenceId) refuses.  Its
\* partial filter uses $nin, which MongoDB does not accept in an index: as the
\* code stands it is never built, and Indexed is FALSE.
Posted(u, r) ==
  Indexed /\ r # NoRef /\ \E i \in DOMAIN ledger[u] : ledger[u][i].ref = r

AccountInit ==
  /\ balance = Opening
  /\ ledger = [u \in Users |-> << >>]

Post(c, u, type, a, r) ==
  /\ type = "Debit" => balance[u] >= a
  /\ ~Posted(u, r)
  /\ balance' = [balance EXCEPT ![u] = Moved(type, @, a)]
  /\ ledger' = [ledger EXCEPT ![u] = Append(@,
       [call |-> c, type |-> type, amount |-> a, before |-> balance[u],
        after |-> Moved(type, balance[u], a), ref |-> r])]

AccountNext ==
  \E c \in Calls, u \in Users, type \in Signs, a \in Amounts,
     r \in Refs \cup {NoRef} : Post(c, u, type, a, r)

AccountSpec == AccountInit /\ [][AccountNext]_accountVars

-----------------------------------------------------------------------------
\* No interleaving of debits takes more than there is, although each one
\* checked the funds before the other wrote.
NoOverdraft == \A u \in Users : balance[u] >= 0

\* The rows are an unbroken account from the balance o to the balance b.
Unbroken(o, rows, b) ==
  LET before(i) == IF i = 1 THEN o ELSE rows[i - 1].after IN
  /\ \A i \in 1 .. Len(rows) :
       /\ rows[i].before = before(i)
       /\ rows[i].after = Moved(rows[i].type, rows[i].before, rows[i].amount)
  /\ b = before(Len(rows) + 1)

NoRepeat(rows) ==
  \A i, j \in 1 .. Len(rows) :
    rows[i].ref = rows[j].ref /\ rows[i].ref # NoRef => i = j

\* The rows of a user are an unbroken account: each row starts from the
\* balance the previous one ended with, and the wallet shows the last one.
\* No update is lost (models/Transaction.ts:24, "ledger running balance").
RunningBalance ==
  \A u \in Users : Unbroken(Opening[u], ledger[u], balance[u])

\* Whatever is retried or sent twice, a reference is charged once ("Debit
\* shipping for an order once (idempotent)", walletLedger.ts:214).
PostedOnce == \A u \in Users : NoRepeat(ledger[u])
=============================================================================
