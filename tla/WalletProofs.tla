------------------------------ MODULE WalletProofs ------------------------------
(***************************************************************************)
(* The wallet: the account book keeps its promises for any users, amounts  *)
(* and references; the ledger is type correct, answers its callers truly   *)
(* and, where no amount rounds to nothing, implements the account book;    *)
(* and on that book the billing of shipments charges each one once or      *)
(* keeps track of it.                                                      *)
(***************************************************************************)
EXTENDS WalletLedger, ShipmentWallet, SequenceTheorems, TLAPS

(***************************************************************************)
(* The account book.                                                       *)
(***************************************************************************)
AccountTypeOK ==
  /\ balance \in [Users -> Int]
  /\ ledger \in [Users -> Seq(Rows)]

AccountInv ==
  AccountTypeOK /\ NoOverdraft /\ RunningBalance /\ (Indexed => PostedOnce)

LEMMA MovedIsInt ==
  ASSUME NEW type \in Signs, NEW b \in Int, NEW a \in Amounts
  PROVE  Moved(type, b, a) \in Int
BY AccountAssumption DEF Moved

LEMMA AppendUnbroken ==
  ASSUME NEW o \in Int, NEW b \in Int, NEW rows \in Seq(Rows), NEW row \in Rows,
         Unbroken(o, rows, b), row.before = b,
         row.after = Moved(row.type, row.before, row.amount)
  PROVE  Unbroken(o, Append(rows, row), row.after)
<1> DEFINE more == Append(rows, row)
<1>1. /\ Len(rows) \in Nat /\ Len(more) = Len(rows) + 1
      /\ \A i \in 1 .. Len(rows) : more[i] = rows[i]
      /\ more[Len(rows) + 1] = row
  BY AppendProperties, LenProperties
<1>2. \A i \in 1 .. Len(more) : i \in 1 .. Len(rows) \/ i = Len(rows) + 1
  BY <1>1
<1>3. ASSUME NEW i \in 1 .. Len(rows)
      PROVE  /\ more[i].before = IF i = 1 THEN o ELSE more[i - 1].after
             /\ more[i].after = Moved(more[i].type, more[i].before,
                                      more[i].amount)
  <2>1. i # 1 => more[i - 1] = rows[i - 1]
    BY <1>1
  <2> QED
    BY <1>1, <2>1 DEF Unbroken
<1>4. b = IF Len(rows) + 1 = 1 THEN o ELSE more[Len(rows) + 1 - 1].after
  BY <1>1 DEF Unbroken
<1>5. Len(more) + 1 # 1 /\ more[Len(more) + 1 - 1] = row
  BY <1>1
<1> HIDE DEF more
<1>6. Unbroken(o, more, row.after)
  BY <1>1, <1>2, <1>3, <1>4, <1>5 DEF Unbroken
<1> QED
  BY <1>6 DEF more

LEMMA AppendNoRepeat ==
  ASSUME NEW rows \in Seq(Rows), NEW row \in Rows, NoRepeat(rows),
         row.ref # NoRef => \A i \in 1 .. Len(rows) : rows[i].ref # row.ref
  PROVE  NoRepeat(Append(rows, row))
<1> DEFINE more == Append(rows, row)
<1>1. /\ Len(rows) \in Nat /\ Len(more) = Len(rows) + 1
      /\ \A i \in 1 .. Len(rows) : more[i] = rows[i]
      /\ more[Len(rows) + 1] = row
  BY AppendProperties, LenProperties
<1> HIDE DEF more
<1>2. \A i \in 1 .. Len(more) : i \in 1 .. Len(rows) \/ i = Len(rows) + 1
  BY <1>1
<1>3. NoRepeat(more)
  BY <1>1, <1>2 DEF NoRepeat
<1> QED
  BY <1>3 DEF more

LEMMA AccountInitInv == AccountInit => AccountInv
<1> SUFFICES ASSUME AccountInit PROVE AccountInv
  OBVIOUS
<1>1. balance = Opening /\ \A u \in Users : Opening[u] \in Nat
  BY AccountAssumption DEF AccountInit
<1>2. \A u \in Users : ledger[u] = << >> /\ Len(ledger[u]) = 0
  BY DEF AccountInit
<1>3. AccountTypeOK
  BY AccountAssumption DEF AccountInit, AccountTypeOK
<1>4. NoOverdraft
  <2> SUFFICES ASSUME NEW u \in Users PROVE balance[u] >= 0
    BY DEF NoOverdraft
  <2>1. balance[u] \in Nat
    BY <1>1
  <2> QED
    BY <2>1
<1>5. RunningBalance
  <2> SUFFICES ASSUME NEW u \in Users
               PROVE  Unbroken(Opening[u], ledger[u], balance[u])
    BY DEF RunningBalance
  <2>1. Len(ledger[u]) = 0 /\ balance[u] = Opening[u]
    BY <1>1, <1>2
  <2> QED
    BY <2>1 DEF Unbroken
<1>6. PostedOnce
  BY <1>2 DEF PostedOnce, NoRepeat
<1> QED
  BY <1>3, <1>4, <1>5, <1>6 DEF AccountInv

LEMMA PostKeepsInv ==
  ASSUME AccountInv,
         NEW c \in Calls, NEW u \in Users, NEW type \in Signs,
         NEW a \in Amounts, NEW r \in Refs \cup {NoRef}, Post(c, u, type, a, r)
  PROVE  AccountInv'
<1>1. balance[u] \in Int /\ ledger[u] \in Seq(Rows) /\ Opening[u] \in Int
  BY AccountAssumption DEF AccountInv, AccountTypeOK
<1>2. Moved(type, balance[u], a) \in Int
  BY <1>1, MovedIsInt
<1>3. PICK row \in Rows :
        /\ row.before = balance[u]
        /\ row.after = Moved(type, balance[u], a)
        /\ row.after = Moved(row.type, row.before, row.amount)
        /\ row.ref = r
        /\ ledger' = [ledger EXCEPT ![u] = Append(ledger[u], row)]
  <2>1. [call |-> c, type |-> type, amount |-> a, before |-> balance[u],
         after |-> Moved(type, balance[u], a), ref |-> r] \in Rows
    BY <1>1, <1>2 DEF Rows
  <2> QED
    BY <2>1 DEF Post
<1>4. balance' = [balance EXCEPT ![u] = row.after]
  BY <1>3 DEF Post
<1>5. Append(ledger[u], row) \in Seq(Rows) /\ row.after \in Int
  BY <1>1, <1>2, <1>3, AppendProperties
<1>6. AccountTypeOK'
  BY <1>3, <1>4, <1>5 DEF AccountInv, AccountTypeOK
<1>7. NoOverdraft'
  <2>1. Moved(type, balance[u], a) >= 0
    BY <1>1, AccountAssumption DEF Post, Moved, AccountInv, NoOverdraft, Signs
  <2> QED
    BY <1>3, <1>4, <2>1 DEF AccountInv, AccountTypeOK, NoOverdraft
<1>8. RunningBalance'
  <2>1. Unbroken(Opening[u], Append(ledger[u], row), row.after)
    BY <1>1, <1>3, AppendUnbroken DEF AccountInv, RunningBalance
  <2> QED
    BY <1>3, <1>4, <2>1 DEF AccountInv, AccountTypeOK, RunningBalance
<1>9. ASSUME Indexed PROVE PostedOnce'
  <2>1. row.ref # NoRef => \A i \in 1 .. Len(ledger[u]) :
                              ledger[u][i].ref # row.ref
    BY <1>1, <1>3, <1>9, LenProperties DEF Post, Posted
  <2>2. NoRepeat(Append(ledger[u], row))
    BY <1>1, <1>9, <2>1, AppendNoRepeat DEF AccountInv, PostedOnce
  <2> QED
    BY <1>3, <1>9, <2>2 DEF AccountInv, AccountTypeOK, PostedOnce
<1> QED
  BY <1>6, <1>7, <1>8, <1>9 DEF AccountInv

\* An account book never overdraws, never breaks its running balance and
\* never posts a reference twice.
THEOREM AccountCorrect == AccountSpec => []AccountInv
<1>1. AccountInit => AccountInv
  BY AccountInitInv
<1>2. AccountInv /\ [AccountNext]_accountVars => AccountInv'
  <2>1. ASSUME AccountInv, AccountNext PROVE AccountInv'
    BY <2>1, PostKeepsInv DEF AccountNext
  <2>2. ASSUME AccountInv, UNCHANGED accountVars PROVE AccountInv'
    BY <2>2 DEF accountVars, AccountInv, AccountTypeOK, NoOverdraft,
       RunningBalance, PostedOnce
  <2> QED
    BY <2>1, <2>2
<1> QED
  BY <1>1, <1>2, PTL DEF AccountSpec

-----------------------------------------------------------------------------
(***************************************************************************)
(* The ledger.                                                             *)
(***************************************************************************)
Open == {"read", "saved", "inserted"}

LEMMA RowIsRow ==
  ASSUME TypeOK, NEW c \in Calls
  PROVE  RowOf(c) \in Rows
<1>1. /\ call[c].type \in Signs /\ call[c].amount \in Amounts
      /\ call[c].ref \in Refs \cup {NoRef}
  BY DEF TypeOK, Arguments
<1>2. snap[c].balance \in Int
  BY DEF TypeOK
<1>3. Moved(call[c].type, snap[c].balance, call[c].amount) \in Int
  BY <1>1, <1>2, MovedIsInt
<1> QED
  BY <1>1, <1>2, <1>3 DEF RowOf, Rows

LEMMA UserOfCall ==
  ASSUME TypeOK, NEW c \in Calls
  PROVE  /\ call[c].user \in Users /\ call[c].amount \in Nat
         /\ call[c].type \in Signs /\ call[c].amount \in Amounts
         /\ call[c].ref \in Refs \cup {NoRef}
BY AccountAssumption DEF TypeOK, Arguments

LEMMA PublishTypeOK ==
  ASSUME TypeOK, NEW c \in Calls, Publish(c)
  PROVE  /\ balance' \in [Users -> Int] /\ ledger' \in [Users -> Seq(Rows)]
         /\ version' \in [Users -> Nat] /\ exists' \in [Users -> BOOLEAN]
         /\ writer' \subseteq Calls
<1>1. RowOf(c) \in Rows
  BY RowIsRow
<1>2. PICK u \in Users : u = call[c].user
  BY UserOfCall
<1>3. ledger[u] \in Seq(Rows) /\ Append(ledger[u], RowOf(c)) \in Seq(Rows)
  BY <1>2, <1>1, AppendProperties DEF TypeOK
<1>4. ledger' \in [Users -> Seq(Rows)]
  BY <1>2, <1>3 DEF Publish, TypeOK
<1>5. RowOf(c).after \in Int
  BY <1>1 DEF Rows
<1>6. CASE c \in writer
  <2>1. balance' = [balance EXCEPT ![u] = RowOf(c).after]
    BY <1>2, <1>6 DEF Publish
  <2>2. version' = [version EXCEPT ![u] = version[u] + 1]
    BY <1>2, <1>6 DEF Publish
  <2>3. exists' = [exists EXCEPT ![u] = TRUE] /\ writer' = writer \ {c}
    BY <1>2, <1>6 DEF Publish
  <2> QED
    BY <1>4, <1>5, <2>1, <2>2, <2>3 DEF TypeOK
<1>7. CASE c \notin writer
  BY <1>4, <1>7 DEF Publish, TypeOK
<1> QED
  BY <1>6, <1>7

\* Whatever is called and however calls interleave, conflict, fail or lose
\* their acknowledgement, the wallet documents, the rows and the calls keep
\* their shape.
THEOREM LedgerTypeOK == Spec => []TypeOK
<1>1. Init => TypeOK
  BY AccountAssumption DEF Init, AccountInit, TypeOK, Pc
<1>2. TypeOK /\ [Next]_ledgerVars => TypeOK'
  <2> SUFFICES ASSUME TypeOK, [Next]_ledgerVars PROVE TypeOK'
    OBVIOUS
  <2>1. ASSUME NEW c \in Calls, Read(c) PROVE TypeOK'
    <3>1. [balance |-> balance[call[c].user], version |-> version[call[c].user]]
            \in [balance: Int, version: Nat]
      BY UserOfCall DEF TypeOK
    <3>2. snap' \in [Calls -> [balance: Int, version: Nat]]
      BY <2>1, <3>1 DEF Read, TypeOK
    <3>3. pc' \in [Calls -> Pc] /\ writer' \subseteq Calls
      BY <2>1 DEF Read, Goto, TypeOK, Pc, Answers
    <3> QED
      BY <2>1, <3>2, <3>3 DEF Read, TypeOK
  <2>2. ASSUME NEW c \in Calls, Save(c) PROVE TypeOK'
    BY <2>2 DEF Save, Goto, TypeOK, Pc, Answers
  <2>3. ASSUME NEW c \in Calls, Insert(c) PROVE TypeOK'
    BY <2>3 DEF Insert, Goto, TypeOK, Pc, Answers
  <2>4. ASSUME NEW c \in Calls, Commit(c) PROVE TypeOK'
    <3>1. pc' \in [Calls -> Pc]
      BY <2>4 DEF Commit, Goto, TypeOK, Pc, Answers
    <3> QED
      BY <2>4, <3>1, PublishTypeOK DEF Commit, TypeOK
  <2>5. ASSUME NEW c \in Calls, CommitUnacknowledged(c) PROVE TypeOK'
    <3>1. pc' \in [Calls -> Pc]
      BY <2>5 DEF CommitUnacknowledged, Goto, TypeOK, Pc, Answers
    <3> QED
      BY <2>5, <3>1, PublishTypeOK DEF CommitUnacknowledged, TypeOK
  <2>6. ASSUME NEW c \in Calls, Abort(c) PROVE TypeOK'
    BY <2>6 DEF Abort, Goto, TypeOK, Pc, Answers
  <2>7. ASSUME NEW u \in Users, EnsureWallet(u) PROVE TypeOK'
    BY <2>7 DEF EnsureWallet, TypeOK
  <2>8. CASE UNCHANGED ledgerVars
    BY <2>8 DEF ledgerVars, TypeOK
  <2> QED
    BY <2>1, <2>2, <2>3, <2>4, <2>5, <2>6, <2>7, <2>8 DEF Next, CallStep
<1> QED
  BY <1>1, <1>2, PTL DEF Spec

-----------------------------------------------------------------------------
\* A written wallet document belongs to one open call, and has not changed
\* since that call read it.
OneWriter ==
  /\ \A c \in writer : /\ pc[c] \in Open
                       /\ snap[c].version = version[call[c].user]
  /\ \A c, d \in writer : call[c].user = call[d].user => c = d

\* A call whose snapshot is still current read the current balance, and
\* found it sufficient.
CurrentSnapshot ==
  \A c \in Calls : pc[c] \in Open =>
    /\ snap[c].version <= version[call[c].user]
    /\ snap[c].version = version[call[c].user] =>
         snap[c].balance = balance[call[c].user]
    /\ ~Overdraws(c, snap[c].balance)

\* A call that is past the save still holds the wallet document it wrote.
SavedHolds == \A c \in Calls : pc[c] \in {"saved", "inserted"} => c \in writer

LedgerInv == TypeOK /\ OneWriter /\ CurrentSnapshot /\ SavedHolds

LEMMA LedgerInitInv == Init => OneWriter /\ CurrentSnapshot /\ SavedHolds
BY DEF Init, OneWriter, CurrentSnapshot, SavedHolds, Open

LEMMA ReadKeepsInv ==
  ASSUME LedgerInv, NEW c \in Calls, Read(c)
  PROVE  OneWriter' /\ CurrentSnapshot' /\ SavedHolds'
<1> DEFINE u == call[c].user
<1>1. /\ c \notin writer /\ u \in Users /\ version[u] \in Nat
      /\ call' = call /\ version' = version /\ balance' = balance
      /\ snap' = [snap EXCEPT ![c] = [balance |-> balance[u],
                                      version |-> version[u]]]
  BY UserOfCall DEF LedgerInv, TypeOK, OneWriter, Read, Open
<1>2. /\ \A d \in Calls \ {c} : pc'[d] = pc[d] /\ snap'[d] = snap[d]
      /\ snap'[c].balance = balance[u] /\ snap'[c].version = version[u]
  BY <1>1 DEF Read, Goto, LedgerInv, TypeOK
<1>3. \/ pc'[c] \notin Open /\ writer' = writer
      \/ /\ pc'[c] = "read" /\ ~Overdraws(c, balance[u])
         /\ \/ writer' = writer
            \/ writer' = writer \cup {c} /\ ~WrittenByOther(c, u)
  BY DEF Read, Goto, LedgerInv, TypeOK, Open
<1>4. OneWriter'
  BY <1>1, <1>2, <1>3 DEF OneWriter, LedgerInv, TypeOK, WrittenByOther, Open
<1>5. CurrentSnapshot'
  BY <1>1, <1>2, <1>3 DEF CurrentSnapshot, LedgerInv, Overdraws
<1>6. SavedHolds'
  BY <1>1, <1>2, <1>3 DEF SavedHolds, LedgerInv, Open
<1> QED
  BY <1>4, <1>5, <1>6

LEMMA SaveKeepsInv ==
  ASSUME 0 \notin Amounts, LedgerInv, NEW c \in Calls, Save(c)
  PROVE  OneWriter' /\ CurrentSnapshot' /\ SavedHolds'
<1>1. /\ call' = call /\ version' = version /\ balance' = balance
      /\ snap' = snap /\ pc[c] \in Open
      /\ \A d \in Calls \ {c} : pc'[d] = pc[d]
  BY DEF Save, Goto, LedgerInv, TypeOK, Open
<1>2. \/ pc'[c] = "failed" /\ writer' = writer \ {c}
      \/ pc'[c] = "saved" /\ ~Conflicts(c) /\ writer' = writer \cup {c}
  BY UserOfCall DEF Save, Goto, LedgerInv, TypeOK
<1>3. OneWriter'
  BY <1>1, <1>2
     DEF OneWriter, LedgerInv, TypeOK, Conflicts, WrittenByOther, Open
<1>4. CurrentSnapshot'
  BY <1>1, <1>2 DEF CurrentSnapshot, LedgerInv, Overdraws, Open
<1>5. SavedHolds'
  BY <1>1, <1>2 DEF SavedHolds, LedgerInv
<1> QED
  BY <1>3, <1>4, <1>5

LEMMA InsertKeepsInv ==
  ASSUME LedgerInv, NEW c \in Calls, Insert(c)
  PROVE  OneWriter' /\ CurrentSnapshot' /\ SavedHolds'
<1>1. /\ call' = call /\ version' = version /\ balance' = balance
      /\ snap' = snap /\ pc[c] = "saved"
      /\ \A d \in Calls \ {c} : pc'[d] = pc[d]
  BY DEF Insert, Goto, LedgerInv, TypeOK
<1>2. \/ pc'[c] = "duplicate" /\ writer' = writer \ {c}
      \/ pc'[c] = "inserted" /\ writer' = writer
  BY DEF Insert, Goto, LedgerInv, TypeOK
<1>3. OneWriter'
  BY <1>1, <1>2 DEF OneWriter, LedgerInv, TypeOK, Open
<1>4. CurrentSnapshot'
  BY <1>1, <1>2 DEF CurrentSnapshot, LedgerInv, Overdraws, Open
<1>5. SavedHolds'
  BY <1>1, <1>2 DEF SavedHolds, LedgerInv
<1> QED
  BY <1>3, <1>4, <1>5

LEMMA AbortKeepsInv ==
  ASSUME LedgerInv, NEW c \in Calls, Abort(c)
  PROVE  OneWriter' /\ CurrentSnapshot' /\ SavedHolds'
<1>1. /\ call' = call /\ version' = version /\ balance' = balance
      /\ snap' = snap /\ pc'[c] = "failed" /\ writer' = writer \ {c}
      /\ \A d \in Calls \ {c} : pc'[d] = pc[d]
  BY DEF Abort, Goto, LedgerInv, TypeOK
<1> QED
  BY <1>1 DEF LedgerInv, TypeOK, OneWriter, CurrentSnapshot, SavedHolds, Open,
              Overdraws

LEMMA EnsureWalletKeepsInv ==
  ASSUME LedgerInv, NEW u \in Users, EnsureWallet(u)
  PROVE  OneWriter' /\ CurrentSnapshot' /\ SavedHolds'
<1>1. /\ call' = call /\ balance' = balance /\ snap' = snap /\ pc' = pc
      /\ writer' = writer /\ \A d \in writer : call[d].user # u
      /\ version[u] \in Nat /\ version'[u] = version[u] + 1
      /\ \A v \in Users \ {u} : version'[v] = version[v]
  BY DEF EnsureWallet, LedgerInv, TypeOK
<1>2. \A d \in Calls : call[d].user \in Users /\ snap[d].version \in Nat
  BY UserOfCall DEF LedgerInv, TypeOK
<1>3. OneWriter'
  BY <1>1, <1>2 DEF OneWriter, LedgerInv, TypeOK
<1>4. CurrentSnapshot'
  <2> SUFFICES ASSUME NEW d \in Calls, pc[d] \in Open
        PROVE /\ snap[d].version <= version'[call[d].user]
              /\ snap[d].version = version'[call[d].user] =>
                   snap[d].balance = balance[call[d].user]
              /\ ~Overdraws(d, snap[d].balance)
    BY <1>1 DEF CurrentSnapshot, Overdraws
  <2>1. /\ snap[d].version <= version[call[d].user]
        /\ snap[d].version = version[call[d].user] =>
             snap[d].balance = balance[call[d].user]
        /\ ~Overdraws(d, snap[d].balance)
    BY DEF LedgerInv, CurrentSnapshot
  <2> QED
    BY <1>1, <1>2, <2>1
<1>5. SavedHolds'
  BY <1>1 DEF SavedHolds, LedgerInv
<1> QED
  BY <1>3, <1>4, <1>5

\* A commit, acknowledged or not.
LEMMA PublishKeepsInv ==
  ASSUME LedgerInv, NEW c \in Calls, Publish(c), pc[c] = "inserted",
         NEW l \in {"applied", "failed"}, Goto(c, l), UNCHANGED <<call, snap>>
  PROVE  OneWriter' /\ CurrentSnapshot' /\ SavedHolds'
<1> DEFINE u == call[c].user
<1>1. c \in writer /\ u \in Users /\ version[u] \in Nat
  BY UserOfCall DEF LedgerInv, SavedHolds, TypeOK
<1>2. /\ call' = call /\ snap' = snap /\ writer' = writer \ {c}
      /\ version'[u] = version[u] + 1
      /\ \A v \in Users \ {u} : version'[v] = version[v]
                             /\ balance'[v] = balance[v]
      /\ pc'[c] = l /\ \A d \in Calls \ {c} : pc'[d] = pc[d]
  BY <1>1 DEF Publish, Goto, LedgerInv, TypeOK
<1>3. \A d \in Calls : call[d].user \in Users /\ snap[d].version \in Nat
  BY UserOfCall DEF LedgerInv, TypeOK
<1>4. \A d \in writer \ {c} : d \in Calls /\ call[d].user # u
  BY <1>1 DEF LedgerInv, TypeOK, OneWriter
<1>5. OneWriter'
  BY <1>2, <1>3, <1>4 DEF OneWriter, LedgerInv
<1>6. CurrentSnapshot'
  <2> SUFFICES ASSUME NEW d \in Calls \ {c}, pc[d] \in Open
        PROVE /\ snap[d].version <= version'[call[d].user]
              /\ snap[d].version = version'[call[d].user] =>
                   snap[d].balance = balance'[call[d].user]
              /\ ~Overdraws(d, snap[d].balance)
    BY <1>2 DEF CurrentSnapshot, Overdraws, Open
  <2>1. /\ snap[d].version <= version[call[d].user]
        /\ snap[d].version = version[call[d].user] =>
             snap[d].balance = balance[call[d].user]
        /\ ~Overdraws(d, snap[d].balance)
    BY DEF LedgerInv, CurrentSnapshot
  <2> QED
    BY <1>1, <1>2, <1>3, <2>1
<1>7. SavedHolds'
  BY <1>2 DEF SavedHolds, LedgerInv
<1> QED
  BY <1>5, <1>6, <1>7

LEMMA NextKeepsInv ==
  ASSUME 0 \notin Amounts, LedgerInv, TypeOK', [Next]_ledgerVars
  PROVE  LedgerInv'
<1>1. ASSUME NEW c \in Calls, Read(c) PROVE LedgerInv'
  BY <1>1, ReadKeepsInv DEF LedgerInv
<1>2. ASSUME NEW c \in Calls, Save(c) PROVE LedgerInv'
  BY <1>2, SaveKeepsInv DEF LedgerInv
<1>3. ASSUME NEW c \in Calls, Insert(c) PROVE LedgerInv'
  BY <1>3, InsertKeepsInv DEF LedgerInv
<1>4. ASSUME NEW c \in Calls, Commit(c) PROVE LedgerInv'
  BY <1>4, PublishKeepsInv DEF LedgerInv, Commit
<1>5. ASSUME NEW c \in Calls, CommitUnacknowledged(c) PROVE LedgerInv'
  BY <1>5, PublishKeepsInv DEF LedgerInv, CommitUnacknowledged
<1>6. ASSUME NEW c \in Calls, Abort(c) PROVE LedgerInv'
  BY <1>6, AbortKeepsInv DEF LedgerInv
<1>7. ASSUME NEW u \in Users, EnsureWallet(u) PROVE LedgerInv'
  BY <1>7, EnsureWalletKeepsInv DEF LedgerInv
<1>8. CASE UNCHANGED ledgerVars
  BY <1>8 DEF ledgerVars, LedgerInv, OneWriter, CurrentSnapshot, SavedHolds,
              Overdraws
<1> QED
  BY <1>1, <1>2, <1>3, <1>4, <1>5, <1>6, <1>7, <1>8 DEF Next, CallStep

\* The one step of a transaction that others see is a posting.
LEMMA PublishIsPost ==
  ASSUME LedgerInv, NEW c \in Calls, pc[c] = "inserted", Publish(c),
         ~InsertConflicts(c)
  PROVE  AccountNext
<1> DEFINE u == call[c].user
<1>1. /\ u \in Users /\ call[c].type \in Signs /\ call[c].amount \in Amounts
      /\ call[c].ref \in Refs \cup {NoRef} /\ call[c].amount \in Nat
  BY UserOfCall DEF LedgerInv
<1>2. c \in writer /\ snap[c].balance = balance[u]
      /\ ~Overdraws(c, snap[c].balance)
  BY DEF LedgerInv, SavedHolds, OneWriter, CurrentSnapshot, Open
<1>3. call[c].type = "Debit" => balance[u] >= call[c].amount
  <2>1. balance[u] \in Int
    BY <1>1 DEF LedgerInv, TypeOK
  <2> QED
    BY <1>1, <1>2, <2>1 DEF Overdraws
<1>4. ~Posted(u, call[c].ref)
  BY DEF InsertConflicts, Posted
<1>5. Post(c, u, call[c].type, call[c].amount, call[c].ref)
  BY <1>2, <1>3, <1>4 DEF Publish, Post, RowOf
<1> QED
  BY <1>1, <1>5 DEF AccountNext

LEMMA StepRefines ==
  ASSUME LedgerInv, [Next]_ledgerVars
  PROVE  [AccountNext]_accountVars
<1>1. ASSUME NEW c \in Calls, Read(c) \/ Save(c) \/ Insert(c) \/ Abort(c)
      PROVE  UNCHANGED accountVars
  BY <1>1 DEF Read, Save, Insert, Abort, accountVars
<1>2. ASSUME NEW c \in Calls, Commit(c) \/ CommitUnacknowledged(c)
      PROVE  AccountNext
  BY <1>2, PublishIsPost DEF Commit, CommitUnacknowledged
<1>3. ASSUME NEW u \in Users, EnsureWallet(u) PROVE UNCHANGED accountVars
  BY <1>3 DEF EnsureWallet, accountVars
<1>4. CASE UNCHANGED ledgerVars
  BY <1>4 DEF ledgerVars, accountVars
<1> QED
  BY <1>1, <1>2, <1>3, <1>4 DEF Next, CallStep

\* Where no amount rounds to nothing, MongoDB's conflict detection and the
\* unique index make every history of concurrent ledger calls look like a
\* sequence of indivisible postings.
THEOREM LedgerImplementsAccount ==
  ASSUME 0 \notin Amounts
  PROVE  Spec => ImplementsAccount
<1>1. Spec => [](TypeOK)
  BY LedgerTypeOK
<1>2. Init /\ TypeOK => LedgerInv
  BY LedgerInitInv DEF LedgerInv
<1>3. LedgerInv /\ TypeOK' /\ [Next]_ledgerVars => LedgerInv'
  BY NextKeepsInv
<1>4. Init => AccountInit
  BY DEF Init
<1>5. LedgerInv /\ [Next]_ledgerVars => [AccountNext]_accountVars
  BY StepRefines
<1> QED
  BY <1>1, <1>2, <1>3, <1>4, <1>5, PTL
     DEF Spec, ImplementsAccount, AccountSpec

\* Hence no debit overdraws, however many calls read the same balance.
THEOREM LedgerNoOverdraft ==
  ASSUME 0 \notin Amounts PROVE Spec => []NoOverdraft
<1>1. AccountInv => NoOverdraft
  BY DEF AccountInv
<1> QED
  BY <1>1, LedgerImplementsAccount, AccountCorrect, PTL DEF ImplementsAccount

\* Nor is an update of a balance lost: each row starts where the last ended.
THEOREM LedgerRunningBalance ==
  ASSUME 0 \notin Amounts PROVE Spec => []RunningBalance
<1>1. AccountInv => RunningBalance
  BY DEF AccountInv
<1> QED
  BY <1>1, LedgerImplementsAccount, AccountCorrect, PTL DEF ImplementsAccount

-----------------------------------------------------------------------------
\* What a call may leave: no step but a commit adds a row, and that one is the
\* row of the call that commits.
LEMMA PublishAddsRow ==
  ASSUME TypeOK, NEW c \in Calls, Publish(c)
  PROVE  /\ PostedBy(c)'
         /\ \A d \in Calls : PostedBy(d) => PostedBy(d)'
         /\ \A d \in Calls \ {c} : PostedBy(d)' => PostedBy(d)
         /\ \A u \in Users, r \in Refs \cup {NoRef} : Posted(u, r) => Posted(u, r)'
<1> DEFINE u == call[c].user
           rows == ledger[u]
           more == Append(rows, RowOf(c))
<1>1. /\ u \in Users /\ RowOf(c) \in Rows /\ RowOf(c).call = c
      /\ rows \in Seq(Rows)
  BY UserOfCall, RowIsRow DEF TypeOK, RowOf
<1>2. /\ Len(rows) \in Nat /\ Len(more) = Len(rows) + 1
      /\ \A i \in 1 .. Len(rows) : more[i] = rows[i]
      /\ more[Len(rows) + 1] = RowOf(c)
      /\ DOMAIN rows = 1 .. Len(rows) /\ DOMAIN more = 1 .. Len(more)
  BY <1>1, AppendProperties, LenProperties
<1>3. /\ ledger'[u] = more
      /\ \A v \in Users \ {u} : ledger'[v] = ledger[v]
  BY <1>1 DEF Publish, TypeOK
<1>4. \A i \in 1 .. Len(more) : i \in 1 .. Len(rows) \/ i = Len(rows) + 1
  BY <1>2
<1>5. Len(rows) + 1 \in 1 .. Len(more)
  BY <1>2
<1> HIDE DEF u, rows, more
<1>6. PostedBy(c)'
  BY <1>1, <1>2, <1>3, <1>5 DEF PostedBy
<1>7. ASSUME NEW d \in Calls \ {c}, PostedBy(d)' PROVE PostedBy(d)
  <2>1. PICK v \in Users : \E i \in 1 .. Len(ledger'[v]) : ledger'[v][i].call = d
    BY <1>7 DEF PostedBy
  <2>2. CASE v = u
    BY <1>1, <1>2, <1>3, <1>4, <1>7, <2>1, <2>2 DEF PostedBy, rows
  <2> QED
    BY <1>3, <2>1, <2>2 DEF PostedBy
<1>8. ASSUME NEW v \in Users, NEW r \in Refs \cup {NoRef}, Posted(v, r)
      PROVE  Posted(v, r)'
  <2>1. CASE v = u
    <3>1. PICK i \in DOMAIN rows : rows[i].ref = r
      BY <1>8, <2>1 DEF Posted, rows
    <3>2. i \in DOMAIN more /\ more[i].ref = r
      BY <1>2, <3>1
    <3> QED
      BY <1>3, <1>8, <2>1, <3>2 DEF Posted
  <2> QED
    BY <1>3, <1>8, <2>1 DEF Posted
<1>9. ASSUME NEW d \in Calls, PostedBy(d) PROVE PostedBy(d)'
  <2>1. PICK v \in Users : \E i \in 1 .. Len(ledger[v]) : ledger[v][i].call = d
    BY <1>9 DEF PostedBy
  <2>2. CASE v = u
    <3>1. PICK i \in 1 .. Len(rows) : rows[i].call = d
      BY <2>1, <2>2 DEF rows
    <3>2. i \in 1 .. Len(more) /\ more[i].call = d
      BY <1>2, <3>1
    <3> QED
      BY <1>1, <1>3, <3>2 DEF PostedBy
  <2> QED
    BY <1>3, <2>1, <2>2 DEF PostedBy
<1> QED
  BY <1>6, <1>7, <1>8, <1>9

\* Every other step.
LEMMA AnswerStays ==
  ASSUME TypeOK, TypeOK', AnswerIsTrue, UNCHANGED <<ledger, call>>,
         \A c \in Calls : \/ pc'[c] \in {pc[c], "failed"}
                          \/ pc'[c] \in Pc \ {"applied", "duplicate"} /\ pc[c] \in {"new"} \cup Open
                          \/ pc'[c] = "duplicate" /\ pc[c] \in Open
                               /\ Posted(call[c].user, call[c].ref)
  PROVE  AnswerIsTrue'
<1>1. \A c \in Calls : PostedBy(c)' = PostedBy(c)
  BY DEF PostedBy
<1>2. \A c \in Calls : Posted(call[c].user, call[c].ref)'
                         = Posted(call[c].user, call[c].ref)
  BY DEF Posted
<1> QED
  BY <1>1, <1>2 DEF AnswerIsTrue, Open

\* Whatever is answered is so, however calls interleave, fail or lose the
\* acknowledgement of their commit, with or without the unique index
\* (walletLedger.ts:82, :94, :150).
THEOREM AnswersAreTrue == Spec => []AnswerIsTrue
<1>1. Init => AnswerIsTrue
  BY DEF Init, AccountInit, AnswerIsTrue, PostedBy
<1>2. TypeOK /\ TypeOK' /\ AnswerIsTrue /\ [Next]_ledgerVars => AnswerIsTrue'
  <2> SUFFICES ASSUME TypeOK, TypeOK', AnswerIsTrue, [Next]_ledgerVars
               PROVE  AnswerIsTrue'
    OBVIOUS
  <2>1. ASSUME NEW c \in Calls, Read(c) PROVE AnswerIsTrue'
    <3>1. /\ UNCHANGED <<ledger, call>> /\ pc[c] = "new"
          /\ pc'[c] \in {"failed", "insufficient", "read"}
          /\ \A d \in Calls \ {c} : pc'[d] = pc[d]
      BY <2>1 DEF Read, Goto, TypeOK
    <3> QED
      BY <3>1, AnswerStays DEF Pc, Answers
  <2>2. ASSUME NEW c \in Calls, Save(c) PROVE AnswerIsTrue'
    <3>1. /\ UNCHANGED <<ledger, call>> /\ pc[c] = "read"
          /\ pc'[c] \in {"failed", "saved"}
          /\ \A d \in Calls \ {c} : pc'[d] = pc[d]
      BY <2>2 DEF Save, Goto, TypeOK
    <3> QED
      BY <3>1, AnswerStays DEF Pc, Answers, Open
  <2>3. ASSUME NEW c \in Calls, Insert(c) PROVE AnswerIsTrue'
    <3>1. /\ UNCHANGED <<ledger, call>> /\ pc[c] = "saved"
          /\ \/ pc'[c] = "duplicate" /\ Posted(call[c].user, call[c].ref)
             \/ pc'[c] = "inserted"
          /\ \A d \in Calls \ {c} : pc'[d] = pc[d]
      BY <2>3 DEF Insert, Goto, TypeOK
    <3> QED
      BY <3>1, AnswerStays DEF Pc, Answers, Open
  <2>4. ASSUME NEW c \in Calls, Commit(c) \/ CommitUnacknowledged(c)
        PROVE  AnswerIsTrue'
    <3>1. /\ Publish(c) /\ call' = call
          /\ pc'[c] \in {"applied", "failed"}
          /\ \A d \in Calls \ {c} : pc'[d] = pc[d]
      BY <2>4 DEF Commit, CommitUnacknowledged, Goto, TypeOK
    <3>2. ASSUME NEW d \in Calls \ {c}, Posted(call[d].user, call[d].ref)
          PROVE  Posted(call[d].user, call[d].ref)'
      BY <3>1, <3>2, PublishAddsRow, UserOfCall
    <3>3. /\ PostedBy(c)'
          /\ \A d \in Calls : PostedBy(d) => PostedBy(d)'
          /\ \A d \in Calls \ {c} : PostedBy(d)' => PostedBy(d)
      BY <3>1, PublishAddsRow
    <3> QED
      BY <3>1, <3>2, <3>3 DEF AnswerIsTrue
  <2>5. ASSUME NEW c \in Calls, Abort(c) PROVE AnswerIsTrue'
    <3>1. /\ UNCHANGED <<ledger, call>>
          /\ pc'[c] = "failed" /\ \A d \in Calls \ {c} : pc'[d] = pc[d]
      BY <2>5 DEF Abort, Goto, TypeOK
    <3> QED
      BY <3>1, AnswerStays
  <2>6. ASSUME NEW u \in Users, EnsureWallet(u) PROVE AnswerIsTrue'
    BY <2>6, AnswerStays DEF EnsureWallet
  <2>7. CASE UNCHANGED ledgerVars
    BY <2>7, AnswerStays DEF ledgerVars
  <2> QED
    BY <2>1, <2>2, <2>3, <2>4, <2>5, <2>6, <2>7 DEF Next, CallStep
<1> QED
  BY <1>1, <1>2, LedgerTypeOK, PTL DEF Spec

-----------------------------------------------------------------------------
(***************************************************************************)
(* The billing of shipments.                                               *)
(***************************************************************************)
\* What a request or the job is about to record of a debit is so: a settled
\* order was charged, and an order that was pending still is, or was charged.
RequestOK(o) ==
  /\ req[o].at = "persist" /\ req[o].settled => Charged(o)
  /\ req[o].at \in {"booked", "persist"} /\ req[o].pending =>
       Pending(o) \/ Charged(o)

JobOK ==
  /\ job.at # "idle" => job.todo # << >>
  /\ job.at = "persist" /\ job.settled => Charged(Head(job.todo))

Types ==
  /\ booked \in [Orders -> BOOLEAN]
  /\ queue \in Seq(Orders)
  /\ req \in [Orders -> [at: {"none", "checked", "booked", "persist"},
                         settled: BOOLEAN, pending: BOOLEAN]]
  /\ job \in [at: {"idle", "run", "persist"}, todo: Seq(Orders),
              seen: SUBSET Orders, settled: BOOLEAN]

ShipmentInv ==
  /\ AccountInv
  /\ Types
  /\ \A o \in Orders : RequestOK(o)
  /\ JobOK
  /\ ChargeTracked

\* ChargeTracked, for one order.
ChargedOrTracked(o) ==
  booked[o] /\ ~Charged(o) =>
    Pending(o) \/ req[o].at \in {"booked", "persist"} \/ o \in missed

-----------------------------------------------------------------------------
\* The queue: what is taken out of it, and what stays.
LEMMA RemovedOne ==
  ASSUME NEW s \in Seq(Orders), NEW j \in 1 .. Len(s)
  PROVE  /\ RemoveAt(s, j) \in Seq(Orders)
         /\ \A i \in 1 .. Len(s) : i # j => s[i] \in ToSet(RemoveAt(s, j))
         /\ DOMAIN RemoveAt(s, j) = 1 .. Len(s) - 1
         /\ \A i \in 1 .. Len(s) - 1 :
              RemoveAt(s, j)[i] = s[IF i < j THEN i ELSE i + 1]
<1> DEFINE a == SubSeq(s, 1, j - 1)
           b == SubSeq(s, j + 1, Len(s))
<1>1. /\ Len(s) \in Nat /\ j \in Nat /\ j >= 1 /\ j <= Len(s)
      /\ \A i \in 1 .. Len(s) : s[i] \in Orders
  BY LenProperties
<1>2. /\ a \in Seq(Orders) /\ Len(a) = j - 1
      /\ \A i \in 1 .. j - 1 : a[i] = s[i]
  <2>1. \A i \in 1 .. j - 1 : s[i] \in Orders
    BY <1>1
  <2>2. /\ SubSeq(s, 1, j - 1) \in Seq(Orders)
        /\ Len(SubSeq(s, 1, j - 1)) = IF 1 <= j - 1 THEN (j - 1) - 1 + 1 ELSE 0
        /\ \A i \in 1 .. (j - 1) - 1 + 1 : SubSeq(s, 1, j - 1)[i] = s[1 + i - 1]
    BY <1>1, <2>1, SubSeqProperties
  <2> QED
    BY <1>1, <2>2
<1>3. /\ b \in Seq(Orders) /\ Len(b) = Len(s) - j
      /\ \A i \in 1 .. Len(s) - j : b[i] = s[j + i]
  <2>1. \A i \in j + 1 .. Len(s) : s[i] \in Orders
    BY <1>1
  <2>2. /\ SubSeq(s, j + 1, Len(s)) \in Seq(Orders)
        /\ Len(SubSeq(s, j + 1, Len(s))) =
             IF j + 1 <= Len(s) THEN Len(s) - (j + 1) + 1 ELSE 0
        /\ \A i \in 1 .. Len(s) - (j + 1) + 1 :
             SubSeq(s, j + 1, Len(s))[i] = s[(j + 1) + i - 1]
    BY <1>1, <2>1, SubSeqProperties
  <2> QED
    BY <1>1, <2>2
<1>4. RemoveAt(s, j) = a \o b
  BY DEF RemoveAt
<1> HIDE DEF a, b
<1>5. /\ a \o b \in Seq(Orders)
      /\ Len(a \o b) = Len(s) - 1
      /\ DOMAIN (a \o b) = 1 .. Len(s) - 1
      /\ \A i \in 1 .. j - 1 : (a \o b)[i] = s[i]
      /\ \A i \in 1 .. Len(s) - j : (a \o b)[j - 1 + i] = s[j + i]
  <2>1. /\ a \o b \in Seq(Orders)
        /\ Len(a \o b) = Len(a) + Len(b)
        /\ \A i \in 1 .. Len(a) + Len(b) :
             (a \o b)[i] = IF i <= Len(a) THEN a[i] ELSE b[i - Len(a)]
    BY <1>2, <1>3, ConcatProperties
  <2>2. DOMAIN (a \o b) = 1 .. Len(a \o b)
    BY <2>1, LenProperties
  <2> QED
    BY <1>1, <1>2, <1>3, <2>1, <2>2
<1>6. ASSUME NEW i \in 1 .. Len(s), i # j
      PROVE  \E k \in DOMAIN (a \o b) : (a \o b)[k] = s[i]
  <2>1. CASE i < j
    BY <1>1, <1>5, <2>1
  <2>2. CASE i > j
    <3>1. PICK d \in 1 .. Len(s) - j : i = j + d
      <4>1. i - j \in 1 .. Len(s) - j /\ i = j + (i - j)
        BY <1>1, <2>2
      <4> QED
        BY <4>1
    <3>2. (a \o b)[j - 1 + d] = s[i] /\ j - 1 + d \in 1 .. Len(s) - 1
      <4>1. j - 1 + d \in 1 .. Len(s) - 1
        BY <1>1, <3>1
      <4>2. (a \o b)[j - 1 + d] = s[j + d]
        BY <1>5, <3>1
      <4> QED
        BY <3>1, <4>1, <4>2
    <3> QED
      BY <1>5, <3>2
  <2> QED
    BY <1>1, <1>6, <2>1, <2>2
<1>7. ASSUME NEW i \in 1 .. Len(s) - 1
      PROVE  (a \o b)[i] = s[IF i < j THEN i ELSE i + 1]
  <2>1. CASE i < j
    BY <1>1, <1>5, <2>1
  <2>2. CASE ~(i < j)
    <3>1. PICK d \in 1 .. Len(s) - j : i = j - 1 + d
      <4>1. i - j + 1 \in 1 .. Len(s) - j /\ i = j - 1 + (i - j + 1)
        BY <1>1, <2>2
      <4> QED
        BY <4>1
    <3>2. j + d = i + 1
      BY <1>1, <3>1
    <3>3. (a \o b)[j - 1 + d] = s[j + d]
      BY <1>5, <3>1
    <3> QED
      BY <2>2, <3>1, <3>2, <3>3
  <2> QED
    BY <2>1, <2>2
<1> QED
  BY <1>4, <1>5, <1>6, <1>7 DEF ToSet

LEMMA QueueKeeps ==
  ASSUME queue \in Seq(Orders), NEW o \in Orders
  PROVE  /\ Cleared(o) \in Seq(Orders)
         /\ Marked(o) \in Seq(Orders)
         /\ Postponed(o) \in Seq(Orders)
         /\ \A x \in Orders :
              /\ Pending(x) /\ x # o => x \in ToSet(Cleared(o))
              /\ Pending(x) \/ x = o => x \in ToSet(Marked(o))
              /\ Pending(x) => x \in ToSet(Postponed(o))
<1>1. DOMAIN queue = 1 .. Len(queue)
  BY LenProperties
<1>2. /\ Cleared(o) \in Seq(Orders)
      /\ \A x \in Orders : Pending(x) /\ x # o => x \in ToSet(Cleared(o))
  <2>1. CASE Pending(o)
    <3> DEFINE j == CHOOSE i \in DOMAIN queue : queue[i] = o
    <3>1. j \in 1 .. Len(queue) /\ queue[j] = o
      BY <1>1, <2>1 DEF Pending, ToSet
    <3>2. Cleared(o) = RemoveAt(queue, j)
      BY <2>1 DEF Cleared
    <3> HIDE DEF j
    <3>3. \A x \in Orders : Pending(x) /\ x # o =>
            \E i \in 1 .. Len(queue) : i # j /\ queue[i] = x
      BY <1>1, <3>1 DEF Pending, ToSet
    <3>4. /\ RemoveAt(queue, j) \in Seq(Orders)
          /\ \A i \in 1 .. Len(queue) :
               i # j => queue[i] \in ToSet(RemoveAt(queue, j))
      BY <3>1, RemovedOne
    <3> QED
      BY <3>2, <3>3, <3>4
  <2>2. CASE ~Pending(o)
    BY <2>2 DEF Cleared, Pending
  <2> QED
    BY <2>1, <2>2
<1>3. /\ Marked(o) \in Seq(Orders)
      /\ \A x \in Orders : Pending(x) \/ x = o => x \in ToSet(Marked(o))
  <2> DEFINE c == Cleared(o)
  <2>1. Marked(o) = Append(c, o)
    BY DEF Marked
  <2> HIDE DEF c
  <2>2. c \in Seq(Orders) /\ \A x \in Orders : Pending(x) /\ x # o => x \in ToSet(c)
    BY <1>2 DEF c
  <2>3. /\ Append(c, o) \in Seq(Orders)
        /\ Len(Append(c, o)) = Len(c) + 1
        /\ \A i \in 1 .. Len(c) : Append(c, o)[i] = c[i]
        /\ Append(c, o)[Len(c) + 1] = o
    BY <2>2, AppendProperties
  <2>4. /\ Len(c) \in Nat /\ DOMAIN c = 1 .. Len(c)
        /\ DOMAIN Append(c, o) = 1 .. Len(c) + 1
    BY <2>2, <2>3, LenProperties
  <2>5. ToSet(c) \cup {o} \subseteq ToSet(Append(c, o))
    BY <2>3, <2>4 DEF ToSet
  <2> QED
    BY <2>1, <2>2, <2>3, <2>5
<1>4. /\ Postponed(o) \in Seq(Orders)
      /\ \A x \in Orders : Pending(x) => x \in ToSet(Postponed(o))
  BY <1>3 DEF Postponed, Pending
<1> QED
  BY <1>2, <1>3, <1>4

\* An order stands in the queue once, and clearing takes it out.
LEMMA QueueOnce ==
  ASSUME queue \in Seq(Orders), IsInjective(queue), NEW o \in Orders
  PROVE  /\ IsInjective(Cleared(o)) /\ IsInjective(Marked(o))
         /\ o \notin ToSet(Cleared(o))
         /\ \A x \in Orders : x # o =>
              /\ x \in ToSet(Cleared(o)) => Pending(x)
              /\ x \in ToSet(Marked(o)) => Pending(x)
<1>1. DOMAIN queue = 1 .. Len(queue) /\ Len(queue) \in Nat
  BY LenProperties
<1>2. /\ Cleared(o) \in Seq(Orders) /\ IsInjective(Cleared(o))
      /\ o \notin ToSet(Cleared(o))
      /\ \A x \in Orders : x \in ToSet(Cleared(o)) => Pending(x)
  <2>1. CASE Pending(o)
    <3> DEFINE j == CHOOSE i \in DOMAIN queue : queue[i] = o
               t == RemoveAt(queue, j)
    <3>1. j \in 1 .. Len(queue) /\ queue[j] = o
      BY <1>1, <2>1 DEF Pending, ToSet
    <3>2. Cleared(o) = t
      BY <2>1 DEF Cleared
    <3> HIDE DEF j
    <3>3. /\ t \in Seq(Orders) /\ DOMAIN t = 1 .. Len(queue) - 1
          /\ \A i \in 1 .. Len(queue) - 1 :
               t[i] = queue[IF i < j THEN i ELSE i + 1]
      BY <3>1, RemovedOne
    <3> HIDE DEF t
    <3>4. \A i \in 1 .. Len(queue) - 1 :
            /\ (IF i < j THEN i ELSE i + 1) \in 1 .. Len(queue)
            /\ (IF i < j THEN i ELSE i + 1) # j
      BY <1>1, <3>1
    <3>5. \A i, k \in 1 .. Len(queue) - 1 : t[i] = t[k] => i = k
      <4>1. TAKE i, k \in 1 .. Len(queue) - 1
      <4>2. HAVE t[i] = t[k]
      <4>3. (IF i < j THEN i ELSE i + 1) = (IF k < j THEN k ELSE k + 1)
        BY <1>1, <3>3, <3>4, <4>2 DEF IsInjective
      <4> QED
        BY <1>1, <3>1, <4>3
    <3>6. \A i \in 1 .. Len(queue) - 1 : t[i] # o
      BY <1>1, <3>1, <3>3, <3>4 DEF IsInjective
    <3>7. \A x \in ToSet(t) : Pending(x)
      BY <1>1, <3>3, <3>4 DEF Pending, ToSet
    <3> QED
      BY <3>2, <3>3, <3>5, <3>6, <3>7 DEF ToSet, IsInjective
  <2>2. CASE ~Pending(o)
    BY <2>2 DEF Cleared, Pending
  <2> QED
    BY <2>1, <2>2
<1>3. /\ IsInjective(Marked(o))
      /\ \A x \in Orders : x # o /\ x \in ToSet(Marked(o)) => Pending(x)
  <2> DEFINE c == Cleared(o)
  <2>1. Marked(o) = Append(c, o)
    BY DEF Marked
  <2> HIDE DEF c
  <2>2. /\ c \in Seq(Orders) /\ IsInjective(c) /\ o \notin ToSet(c)
        /\ \A x \in Orders : x \in ToSet(c) => Pending(x)
    BY <1>2 DEF c
  <2>3. /\ Append(c, o) \in Seq(Orders)
        /\ Len(Append(c, o)) = Len(c) + 1
        /\ \A i \in 1 .. Len(c) : Append(c, o)[i] = c[i]
        /\ Append(c, o)[Len(c) + 1] = o
    BY <2>2, AppendProperties
  <2>4. /\ Len(c) \in Nat /\ DOMAIN c = 1 .. Len(c)
        /\ DOMAIN Append(c, o) = 1 .. Len(c) + 1
    BY <2>2, <2>3, LenProperties
  <2>5. \A i \in 1 .. Len(c) : c[i] # o
    BY <2>2, <2>4 DEF ToSet
  <2>6. \A i, k \in 1 .. Len(c) + 1 :
          Append(c, o)[i] = Append(c, o)[k] => i = k
    BY <2>2, <2>3, <2>4, <2>5 DEF IsInjective
  <2>7. \A x \in Orders : x # o /\ x \in ToSet(Append(c, o)) => x \in ToSet(c)
    BY <2>3, <2>4 DEF ToSet
  <2> QED
    BY <2>1, <2>2, <2>4, <2>6, <2>7 DEF IsInjective
<1> QED
  BY <1>2, <1>3

-----------------------------------------------------------------------------
\* The account: what is charged stays charged, and a debit that answers so has
\* charged the order.
LEMMA PostCharges ==
  ASSUME AccountInv, NEW c \in {"shipment", "adjust"}, NEW type \in Signs,
         NEW a \in Amounts, NEW r \in Orders \cup {NoRef},
         Post(c, User, type, a, r)
  PROVE  /\ AccountInv'
         /\ \A x \in Orders : Charged(x) \/ x = r => Charged(x)'
<1>1. c \in Calls /\ User \in Users /\ r \in Refs \cup {NoRef}
  BY ShipmentAssumption
<1>2. AccountInv'
  BY <1>1, PostKeepsInv
<1>3. ledger \in [Users -> Seq(Rows)] /\ ledger' \in [Users -> Seq(Rows)]
  BY <1>2 DEF AccountInv, AccountTypeOK
<1>4. PICK row : row.ref = r /\ ledger'[User] = Append(ledger[User], row)
  BY <1>1, <1>3 DEF Post
<1>5. /\ Len(ledger'[User]) = Len(ledger[User]) + 1
      /\ \A i \in 1 .. Len(ledger[User]) : ledger'[User][i] = ledger[User][i]
      /\ ledger'[User][Len(ledger[User]) + 1] = row
  BY <1>1, <1>3, <1>4
<1>6. /\ DOMAIN ledger[User] = 1 .. Len(ledger[User])
      /\ DOMAIN ledger'[User] = 1 .. Len(ledger'[User])
      /\ Len(ledger[User]) \in Nat
  BY <1>1, <1>3, LenProperties
<1>7. \A x \in Orders : Charged(x) \/ x = r => Charged(x)'
  BY <1>4, <1>5, <1>6 DEF Charged
<1> QED
  BY <1>2, <1>7

LEMMA DebitCharges ==
  ASSUME AccountInv, NEW o \in Orders, NEW outcome \in Outcomes, Debit(o, outcome)
  PROVE  /\ AccountInv'
         /\ \A x \in Orders : Charged(x) => Charged(x)'
         /\ outcome \in Settled => \A x \in Orders : x = o => Charged(x)'
<1>1. Charge[o] \in Amounts /\ "Debit" \in Signs
  BY ShipmentAssumption DEF Signs
<1>2. CASE Post("shipment", User, "Debit", Charge[o], o)
  BY <1>1, <1>2, PostCharges
<1>3. CASE UNCHANGED accountVars
  <2>1. AccountInv'
    BY <1>3 DEF accountVars, AccountInv, AccountTypeOK, NoOverdraft, RunningBalance,
       PostedOnce
  <2>2. \A x \in Orders : Charged(x) => Charged(x)'
    BY <1>3 DEF accountVars, Charged
  <2>3. CASE outcome \in Settled
    <3>1. Posted(User, o) \/ Post("shipment", User, "Debit", Charge[o], o)
      BY <2>3 DEF Debit, Settled
    <3>2. Posted(User, o) => Charged(o)
      BY DEF Posted, Charged
    <3> QED
      BY <1>2, <2>1, <2>2, <3>1, <3>2
  <2> QED
    BY <2>1, <2>2, <2>3
<1> QED
  BY <1>2, <1>3 DEF Debit

-----------------------------------------------------------------------------
LEMMA InitShipment == ShipmentInit => ShipmentInv
<1> SUFFICES ASSUME ShipmentInit PROVE ShipmentInv
  OBVIOUS
<1>1. AccountInv
  BY AccountInitInv DEF ShipmentInit
<1>2. Types
  BY DEF ShipmentInit, Types, NoRequest, NoJob
<1>3. \A o \in Orders : RequestOK(o)
  BY DEF ShipmentInit, RequestOK, NoRequest
<1>4. JobOK /\ ChargeTracked
  BY DEF ShipmentInit, JobOK, NoJob, ChargeTracked
<1> QED
  BY <1>1, <1>2, <1>3, <1>4 DEF ShipmentInv

\* Steps that forget no charge and take no order off the queue uncharged leave
\* the requests and the orders they do not touch as they were.
Careful ==
  \A x \in Orders :
    /\ Charged(x) => Charged(x)'
    /\ Pending(x) => Pending(x)' \/ Charged(x)'

LEMMA Untouched ==
  ASSUME ShipmentInv, Careful, NEW o \in Orders, req'[o] = req[o]
  PROVE  /\ RequestOK(o)'
         /\ (booked'[o] => booked[o]) /\ (o \in missed => o \in missed' \/ Pending(o)')
              => ChargedOrTracked(o)'
<1>1. RequestOK(o) /\ ChargedOrTracked(o)
  BY DEF ShipmentInv, ChargeTracked, ChargedOrTracked
<1>2. /\ Charged(o) => Charged(o)'
      /\ Pending(o) => Pending(o)' \/ Charged(o)'
  BY DEF Careful
<1>3. RequestOK(o)'
  BY <1>1, <1>2 DEF RequestOK
<1>4. ASSUME booked'[o] => booked[o], o \in missed => o \in missed' \/ Pending(o)'
      PROVE  ChargedOrTracked(o)'
  BY <1>1, <1>2, <1>4 DEF ChargedOrTracked
<1> QED
  BY <1>3, <1>4

LEMMA Same ==
  ASSUME AccountInv, UNCHANGED accountVars
  PROVE  AccountInv' /\ \A x \in Orders : Charged(x) => Charged(x)'
  BY DEF accountVars, AccountInv, AccountTypeOK, NoOverdraft, RunningBalance,
     PostedOnce, Charged

\* What the steps of a request keep, and what they must say of its order.
LEMMA RequestKeeps ==
  ASSUME ShipmentInv, NEW o \in Orders,
         Precheck(o) \/ RequestStep(o) \/ RequestDies(o)
  PROVE  /\ AccountInv' /\ Types' /\ Careful
         /\ RequestOK(o)' /\ ChargedOrTracked(o)'
         /\ \A p \in Orders \ {o} :
              /\ req'[p] = req[p] /\ booked'[p] = booked[p]
              /\ p \in missed => p \in missed'
         /\ UNCHANGED job
<1> DEFINE G == /\ AccountInv' /\ Types' /\ Careful
                /\ RequestOK(o)' /\ ChargedOrTracked(o)'
                /\ \A p \in Orders \ {o} :
                     /\ req'[p] = req[p] /\ booked'[p] = booked[p]
                     /\ p \in missed => p \in missed'
                /\ UNCHANGED job
<1>0. /\ AccountInv /\ Types /\ RequestOK(o) /\ ChargedOrTracked(o)
      /\ req \in [Orders -> [at: {"none", "checked", "booked", "persist"},
                             settled: BOOLEAN, pending: BOOLEAN]]
      /\ booked \in [Orders -> BOOLEAN]
      /\ queue \in Seq(Orders)
  BY DEF ShipmentInv, Types, ChargeTracked, ChargedOrTracked
<1>1. CASE Precheck(o)
  <2>1. /\ AccountInv' /\ UNCHANGED <<booked, queue, job, missed>>
        /\ \A x \in Orders : Charged(x) => Charged(x)'
    BY <1>0, <1>1, Same DEF Precheck
  <2>2. Careful
    BY <2>1 DEF Careful, Pending
  <2>3. /\ req' = [req EXCEPT ![o].at = "checked"] /\ req[o].at = "none"
        /\ req' \in [Orders -> [at: {"none", "checked", "booked", "persist"},
                                settled: BOOLEAN, pending: BOOLEAN]]
        /\ req'[o].at = "checked"
    BY <1>0, <1>1 DEF Precheck
  <2>4. RequestOK(o)' /\ ChargedOrTracked(o)'
    BY <1>0, <2>1, <2>2, <2>3 DEF RequestOK, ChargedOrTracked, Careful
  <2> QED
    BY <1>0, <2>1, <2>2, <2>3, <2>4 DEF Types
<1>2. CASE Book(o)
  <2>1. /\ AccountInv' /\ UNCHANGED <<queue, job>>
        /\ \A x \in Orders : Charged(x) => Charged(x)'
    BY <1>0, <1>2, Same DEF Book
  <2>2. Careful
    BY <2>1 DEF Careful, Pending
  <2>3. CASE /\ booked' = [booked EXCEPT ![o] = TRUE]
             /\ req' = [req EXCEPT ![o] = [@ EXCEPT !.at = "booked",
                                                    !.pending = Pending(o)]]
             /\ missed' = missed \ {o}
    <3> DEFINE r == [req[o] EXCEPT !.at = "booked", !.pending = Pending(o)]
    <3>1. Pending(o) \in BOOLEAN
      BY DEF Pending
    <3>2. /\ r \in [at: {"none", "checked", "booked", "persist"},
                    settled: BOOLEAN, pending: BOOLEAN]
          /\ r.at = "booked" /\ r.pending = Pending(o)
      BY <1>0, <3>1
    <3>3. req' = [req EXCEPT ![o] = r]
      BY <2>3
    <3> HIDE DEF r
    <3>4. /\ req' \in [Orders -> [at: {"none", "checked", "booked", "persist"},
                                  settled: BOOLEAN, pending: BOOLEAN]]
          /\ req'[o] = r /\ \A p \in Orders \ {o} : req'[p] = req[p]
      BY <1>0, <3>2, <3>3
    <3>5. /\ booked' \in [Orders -> BOOLEAN]
          /\ \A p \in Orders \ {o} : booked'[p] = booked[p]
      BY <1>0, <2>3
    <3>6. RequestOK(o)' /\ ChargedOrTracked(o)'
      BY <2>2, <3>2, <3>4 DEF RequestOK, ChargedOrTracked, Careful
    <3> QED
      BY <1>0, <2>1, <2>2, <2>3, <3>4, <3>5, <3>6 DEF Types
  <2>4. CASE req' = [req EXCEPT ![o] = NoRequest] /\ UNCHANGED <<booked, missed>>
    <3>1. /\ req' \in [Orders -> [at: {"none", "checked", "booked", "persist"},
                                  settled: BOOLEAN, pending: BOOLEAN]]
          /\ req'[o].at = "none" /\ \A p \in Orders \ {o} : req'[p] = req[p]
      BY <1>0, <2>4 DEF NoRequest
    <3>2. RequestOK(o)' /\ ChargedOrTracked(o)'
      BY <1>0, <1>2, <2>1, <2>2, <2>4, <3>1
         DEF Book, RequestOK, ChargedOrTracked, Careful
    <3> QED
      BY <1>0, <2>1, <2>2, <2>4, <3>1, <3>2 DEF Types
  <2> QED
    BY <1>2, <2>3, <2>4 DEF Book
<1>3. CASE AwaitAwb(o)
  <2>1. /\ AccountInv' /\ UNCHANGED <<booked, job, missed>>
        /\ \A x \in Orders : Charged(x) => Charged(x)'
    BY <1>0, <1>3, Same DEF AwaitAwb
  <2>2. queue' = Marked(o) /\ queue' \in Seq(Orders)
        /\ \A x \in Orders : Pending(x) \/ x = o => Pending(x)'
    BY <1>0, <1>3, QueueKeeps DEF AwaitAwb, Pending
  <2>3. /\ req' \in [Orders -> [at: {"none", "checked", "booked", "persist"},
                                settled: BOOLEAN, pending: BOOLEAN]]
        /\ req'[o].at = "none" /\ \A p \in Orders \ {o} : req'[p] = req[p]
    BY <1>0, <1>3 DEF AwaitAwb, NoRequest
  <2>4. RequestOK(o)' /\ ChargedOrTracked(o)' /\ Careful
    BY <2>1, <2>2, <2>3 DEF RequestOK, ChargedOrTracked, Careful
  <2> QED
    BY <1>0, <2>1, <2>2, <2>3, <2>4 DEF Types
<1>4. CASE RequestDebit(o)
  <2>1. PICK outcome \in Outcomes :
          /\ Debit(o, outcome)
          /\ req' = [req EXCEPT ![o].at = "persist",
                                ![o].settled = outcome \in Settled]
    BY <1>4 DEF RequestDebit
  <2>2. /\ AccountInv'
        /\ \A x \in Orders : Charged(x) => Charged(x)'
        /\ outcome \in Settled => Charged(o)'
    BY <1>0, <2>1, DebitCharges
  <2>3. UNCHANGED <<booked, queue, job, missed>> /\ req[o].at = "booked"
    BY <1>4 DEF RequestDebit
  <2>4. /\ req' \in [Orders -> [at: {"none", "checked", "booked", "persist"},
                                settled: BOOLEAN, pending: BOOLEAN]]
        /\ req'[o].at = "persist" /\ req'[o].pending = req[o].pending
        /\ req'[o].settled = (outcome \in Settled)
        /\ \A p \in Orders \ {o} : req'[p] = req[p]
    <3> DEFINE t == outcome \in Settled
    <3>1. t \in BOOLEAN
      OBVIOUS
    <3>2. req' = [req EXCEPT ![o].at = "persist", ![o].settled = t]
      BY <2>1
    <3> HIDE DEF t
    <3>3. /\ req' \in [Orders -> [at: {"none", "checked", "booked", "persist"},
                                  settled: BOOLEAN, pending: BOOLEAN]]
          /\ req'[o].at = "persist" /\ req'[o].pending = req[o].pending
          /\ req'[o].settled = t
          /\ \A p \in Orders \ {o} : req'[p] = req[p]
      BY <1>0, <3>1, <3>2
    <3> QED
      BY <3>3 DEF t
  <2>5. Careful
    BY <2>2, <2>3 DEF Careful, Pending
  <2>6. RequestOK(o)' /\ ChargedOrTracked(o)'
    BY <1>0, <2>2, <2>3, <2>4, <2>5 DEF RequestOK, ChargedOrTracked, Careful
  <2> QED
    BY <1>0, <2>2, <2>3, <2>4, <2>5, <2>6 DEF Types
<1>5. CASE RequestPersist(o)
  <2>1. /\ AccountInv' /\ UNCHANGED <<booked, job, missed>>
        /\ \A x \in Orders : Charged(x) => Charged(x)'
        /\ req[o].at = "persist" /\ queue' = Tracked(o, req[o].pending, req[o].settled)
    BY <1>0, <1>5, Same DEF RequestPersist
  <2>2. queue' \in Seq(Orders)
    BY <1>0, <2>1, QueueKeeps DEF Tracked
  <2>3. \A x \in Orders : x # o /\ Pending(x) => Pending(x)'
    BY <1>0, <2>1, QueueKeeps DEF Tracked, Pending
  <2>4. Pending(o)' \/ Charged(o)'
    <3>1. CASE req[o].settled
      BY <1>0, <2>1, <3>1 DEF RequestOK
    <3>2. CASE ~req[o].settled /\ req[o].pending
      BY <1>0, <2>1, <3>2, QueueKeeps DEF RequestOK, Tracked, Pending
    <3>3. CASE ~req[o].settled /\ ~req[o].pending
      BY <1>0, <2>1, <3>3, QueueKeeps DEF Tracked, Pending
    <3> QED
      BY <3>1, <3>2, <3>3
  <2>5. /\ req' \in [Orders -> [at: {"none", "checked", "booked", "persist"},
                                settled: BOOLEAN, pending: BOOLEAN]]
        /\ req'[o].at = "none" /\ \A p \in Orders \ {o} : req'[p] = req[p]
    BY <1>0, <1>5 DEF RequestPersist, NoRequest
  <2>6. RequestOK(o)' /\ ChargedOrTracked(o)' /\ Careful
    BY <2>1, <2>3, <2>4, <2>5 DEF RequestOK, ChargedOrTracked, Careful
  <2> QED
    BY <1>0, <2>1, <2>2, <2>5, <2>6 DEF Types
<1>6. CASE RequestDies(o)
  <2>1. /\ AccountInv' /\ UNCHANGED <<booked, job, queue>>
        /\ \A x \in Orders : Charged(x) => Charged(x)'
        /\ missed \subseteq missed'
        /\ req[o].at # "checked" => o \in missed'
    BY <1>0, <1>6, Same DEF RequestDies
  <2>2. Careful
    BY <2>1 DEF Careful, Pending
  <2>3. /\ req' \in [Orders -> [at: {"none", "checked", "booked", "persist"},
                                settled: BOOLEAN, pending: BOOLEAN]]
        /\ req'[o].at = "none" /\ \A p \in Orders \ {o} : req'[p] = req[p]
    BY <1>0, <1>6 DEF RequestDies, NoRequest
  <2>4. RequestOK(o)' /\ ChargedOrTracked(o)'
    BY <1>0, <2>1, <2>2, <2>3 DEF RequestOK, ChargedOrTracked, Careful
  <2> QED
    BY <1>0, <2>1, <2>2, <2>3, <2>4 DEF Types
<1> QED
  BY <1>1, <1>2, <1>3, <1>4, <1>5, <1>6 DEF RequestStep

\* The job: what it has yet to do, and what it does of its next order.
LEMMA JobGoesOn ==
  ASSUME Types, job.at # "idle", job.todo # << >>
  PROVE  /\ NextOf(job) \in [at: {"idle", "run", "persist"}, todo: Seq(Orders),
                             seen: SUBSET Orders, settled: BOOLEAN]
         /\ NextOf(job).at \in {"idle", "run"}
         /\ NextOf(job).at # "idle" => NextOf(job).todo # << >>
         /\ Head(job.todo) \in Orders
<1>1. job.todo \in Seq(Orders)
  BY DEF Types
<1>2. /\ Head(job.todo) \in Orders /\ Tail(job.todo) \in Seq(Orders)
      /\ Len(Tail(job.todo)) = Len(job.todo) - 1 /\ Len(job.todo) \in Nat \ {0}
  BY <1>1, HeadTailProperties, EmptySeq
<1>3. Len(job.todo) # 1 => Tail(job.todo) # << >>
  <2>1. \A t \in Seq(Orders) : t = << >> => Len(t) = 0
    BY EmptySeq
  <2>2. Len(job.todo) # 1 => Len(Tail(job.todo)) # 0
    BY <1>2
  <2> QED
    BY <1>2, <2>1, <2>2
<1> QED
  BY <1>1, <1>2, <1>3 DEF NextOf, Types

LEMMA JobKeeps ==
  ASSUME ShipmentInv, JobStep \/ JobFails
  PROVE  /\ AccountInv' /\ Types' /\ Careful /\ JobOK'
         /\ UNCHANGED <<req, booked, missed>>
<1> DEFINE G == /\ AccountInv' /\ Types' /\ Careful /\ JobOK'
                /\ UNCHANGED <<req, booked, missed>>
<1>0. /\ AccountInv /\ Types /\ JobOK
      /\ job \in [at: {"idle", "run", "persist"}, todo: Seq(Orders),
                  seen: SUBSET Orders, settled: BOOLEAN]
      /\ queue \in Seq(Orders)
  BY DEF ShipmentInv, Types
<1>1. CASE JobStart
  <2>1. /\ AccountInv' /\ UNCHANGED <<booked, queue, req, missed>>
        /\ \A x \in Orders : Charged(x) => Charged(x)'
    BY <1>0, <1>1, Same DEF JobStart
  <2> DEFINE n == Min({Batch, Len(queue)})
             batch == SubSeq(queue, 1, n)
  <2>2. n \in 1 .. Len(queue)
    <3>1. Batch \in Nat \ {0} /\ Len(queue) \in Nat \ {0}
      BY <1>0, <1>1, ShipmentAssumption, EmptySeq DEF JobStart
    <3>2. \E x \in {Batch, Len(queue)} : \A y \in {Batch, Len(queue)} : x <= y
      BY <3>1
    <3>3. n \in {Batch, Len(queue)} /\ \A y \in {Batch, Len(queue)} : n <= y
      BY <3>2 DEF Min
    <3> QED
      BY <3>1, <3>3
  <2> HIDE DEF n
  <2>3. batch \in Seq(Orders) /\ batch # << >>
    <3>1. Len(queue) \in Nat /\ \A i \in 1 .. n : queue[i] \in Orders
      BY <1>0, <2>2, LenProperties
    <3>2. /\ SubSeq(queue, 1, n) \in Seq(Orders)
          /\ Len(SubSeq(queue, 1, n)) = IF 1 <= n THEN n - 1 + 1 ELSE 0
      BY <2>2, <3>1, SubSeqProperties
    <3>3. Len(batch) # 0
      BY <2>2, <3>1, <3>2
    <3> QED
      BY <3>2, <3>3, EmptySeq
  <2>4. job' = [NoJob EXCEPT !.at = "run", !.todo = batch,
                             !.seen = {o \in ToSet(batch) : booked[o]}]
    BY <1>1 DEF JobStart, n
  <2>5. ToSet(batch) \subseteq Orders
    BY <2>3, LenProperties DEF ToSet
  <2> HIDE DEF batch
  <2>6. /\ job' \in [at: {"idle", "run", "persist"}, todo: Seq(Orders),
                     seen: SUBSET Orders, settled: BOOLEAN]
        /\ job'.at = "run" /\ job'.todo = batch
    BY <2>3, <2>4, <2>5 DEF NoJob
  <2> QED
    BY <1>0, <2>1, <2>3, <2>6 DEF Types, JobOK, Careful, Pending
<1>2. CASE JobSkip
  <2>1. /\ AccountInv' /\ UNCHANGED <<booked, queue, req, missed>>
        /\ \A x \in Orders : Charged(x) => Charged(x)'
        /\ job.at = "run" /\ job' = NextOf(job)
    BY <1>0, <1>2, Same DEF JobSkip
  <2> QED
    BY <1>0, <2>1, JobGoesOn DEF Types, JobOK, Careful, Pending
<1>3. CASE JobDebit
  <2>1. PICK outcome \in Outcomes :
          /\ Debit(Head(job.todo), outcome)
          /\ job' = [job EXCEPT !.at = "persist", !.settled = outcome \in Settled]
    BY <1>3 DEF JobDebit
  <2>2. UNCHANGED <<booked, queue, req, missed>> /\ job.at = "run"
    BY <1>3 DEF JobDebit
  <2>3. job.todo # << >> /\ Head(job.todo) \in Orders
    BY <1>0, <2>2, JobGoesOn DEF JobOK
  <2>4. /\ AccountInv'
        /\ \A x \in Orders : Charged(x) => Charged(x)'
        /\ outcome \in Settled => \A x \in Orders : x = Head(job.todo) => Charged(x)'
    BY <1>0, <2>1, <2>3, DebitCharges
  <2>5. /\ job' \in [at: {"idle", "run", "persist"}, todo: Seq(Orders),
                     seen: SUBSET Orders, settled: BOOLEAN]
        /\ job'.at = "persist" /\ job'.todo = job.todo
        /\ job'.settled = (outcome \in Settled)
    <3> DEFINE t == outcome \in Settled
    <3>1. t \in BOOLEAN /\ job' = [job EXCEPT !.at = "persist", !.settled = t]
      BY <2>1
    <3> HIDE DEF t
    <3>2. /\ job' \in [at: {"idle", "run", "persist"}, todo: Seq(Orders),
                       seen: SUBSET Orders, settled: BOOLEAN]
          /\ job'.at = "persist" /\ job'.todo = job.todo
          /\ job'.settled = t
      BY <1>0, <3>1
    <3> QED
      BY <3>2 DEF t
  <2>6. JobOK'
    <3>1. PICK h \in Orders : h = Head(job.todo)
      BY <2>3
    <3>2. job'.settled => Charged(h)'
      BY <2>4, <2>5, <3>1
    <3> QED
      BY <2>3, <2>5, <3>1, <3>2 DEF JobOK, Charged
  <2> QED
    BY <1>0, <2>2, <2>4, <2>5, <2>6 DEF Types, Careful, Pending
<1>4. CASE JobPersist
  <2>1. /\ AccountInv' /\ UNCHANGED <<booked, req, missed>>
        /\ \A x \in Orders : Charged(x) => Charged(x)'
        /\ job.at = "persist" /\ job' = NextOf(job)
        /\ queue' = Tracked(Head(job.todo), TRUE, job.settled)
    BY <1>0, <1>4, Same DEF JobPersist
  <2>2. PICK h \in Orders : h = Head(job.todo)
    BY <1>0, <2>1, JobGoesOn DEF JobOK
  <2>3. queue' = Tracked(h, TRUE, job.settled) /\ (job.settled => Charged(h)')
    BY <1>0, <2>1, <2>2 DEF JobOK
  <2>4. queue' \in Seq(Orders)
    BY <1>0, <2>3, QueueKeeps DEF Tracked
  <2>5. Careful
    <3>1. CASE job.settled
      BY <1>0, <2>1, <2>3, <3>1, QueueKeeps DEF Careful, Tracked, Pending
    <3>2. CASE ~job.settled
      BY <1>0, <2>1, <2>3, <3>2, QueueKeeps DEF Careful, Tracked, Pending
    <3> QED
      BY <3>1, <3>2
  <2> QED
    BY <1>0, <2>1, <2>4, <2>5, JobGoesOn DEF Types, JobOK
<1>5. CASE JobFails
  <2>1. /\ AccountInv' /\ UNCHANGED <<booked, queue, req, missed>>
        /\ \A x \in Orders : Charged(x) => Charged(x)'
        /\ job.at # "idle" /\ (job' = NextOf(job) \/ job' = NoJob)
    BY <1>0, <1>5, Same DEF JobFails
  <2>2. Careful
    BY <2>1 DEF Careful, Pending
  <2>3. CASE job' = NextOf(job)
    BY <1>0, <2>1, <2>2, <2>3, JobGoesOn DEF Types, JobOK
  <2>4. CASE job' = NoJob
    BY <1>0, <2>1, <2>2, <2>4 DEF Types, JobOK, NoJob
  <2> QED
    BY <2>1, <2>3, <2>4
<1> QED
  BY <1>1, <1>2, <1>3, <1>4, <1>5 DEF JobStep

\* Cancellations and the other postings touch no request.
LEMMA OthersKeep ==
  ASSUME ShipmentInv, (\E o \in Orders : Cancel(o)) \/ Adjust \/ UNCHANGED shipVars
  PROVE  /\ AccountInv' /\ Types' /\ Careful /\ UNCHANGED <<req, job, missed>>
         /\ \A x \in Orders : booked'[x] => booked[x]
<1>0. /\ AccountInv /\ Types /\ booked \in [Orders -> BOOLEAN]
      /\ queue \in Seq(Orders)
  BY DEF ShipmentInv, Types
<1> DEFINE G == /\ AccountInv' /\ Types' /\ Careful /\ UNCHANGED <<req, job, missed>>
                /\ \A x \in Orders : booked'[x] => booked[x]
<1>1. ASSUME NEW o \in Orders, Cancel(o) PROVE G
  <2>1. /\ AccountInv' /\ UNCHANGED <<queue, req, job, missed>>
        /\ \A x \in Orders : Charged(x) => Charged(x)'
        /\ booked' = [booked EXCEPT ![o] = FALSE]
    BY <1>0, <1>1, Same DEF Cancel
  <2>2. booked' \in [Orders -> BOOLEAN] /\ \A x \in Orders : booked'[x] => booked[x]
    BY <1>0, <2>1
  <2> QED
    BY <1>0, <2>1, <2>2 DEF Types, Careful, Pending
<1>2. CASE Adjust
  <2>1. /\ UNCHANGED <<booked, queue, req, job, missed>>
        /\ \E a \in Amounts, type \in Signs : Post("adjust", User, type, a, NoRef)
    BY <1>2 DEF Adjust
  <2>2. AccountInv' /\ \A x \in Orders : Charged(x) => Charged(x)'
    BY <1>0, <2>1, PostCharges
  <2> QED
    BY <1>0, <2>1, <2>2 DEF Types, Careful, Pending
<1>3. CASE UNCHANGED shipVars
  <2>1. UNCHANGED <<accountVars, booked, queue, req, job, missed>>
    BY <1>3 DEF shipVars, accountVars
  <2> QED
    BY <1>0, <2>1, Same DEF Types, Careful, Pending
<1> QED
  BY <1>1, <1>2, <1>3

LEMMA NextShipment == ShipmentInv /\ [ShipmentNext]_shipVars => ShipmentInv'
<1> SUFFICES ASSUME ShipmentInv, [ShipmentNext]_shipVars PROVE ShipmentInv'
  OBVIOUS
<1>0. JobOK
  BY DEF ShipmentInv
<1>1. ASSUME UNCHANGED job, Careful PROVE JobOK'
  <2>1. CASE job.at = "persist" /\ job.settled
    <3>1. PICK h \in Orders : h = Head(job.todo)
      BY <1>0, <2>1, JobGoesOn DEF ShipmentInv, JobOK
    <3>2. Charged(h)'
      BY <1>0, <1>1, <2>1, <3>1 DEF JobOK, Careful
    <3> QED
      BY <1>0, <1>1, <3>1, <3>2 DEF JobOK, Charged
  <2> QED
    BY <1>0, <1>1, <2>1 DEF JobOK
<1>2. ASSUME NEW o \in Orders, Precheck(o) \/ RequestStep(o) \/ RequestDies(o)
      PROVE  ShipmentInv'
  <2>1. /\ AccountInv' /\ Types' /\ Careful /\ RequestOK(o)' /\ ChargedOrTracked(o)'
        /\ \A p \in Orders \ {o} :
             /\ req'[p] = req[p] /\ booked'[p] = booked[p]
             /\ p \in missed => p \in missed'
        /\ UNCHANGED job
    BY <1>2, RequestKeeps
  <2>2. \A p \in Orders : RequestOK(p)' /\ ChargedOrTracked(p)'
    BY <2>1, Untouched
  <2> QED
    BY <1>1, <2>1, <2>2 DEF ShipmentInv, ChargeTracked, ChargedOrTracked
<1>3. CASE JobStep \/ JobFails
  <2>1. /\ AccountInv' /\ Types' /\ Careful /\ JobOK'
        /\ UNCHANGED <<req, booked, missed>>
    BY <1>3, JobKeeps
  <2>2. \A p \in Orders : RequestOK(p)' /\ ChargedOrTracked(p)'
    BY <2>1, Untouched
  <2> QED
    BY <2>1, <2>2 DEF ShipmentInv, ChargeTracked, ChargedOrTracked
<1>4. CASE (\E o \in Orders : Cancel(o)) \/ Adjust \/ UNCHANGED shipVars
  <2>1. /\ AccountInv' /\ Types' /\ Careful /\ UNCHANGED <<req, job, missed>>
        /\ \A x \in Orders : booked'[x] => booked[x]
    BY <1>4, OthersKeep
  <2>2. \A p \in Orders : RequestOK(p)' /\ ChargedOrTracked(p)'
    BY <2>1, Untouched
  <2> QED
    BY <1>1, <2>1, <2>2 DEF ShipmentInv, ChargeTracked, ChargedOrTracked
<1> QED
  BY <1>2, <1>3, <1>4 DEF ShipmentNext

\* What holds at every moment: the account book, what requests and the job know
\* of their debits, and the property itself.
THEOREM ShipmentInvariant == ShipmentSpec => []ShipmentInv
  BY InitShipment, NextShipment, PTL DEF ShipmentSpec

\* No shipment goes out unnoticed by the wallet (bookPartnerShipment,
\* attemptAndTrackShipmentWalletDebit, reconcilePendingWalletDebits).
THEOREM ShipmentsAreTracked == ShipmentSpec => []ChargeTracked
<1>1. ShipmentInv => ChargeTracked
  BY DEF ShipmentInv
<1> QED
  BY <1>1, ShipmentInvariant, PTL

-----------------------------------------------------------------------------
(***************************************************************************)
(* The pending flag keeps the debits of the request and of the job apart.  *)
(***************************************************************************)
OneRow(o) ==
  \A i, j \in DOMAIN ledger[User] :
    ledger[User][i].ref = o /\ ledger[User][j].ref = o => i = j

InJob(o) == job.at # "idle" /\ o \in ToSet(job.todo)

\* The order is in the hands of its request, or pending, or in the job's, and
\* charged by one of them at most.  Charged and still pending, it is the one
\* whose debit the job is about to record.
Once(o) ==
  /\ Charged(o) \/ Pending(o) => booked[o]
  /\ InJob(o) => Pending(o)
  /\ Pending(o) => req[o].at = "none"
  /\ req[o].at = "checked" => ~booked[o]
  /\ req[o].at = "booked" => booked[o] /\ ~Charged(o) /\ ~req[o].pending
  /\ req[o].at = "persist" =>
       booked[o] /\ ~req[o].pending /\ (~req[o].settled => ~Charged(o))
  /\ Charged(o) /\ Pending(o) =>
       job.at = "persist" /\ job.settled /\ Head(job.todo) = o
  /\ OneRow(o)

OnceInv ==
  /\ IsInjective(queue)
  /\ IsInjective(job.todo)
  /\ \A o \in Orders \ renewed : Once(o)

\* A posting adds one row, of its own reference.
LEMMA PostRows ==
  ASSUME AccountInv, NEW c \in {"shipment", "adjust"}, NEW type \in Signs,
         NEW a \in Amounts, NEW r \in Orders \cup {NoRef},
         Post(c, User, type, a, r)
  PROVE  \A x \in Orders :
           /\ x # r => (Charged(x)' <=> Charged(x)) /\ (OneRow(x) => OneRow(x)')
           /\ x = r /\ ~Charged(x) => OneRow(x)'
<1>1. c \in Calls /\ User \in Users /\ r \in Refs \cup {NoRef}
  BY ShipmentAssumption
<1>2. ledger \in [Users -> Seq(Rows)] /\ ledger' \in [Users -> Seq(Rows)]
  BY <1>1, PostKeepsInv DEF AccountInv, AccountTypeOK
<1>3. PICK row : row.ref = r /\ ledger'[User] = Append(ledger[User], row)
  BY <1>1, <1>2 DEF Post
<1>4. /\ Len(ledger[User]) \in Nat
      /\ DOMAIN ledger[User] = 1 .. Len(ledger[User])
      /\ DOMAIN ledger'[User] = 1 .. Len(ledger[User]) + 1
      /\ \A i \in 1 .. Len(ledger[User]) : ledger'[User][i] = ledger[User][i]
      /\ ledger'[User][Len(ledger[User]) + 1] = row
  <2>1. Len(ledger'[User]) = Len(ledger[User]) + 1
    BY <1>1, <1>2, <1>3
  <2>2. /\ \A i \in 1 .. Len(ledger[User]) : ledger'[User][i] = ledger[User][i]
        /\ ledger'[User][Len(ledger[User]) + 1] = row
    BY <1>1, <1>2, <1>3
  <2> QED
    BY <1>1, <1>2, <2>1, <2>2, LenProperties
<1>5. ASSUME NEW x \in Orders, x # r
      PROVE  (Charged(x)' <=> Charged(x)) /\ (OneRow(x) => OneRow(x)')
  BY <1>3, <1>4, <1>5 DEF Charged, OneRow
<1>6. ASSUME NEW x \in Orders, x = r, ~Charged(x) PROVE OneRow(x)'
  BY <1>3, <1>4, <1>6 DEF Charged, OneRow
<1> QED
  BY <1>5, <1>6

LEMMA SameRows ==
  ASSUME UNCHANGED accountVars
  PROVE  \A x \in Orders : (Charged(x)' <=> Charged(x)) /\ (OneRow(x) => OneRow(x)')
  BY DEF accountVars, Charged, OneRow

\* A debit of an order not yet charged.
LEMMA DebitRows ==
  ASSUME AccountInv, NEW o \in Orders, NEW outcome \in Outcomes, Debit(o, outcome)
  PROVE  /\ renewed \subseteq renewed'
         /\ \A x \in Orders : x # o =>
              (Charged(x)' <=> Charged(x)) /\ (OneRow(x) => OneRow(x)')
         /\ o \notin renewed' /\ OneRow(o) /\ ~Charged(o) =>
              /\ OneRow(o)'
              /\ outcome \notin Settled => ~Charged(o)'
<1>1. Charge[o] \in Amounts /\ "Debit" \in Signs
  BY ShipmentAssumption DEF Signs
<1>2. renewed \subseteq renewed'
  BY DEF Debit
<1>3. CASE Post("shipment", User, "Debit", Charge[o], o)
  <2>1. \A x \in Orders :
          /\ x # o => (Charged(x)' <=> Charged(x)) /\ (OneRow(x) => OneRow(x)')
          /\ x = o /\ ~Charged(x) => OneRow(x)'
    BY <1>1, <1>3, PostRows
  <2>2. UNCHANGED accountVars \/ outcome \in Settled \/ o \in renewed'
    BY DEF Debit, Settled
  <2>3. UNCHANGED accountVars => (Charged(o)' <=> Charged(o))
    BY SameRows
  <2> QED
    BY <1>2, <2>1, <2>2, <2>3
<1>4. CASE UNCHANGED accountVars
  BY <1>2, <1>4, SameRows
<1> QED
  BY <1>3, <1>4 DEF Debit

\* An order that a step leaves alone.
Aside(x) ==
  /\ booked'[x] = booked[x] /\ req'[x] = req[x]
  /\ Pending(x)' <=> Pending(x)
  /\ Charged(x)' <=> Charged(x)
  /\ OneRow(x) => OneRow(x)'

LEMMA AsideOnce ==
  ASSUME NEW x \in Orders, Aside(x), UNCHANGED job, Once(x)
  PROVE  Once(x)'
  BY DEF Aside, Once, InJob

\* A step on one order: the request's own, or a cancellation.
LEMMA OneOrder ==
  ASSUME OnceInv, NEW o \in Orders, UNCHANGED job,
         renewed \subseteq renewed', IsInjective(queue)',
         \A x \in Orders \ {o} : Aside(x),
         o \notin renewed' => Once(o)'
  PROVE  OnceInv'
<1>1. \A x \in Orders \ {o} : x \notin renewed' => Once(x)'
  BY AsideOnce DEF OnceInv
<1> QED
  BY <1>1 DEF OnceInv

LEMMA RequestOnce ==
  ASSUME ShipmentInv, OnceInv, NEW o \in Orders,
         Precheck(o) \/ RequestStep(o) \/ RequestDies(o)
  PROVE  OnceInv'
<1>0. /\ AccountInv
      /\ req \in [Orders -> [at: {"none", "checked", "booked", "persist"},
                             settled: BOOLEAN, pending: BOOLEAN]]
      /\ booked \in [Orders -> BOOLEAN]
      /\ queue \in Seq(Orders) /\ IsInjective(queue)
      /\ o \notin renewed => Once(o)
  BY DEF ShipmentInv, Types, OnceInv
<1>1. CASE Precheck(o)
  <2>1. /\ UNCHANGED <<accountVars, booked, queue, job, renewed>>
        /\ req[o].at = "none" /\ ~booked[o]
        /\ req' = [req EXCEPT ![o].at = "checked"]
    BY <1>1 DEF Precheck
  <2>2. \A x \in Orders : (Charged(x)' <=> Charged(x)) /\ (OneRow(x) => OneRow(x)')
    BY <2>1, SameRows
  <2>3. req'[o].at = "checked" /\ \A x \in Orders \ {o} : req'[x] = req[x]
    BY <1>0, <2>1
  <2>4. \A x \in Orders \ {o} : Aside(x)
    BY <2>1, <2>2, <2>3 DEF Aside, Pending
  <2>5. o \notin renewed' => Once(o)'
    BY <1>0, <2>1, <2>2, <2>3 DEF Once, InJob, Pending
  <2> QED
    BY <1>0, <2>1, <2>4, <2>5, OneOrder
<1>2. CASE Book(o)
  <2>1. /\ UNCHANGED <<accountVars, queue, job, renewed>> /\ req[o].at = "checked"
        /\ \/ /\ booked' = [booked EXCEPT ![o] = TRUE]
              /\ req' = [req EXCEPT ![o] = [@ EXCEPT !.at = "booked",
                                                     !.pending = Pending(o)]]
           \/ req' = [req EXCEPT ![o] = NoRequest] /\ UNCHANGED booked
    BY <1>2 DEF Book
  <2>2. \A x \in Orders : (Charged(x)' <=> Charged(x)) /\ (OneRow(x) => OneRow(x)')
    BY <2>1, SameRows
  <2>3. \A x \in Orders \ {o} : req'[x] = req[x] /\ booked'[x] = booked[x]
    BY <1>0, <2>1
  <2>4. \A x \in Orders \ {o} : Aside(x)
    BY <2>1, <2>2, <2>3 DEF Aside, Pending
  <2>5. \/ booked'[o] /\ req'[o].at = "booked" /\ req'[o].pending = Pending(o)
        \/ booked'[o] = booked[o] /\ req'[o].at = "none"
    <3> DEFINE r == [req[o] EXCEPT !.at = "booked", !.pending = Pending(o)]
    <3>1. r.at = "booked" /\ r.pending = Pending(o)
      BY <1>0
    <3>2. \/ booked' = [booked EXCEPT ![o] = TRUE] /\ req' = [req EXCEPT ![o] = r]
          \/ req' = [req EXCEPT ![o] = NoRequest] /\ UNCHANGED booked
      BY <2>1
    <3> HIDE DEF r
    <3>3. \/ booked'[o] /\ req'[o] = r
          \/ booked'[o] = booked[o] /\ req'[o].at = "none"
      BY <1>0, <3>2 DEF NoRequest
    <3> QED
      BY <3>1, <3>3
  <2>6. o \notin renewed' => Once(o)'
    BY <1>0, <2>1, <2>2, <2>5 DEF Once, InJob, Pending
  <2> QED
    BY <1>0, <2>1, <2>4, <2>6, OneOrder
<1>3. CASE AwaitAwb(o)
  <2>1. /\ UNCHANGED <<accountVars, booked, job, renewed>> /\ req[o].at = "booked"
        /\ queue' = Marked(o) /\ req' = [req EXCEPT ![o] = NoRequest]
    BY <1>3 DEF AwaitAwb
  <2>2. \A x \in Orders : (Charged(x)' <=> Charged(x)) /\ (OneRow(x) => OneRow(x)')
    BY <2>1, SameRows
  <2>3. req'[o].at = "none" /\ \A x \in Orders \ {o} : req'[x] = req[x]
    BY <1>0, <2>1 DEF NoRequest
  <2>4. IsInjective(queue)' /\ \A x \in Orders \ {o} : Pending(x)' <=> Pending(x)
    BY <1>0, <2>1, QueueKeeps, QueueOnce DEF Pending
  <2>5. \A x \in Orders \ {o} : Aside(x)
    BY <2>1, <2>2, <2>3, <2>4 DEF Aside
  <2>6. o \notin renewed' => Once(o)'
    BY <1>0, <2>1, <2>2, <2>3 DEF Once, InJob
  <2> QED
    BY <2>1, <2>4, <2>5, <2>6, OneOrder
<1>4. CASE RequestDebit(o)
  <2>1. PICK outcome \in Outcomes :
          /\ Debit(o, outcome)
          /\ req' = [req EXCEPT ![o].at = "persist",
                                ![o].settled = outcome \in Settled]
    BY <1>4 DEF RequestDebit
  <2>2. UNCHANGED <<booked, queue, job>> /\ req[o].at = "booked"
    BY <1>4 DEF RequestDebit
  <2>3. /\ renewed \subseteq renewed'
        /\ \A x \in Orders \ {o} :
             (Charged(x)' <=> Charged(x)) /\ (OneRow(x) => OneRow(x)')
        /\ o \notin renewed' /\ OneRow(o) /\ ~Charged(o) =>
             OneRow(o)' /\ (outcome \notin Settled => ~Charged(o)')
    BY <1>0, <2>1, DebitRows
  <2>4. /\ req'[o].at = "persist" /\ req'[o].pending = req[o].pending
        /\ req'[o].settled <=> outcome \in Settled
        /\ \A x \in Orders \ {o} : req'[x] = req[x]
    <3> DEFINE t == outcome \in Settled
    <3>1. req' = [req EXCEPT ![o].at = "persist", ![o].settled = t]
      BY <2>1
    <3> HIDE DEF t
    <3>2. /\ req'[o].at = "persist" /\ req'[o].pending = req[o].pending
          /\ req'[o].settled = t
          /\ \A x \in Orders \ {o} : req'[x] = req[x]
      BY <1>0, <3>1
    <3> QED
      BY <3>2 DEF t
  <2>5. \A x \in Orders \ {o} : Aside(x)
    BY <2>2, <2>3, <2>4 DEF Aside, Pending
  <2>6. ASSUME o \notin renewed' PROVE Once(o)'
    <3>1. Once(o) /\ ~Charged(o) /\ ~Pending(o)
      BY <1>0, <2>2, <2>3, <2>6 DEF Once
    <3>2. ~Pending(o)' /\ (InJob(o)' <=> InJob(o))
      BY <2>2, <3>1 DEF Pending, InJob
    <3> QED
      BY <2>2, <2>3, <2>4, <2>6, <3>1, <3>2 DEF Once
  <2> QED
    BY <1>0, <2>2, <2>3, <2>5, <2>6, OneOrder
<1>5. CASE RequestPersist(o)
  <2>1. /\ UNCHANGED <<accountVars, booked, job, renewed>> /\ req[o].at = "persist"
        /\ queue' = Tracked(o, req[o].pending, req[o].settled)
        /\ req' = [req EXCEPT ![o] = NoRequest]
    BY <1>5 DEF RequestPersist
  <2>2. \A x \in Orders : (Charged(x)' <=> Charged(x)) /\ (OneRow(x) => OneRow(x)')
    BY <2>1, SameRows
  <2>3. req'[o].at = "none" /\ \A x \in Orders \ {o} : req'[x] = req[x]
    BY <1>0, <2>1 DEF NoRequest
  <2>4. queue' \in {queue, Cleared(o), Marked(o)}
    BY <2>1 DEF Tracked, Postponed
  <2>5. IsInjective(queue)' /\ \A x \in Orders \ {o} : Pending(x)' <=> Pending(x)
    BY <1>0, <2>4, QueueKeeps, QueueOnce DEF Pending
  <2>6. \A x \in Orders \ {o} : Aside(x)
    BY <2>1, <2>2, <2>3, <2>5 DEF Aside
  <2>7. ASSUME o \notin renewed' PROVE Once(o)'
    <3>1. /\ Once(o) /\ booked[o] /\ ~req[o].pending /\ ~Pending(o)
          /\ ~req[o].settled => ~Charged(o)
      BY <1>0, <2>1, <2>7 DEF Once
    <3>2. Pending(o)' => ~Charged(o)'
      BY <2>1, <2>2, <3>1 DEF Tracked, Pending
    <3> QED
      BY <2>1, <2>2, <2>3, <3>1, <3>2 DEF Once, InJob
  <2> QED
    BY <2>1, <2>5, <2>6, <2>7, OneOrder
<1>6. CASE RequestDies(o)
  <2>1. /\ UNCHANGED <<accountVars, booked, queue, job, renewed>>
        /\ req' = [req EXCEPT ![o] = NoRequest] /\ req[o].at # "none"
    BY <1>6 DEF RequestDies
  <2>2. \A x \in Orders : (Charged(x)' <=> Charged(x)) /\ (OneRow(x) => OneRow(x)')
    BY <2>1, SameRows
  <2>3. req'[o].at = "none" /\ \A x \in Orders \ {o} : req'[x] = req[x]
    BY <1>0, <2>1 DEF NoRequest
  <2>4. \A x \in Orders \ {o} : Aside(x)
    BY <2>1, <2>2, <2>3 DEF Aside, Pending
  <2>5. o \notin renewed' => Once(o)'
    BY <1>0, <2>1, <2>2, <2>3 DEF Once, InJob, Pending
  <2> QED
    BY <1>0, <2>1, <2>4, <2>5, OneOrder
<1> QED
  BY <1>1, <1>2, <1>3, <1>4, <1>5, <1>6 DEF RequestStep

\* A step of the job keeps each order that is not the one in its hands, and
\* takes none that is not pending.
LEMMA JobAside ==
  ASSUME NEW x \in Orders, Once(x), Aside(x),
         InJob(x)' => InJob(x),
         ~(job.at = "persist" /\ job.settled /\ Head(job.todo) = x)
  PROVE  Once(x)'
  BY DEF Aside, Once

LEMMA NextInJob ==
  ASSUME Types, job.at # "idle", job.todo # << >>, IsInjective(job.todo)
  PROVE  /\ IsInjective(NextOf(job).todo) /\ NextOf(job).at # "persist"
         /\ job' = NextOf(job) =>
              /\ \A x \in Orders : InJob(x)' => InJob(x)
              /\ \A x \in Orders : x = Head(job.todo) => ~InJob(x)'
<1>1. job.todo \in Seq(Orders)
  BY DEF Types
<1>2. /\ Len(job.todo) \in Nat \ {0} /\ DOMAIN job.todo = 1 .. Len(job.todo)
      /\ Head(job.todo) = job.todo[1]
      /\ Tail(job.todo) \in Seq(Orders)
      /\ DOMAIN Tail(job.todo) = 1 .. Len(job.todo) - 1
      /\ \A i \in 1 .. Len(job.todo) - 1 : Tail(job.todo)[i] = job.todo[i + 1]
  <2>1. /\ Tail(job.todo) \in Seq(Orders) /\ Len(Tail(job.todo)) = Len(job.todo) - 1
        /\ \A i \in 1 .. Len(Tail(job.todo)) : Tail(job.todo)[i] = job.todo[i + 1]
        /\ Len(job.todo) \in Nat \ {0}
    BY <1>1, HeadTailProperties, EmptySeq
  <2> QED
    BY <1>1, <2>1, LenProperties
<1>3. NextOf(job).todo = Tail(job.todo) /\ NextOf(job).at \in {"idle", "run"}
  BY DEF NextOf, Types
<1>4. IsInjective(Tail(job.todo))
  BY <1>2 DEF IsInjective
<1>5. ASSUME job' = NextOf(job), NEW x \in Orders, InJob(x)'
      PROVE  InJob(x) /\ x # Head(job.todo)
  <2>1. PICK i \in 1 .. Len(job.todo) - 1 : Tail(job.todo)[i] = x
    BY <1>2, <1>3, <1>5 DEF InJob, ToSet
  <2>2. i + 1 \in 1 .. Len(job.todo) /\ 1 \in 1 .. Len(job.todo) /\ i + 1 # 1
    BY <1>2
  <2>3. job.todo[i + 1] = x
    BY <1>2, <2>1
  <2> QED
    BY <1>2, <2>2, <2>3 DEF InJob, ToSet, IsInjective
<1> QED
  BY <1>3, <1>4, <1>5

LEMMA JobOnce ==
  ASSUME ShipmentInv, OnceInv, JobStep \/ JobFails
  PROVE  OnceInv'
<1>0. /\ AccountInv /\ Types /\ JobOK
      /\ job \in [at: {"idle", "run", "persist"}, todo: Seq(Orders),
                  seen: SUBSET Orders, settled: BOOLEAN]
      /\ queue \in Seq(Orders) /\ IsInjective(queue) /\ IsInjective(job.todo)
      /\ \A x \in Orders \ renewed : Once(x)
  BY DEF ShipmentInv, Types, OnceInv
<1>1. CASE JobStart
  <2>1. /\ UNCHANGED <<accountVars, booked, queue, req, renewed>>
        /\ job.at = "idle" /\ queue # << >>
    BY <1>1 DEF JobStart
  <2> DEFINE n == Min({Batch, Len(queue)})
             batch == SubSeq(queue, 1, n)
  <2>2. n \in 1 .. Len(queue)
    <3>1. Batch \in Nat \ {0} /\ Len(queue) \in Nat \ {0}
      BY <1>0, <2>1, ShipmentAssumption, EmptySeq
    <3>2. \E x \in {Batch, Len(queue)} : \A y \in {Batch, Len(queue)} : x <= y
      BY <3>1
    <3>3. n \in {Batch, Len(queue)} /\ \A y \in {Batch, Len(queue)} : n <= y
      BY <3>2 DEF Min
    <3> QED
      BY <3>1, <3>3
  <2> HIDE DEF n
  <2>3. /\ DOMAIN batch \subseteq DOMAIN queue
        /\ \A i \in DOMAIN batch : batch[i] = queue[i]
    <3>1. /\ Len(queue) \in Nat /\ DOMAIN queue = 1 .. Len(queue)
          /\ \A i \in 1 .. n : queue[i] \in Orders
      BY <1>0, <2>2, LenProperties
    <3>2. /\ SubSeq(queue, 1, n) \in Seq(Orders)
          /\ Len(SubSeq(queue, 1, n)) = IF 1 <= n THEN n - 1 + 1 ELSE 0
          /\ \A i \in 1 .. n - 1 + 1 : SubSeq(queue, 1, n)[i] = queue[1 + i - 1]
      BY <2>2, <3>1, SubSeqProperties
    <3>3. DOMAIN batch = 1 .. n
      BY <2>2, <3>1, <3>2, LenProperties
    <3> QED
      BY <2>2, <3>1, <3>2, <3>3
  <2>4. job' = [NoJob EXCEPT !.at = "run", !.todo = batch,
                             !.seen = {o \in ToSet(batch) : booked[o]}]
    BY <1>1 DEF JobStart, n
  <2> HIDE DEF batch
  <2>5. job'.at = "run" /\ job'.todo = batch
    BY <2>4 DEF NoJob
  <2>6. IsInjective(job.todo)' /\ \A x \in Orders : InJob(x)' => Pending(x)
    BY <1>0, <2>3, <2>5 DEF IsInjective, InJob, Pending, ToSet
  <2>7. \A x \in Orders : (Charged(x)' <=> Charged(x)) /\ (OneRow(x) => OneRow(x)')
    BY <2>1, SameRows
  <2>8. \A x \in Orders \ renewed : Once(x)'
    BY <1>0, <2>1, <2>6, <2>7 DEF Once, Pending
  <2> QED
    BY <1>0, <2>1, <2>6, <2>8 DEF OnceInv
<1>2. CASE JobSkip
  <2>1. /\ UNCHANGED <<accountVars, booked, queue, req, renewed>>
        /\ job.at = "run" /\ job' = NextOf(job)
    BY <1>2 DEF JobSkip
  <2>2. \A x \in Orders : (Charged(x)' <=> Charged(x)) /\ (OneRow(x) => OneRow(x)')
    BY <2>1, SameRows
  <2>3. IsInjective(job.todo)' /\ \A x \in Orders : InJob(x)' => InJob(x)
    BY <1>0, <2>1, NextInJob DEF JobOK
  <2>4. \A x \in Orders \ renewed : Once(x)'
    BY <1>0, <2>1, <2>2, <2>3, JobAside DEF Aside, Pending
  <2> QED
    BY <1>0, <2>1, <2>3, <2>4 DEF OnceInv
<1>3. CASE JobDebit
  <2>1. PICK outcome \in Outcomes :
          /\ Debit(Head(job.todo), outcome)
          /\ job' = [job EXCEPT !.at = "persist", !.settled = outcome \in Settled]
    BY <1>3 DEF JobDebit
  <2>2. UNCHANGED <<booked, queue, req>> /\ job.at = "run"
    BY <1>3 DEF JobDebit
  <2>3. PICK h \in Orders : h = Head(job.todo)
    BY <1>0, <2>2, JobGoesOn DEF JobOK
  <2>4. InJob(h)
    <3>1. job.todo \in Seq(Orders) /\ job.todo # << >>
      BY <1>0, <2>2 DEF JobOK
    <3>2. Head(job.todo) = job.todo[1] /\ 1 \in DOMAIN job.todo
      BY <3>1, HeadTailProperties, EmptySeq, LenProperties
    <3> QED
      BY <2>2, <2>3, <3>2 DEF InJob, ToSet
  <2>5. /\ renewed \subseteq renewed'
        /\ \A x \in Orders : x # h =>
             (Charged(x)' <=> Charged(x)) /\ (OneRow(x) => OneRow(x)')
        /\ h \notin renewed' /\ OneRow(h) /\ ~Charged(h) =>
             OneRow(h)' /\ (outcome \notin Settled => ~Charged(h)')
    <3>1. Debit(h, outcome)
      BY <2>1, <2>3
    <3> QED
      BY <1>0, <3>1, DebitRows
  <2>6. /\ job'.at = "persist" /\ job'.todo = job.todo
        /\ job'.settled <=> outcome \in Settled
    <3> DEFINE t == outcome \in Settled
    <3>1. job' = [job EXCEPT !.at = "persist", !.settled = t]
      BY <2>1
    <3> HIDE DEF t
    <3>2. job'.at = "persist" /\ job'.todo = job.todo /\ job'.settled = t
      BY <1>0, <3>1
    <3> QED
      BY <3>2 DEF t
  <2>7. \A x \in Orders : InJob(x)' <=> InJob(x)
    BY <2>2, <2>6 DEF InJob
  <2>8. ASSUME NEW x \in Orders \ renewed', x # h PROVE Once(x)'
    <3>1. Once(x) /\ Aside(x)
      BY <1>0, <2>2, <2>5, <2>8 DEF Aside, Pending
    <3> QED
      BY <2>2, <2>7, <3>1, JobAside
  <2>9. ASSUME h \notin renewed' PROVE Once(h)'
    <3>1. Once(h) /\ Pending(h) /\ ~Charged(h)
      BY <1>0, <2>2, <2>4, <2>5, <2>9 DEF Once
    <3>2. OneRow(h)' /\ (outcome \notin Settled => ~Charged(h)')
      BY <2>5, <2>9, <3>1 DEF Once
    <3>3. Pending(h)' /\ Head(job'.todo) = h
      BY <2>2, <2>3, <2>6, <3>1 DEF Pending
    <3> QED
      BY <2>2, <2>6, <2>7, <3>1, <3>2, <3>3 DEF Once
  <2>10. IsInjective(job.todo)' /\ IsInjective(queue)'
    BY <1>0, <2>2, <2>6
  <2> QED
    BY <2>8, <2>9, <2>10 DEF OnceInv
<1>4. CASE JobPersist
  <2>1. /\ UNCHANGED <<accountVars, booked, req, renewed>>
        /\ job.at = "persist" /\ job' = NextOf(job)
        /\ queue' = Tracked(Head(job.todo), TRUE, job.settled)
    BY <1>4 DEF JobPersist
  <2>2. PICK h \in Orders : h = Head(job.todo)
    BY <1>0, <2>1, JobGoesOn DEF JobOK
  <2>3. \A x \in Orders : (Charged(x)' <=> Charged(x)) /\ (OneRow(x) => OneRow(x)')
    BY <2>1, SameRows
  <2>4. /\ IsInjective(job.todo)' /\ \A x \in Orders : InJob(x)' => InJob(x)
        /\ ~InJob(h)' /\ job'.at # "persist"
    BY <1>0, <2>1, <2>2, NextInJob DEF JobOK
  <2>5. queue' \in {queue, Cleared(h), Marked(h)}
    BY <2>1, <2>2 DEF Tracked, Postponed
  <2>6. IsInjective(queue)' /\ \A x \in Orders \ {h} : Pending(x)' <=> Pending(x)
    BY <1>0, <2>5, QueueKeeps, QueueOnce DEF Pending
  <2>7. ASSUME NEW x \in Orders \ renewed', x # h PROVE Once(x)'
    <3>1. Once(x) /\ Aside(x)
      BY <1>0, <2>1, <2>3, <2>6, <2>7 DEF Aside
    <3> QED
      BY <2>2, <2>4, <2>7, <3>1, JobAside
  <2>8. ASSUME h \notin renewed' PROVE Once(h)'
    <3>1. Once(h) /\ InJob(h)
      <4>1. job.todo \in Seq(Orders) /\ job.todo # << >>
        BY <1>0, <2>1 DEF JobOK
      <4>2. Head(job.todo) = job.todo[1] /\ 1 \in DOMAIN job.todo
        BY <4>1, HeadTailProperties, EmptySeq, LenProperties
      <4> QED
        BY <1>0, <2>1, <2>2, <2>8, <4>2 DEF InJob, ToSet
    <3>2. Pending(h) /\ req[h].at = "none" /\ booked[h]
          /\ (~job.settled => ~Charged(h)) /\ OneRow(h)
      BY <3>1 DEF Once
    <3>3. job.settled => ~Pending(h)'
      BY <1>0, <2>1, <2>2, QueueOnce DEF Tracked, Pending
    <3> QED
      BY <2>1, <2>3, <2>4, <3>2, <3>3 DEF Once
  <2> QED
    BY <2>4, <2>6, <2>7, <2>8 DEF OnceInv
<1>5. CASE JobFails
  <2>1. /\ UNCHANGED <<accountVars, booked, queue, req>>
        /\ job.at # "idle" /\ (job' = NextOf(job) \/ job' = NoJob)
        /\ renewed \subseteq renewed'
        /\ job.at = "persist" /\ job.settled => Head(job.todo) \in renewed'
    BY <1>5 DEF JobFails
  <2>2. \A x \in Orders : (Charged(x)' <=> Charged(x)) /\ (OneRow(x) => OneRow(x)')
    BY <2>1, SameRows
  <2>3. IsInjective(job.todo)' /\ \A x \in Orders : InJob(x)' => InJob(x)
    <3>1. CASE job' = NextOf(job)
      BY <1>0, <2>1, <3>1, NextInJob DEF JobOK
    <3>2. CASE job' = NoJob
      BY <3>2 DEF NoJob, InJob, IsInjective
    <3> QED
      BY <2>1, <3>1, <3>2
  <2>4. ASSUME NEW x \in Orders \ renewed' PROVE Once(x)'
    <3>1. Once(x) /\ Aside(x)
      BY <1>0, <2>1, <2>2, <2>4 DEF Aside, Pending
    <3> QED
      BY <2>1, <2>3, <2>4, <3>1, JobAside
  <2> QED
    BY <1>0, <2>1, <2>3, <2>4 DEF OnceInv
<1> QED
  BY <1>1, <1>2, <1>3, <1>4, <1>5 DEF JobStep

LEMMA NextOnce == ShipmentInv /\ OnceInv /\ [ShipmentNext]_shipVars => OnceInv'
<1> SUFFICES ASSUME ShipmentInv, OnceInv, [ShipmentNext]_shipVars PROVE OnceInv'
  OBVIOUS
<1>1. ASSUME NEW o \in Orders, Precheck(o) \/ RequestStep(o) \/ RequestDies(o)
      PROVE  OnceInv'
  BY <1>1, RequestOnce
<1>2. CASE JobStep \/ JobFails
  BY <1>2, JobOnce
<1>3. ASSUME NEW o \in Orders, Cancel(o) PROVE OnceInv'
  <2>1. /\ UNCHANGED <<accountVars, queue, req, job>>
        /\ booked' = [booked EXCEPT ![o] = FALSE] /\ renewed' = renewed \cup {o}
    BY <1>3 DEF Cancel
  <2>2. \A x \in Orders : (Charged(x)' <=> Charged(x)) /\ (OneRow(x) => OneRow(x)')
    BY <2>1, SameRows
  <2>3. \A x \in Orders \ {o} : Aside(x)
    BY <2>1, <2>2 DEF Aside, Pending, ShipmentInv, Types
  <2> QED
    BY <2>1, <2>3, OneOrder DEF OnceInv
<1>4. CASE Adjust
  <2>1. /\ UNCHANGED <<booked, queue, req, job, renewed>>
        /\ \E a \in Amounts, type \in Signs : Post("adjust", User, type, a, NoRef)
    BY <1>4 DEF Adjust
  <2>2. \A x \in Orders : (Charged(x)' <=> Charged(x)) /\ (OneRow(x) => OneRow(x)')
    BY <2>1, PostRows, AccountAssumption, ShipmentAssumption DEF ShipmentInv
  <2>3. \A x \in Orders : Aside(x)
    BY <2>1, <2>2 DEF Aside, Pending
  <2> QED
    BY <2>1, <2>3, AsideOnce DEF OnceInv
<1>5. CASE UNCHANGED shipVars
  <2>1. UNCHANGED <<accountVars, booked, queue, req, job, renewed>>
    BY <1>5 DEF shipVars, accountVars
  <2>2. \A x \in Orders : (Charged(x)' <=> Charged(x)) /\ (OneRow(x) => OneRow(x)')
    BY <2>1, SameRows
  <2>3. \A x \in Orders : Aside(x)
    BY <2>1, <2>2 DEF Aside, Pending
  <2> QED
    BY <2>1, <2>3, AsideOnce DEF OnceInv
<1> QED
  BY <1>1, <1>2, <1>3, <1>4, <1>5 DEF ShipmentNext

\* The request and the job charge an order once between them, index or no index,
\* unless its shipment was cancelled or the record of a debit was lost: the
\* request ends before the order is pending, and the job debits it only then.
THEOREM ShipmentsChargedOnce == ShipmentSpec => []ChargedOnce
<1>1. ShipmentInit => OnceInv
  <2> SUFFICES ASSUME ShipmentInit PROVE OnceInv
    OBVIOUS
  <2>1. /\ booked = [o \in Orders |-> FALSE] /\ queue = << >>
        /\ job = NoJob /\ req = [o \in Orders |-> NoRequest]
        /\ ledger[User] = << >>
    BY ShipmentAssumption DEF ShipmentInit, AccountInit
  <2>2. IsInjective(queue) /\ IsInjective(job.todo)
    BY <2>1 DEF IsInjective, NoJob
  <2>3. ASSUME NEW o \in Orders PROVE Once(o)
    <3>1. ~Charged(o) /\ OneRow(o) /\ ~Pending(o) /\ ~InJob(o)
      BY <2>1 DEF Charged, OneRow, Pending, InJob, ToSet, NoJob
    <3>2. req[o].at = "none"
      BY <2>1 DEF NoRequest
    <3> QED
      BY <3>1, <3>2 DEF Once
  <2> QED
    BY <2>2, <2>3 DEF OnceInv
<1>2. OnceInv => ChargedOnce
  BY DEF OnceInv, Once, OneRow, ChargedOnce
<1> QED
  BY <1>1, <1>2, NextOnce, ShipmentInvariant, PTL DEF ShipmentSpec

\* Requests that checked the same funds do not overdraw the wallet between them
\* (assertWalletBalanceAtLeast before the courier, debitWallet after it).
THEOREM ShipmentsNeverOverdraw == ShipmentSpec => []NoOverdraft
<1>1. ShipmentInv => NoOverdraft
  BY DEF ShipmentInv, AccountInv
<1> QED
  BY <1>1, ShipmentInvariant, PTL
=============================================================================
