---------------------------- MODULE UsageProofs ----------------------------
(***************************************************************************)
(* Proofs about UsageBudget, for every number of requests, every setting   *)
(* and every bound; that it implements LeasePool; that reserving statement *)
(* by statement grants no more than is free (UsageBudgetSteps); and proofs *)
(* about UsageRequest: a handler uses the repository as UsageBudget says,  *)
(* so that everything proved there holds of paid calls too, and what it    *)
(* releases and settles is right.                                          *)
(***************************************************************************)
EXTENDS UsageRequest, UsageBudgetSteps, TotalsProofs, SequenceTheorems

(* The repository: UsageBudget. *)

\* What the operators take sums of are columns of naturals.
LEMMA SumsType ==
  ASSUME TypeOK
  PROVE  /\ HeldBalance \in Nat
         /\ \A m, e : HeldCredit(m, e) \in Nat
         /\ \A m : Used(m) \in Nat
<1>1. HeldBalance \in Nat
  <2> DEFINE f == [r \in Refs |->
                     IF Holding(reservation[r]) THEN reservation[r].balance ELSE 0]
  <2>1. f \in [Refs -> Nat]
    BY DEF TypeOK, Reservation
  <2> QED BY <2>1, RefsAssumption, TotalType DEF HeldBalance
<1>2. ASSUME NEW m, NEW e PROVE HeldCredit(m, e) \in Nat
  <2> DEFINE f == [r \in Refs |->
                     IF Holding(reservation[r]) /\ reservation[r].period = m /\ r # e
                     THEN reservation[r].credit ELSE 0]
  <2>1. f \in [Refs -> Nat]
    BY DEF TypeOK, Reservation
  <2> QED BY <2>1, RefsAssumption, TotalType DEF HeldCredit
<1>3. ASSUME NEW m PROVE Used(m) \in Nat
  <2> DEFINE f == [i \in DOMAIN ledger |-> IF ledger[i].date = m THEN ledger[i].billed ELSE 0]
  <2>1. Len(ledger) \in Nat /\ DOMAIN ledger = 1..Len(ledger)
    BY LenProperties DEF TypeOK
  <2>2. IsFiniteSet(DOMAIN ledger)
    BY <2>1, FS_Interval
  <2>3. \A i \in DOMAIN ledger : ledger[i] \in LedgerRow
    BY <2>1, ElementOfSeq DEF TypeOK
  <2>4. f \in [DOMAIN ledger -> Nat]
    BY <2>3 DEF LedgerRow
  <2> QED BY <2>2, <2>4, TotalType DEF Used
<1> QED BY <1>1, <1>2, <1>3

\* What a granted reservation holds: its credit is within the credit left, the
\* rest within the balance left.
LEMMA GrantBounds ==
  ASSUME TypeOK, NEW r \in Refs, NEW mode \in Modes, NEW prepaid \in Prepaid,
         NEW limit \in Limits, Reserve(r, mode, prepaid, limit)
  PROVE  \E hold \in Nat, credit \in Nat :
           /\ reservation' = [reservation EXCEPT ![r] =
                [mode |-> mode, balance |-> hold, credit |-> credit,
                 limit |-> IF mode = "period" THEN limit ELSE 0,
                 period |-> IF mode = "period" THEN month ELSE 0,
                 status |-> "active", ttl |-> LeaseTicks, ledgerId |-> 0]]
           /\ hold > 0 => HeldBalance + hold <= balance
           /\ credit > 0 => /\ mode = "period"
                            /\ Used(month) + HeldCredit(month, NoRef) + credit <= limit
<1> DEFINE forBalance == Remaining(balance, HeldBalance, 0)
           forCredit == IF mode = "period"
                        THEN Remaining(limit, Used(month), HeldCredit(month, NoRef)) ELSE 0
           available == forBalance + forCredit
           slots == MaxActive - Cardinality(Holders)
           requested == IF prepaid > 0 THEN prepaid ELSE Share(available, slots)
           credit == Lesser(requested, forCredit)
<1>1. HeldBalance \in Nat /\ Used(month) \in Nat /\ HeldCredit(month, NoRef) \in Nat
  BY SumsType
<1>2. balance \in Int /\ limit \in Nat /\ prepaid \in Nat
  BY AmountAssumption DEF TypeOK
<1>3. forBalance \in Nat /\ (forBalance > 0 => HeldBalance + forBalance <= balance)
  BY <1>1, <1>2 DEF Remaining
<1>4. /\ forCredit \in Nat
      /\ forCredit > 0 => /\ mode = "period"
                          /\ Used(month) + HeldCredit(month, NoRef) + forCredit <= limit
  BY <1>1, <1>2 DEF Remaining
<1>5. requested > 0 /\ requested <= available
  BY DEF Reserve
<1>6. requested \in Int
  <2>1. Cardinality(Holders) \in Nat
    BY RefsAssumption, FS_Subset, FS_CardinalityType DEF Holders
  <2>2. Cardinality(Holders) < MaxActive
    BY DEF Reserve
  <2>3. slots \in Int /\ slots > 0
    BY <2>1, <2>2, BoundAssumption
  <2>4. available \in Int
    BY <1>3, <1>4
  <2> HIDE DEF slots, available
  <2>5. Share(available, slots) \in Int
    BY <2>3, <2>4 DEF Share
  <2> QED BY <1>2, <2>5
<1>7. reservation' = [reservation EXCEPT ![r] =
        [mode |-> mode, balance |-> requested - credit, credit |-> credit,
         limit |-> IF mode = "period" THEN limit ELSE 0,
         period |-> IF mode = "period" THEN month ELSE 0,
         status |-> "active", ttl |-> LeaseTicks, ledgerId |-> 0]]
  BY DEF Reserve
<1> HIDE DEF forBalance, forCredit
<1>8. requested \in Nat /\ requested <= forBalance + forCredit
  BY <1>5, <1>6
<1> HIDE DEF requested
<1>9. /\ credit \in Nat /\ requested - credit \in Nat /\ credit <= forCredit
      /\ requested - credit <= forBalance
  BY <1>3, <1>4, <1>8 DEF Lesser
<1> HIDE DEF credit
<1>10. requested - credit > 0 => HeldBalance + (requested - credit) <= balance
  BY <1>1, <1>2, <1>3, <1>9
<1>11. credit > 0 => /\ mode = "period"
                     /\ Used(month) + HeldCredit(month, NoRef) + credit <= limit
  BY <1>1, <1>2, <1>4, <1>9
<1> QED BY <1>7, <1>9, <1>10, <1>11

\* Recording usage books one well-formed row: a row for the reservation that is
\* settled, whose credit is left of the plan, and which charges the rest.
LEMMA RecordBooksRow ==
  ASSUME TypeOK, NEW r \in Refs \cup {NoRef}, NEW charge \in Charges,
         NEW date \in StartMonths(r), RecordUsage(r, charge, date)
  PROVE  \E row \in LedgerRow, overage \in Nat :
           /\ Book(r, row, overage)
           /\ Settleable(r)
           /\ row.ref = r /\ row.billed = charge
           /\ row.covered <= row.billed
           /\ overage = IF row.mode = "self" THEN 0 ELSE row.billed - row.covered
           /\ row.covered > 0 => Used(row.period) + row.covered <= row.limit
<1> DEFINE Goal ==
             \E row \in LedgerRow, overage \in Nat :
               /\ Book(r, row, overage)
               /\ Settleable(r)
               /\ row.ref = r /\ row.billed = charge
               /\ row.covered <= row.billed
               /\ overage = IF row.mode = "self" THEN 0 ELSE row.billed - row.covered
               /\ row.covered > 0 => Used(row.period) + row.covered <= row.limit
<1>1. charge \in Nat /\ date \in Months
  BY AmountAssumption DEF StartMonths
<1>2. ASSUME SettleUsage(r, charge, date) PROVE Goal
  <2> DEFINE row == [ref |-> r, mode |-> "usage", billed |-> charge, covered |-> 0,
                     limit |-> 0, date |-> date, period |-> 0]
  <2>1. row \in LedgerRow
    BY <1>1 DEF LedgerRow, Modes
  <2>2. Book(r, row, charge) /\ Settleable(r)
    BY <1>2 DEF SettleUsage
  <2> QED BY <1>1, <2>1, <2>2
<1>3. ASSUME NEW period \in Months \cup {0}, NEW limit \in Nat,
             SettlePeriod(r, charge, date, period, limit)
      PROVE  Goal
  <2> DEFINE left == Remaining(limit, Used(period), HeldCredit(period, r))
             covered == Lesser(charge, left)
             row == [ref |-> r, mode |-> "period", billed |-> charge, covered |-> covered,
                     limit |-> limit, date |-> date, period |-> period]
  <2>1. Used(period) \in Nat /\ HeldCredit(period, r) \in Nat
    BY SumsType
  <2>2. left \in Nat /\ (left > 0 => Used(period) + left <= limit)
    BY <2>1 DEF Remaining
  <2>3. Book(r, row, charge - covered) /\ Settleable(r)
    BY <1>3 DEF SettlePeriod
  <2> HIDE DEF left
  <2>4. covered \in Nat /\ covered <= charge /\ covered <= left
    BY <1>1, <2>2 DEF Lesser
  <2> HIDE DEF covered
  <2>5. row \in LedgerRow /\ charge - covered \in Nat
    BY <1>1, <2>4 DEF LedgerRow, Modes
  <2>6. covered > 0 => Used(period) + covered <= limit
    BY <2>1, <2>2, <2>4
  <2> QED BY <2>3, <2>4, <2>5, <2>6
<1>4. ASSUME r = NoRef, AddUsage(charge, date) PROVE Goal
  <2> DEFINE row == [ref |-> NoRef, mode |-> "self", billed |-> charge, covered |-> 0,
                     limit |-> 0, date |-> date, period |-> 0]
  <2>1. row \in LedgerRow
    BY <1>1 DEF LedgerRow
  <2>2. Book(r, row, 0) /\ Settleable(r)
    BY <1>4, RefsAssumption DEF AddUsage, Settleable
  <2> QED BY <1>1, <1>4, <2>1, <2>2
<1>5. ASSUME r \in Refs, reservation[r].mode = "period",
             SettlePeriod(r, charge, date, reservation[r].period, reservation[r].limit)
      PROVE  Goal
  <2>1. reservation[r] \in Reservation
    BY <1>5 DEF TypeOK
  <2>2. reservation[r].limit \in Nat /\ reservation[r].period \in Months \cup {0}
    BY <2>1 DEF Reservation
  <2> QED BY <1>3, <1>5, <2>2
<1> QED BY <1>1, <1>2, <1>3, <1>4, <1>5, AmountAssumption DEF RecordUsage

-----------------------------------------------------------------------------
(* Type correctness *)

LEMMA LeaseRange == 0 \in 0..LeaseTicks /\ LeaseTicks \in 0..LeaseTicks
BY BoundAssumption

LEMMA BookType ==
  ASSUME TypeOK, NEW r, NEW row \in LedgerRow, NEW overage \in Nat, Book(r, row, overage)
  PROVE  TypeOK'
<1> DEFINE id == Len(ledger) + 1
           txn == [amount |-> -overage, after |-> balance - overage, rowId |-> id]
<1>1. month' = month /\ balance' = balance - overage /\ ledger' = Append(ledger, row)
  BY DEF Book
<1>2. id \in Nat
  BY LenProperties DEF TypeOK
<1>3. reservation' =
       [s \in Refs |->
          IF s = r THEN [reservation[s] EXCEPT !.status = "settled", !.ttl = 0,
                                               !.ledgerId = id]
          ELSE reservation[s]]
  BY DEF Book
<1>4. transactions' = transactions \/ transactions' = Append(transactions, txn)
  BY DEF Book
<1> HIDE DEF id
<1>5. reservation' \in [Refs -> Reservation]
  <2> SUFFICES ASSUME NEW s \in Refs PROVE reservation'[s] \in Reservation
    BY <1>3
  <2>1. reservation[s] \in Reservation
    BY DEF TypeOK
  <2>2. [reservation[s] EXCEPT !.status = "settled", !.ttl = 0, !.ledgerId = id]
          \in Reservation
    BY <1>2, <2>1, LeaseRange DEF Reservation, Statuses
  <2> QED BY <1>3, <2>1, <2>2
<1>6. txn \in Transaction
  BY <1>2 DEF Transaction, TypeOK
<1> HIDE DEF txn
<1>7. transactions' \in Seq(Transaction)
  BY <1>4, <1>6 DEF TypeOK
<1>8. ledger' \in Seq(LedgerRow)
  BY <1>1 DEF TypeOK
<1> QED BY <1>1, <1>5, <1>7, <1>8 DEF TypeOK

LEMMA AdjustType ==
  ASSUME TypeOK, NEW next \in Int, Adjust(next)
  PROVE  TypeOK'
<1> DEFINE txn == [amount |-> next - balance, after |-> next, rowId |-> 0]
<1>1. txn \in Transaction
  BY DEF Transaction, TypeOK
<1>2. transactions' \in Seq(Transaction)
  BY <1>1 DEF Adjust, TypeOK
<1> QED BY <1>2 DEF Adjust, TypeOK

LEMMA GrantType ==
  ASSUME TypeOK, NEW r \in Refs, NEW mode \in Modes, NEW limit \in Limits,
         NEW hold \in Nat, NEW credit \in Nat,
         reservation' = [reservation EXCEPT ![r] =
           [mode |-> mode, balance |-> hold, credit |-> credit,
            limit |-> IF mode = "period" THEN limit ELSE 0,
            period |-> IF mode = "period" THEN month ELSE 0,
            status |-> "active", ttl |-> LeaseTicks, ledgerId |-> 0]],
         UNCHANGED <<month, balance, ledger, transactions>>
  PROVE  TypeOK'
<1> DEFINE new == [mode |-> mode, balance |-> hold, credit |-> credit,
                   limit |-> IF mode = "period" THEN limit ELSE 0,
                   period |-> IF mode = "period" THEN month ELSE 0,
                   status |-> "active", ttl |-> LeaseTicks, ledgerId |-> 0]
<1>1. new \in Reservation
  <2>1. limit \in Nat /\ month \in Months /\ LeaseTicks \in 0..LeaseTicks
    BY AmountAssumption, BoundAssumption DEF TypeOK
  <2> QED BY <2>1 DEF Reservation, Statuses
<1>2. reservation' \in [Refs -> Reservation]
  BY <1>1 DEF TypeOK
<1> QED BY <1>2 DEF TypeOK

LEMMA TypeStep == TypeOK /\ [Next]_vars => TypeOK'
<1> SUFFICES ASSUME TypeOK, [Next]_vars PROVE TypeOK'
  OBVIOUS
<1>1. ASSUME NEW r \in Refs, NEW mode \in Modes, NEW prepaid \in Prepaid,
             NEW limit \in Limits, Reserve(r, mode, prepaid, limit)
      PROVE  TypeOK'
  <2>1. PICK hold \in Nat, credit \in Nat :
          /\ reservation' = [reservation EXCEPT ![r] =
               [mode |-> mode, balance |-> hold, credit |-> credit,
                limit |-> IF mode = "period" THEN limit ELSE 0,
                period |-> IF mode = "period" THEN month ELSE 0,
                status |-> "active", ttl |-> LeaseTicks, ledgerId |-> 0]]
    BY <1>1, GrantBounds
  <2>2. UNCHANGED <<month, balance, ledger, transactions>>
    BY <1>1 DEF Reserve
  <2> QED BY <2>1, <2>2, GrantType
<1>2. ASSUME NEW r \in Refs, Release(r) \/ Renew(r) \/ MarkReconciliation(r)
      PROVE  TypeOK'
  <2>1. ASSUME NEW status \in Statuses, NEW ttl \in 0..LeaseTicks,
               reservation' = [reservation EXCEPT ![r].status = status, ![r].ttl = ttl]
        PROVE  reservation' \in [Refs -> Reservation]
    BY <2>1, ZenonT(60) DEF TypeOK, Reservation
  <2>2. CASE Release(r)
    BY <2>1, <2>2, LeaseRange DEF Release, Statuses, TypeOK
  <2>3. CASE Renew(r)
    <3>1. reservation' \in [Refs -> Reservation]
      BY <2>3, LeaseRange DEF Renew, TypeOK, Reservation
    <3> QED BY <2>3, <3>1 DEF Renew, TypeOK
  <2>4. CASE MarkReconciliation(r)
    BY <2>1, <2>4, LeaseRange DEF MarkReconciliation, Statuses, TypeOK
  <2> QED BY <1>2, <2>2, <2>3, <2>4
<1>3. ASSUME NEW r \in Refs \cup {NoRef}, NEW charge \in Charges,
             NEW date \in StartMonths(r), RecordUsage(r, charge, date)
      PROVE  TypeOK'
  <2>1. PICK row \in LedgerRow, overage \in Nat : Book(r, row, overage)
    BY <1>3, RecordBooksRow
  <2> QED BY <2>1, BookType
<1>4. ASSUME NEW amount \in Deposits, Deposit(amount) PROVE TypeOK'
  <2>1. balance + amount \in Int
    BY AmountAssumption DEF TypeOK
  <2> QED BY <1>4, <2>1, AdjustType DEF Deposit
<1>5. ASSUME NEW next \in AdminBalances, AdminSet(next) PROVE TypeOK'
  <2>1. next \in Int
    BY AmountAssumption
  <2> QED BY <1>5, <2>1, AdjustType DEF AdminSet
<1>6. CASE Tick
  <2>1. \A r \in Refs : reservation[r].ttl > 0 => reservation[r].ttl - 1 \in 0..LeaseTicks
    BY BoundAssumption DEF TypeOK, Reservation
  <2>2. reservation' \in [Refs -> Reservation]
    BY <1>6, <2>1 DEF Tick, TypeOK, Reservation
  <2> QED BY <1>6, <2>2 DEF Tick, TypeOK
<1>7. CASE NextMonth
  BY <1>7, BoundAssumption DEF NextMonth, TypeOK, Months
<1>8. CASE UNCHANGED vars
  BY <1>8 DEF vars, TypeOK
<1> QED BY <1>1, <1>2, <1>3, <1>4, <1>5, <1>6, <1>7, <1>8 DEF Next

LEMMA TypeInit == Init => TypeOK
<1> SUFFICES ASSUME Init PROVE TypeOK
  OBVIOUS
<1>1. NoReservation \in Reservation
  BY BoundAssumption DEF NoReservation, Reservation, Statuses
<1>2. 1 \in Months
  BY BoundAssumption DEF Months
<1> QED BY <1>1, <1>2 DEF Init, TypeOK

\* The variables keep their types: in particular a hold is never negative,
\* whatever budget, prepaid amount and number of free slots it was cut from.
THEOREM TypeCorrect == Spec => []TypeOK
<1> QED BY TypeInit, TypeStep, PTL DEF Spec

-----------------------------------------------------------------------------
(* The invariant *)

\* What a booked row changes: the ledger grows by it, its reservation is settled.
LEMMA BookLedger ==
  ASSUME TypeOK, NEW r, NEW row \in LedgerRow, NEW overage \in Nat, Book(r, row, overage)
  PROVE  /\ Len(ledger) \in Nat /\ DOMAIN ledger = 1..Len(ledger)
         /\ DOMAIN ledger' = 1..(Len(ledger) + 1) /\ Len(ledger') = Len(ledger) + 1
         /\ \A i \in DOMAIN ledger : ledger'[i] = ledger[i]
         /\ ledger'[Len(ledger) + 1] = row
         /\ \A s \in Refs \ {r} : reservation'[s] = reservation[s]
         /\ r \in Refs => /\ reservation'[r].status = "settled"
                          /\ reservation'[r].ledgerId = Len(ledger) + 1
<1>1. ledger' = Append(ledger, row) /\ ledger \in Seq(LedgerRow)
  BY DEF Book, TypeOK
<1>2. \A s \in Refs \ {r} : reservation'[s] = reservation[s]
  BY DEF Book
<1>3. ASSUME r \in Refs
      PROVE  reservation'[r].status = "settled" /\ reservation'[r].ledgerId = Len(ledger) + 1
  <2>1. reservation[r] \in Reservation
    BY <1>3 DEF TypeOK
  <2>2. reservation'[r] = [reservation[r] EXCEPT !.status = "settled", !.ttl = 0,
                                                 !.ledgerId = Len(ledger) + 1]
    BY <1>3 DEF Book
  <2> QED BY <2>1, <2>2 DEF Reservation
<1> QED BY <1>1, <1>2, <1>3

\* What it does to the transactions: nothing, or one more for this row.
LEMMA BookTransactions ==
  ASSUME TypeOK, NEW r, NEW row \in LedgerRow, NEW overage \in Nat, Book(r, row, overage)
  PROVE  /\ Len(transactions) \in Nat /\ DOMAIN transactions = 1..Len(transactions)
         /\ balance' = balance - overage
         /\ \/ overage = 0 /\ transactions' = transactions
            \/ /\ overage # 0
               /\ Len(transactions') = Len(transactions) + 1
               /\ DOMAIN transactions' = 1..(Len(transactions) + 1)
               /\ \A t \in DOMAIN transactions : transactions'[t] = transactions[t]
               /\ transactions'[Len(transactions) + 1] =
                    [amount |-> -overage, after |-> balance - overage,
                     rowId |-> Len(ledger) + 1]
<1> DEFINE txn == [amount |-> -overage, after |-> balance - overage,
                   rowId |-> Len(ledger) + 1]
<1>1. \/ overage = 0 /\ transactions' = transactions
      \/ overage # 0 /\ transactions' = Append(transactions, txn)
  BY DEF Book
<1>2. transactions \in Seq(Transaction) /\ balance' = balance - overage
  BY DEF Book, TypeOK
<1> HIDE DEF txn
<1>3. QED BY <1>1, <1>2, SMTT(30) DEF txn

\* An adjustment adds one transaction that belongs to no row.
LEMMA AdjustTransactions ==
  ASSUME TypeOK, NEW next \in Int, Adjust(next)
  PROVE  /\ Len(transactions) \in Nat /\ DOMAIN transactions = 1..Len(transactions)
         /\ balance' = next
         /\ Len(transactions') = Len(transactions) + 1
         /\ DOMAIN transactions' = 1..(Len(transactions) + 1)
         /\ \A t \in DOMAIN transactions : transactions'[t] = transactions[t]
         /\ transactions'[Len(transactions) + 1] =
              [amount |-> next - balance, after |-> next, rowId |-> 0]
<1> DEFINE txn == [amount |-> next - balance, after |-> next, rowId |-> 0]
<1>1. transactions' = Append(transactions, txn) /\ balance' = next
  BY DEF Adjust
<1>2. transactions \in Seq(Transaction)
  BY DEF TypeOK
<1> HIDE DEF txn
<1> QED BY <1>1, <1>2 DEF txn

\* Steps that settle nothing keep the ledger and what is settled.
LEMMA ChargedOnceFrame ==
  ASSUME ChargedOnce, ledger' = ledger,
         \A s \in Refs : /\ reservation'[s].status = "settled" <=> reservation[s].status = "settled"
                         /\ reservation[s].status = "settled" =>
                              reservation'[s].ledgerId = reservation[s].ledgerId,
         \A i \in DOMAIN ledger : ledger[i].ref \in Refs \cup {NoRef}
  PROVE  ChargedOnce'
BY DEF ChargedOnce

LEMMA RowRefs ==
  ASSUME TypeOK
  PROVE  \A i \in DOMAIN ledger : ledger[i] \in LedgerRow /\ ledger[i].ref \in Refs \cup {NoRef}
<1>1. \A i \in DOMAIN ledger : ledger[i] \in LedgerRow
  BY LenProperties, ElementOfSeq DEF TypeOK
<1> QED BY <1>1 DEF LedgerRow

LEMMA BookChargedOnce ==
  ASSUME TypeOK, ChargedOnce, NEW r \in Refs \cup {NoRef}, NEW row \in LedgerRow,
         NEW overage \in Nat, Book(r, row, overage), Settleable(r), row.ref = r
  PROVE  ChargedOnce'
<1> DEFINE n == Len(ledger)
<1>1. /\ n \in Nat /\ DOMAIN ledger = 1..n /\ DOMAIN ledger' = 1..(n + 1)
      /\ \A i \in DOMAIN ledger : ledger'[i] = ledger[i]
      /\ ledger'[n + 1] = row
      /\ \A s \in Refs \ {r} : reservation'[s] = reservation[s]
      /\ r \in Refs => reservation'[r].status = "settled" /\ reservation'[r].ledgerId = n + 1
  BY BookLedger
<1> HIDE DEF n
<1>2. r \in Refs => reservation[r].status # "settled"
  BY DEF Settleable
<1>3. ASSUME NEW i \in DOMAIN ledger', ledger'[i].ref # NoRef
      PROVE  /\ reservation'[ledger'[i].ref].status = "settled"
             /\ reservation'[ledger'[i].ref].ledgerId = i
  <2>1. CASE i = n + 1
    BY <1>1, <1>3, <2>1
  <2>2. CASE i \in 1..n
    <3>1. ledger'[i] = ledger[i] /\ ledger[i].ref \in Refs
      BY <1>1, <1>3, <2>2, RowRefs
    <3>2. reservation[ledger[i].ref].status = "settled"
      BY <1>1, <1>3, <2>2, <3>1 DEF ChargedOnce
    <3>3. ledger[i].ref # r
      BY <1>2, <3>1, <3>2
    <3> QED BY <1>1, <1>3, <2>2, <3>1, <3>3 DEF ChargedOnce
  <2> QED BY <1>1, <2>1, <2>2
<1>4. ASSUME NEW s \in Refs, reservation'[s].status = "settled"
      PROVE  /\ reservation'[s].ledgerId \in DOMAIN ledger'
             /\ ledger'[reservation'[s].ledgerId].ref = s
  <2>1. CASE s = r
    BY <1>1, <2>1
  <2>2. CASE s # r
    BY <1>1, <1>4, <2>2 DEF ChargedOnce
  <2> QED BY <2>1, <2>2
<1> QED BY <1>3, <1>4 DEF ChargedOnce

\* The steps that touch reservations without settling one.
LEMMA LeaseStepChargedOnce ==
  ASSUME TypeOK, ChargedOnce,
         \/ \E r \in Refs, mode \in Modes, prepaid \in Prepaid, limit \in Limits :
              Reserve(r, mode, prepaid, limit)
         \/ \E r \in Refs : Release(r) \/ Renew(r) \/ MarkReconciliation(r)
         \/ Tick
  PROVE  ChargedOnce'
<1>1. \A s \in Refs : reservation[s] \in Reservation
  BY DEF TypeOK
<1> DEFINE Kept == \A s \in Refs :
             /\ reservation'[s].status = "settled" <=> reservation[s].status = "settled"
             /\ reservation[s].status = "settled" =>
                  reservation'[s].ledgerId = reservation[s].ledgerId
<1>2. ASSUME NEW r \in Refs, NEW mode \in Modes, NEW prepaid \in Prepaid,
             NEW limit \in Limits, Reserve(r, mode, prepaid, limit)
      PROVE  Kept /\ ledger' = ledger
  <2>1. reservation[r].status = "none" /\ ledger' = ledger
    BY <1>2 DEF Reserve
  <2>2. PICK hold \in Nat, credit \in Nat : reservation' = [reservation EXCEPT ![r] =
          [mode |-> mode, balance |-> hold, credit |-> credit,
           limit |-> IF mode = "period" THEN limit ELSE 0,
           period |-> IF mode = "period" THEN month ELSE 0,
           status |-> "active", ttl |-> LeaseTicks, ledgerId |-> 0]]
    BY <1>2, GrantBounds
  <2>3. reservation'[r].status = "active" /\ \A s \in Refs \ {r} : reservation'[s] = reservation[s]
    BY <2>2 DEF TypeOK
  <2> QED BY <2>1, <2>3
<1>3. ASSUME NEW r \in Refs, Release(r) PROVE Kept /\ ledger' = ledger
  BY <1>1, <1>3 DEF Release, TypeOK, Reservation
<1>4. ASSUME NEW r \in Refs, Renew(r) PROVE Kept /\ ledger' = ledger
  BY <1>1, <1>4 DEF Renew, TypeOK, Reservation
<1>5. ASSUME NEW r \in Refs, MarkReconciliation(r) PROVE Kept /\ ledger' = ledger
  BY <1>1, <1>5 DEF MarkReconciliation, TypeOK, Reservation
<1>6. ASSUME Tick PROVE Kept /\ ledger' = ledger
  BY <1>1, <1>6 DEF Tick, TypeOK, Reservation
<1>7. Kept /\ ledger' = ledger
  BY <1>2, <1>3, <1>4, <1>5, <1>6
<1> QED BY <1>7, RowRefs, ChargedOnceFrame

\* A transaction that records the balance it leaves extends the audit trail.
LEMMA AuditTrailGrows ==
  ASSUME TypeOK, AuditTrail, NEW amount \in Int, NEW id,
         Len(transactions') = Len(transactions) + 1,
         DOMAIN transactions' = 1..(Len(transactions) + 1),
         \A t \in DOMAIN transactions : transactions'[t] = transactions[t],
         transactions'[Len(transactions) + 1] =
           [amount |-> amount, after |-> balance + amount, rowId |-> id],
         balance' = balance + amount
  PROVE  AuditTrail'
<1>1. PICK m \in Nat : m = Len(transactions)
  BY LenProperties DEF TypeOK
<1>2. /\ DOMAIN transactions = 1..m /\ DOMAIN transactions' = 1..(m + 1)
      /\ Len(transactions') = m + 1
      /\ \A t \in 1..m : transactions'[t] = transactions[t]
      /\ transactions'[m + 1].amount = amount /\ transactions'[m + 1].after = balance + amount
  <2>1. DOMAIN transactions = 1..m
    BY <1>1, LenProperties DEF TypeOK
  <2> QED BY <1>1, <2>1
<1>3. \A i \in 1..(m + 1) : BalanceBefore(i)' = BalanceBefore(i)
  BY <1>2 DEF BalanceBefore
<1>4. BalanceBefore(m + 2)' = balance + amount
  BY <1>2 DEF BalanceBefore
<1>5. BalanceBefore(m + 1) = balance
  BY <1>1 DEF AuditTrail
<1>6. \A i \in 1..m : transactions'[i].after = BalanceBefore(i)' + transactions'[i].amount
  BY <1>2, <1>3 DEF AuditTrail
<1>7. transactions'[m + 1].after = BalanceBefore(m + 1)' + transactions'[m + 1].amount
  BY <1>2, <1>3, <1>5
<1>8. balance' = BalanceBefore(Len(transactions) + 1)'
  <2>1. (Len(transactions) + 1)' = m + 2
    BY <1>2
  <2> QED BY <2>1, <1>2, <1>4 DEF BalanceBefore
<1>9. \A i \in DOMAIN transactions' :
        transactions'[i].after = BalanceBefore(i)' + transactions'[i].amount
  <2>1. \A i \in DOMAIN transactions' : i \in 1..m \/ i = m + 1
    BY <1>2
  <2> QED BY <2>1, <1>6, <1>7
<1> QED BY <1>8, <1>9 DEF AuditTrail

LEMMA BookAuditTrail ==
  ASSUME TypeOK, AuditTrail, NEW r, NEW row \in LedgerRow, NEW overage \in Nat,
         Book(r, row, overage)
  PROVE  AuditTrail'
<1>1. balance \in Int /\ balance' = balance - overage
  BY BookTransactions DEF TypeOK
<1>2. CASE transactions' = transactions /\ overage = 0
  BY <1>1, <1>2 DEF AuditTrail, BalanceBefore
<1>3. CASE /\ Len(transactions') = Len(transactions) + 1
           /\ DOMAIN transactions' = 1..(Len(transactions) + 1)
           /\ \A t \in DOMAIN transactions : transactions'[t] = transactions[t]
           /\ transactions'[Len(transactions) + 1] =
                [amount |-> -overage, after |-> balance - overage,
                 rowId |-> Len(ledger) + 1]
  <2>1. -overage \in Int /\ balance - overage = balance + (-overage)
    BY <1>1
  <2> QED BY <1>1, <1>3, <2>1, AuditTrailGrows
<1> QED BY <1>2, <1>3, BookTransactions

LEMMA AdjustAuditTrail ==
  ASSUME TypeOK, AuditTrail, NEW next \in Int, Adjust(next)
  PROVE  AuditTrail'
<1>1. next - balance \in Int /\ next = balance + (next - balance)
  BY DEF TypeOK
<1> QED BY <1>1, AdjustTransactions, AuditTrailGrows

LEMMA BookBilledIsPaid ==
  ASSUME TypeOK, BilledIsPaid, NEW r, NEW row \in LedgerRow, NEW overage \in Nat,
         Book(r, row, overage),
         overage = IF row.mode = "self" THEN 0 ELSE row.billed - row.covered
  PROVE  BilledIsPaid'
<1>0. PICK n \in Nat, m \in Nat : n = Len(ledger) /\ m = Len(transactions)
  BY LenProperties DEF TypeOK
<1>1. /\ n \in Nat /\ DOMAIN ledger = 1..n /\ DOMAIN ledger' = 1..(n + 1)
      /\ Len(ledger') = n + 1
      /\ \A i \in DOMAIN ledger : ledger'[i] = ledger[i]
      /\ ledger'[n + 1] = row
  BY <1>0, BookLedger
<1>2. m \in Nat /\ DOMAIN transactions = 1..m
  BY <1>0, BookTransactions
<1>3. \A t \in 1..m : transactions[t].rowId \in 0..n
  BY <1>0, <1>2 DEF BilledIsPaid
<1>4. Overage(n + 1)' = overage /\ \A i \in 1..n : Overage(i)' = Overage(i)
  BY <1>1 DEF Overage
<1>5. CASE transactions' = transactions /\ overage = 0
  <2>1. \A i \in 1..n : PaymentsOf(i)' = PaymentsOf(i)
    BY <1>5 DEF PaymentsOf
  <2>2. PaymentsOf(n + 1)' = {}
    BY <1>1, <1>2, <1>3, <1>5 DEF PaymentsOf
  <2>3. \A t \in DOMAIN transactions' : transactions'[t].rowId \in 0..(n + 1)
    BY <1>1, <1>2, <1>3, <1>5
  <2> QED BY <1>1, <1>4, <1>5, <2>1, <2>2, <2>3 DEF BilledIsPaid
<1>6. CASE /\ overage # 0
           /\ DOMAIN transactions' = 1..(m + 1)
           /\ \A t \in DOMAIN transactions : transactions'[t] = transactions[t]
           /\ transactions'[m + 1] =
                [amount |-> -overage, after |-> balance - overage, rowId |-> n + 1]
  <2>1. \A i \in 1..n : PaymentsOf(i)' = PaymentsOf(i)
    BY <1>1, <1>2, <1>6 DEF PaymentsOf
  <2>2. PaymentsOf(n + 1)' = {m + 1}
    BY <1>1, <1>2, <1>3, <1>6, SMTT(30) DEF PaymentsOf
  <2>3. \A t \in DOMAIN transactions' : transactions'[t].rowId \in 0..(n + 1)
    BY <1>1, <1>2, <1>3, <1>6
  <2>4. \A i \in 1..n :
          IF Overage(i)' = 0 THEN PaymentsOf(i)' = {}
          ELSE \E t \in DOMAIN transactions' :
                 PaymentsOf(i)' = {t} /\ transactions'[t].amount = -Overage(i)'
    <3> SUFFICES ASSUME NEW i \in 1..n
                 PROVE  IF Overage(i)' = 0 THEN PaymentsOf(i)' = {}
                        ELSE \E t \in DOMAIN transactions' :
                               PaymentsOf(i)' = {t} /\ transactions'[t].amount = -Overage(i)'
      OBVIOUS
    <3>1. Overage(i)' = Overage(i) /\ PaymentsOf(i)' = PaymentsOf(i)
      BY <1>4, <2>1
    <3>2. CASE Overage(i) = 0
      BY <1>1, <3>1, <3>2 DEF BilledIsPaid
    <3>3. CASE Overage(i) # 0
      <4>1. PICK t \in 1..m : PaymentsOf(i) = {t} /\ transactions[t].amount = -Overage(i)
        BY <1>1, <1>2, <3>3 DEF BilledIsPaid
      <4>2. t \in DOMAIN transactions' /\ transactions'[t].amount = -Overage(i)
        BY <1>2, <1>6, <4>1
      <4> QED BY <3>1, <3>3, <4>1, <4>2
    <3> QED BY <3>2, <3>3
  <2>5. /\ m + 1 \in DOMAIN transactions' /\ PaymentsOf(n + 1)' = {m + 1}
        /\ transactions'[m + 1].amount = -Overage(n + 1)'
    BY <1>2, <1>4, <1>6, <2>2
  <2>6. \A i \in DOMAIN ledger' :
          IF Overage(i)' = 0 THEN PaymentsOf(i)' = {}
          ELSE \E t \in DOMAIN transactions' :
                 PaymentsOf(i)' = {t} /\ transactions'[t].amount = -Overage(i)'
    <3>1. \A i \in DOMAIN ledger' : i \in 1..n \/ i = n + 1
      BY <1>1
    <3>2. Overage(n + 1)' # 0
      BY <1>4, <1>6
    <3> QED BY <3>1, <3>2, <2>4, <2>5
  <2> QED BY <1>1, <2>3, <2>6 DEF BilledIsPaid
<1> QED BY <1>0, <1>5, <1>6, BookTransactions

LEMMA AdjustBilledIsPaid ==
  ASSUME TypeOK, BilledIsPaid, NEW next \in Int, Adjust(next)
  PROVE  BilledIsPaid'
<1> DEFINE m == Len(transactions)
<1>1. /\ m \in Nat /\ DOMAIN transactions = 1..m /\ DOMAIN transactions' = 1..(m + 1)
      /\ \A t \in DOMAIN transactions : transactions'[t] = transactions[t]
      /\ transactions'[m + 1] = [amount |-> next - balance, after |-> next, rowId |-> 0]
  BY AdjustTransactions
<1>2. ledger' = ledger /\ Len(ledger) \in Nat /\ DOMAIN ledger = 1..Len(ledger)
  BY LenProperties DEF Adjust, TypeOK
<1>3. \A i \in DOMAIN ledger : PaymentsOf(i)' = PaymentsOf(i) /\ Overage(i)' = Overage(i)
  BY <1>1, <1>2 DEF PaymentsOf, Overage
<1>4. \A t \in DOMAIN transactions' : transactions'[t].rowId \in 0..Len(ledger')
  BY <1>1, <1>2 DEF BilledIsPaid
<1>5. \A i \in DOMAIN ledger' :
        IF Overage(i)' = 0 THEN PaymentsOf(i)' = {}
        ELSE \E t \in DOMAIN transactions' :
               PaymentsOf(i)' = {t} /\ transactions'[t].amount = -Overage(i)'
  BY <1>1, <1>2, <1>3 DEF BilledIsPaid
<1> QED BY <1>4, <1>5 DEF BilledIsPaid

\* A new row takes no credit that earlier rows of its month were given.
LEMMA BookCreditWithinPlan ==
  ASSUME TypeOK, CoveredWithinBilled, CreditWithinPlan, NEW r, NEW row \in LedgerRow,
         NEW overage \in Nat, Book(r, row, overage),
         row.covered <= row.billed,
         row.covered > 0 => Used(row.period) + row.covered <= row.limit
  PROVE  CoveredWithinBilled' /\ CreditWithinPlan'
<1>0. PICK n \in Nat : n = Len(ledger)
  BY LenProperties DEF TypeOK
<1>1. /\ DOMAIN ledger = 1..n /\ DOMAIN ledger' = 1..(n + 1)
      /\ \A i \in 1..n : ledger'[i] = ledger[i]
      /\ ledger'[n + 1] = row
  BY <1>0, BookLedger
<1>2. \A i \in DOMAIN ledger' : i \in 1..n \/ i = n + 1
  BY <1>1
<1>3. CoveredWithinBilled'
  BY <1>1, <1>2 DEF CoveredWithinBilled
<1>4. \A i \in 1..n : CoveredUpTo(i)' = CoveredUpTo(i)
  <2> SUFFICES ASSUME NEW i \in 1..n PROVE CoveredUpTo(i)' = CoveredUpTo(i)
    OBVIOUS
  <2>1. \A j \in 1..i : ledger'[j] = ledger[j] /\ ledger'[i] = ledger[i]
    BY <1>1
  <2> QED BY <2>1 DEF CoveredUpTo
<1>5. ASSUME row.covered > 0, row.date = row.period
      PROVE  CoveredUpTo(n + 1)' <= row.limit
  <2> DEFINE m == row.period
             all == [j \in 1..(n + 1) |-> IF ledger'[j].date = m /\ ledger'[j].period = m
                                          THEN ledger'[j].covered ELSE 0]
             old == [j \in 1..n |-> IF ledger[j].date = m /\ ledger[j].period = m
                                    THEN ledger[j].covered ELSE 0]
             used == [j \in 1..n |-> IF ledger[j].date = m THEN ledger[j].billed ELSE 0]
  <2>1. \A j \in 1..n : /\ ledger[j].covered \in Nat /\ ledger[j].billed \in Nat
                        /\ ledger[j].covered <= ledger[j].billed
    <3>1. \A j \in 1..n : ledger[j] \in LedgerRow
      BY <1>1, RowRefs
    <3> QED BY <1>1, <3>1 DEF LedgerRow, CoveredWithinBilled
  <2>2. row.covered \in Nat /\ row.limit \in Nat
    BY DEF LedgerRow
  <2>3. IsFiniteSet(1..n) /\ n + 1 \notin 1..n /\ 1..(n + 1) = (1..n) \cup {n + 1}
    <3>1. IsFiniteSet(1..n)
      BY FS_Interval
    <3> QED BY <3>1
  <2>4. all \in [(1..n) \cup {n + 1} -> Nat]
    <3>1. \A j \in 1..n : ledger'[j].covered \in Nat
      BY <1>1, <2>1
    <3>2. ledger'[n + 1].covered \in Nat
      BY <1>1, <2>2
    <3> QED BY <2>3, <3>1, <3>2
  <2>5. old \in [1..n -> Nat] /\ used \in [1..n -> Nat]
    BY <2>1
  <2>6. Total(all) = Total([j \in 1..n |-> all[j]]) + all[n + 1]
    <3> HIDE DEF all
    <3> QED BY <2>3, <2>4, TotalSplit
  <2>7. [j \in 1..n |-> all[j]] = old /\ all[n + 1] = row.covered
    BY <1>1, <1>5, <2>3
  <2>8. Total(old) <= Total(used) /\ Total(old) \in Nat /\ Total(used) \in Nat
    <3>1. \A j \in 1..n : old[j] <= used[j]
      BY <2>1
    <3> HIDE DEF old, used
    <3> QED BY <2>3, <2>5, <3>1, TotalMonotone, TotalType
  <2>9. Total(used) = Used(m)
    BY <1>1 DEF Used
  <2>10. CoveredUpTo(n + 1)' = Total(all)
    BY <1>1, <1>5 DEF CoveredUpTo
  <2>11. Used(m) + row.covered <= row.limit
    BY <1>5
  <2> HIDE DEF all, old, used, m
  <2> QED BY <2>2, <2>6, <2>7, <2>8, <2>9, <2>10, <2>11
<1>6. CreditWithinPlan'
  <2> SUFFICES ASSUME NEW i \in DOMAIN ledger', ledger'[i].covered > 0,
                      ledger'[i].date = ledger'[i].period
               PROVE  CoveredUpTo(i)' <= ledger'[i].limit
    BY DEF CreditWithinPlan
  <2>1. CASE i \in 1..n
    BY <1>1, <1>4, <2>1 DEF CreditWithinPlan
  <2>2. CASE i = n + 1
    BY <1>1, <1>5, <2>2
  <2> QED BY <1>2, <2>1, <2>2
<1> QED BY <1>3, <1>6

\* Steps that leave the ledger alone leave these alone.
LEMMA LedgerFrame ==
  ASSUME CoveredWithinBilled, CreditWithinPlan, ledger' = ledger
  PROVE  CoveredWithinBilled' /\ CreditWithinPlan'
BY DEF CoveredWithinBilled, CreditWithinPlan, CoveredUpTo

LEMMA AccountFrame ==
  ASSUME AuditTrail, BilledIsPaid, UNCHANGED <<ledger, balance, transactions>>
  PROVE  AuditTrail' /\ BilledIsPaid'
BY DEF AuditTrail, BalanceBefore, BilledIsPaid, PaymentsOf, Overage

LEMMA InvariantStep == Invariant /\ [Next]_vars => Invariant'
<1> SUFFICES ASSUME Invariant, [Next]_vars PROVE Invariant'
  OBVIOUS
<1> USE DEF Invariant
<1>0. TypeOK'
  BY TypeStep
<1>1. ASSUME \/ \E r \in Refs, mode \in Modes, prepaid \in Prepaid, limit \in Limits :
                  Reserve(r, mode, prepaid, limit)
             \/ \E r \in Refs : Release(r) \/ Renew(r) \/ MarkReconciliation(r)
             \/ Tick
      PROVE  Invariant'
  <2>1. UNCHANGED <<ledger, balance, transactions>>
    BY <1>1, ZenonT(60) DEF Reserve, Release, Renew, MarkReconciliation, Tick
  <2>2. ChargedOnce'
    BY <1>1, LeaseStepChargedOnce
  <2> QED BY <1>0, <2>1, <2>2, LedgerFrame, AccountFrame
<1>2. ASSUME NEW r \in Refs \cup {NoRef}, NEW charge \in Charges,
             NEW date \in StartMonths(r), RecordUsage(r, charge, date)
      PROVE  Invariant'
  <2>1. PICK row \in LedgerRow, overage \in Nat :
          /\ Book(r, row, overage)
          /\ Settleable(r)
          /\ row.ref = r /\ row.billed = charge
          /\ row.covered <= row.billed
          /\ overage = IF row.mode = "self" THEN 0 ELSE row.billed - row.covered
          /\ row.covered > 0 => Used(row.period) + row.covered <= row.limit
    BY <1>2, RecordBooksRow
  <2>2. ChargedOnce'
    BY <2>1, BookChargedOnce
  <2>3. AuditTrail' /\ BilledIsPaid'
    BY <2>1, BookAuditTrail, BookBilledIsPaid
  <2>4. CoveredWithinBilled' /\ CreditWithinPlan'
    BY <2>1, BookCreditWithinPlan
  <2> QED BY <1>0, <2>2, <2>3, <2>4
<1>3. ASSUME NEW next \in Int, Adjust(next) PROVE Invariant'
  <2>1. ledger' = ledger /\ reservation' = reservation
    BY <1>3 DEF Adjust
  <2>2. ChargedOnce'
    BY <2>1 DEF ChargedOnce
  <2>3. AuditTrail' /\ BilledIsPaid'
    BY <1>3, AdjustAuditTrail, AdjustBilledIsPaid
  <2> QED BY <1>0, <2>1, <2>2, <2>3, LedgerFrame
<1>4. ASSUME NEW amount \in Deposits, Deposit(amount) PROVE Invariant'
  <2>1. balance + amount \in Int
    BY AmountAssumption DEF TypeOK
  <2> QED BY <1>3, <1>4, <2>1 DEF Deposit
<1>5. ASSUME NEW next \in AdminBalances, AdminSet(next) PROVE Invariant'
  BY <1>3, <1>5, AmountAssumption DEF AdminSet
<1>6. CASE NextMonth \/ UNCHANGED vars
  <2>1. UNCHANGED <<balance, reservation, ledger, transactions>>
    BY <1>6 DEF NextMonth, vars
  <2>2. ChargedOnce'
    BY <2>1 DEF ChargedOnce
  <2> QED BY <1>0, <2>1, <2>2, LedgerFrame, AccountFrame
<1> QED BY <1>1, <1>2, <1>4, <1>5, <1>6 DEF Next

LEMMA InvariantInit == Init => Invariant
<1> SUFFICES ASSUME Init PROVE Invariant
  OBVIOUS
<1>1. Len(ledger) = 0 /\ DOMAIN ledger = {} /\ Len(transactions) = 0 /\ DOMAIN transactions = {}
  BY DEF Init
<1>2. \A r \in Refs : reservation[r].status = "none"
  BY DEF Init, NoReservation
<1>3. ChargedOnce
  BY <1>1, <1>2 DEF ChargedOnce
<1>4. AuditTrail
  BY <1>1 DEF AuditTrail, BalanceBefore, Init
<1>5. BilledIsPaid /\ CoveredWithinBilled /\ CreditWithinPlan
  BY <1>1 DEF BilledIsPaid, CoveredWithinBilled, CreditWithinPlan
<1> QED BY <1>3, <1>4, <1>5, TypeInit DEF Invariant

LEMMA InvariantHolds == Spec => []Invariant
<1> QED BY InvariantInit, InvariantStep, PTL DEF Spec

\* No call is billed twice, however often its settlement is repeated.
THEOREM ChargedOnceCorrect == Spec => []ChargedOnce
<1>1. Invariant => ChargedOnce
  BY DEF Invariant
<1> QED BY <1>1, InvariantHolds, PTL

\* The balance is what the recorded transactions add up to.
THEOREM AuditTrailCorrect == Spec => []AuditTrail
<1>1. Invariant => AuditTrail
  BY DEF Invariant
<1> QED BY <1>1, InvariantHolds, PTL

\* Every ledger row is paid exactly once, by plan credit and one transaction.
THEOREM BilledIsPaidCorrect == Spec => []BilledIsPaid
<1>1. Invariant => BilledIsPaid
  BY DEF Invariant
<1> QED BY <1>1, InvariantHolds, PTL

\* Concurrent settlements never give out more credit in a month than the plan has.
THEOREM CreditWithinPlanCorrect == Spec => []CreditWithinPlan
<1>1. Invariant => CreditWithinPlan
  BY DEF Invariant
<1> QED BY <1>1, InvariantHolds, PTL

-----------------------------------------------------------------------------
(* A grant commits only budget that is there *)

\* What releases, renews, marks, records, adjusts or lets time pass grants nothing.
LEMMA OthersGrantNothing ==
  ASSUME TypeOK, NEW r \in Refs, Granted(r)
  PROVE  /\ \A s \in Refs : ~Release(s) /\ ~Renew(s) /\ ~MarkReconciliation(s)
         /\ \A s \in Refs \cup {NoRef}, charge \in Charges :
              \A date \in StartMonths(s) : ~RecordUsage(s, charge, date)
         /\ \A next : ~Adjust(next)
         /\ ~Tick /\ ~NextMonth /\ ~UNCHANGED reservation
<1>1. reservation[r].status = "none" /\ reservation'[r].status = "active"
  BY DEF Granted
<1>2. reservation[r] \in Reservation
  BY DEF TypeOK
<1>3. ASSUME NEW s \in Refs, Release(s) \/ Renew(s) \/ MarkReconciliation(s) PROVE FALSE
  BY <1>1, <1>2, <1>3 DEF Release, Renew, MarkReconciliation, TypeOK, Reservation
<1>4. ASSUME NEW s \in Refs \cup {NoRef}, NEW charge \in Charges,
             NEW date \in StartMonths(s), RecordUsage(s, charge, date)
      PROVE  FALSE
  <2>1. PICK row \in LedgerRow, overage \in Nat : Book(s, row, overage)
    BY <1>4, RecordBooksRow
  <2>2. reservation'[r] = reservation[r] \/ reservation'[r].status = "settled"
    BY <2>1, BookLedger
  <2> QED BY <1>1, <2>2
<1>5. ~Tick
  BY <1>1, <1>2 DEF Tick, Reservation
<1>6. ~UNCHANGED reservation
  BY <1>1
<1>7. (\A next : ~Adjust(next)) /\ ~NextMonth
  BY <1>6 DEF Adjust, NextMonth
<1> QED BY <1>3, <1>4, <1>5, <1>6, <1>7

\* Only Reserve turns an unused reference into an active reservation.
LEMMA OnlyReserveGrants ==
  ASSUME TypeOK, [Next]_vars, NEW r \in Refs, Granted(r)
  PROVE  \E mode \in Modes, prepaid \in Prepaid, limit \in Limits :
           Reserve(r, mode, prepaid, limit)
<1>1. reservation[r].status = "none" /\ reservation'[r].status = "active"
  BY DEF Granted
<1>2. ASSUME NEW s \in Refs, NEW mode \in Modes, NEW prepaid \in Prepaid,
             NEW limit \in Limits, Reserve(s, mode, prepaid, limit)
      PROVE  s = r
  <2>1. PICK hold \in Nat, credit \in Nat : reservation' = [reservation EXCEPT ![s] =
          [mode |-> mode, balance |-> hold, credit |-> credit,
           limit |-> IF mode = "period" THEN limit ELSE 0,
           period |-> IF mode = "period" THEN month ELSE 0,
           status |-> "active", ttl |-> LeaseTicks, ledgerId |-> 0]]
    BY <1>2, GrantBounds
  <2>2. s # r => reservation'[r] = reservation[r]
    BY <2>1 DEF TypeOK
  <2> QED BY <1>1, <2>2
<1>3. PICK s \in Refs, mode \in Modes, prepaid \in Prepaid, limit \in Limits :
        Reserve(s, mode, prepaid, limit)
  BY OthersGrantNothing DEF Next, Deposit, AdminSet, vars
<1> QED BY <1>2, <1>3

\* After a grant of what is free, the slots, the balance holds and the credit holds are as
\* before, plus the new reservation.
LEMMA GrantEffect ==
  ASSUME TypeOK, TypeOK', NEW r \in Refs, NEW mode \in Modes, NEW limit \in Limits,
         NEW hold \in Nat, NEW credit \in Nat,
         reservation' = [reservation EXCEPT ![r] =
           [mode |-> mode, balance |-> hold, credit |-> credit,
            limit |-> IF mode = "period" THEN limit ELSE 0,
            period |-> IF mode = "period" THEN month ELSE 0,
            status |-> "active", ttl |-> LeaseTicks, ledgerId |-> 0]],
         hold > 0 => HeldBalance + hold <= balance,
         credit > 0 => mode = "period" /\ Used(month) + HeldCredit(month, NoRef) + credit <= limit,
         month' = month, reservation[r].status = "none", Cardinality(Holders) < MaxActive
  PROVE  /\ Cardinality(Holders') <= MaxActive
         /\ reservation'[r].balance > 0 => HeldBalance' <= balance
         /\ reservation'[r].credit > 0 =>
              Used(month) + HeldCredit(month, NoRef)' <= reservation'[r].limit
<1>2. /\ reservation'[r].balance = hold /\ reservation'[r].credit = credit
      /\ mode = "period" => reservation'[r].limit = limit /\ reservation'[r].period = month
      /\ reservation'[r].status = "active" /\ reservation'[r].ttl = LeaseTicks
      /\ \A s \in Refs \ {r} : reservation'[s] = reservation[s]
      /\ reservation'[r].period = IF mode = "period" THEN month ELSE 0
  BY DEF TypeOK
<1>3. month' = month /\ reservation[r].status = "none"
  OBVIOUS
<1>4. ~Holding(reservation[r]) /\ Holding(reservation'[r])
  BY <1>2, <1>3, BoundAssumption DEF Holding
<1>6. Cardinality(Holders') <= MaxActive
  <2>1. Holders' = Holders \cup {r} /\ r \notin Holders
    BY <1>2, <1>4 DEF Holders
  <2>2. IsFiniteSet(Holders)
    BY RefsAssumption, FS_Subset DEF Holders
  <2>3. Cardinality(Holders') = Cardinality(Holders) + 1 /\ Cardinality(Holders) \in Nat
    BY <2>1, <2>2, FS_AddElement, FS_CardinalityType
  <2>4. Cardinality(Holders) < MaxActive
    OBVIOUS
  <2> QED BY <2>3, <2>4, BoundAssumption
<1>7. HeldBalance' = HeldBalance + hold
  <2> DEFINE f == [s \in Refs |->
                     IF Holding(reservation[s]) THEN reservation[s].balance ELSE 0]
             g == [s \in Refs |->
                     IF Holding(reservation'[s]) THEN reservation'[s].balance ELSE 0]
  <2>1. f \in [Refs -> Nat]
    BY DEF TypeOK, Reservation
  <2>2. g \in [Refs -> Nat]
    BY DEF TypeOK, Reservation
  <2>3. \A s \in Refs \ {r} : f[s] = g[s]
    BY <1>2
  <2>4. f[r] = 0 /\ g[r] = hold
    BY <1>2, <1>4
  <2>5. HeldBalance = Total(f) /\ HeldBalance' = Total(g)
    BY DEF HeldBalance, Holding
  <2> HIDE DEF f, g
  <2>6. Total(g) - g[r] = Total(f) - f[r] /\ Total(f) \in Nat /\ Total(g) \in Nat
    BY <2>1, <2>2, <2>3, RefsAssumption, TotalChange, TotalType
  <2> QED BY <2>4, <2>5, <2>6
<1>8. ASSUME credit > 0 PROVE HeldCredit(month, NoRef)' = HeldCredit(month, NoRef) + credit
  <2> DEFINE f == [s \in Refs |->
                     IF Holding(reservation[s]) /\ reservation[s].period = month /\ s # NoRef
                     THEN reservation[s].credit ELSE 0]
             g == [s \in Refs |->
                     IF Holding(reservation'[s]) /\ reservation'[s].period = month /\ s # NoRef
                     THEN reservation'[s].credit ELSE 0]
  <2>1. f \in [Refs -> Nat]
    BY DEF TypeOK, Reservation
  <2>2. g \in [Refs -> Nat]
    BY DEF TypeOK, Reservation
  <2>3. \A s \in Refs \ {r} : f[s] = g[s]
    BY <1>2
  <2>4. f[r] = 0 /\ g[r] = credit
    BY <1>2, <1>4, <1>8, RefsAssumption
  <2>5. HeldCredit(month, NoRef) = Total(f) /\ HeldCredit(month, NoRef)' = Total(g)
    BY <1>3 DEF HeldCredit, Holding
  <2> HIDE DEF f, g
  <2>6. Total(g) - g[r] = Total(f) - f[r] /\ Total(f) \in Nat /\ Total(g) \in Nat
    BY <2>1, <2>2, <2>3, RefsAssumption, TotalChange, TotalType
  <2> QED BY <2>4, <2>5, <2>6
<1>9. Used(month) \in Nat /\ HeldCredit(month, NoRef) \in Nat /\ HeldBalance \in Nat
  BY SumsType
<1> QED BY <1>2, <1>6, <1>7, <1>8, <1>9

LEMMA GrantStep ==
  ASSUME TypeOK, NEW r \in Refs, NEW mode \in Modes, NEW prepaid \in Prepaid,
         NEW limit \in Limits, Reserve(r, mode, prepaid, limit)
  PROVE  /\ Cardinality(Holders') <= MaxActive
         /\ reservation'[r].balance > 0 => HeldBalance' <= balance
         /\ reservation'[r].credit > 0 =>
              Used(month) + HeldCredit(month, NoRef)' <= reservation'[r].limit
<1>1. TypeOK'
  BY TypeStep DEF Next
<1>2. PICK hold \in Nat, credit \in Nat :
        /\ reservation' = [reservation EXCEPT ![r] =
             [mode |-> mode, balance |-> hold, credit |-> credit,
              limit |-> IF mode = "period" THEN limit ELSE 0,
              period |-> IF mode = "period" THEN month ELSE 0,
              status |-> "active", ttl |-> LeaseTicks, ledgerId |-> 0]]
        /\ hold > 0 => HeldBalance + hold <= balance
        /\ credit > 0 => /\ mode = "period"
                         /\ Used(month) + HeldCredit(month, NoRef) + credit <= limit
  BY GrantBounds
<1>3. month' = month /\ reservation[r].status = "none" /\ Cardinality(Holders) < MaxActive
  BY DEF Reserve
<1> QED BY <1>1, <1>2, <1>3, GrantEffect

\* No grant promises balance or plan credit that is already promised, and none
\* exceeds the slots, whatever lapsed, was settled or adjusted in between.
THEOREM GrantWithinBudgetCorrect == Spec => GrantWithinBudget
<1>1. TypeOK /\ [Next]_vars =>
        [\A r \in Refs : Granted(r) =>
           /\ Cardinality(Holders') <= MaxActive
           /\ reservation'[r].balance > 0 => HeldBalance' <= balance
           /\ reservation'[r].credit > 0 =>
                Used(month) + HeldCredit(month, NoRef)' <= reservation'[r].limit]_vars
  BY OnlyReserveGrants, GrantStep
<1> QED BY <1>1, TypeCorrect, PTL DEF Spec, GrantWithinBudget

-----------------------------------------------------------------------------
(* ReserveUsageBalance statement by statement: UsageBudgetSteps. *)

\* Giving back, renewing in time and marking what still holds takes no slot and no budget.
LEMMA HoldsShrink ==
  ASSUME TypeOK, TypeOK', UNCHANGED <<month, balance, ledger>>,
         \A r \in Refs : /\ reservation'[r].balance = reservation[r].balance
                         /\ reservation'[r].credit = reservation[r].credit
                         /\ reservation'[r].period = reservation[r].period
                         /\ Holding(reservation'[r]) => Holding(reservation[r])
  PROVE  /\ Cardinality(Holders)' <= Cardinality(Holders)
         /\ Cardinality(Holders) \in Nat /\ Cardinality(Holders)' \in Nat
         /\ HeldBalance' \in Nat /\ HeldBalance' <= HeldBalance
         /\ HeldCredit(month, NoRef)' \in Nat
         /\ HeldCredit(month, NoRef)' <= HeldCredit(month, NoRef)
<1>1. /\ Cardinality(Holders)' <= Cardinality(Holders)
      /\ Cardinality(Holders) \in Nat /\ Cardinality(Holders)' \in Nat
  <2>1. Holders \subseteq Refs /\ Holders' \subseteq Holders
    BY DEF Holders, Holding
  <2>2. IsFiniteSet(Holders) /\ IsFiniteSet(Holders')
    BY <2>1, RefsAssumption, FS_Subset
  <2> QED BY <2>1, <2>2, FS_Subset, FS_CardinalityType
<1>2. HeldBalance' \in Nat /\ HeldBalance' <= HeldBalance
  <2> DEFINE f == [s \in Refs |->
                     IF Holding(reservation[s]) THEN reservation[s].balance ELSE 0]
             g == [s \in Refs |->
                     IF Holding(reservation'[s]) THEN reservation'[s].balance ELSE 0]
  <2>1. f \in [Refs -> Nat]
    BY DEF TypeOK, Reservation
  <2>2. g \in [Refs -> Nat]
    BY DEF TypeOK, Reservation
  <2>3. \A s \in Refs : g[s] <= f[s]
    BY <2>1, <2>2
  <2>4. HeldBalance = Total(f) /\ HeldBalance' = Total(g)
    BY DEF HeldBalance, Holding
  <2> HIDE DEF f, g
  <2> QED BY <2>1, <2>2, <2>3, <2>4, RefsAssumption, TotalMonotone, TotalType
<1>3. /\ HeldCredit(month, NoRef)' \in Nat
      /\ HeldCredit(month, NoRef)' <= HeldCredit(month, NoRef)
  <2> DEFINE f == [s \in Refs |->
                     IF Holding(reservation[s]) /\ reservation[s].period = month /\ s # NoRef
                     THEN reservation[s].credit ELSE 0]
             g == [s \in Refs |->
                     IF Holding(reservation'[s]) /\ reservation'[s].period = month /\ s # NoRef
                     THEN reservation'[s].credit ELSE 0]
  <2>1. f \in [Refs -> Nat]
    BY DEF TypeOK, Reservation
  <2>2. g \in [Refs -> Nat]
    BY DEF TypeOK, Reservation
  <2>3. \A s \in Refs : g[s] <= f[s]
    BY <2>1, <2>2
  <2>4. HeldCredit(month, NoRef) = Total(f) /\ HeldCredit(month, NoRef)' = Total(g)
    BY DEF HeldCredit, Holding
  <2> HIDE DEF f, g
  <2> QED BY <2>1, <2>2, <2>3, <2>4, RefsAssumption, TotalMonotone, TotalType
<1> QED BY <1>1, <1>2, <1>3

\* The share of a slot is a natural, and positive only of something.
LEMMA ShareType ==
  ASSUME NEW available \in Nat, NEW slots \in Nat \ {0}
  PROVE  Share(available, slots) \in Nat
BY DEF Share

LEMMA HoldersCount == TypeOK => Cardinality(Holders) \in Nat
BY RefsAssumption, FS_Subset, FS_CardinalityType DEF Holders

\* What is left of a limit is free.
LEMMA RemainingFree ==
  ASSUME NEW limit \in Int, NEW consumed \in Nat, NEW reserved \in Nat
  PROVE  /\ Remaining(limit, consumed, reserved) \in Nat
         /\ Remaining(limit, consumed, reserved) > 0 =>
              consumed + reserved + Remaining(limit, consumed, reserved) <= limit
BY DEF Remaining

LEMMA ShareNowType ==
  ASSUME TypeOK, NEW mode, NEW limit \in Nat
  PROVE  ShareNow(mode, limit) \in Nat
<1> DEFINE credit == IF mode = "period"
                     THEN Remaining(limit, Used(month), HeldCredit(month, NoRef)) ELSE 0
           free == Remaining(balance, HeldBalance, 0)
           slots == MaxActive - Cardinality(Holders)
<1>1. HeldBalance \in Nat /\ Used(month) \in Nat /\ HeldCredit(month, NoRef) \in Nat
  BY SumsType
<1>2. credit \in Nat /\ free \in Nat
  <2>1. balance \in Int /\ limit \in Int /\ 0 \in Nat
    BY DEF TypeOK
  <2>2. Remaining(limit, Used(month), HeldCredit(month, NoRef)) \in Nat
    BY <1>1, <2>1, RemainingFree
  <2>3. Remaining(balance, HeldBalance, 0) \in Nat
    BY <1>1, <2>1, RemainingFree
  <2> QED BY <2>2, <2>3
<1>3. Cardinality(Holders) \in Nat /\ MaxActive \in Nat
  BY HoldersCount, BoundAssumption
<1>4. CASE Cardinality(Holders) >= MaxActive
  BY <1>4 DEF ShareNow
<1>5. CASE ~(Cardinality(Holders) >= MaxActive)
  <2>1. slots \in Nat \ {0}
    BY <1>3, <1>5
  <2> HIDE DEF credit, free, slots
  <2>2. Share(free + credit, slots) \in Nat
    BY <1>2, <2>1, ShareType
  <2> QED BY <1>5, <2>2 DEF ShareNow, credit, free, slots
<1> QED BY <1>4, <1>5

LEMMA StepsInitInvariant == StepsInit => StepsInvariant
BY TypeInit DEF StepsInit, StepsInvariant, StepsTypeOK, ReadsHold

\* The transaction begins and reads.
LEMMA ReadStep ==
  ASSUME StepsInvariant,
         \/ \E r \in Refs, mode \in Modes, prepaid \in Prepaid, limit \in Limits :
              Count(r, mode, prepaid, limit)
         \/ SumBalance \/ SumCredit
  PROVE  StepsInvariant'
<1>1. TypeOK /\ tx \in {NoTx} \cup Tx
  BY DEF StepsInvariant, StepsTypeOK
<1>2. UNCHANGED rows
  BY DEF Count, SumBalance, SumCredit
<1>3. TypeOK'
  BY <1>1, <1>2 DEF rows, TypeOK
<1>4. HeldBalance \in Nat /\ Used(month) \in Nat /\ HeldCredit(month, NoRef) \in Nat
  BY <1>1, SumsType
<1>5. Cardinality(Holders) \in Nat /\ MaxActive \in Nat \ {0}
  BY <1>1, HoldersCount, BoundAssumption
<1>6. /\ HeldBalance' = HeldBalance /\ balance' = balance /\ Cardinality(Holders)' = Cardinality(Holders)
      /\ Used(month)' = Used(month) /\ HeldCredit(month, NoRef)' = HeldCredit(month, NoRef)
      /\ reservation' = reservation
  BY <1>2 DEF rows, HeldBalance, HeldCredit, Holders, Used, Holding
<1>7. ASSUME NEW r \in Refs, NEW mode \in Modes, NEW prepaid \in Prepaid, NEW limit \in Limits,
             Count(r, mode, prepaid, limit)
      PROVE  StepsInvariant'
  <2>1. MaxActive - Cardinality(Holders) \in 1..MaxActive
    BY <1>5, <1>7 DEF Count
  <2>2. ShareNow(mode, limit) \in Nat
    BY <1>1, AmountAssumption, ShareNowType
  <2>3. tx' = [at |-> "counted", ref |-> r, mode |-> mode, prepaid |-> prepaid,
               limit |-> limit, slots |-> MaxActive - Cardinality(Holders),
               forBalance |-> 0, forCredit |-> 0, fair |-> ShareNow(mode, limit)]
    BY <1>7 DEF Count
  <2>4. tx' \in Tx
    BY <2>1, <2>2, <2>3 DEF Tx
  <2>5. /\ tx'.at = "counted" /\ tx'.ref = r /\ tx'.forBalance = 0 /\ tx'.forCredit = 0
        /\ tx'.slots = MaxActive - Cardinality(Holders)
    BY <2>3
  <2>6. reservation[r].status = "none"
    BY <1>7 DEF Count
  <2>7. ReadsHold'
    BY <1>5, <1>6, <2>5 DEF ReadsHold
  <2> QED BY <1>3, <1>6, <2>4, <2>5, <2>6, <2>7 DEF StepsInvariant, StepsTypeOK
<1>8. CASE SumBalance
  <2> DEFINE left == Remaining(balance, HeldBalance, 0)
  <2>1. left \in Nat /\ (left > 0 => HeldBalance + left <= balance)
    <3>1. balance \in Int /\ 0 \in Nat
      BY <1>1 DEF TypeOK
    <3>2. left \in Nat /\ (left > 0 => HeldBalance + 0 + left <= balance)
      BY <1>4, <3>1, RemainingFree
    <3> HIDE DEF left
    <3> QED BY <1>4, <3>1, <3>2
  <2>2. tx \in Tx /\ tx.at = "counted" /\ tx' = [tx EXCEPT !.at = "summed", !.forBalance = left]
    BY <1>1, <1>8 DEF SumBalance, NoTx
  <2> HIDE DEF left
  <2>3. /\ tx' \in Tx /\ tx'.at = "summed" /\ tx'.forBalance = left /\ tx'.ref = tx.ref
        /\ tx'.slots = tx.slots /\ tx'.forCredit = tx.forCredit /\ tx'.limit = tx.limit
        /\ tx'.mode = tx.mode
    BY <2>1, <2>2 DEF Tx
  <2>4. tx # NoTx
    BY <2>2 DEF NoTx
  <2>5. ReadsHold'
    BY <1>6, <2>1, <2>2, <2>3, <2>4 DEF StepsInvariant, ReadsHold
  <2> QED BY <1>3, <1>6, <2>3, <2>4, <2>5 DEF StepsInvariant, StepsTypeOK
<1>9. CASE SumCredit
  <2> DEFINE left == Remaining(tx.limit, Used(month), HeldCredit(month, NoRef))
  <2>1. /\ tx \in Tx /\ tx.at = "summed" /\ tx.mode = "period"
        /\ tx' = [tx EXCEPT !.at = "ready", !.forCredit = left]
    BY <1>1, <1>9 DEF SumCredit, NoTx
  <2>2. tx.limit \in Nat
    BY <2>1, AmountAssumption DEF Tx
  <2>3. left \in Nat /\ (left > 0 => Used(month) + HeldCredit(month, NoRef) + left <= tx.limit)
    <3>1. tx.limit \in Int
      BY <2>2
    <3> QED BY <1>4, <3>1, RemainingFree
  <2> HIDE DEF left
  <2>4. /\ tx' \in Tx /\ tx'.at = "ready" /\ tx'.forCredit = left /\ tx'.ref = tx.ref
        /\ tx'.slots = tx.slots /\ tx'.forBalance = tx.forBalance /\ tx'.limit = tx.limit
        /\ tx'.mode = tx.mode
    BY <2>1, <2>3 DEF Tx
  <2>5. tx # NoTx
    BY <2>1 DEF NoTx
  <2>6. ReadsHold'
    BY <1>6, <2>1, <2>3, <2>4, <2>5 DEF StepsInvariant, ReadsHold
  <2> QED BY <1>3, <1>6, <2>4, <2>5, <2>6 DEF StepsInvariant, StepsTypeOK
<1> QED BY <1>7, <1>8, <1>9

\* What is inserted is within what was read.
LEMMA InsertBounds ==
  ASSUME StepsInvariant, Insert
  PROVE  /\ tx \in Tx /\ reservation[tx.ref].status = "none"
         /\ \E hold \in Nat, credit \in Nat :
              /\ reservation' = [reservation EXCEPT ![tx.ref] =
                   [mode |-> tx.mode, balance |-> hold, credit |-> credit,
                    limit |-> IF tx.mode = "period" THEN tx.limit ELSE 0,
                    period |-> IF tx.mode = "period" THEN month ELSE 0,
                    status |-> "active", ttl |-> LeaseTicks, ledgerId |-> 0]]
              /\ hold > 0 => HeldBalance + hold <= balance
              /\ credit > 0 => /\ tx.mode = "period"
                               /\ Used(month) + HeldCredit(month, NoRef) + credit <= tx.limit
         /\ Cardinality(Holders) < MaxActive
<1> DEFINE credit == Lesser(Requested, tx.forCredit)
<1>1. TypeOK /\ tx \in {NoTx} \cup Tx
  BY DEF StepsInvariant, StepsTypeOK
<1>2. tx \in Tx /\ tx # NoTx
  BY <1>1 DEF Insert, Ready, NoTx, Tx
<1>3. HeldBalance \in Nat /\ Used(month) \in Nat /\ HeldCredit(month, NoRef) \in Nat
  BY <1>1, SumsType
<1>4. /\ tx.forBalance \in Nat /\ tx.forCredit \in Nat /\ tx.slots \in Nat \ {0}
      /\ tx.prepaid \in Nat /\ tx.limit \in Nat /\ balance \in Int /\ tx.slots <= MaxActive
  <2>1. /\ tx.forBalance \in Nat /\ tx.forCredit \in Nat /\ tx.slots \in 1..MaxActive
        /\ tx.prepaid \in Prepaid /\ tx.limit \in Limits
    BY <1>2 DEF Tx
  <2>2. tx.prepaid \in Nat /\ tx.limit \in Nat
    BY <2>1, AmountAssumption
  <2>3. tx.slots \in Nat \ {0} /\ tx.slots <= MaxActive
    BY <2>1, BoundAssumption
  <2>4. balance \in Int
    BY <1>1 DEF TypeOK
  <2> QED BY <2>1, <2>2, <2>3, <2>4
<1>5. /\ tx.slots + Cardinality(Holders) <= MaxActive
      /\ tx.forBalance > 0 => HeldBalance + tx.forBalance <= balance
      /\ tx.forCredit > 0 => Used(month) + HeldCredit(month, NoRef) + tx.forCredit <= tx.limit
      /\ tx.forCredit > 0 => tx.mode = "period"
  BY <1>2, <1>4 DEF StepsInvariant, ReadsHold
<1>6. Requested \in Nat
  <2>1. Available \in Nat
    BY <1>4 DEF Available
  <2> QED BY <1>4, <2>1, ShareType DEF Requested
<1>7. Requested <= tx.forBalance + tx.forCredit
  BY DEF Insert, Available
<1>8. /\ credit \in Nat /\ Requested - credit \in Nat /\ credit <= tx.forCredit
      /\ Requested - credit <= tx.forBalance
  BY <1>4, <1>6, <1>7 DEF Lesser
<1>9. reservation' = [reservation EXCEPT ![tx.ref] =
        [mode |-> tx.mode, balance |-> Requested - credit, credit |-> credit,
         limit |-> IF tx.mode = "period" THEN tx.limit ELSE 0,
         period |-> IF tx.mode = "period" THEN month ELSE 0,
         status |-> "active", ttl |-> LeaseTicks, ledgerId |-> 0]]
  BY DEF Insert
<1> HIDE DEF credit
<1>10. Requested - credit > 0 => HeldBalance + (Requested - credit) <= balance
  BY <1>3, <1>4, <1>5, <1>6, <1>8
<1>11. credit > 0 => /\ tx.mode = "period"
                     /\ Used(month) + HeldCredit(month, NoRef) + credit <= tx.limit
  BY <1>3, <1>4, <1>5, <1>8
<1>12. Cardinality(Holders) < MaxActive
  <2>1. Cardinality(Holders) \in Nat /\ MaxActive \in Nat
    BY <1>1, HoldersCount, BoundAssumption
  <2> QED BY <1>4, <1>5, <2>1
<1>13. reservation[tx.ref].status = "none"
  BY <1>2 DEF StepsInvariant, StepsTypeOK
<1> QED BY <1>2, <1>8, <1>9, <1>10, <1>11, <1>12, <1>13

LEMMA InsertType ==
  ASSUME StepsInvariant, Insert
  PROVE  TypeOK'
<1>1. PICK hold \in Nat, credit \in Nat :
        reservation' = [reservation EXCEPT ![tx.ref] =
          [mode |-> tx.mode, balance |-> hold, credit |-> credit,
           limit |-> IF tx.mode = "period" THEN tx.limit ELSE 0,
           period |-> IF tx.mode = "period" THEN month ELSE 0,
           status |-> "active", ttl |-> LeaseTicks, ledgerId |-> 0]]
  BY InsertBounds
<1>2. TypeOK /\ tx.ref \in Refs /\ tx.mode \in Modes /\ tx.limit \in Limits
  BY InsertBounds DEF StepsInvariant, StepsTypeOK, Tx
<1>3. UNCHANGED <<month, balance, ledger, transactions>>
  BY DEF Insert
<1> QED BY <1>1, <1>2, <1>3, GrantType

LEMMA UnlockedStep ==
  ASSUME Punctual, StepsInvariant, Unlocked
  PROVE  StepsInvariant'
<1>1. PICK r \in Refs : Release(r) \/ Renew(r) \/ (~Lapsed(r) /\ MarkReconciliation(r))
  BY DEF Unlocked
<1>2. TypeOK /\ tx \in {NoTx} \cup Tx
  BY DEF StepsInvariant, StepsTypeOK
<1>3. TypeOK'
  BY <1>1, <1>2, TypeStep DEF Next
<1>4. UNCHANGED <<month, balance, ledger, transactions>>
  BY <1>1 DEF Release, Renew, MarkReconciliation
<1>5. ASSUME NEW s \in Refs
      PROVE  /\ reservation'[s].balance = reservation[s].balance
             /\ reservation'[s].credit = reservation[s].credit
             /\ reservation'[s].period = reservation[s].period
             /\ Holding(reservation'[s]) => Holding(reservation[s])
             /\ reservation[s].status = "none" => reservation'[s].status = "none"
  <2>1. reservation[s] \in Reservation /\ reservation[r] \in Reservation
    BY <1>2 DEF TypeOK
  <2>2. CASE Release(r)
    BY <1>2, <2>1, <2>2 DEF Release, TypeOK, Reservation, Holding
  <2>3. CASE Renew(r)
    BY <1>2, <2>1, <2>3 DEF Renew, TypeOK, Reservation, Holding
  <2>4. CASE ~Lapsed(r) /\ MarkReconciliation(r)
    BY <1>2, <2>1, <2>4, BoundAssumption, SMTT(30)
       DEF Lapsed, MarkReconciliation, TypeOK, Reservation, Holding
  <2> QED BY <1>1, <2>2, <2>3, <2>4
<1>6. /\ Cardinality(Holders)' <= Cardinality(Holders)
      /\ Cardinality(Holders) \in Nat /\ Cardinality(Holders)' \in Nat
      /\ HeldBalance' \in Nat /\ HeldBalance' <= HeldBalance
      /\ HeldCredit(month, NoRef)' \in Nat
      /\ HeldCredit(month, NoRef)' <= HeldCredit(month, NoRef)
  BY <1>2, <1>3, <1>4, <1>5, HoldsShrink
<1>7. /\ HeldBalance \in Nat /\ Used(month) \in Nat /\ HeldCredit(month, NoRef) \in Nat
      /\ Used(month)' = Used(month) /\ balance' = balance /\ balance \in Int
  <2>1. /\ HeldBalance \in Nat /\ Used(month) \in Nat /\ HeldCredit(month, NoRef) \in Nat
    BY <1>2, SumsType
  <2>2. Used(month)' = Used(month) /\ balance' = balance
    BY <1>4 DEF Used
  <2>3. balance \in Int
    BY <1>2 DEF TypeOK
  <2> QED BY <2>1, <2>2, <2>3
<1>8. CASE tx = NoTx
  <2>1. tx' = NoTx
    BY <1>8 DEF Unlocked
  <2> QED BY <1>3, <2>1 DEF StepsInvariant, StepsTypeOK, ReadsHold
<1>9. CASE tx # NoTx
  <2>1. tx \in Tx
    BY <1>2, <1>9
  <2>2. PICK n \in Nat : tx' = [tx EXCEPT !.fair = n]
    <3>1. ShareNow(tx.mode, tx.limit) \in Nat /\ tx.fair \in Nat
      BY <1>2, <2>1, AmountAssumption, ShareNowType DEF Tx
    <3>2. Greater(tx.fair, ShareNow(tx.mode, tx.limit)) \in Nat
      BY <3>1 DEF Greater
    <3> QED BY <1>9, <3>2 DEF Unlocked
  <2>3. /\ tx' \in Tx /\ tx'.at = tx.at /\ tx'.ref = tx.ref /\ tx'.mode = tx.mode
        /\ tx'.slots = tx.slots /\ tx'.forBalance = tx.forBalance
        /\ tx'.forCredit = tx.forCredit /\ tx'.limit = tx.limit
    BY <2>1, <2>2 DEF Tx
  <2>4. /\ tx.ref \in Refs /\ tx.slots \in Nat /\ tx.forBalance \in Nat /\ tx.forCredit \in Nat
        /\ tx.limit \in Nat /\ MaxActive \in Nat
    <3>1. /\ tx.ref \in Refs /\ tx.slots \in 1..MaxActive /\ tx.limit \in Limits
          /\ tx.forBalance \in Nat /\ tx.forCredit \in Nat
      BY <2>1 DEF Tx
    <3>2. tx.limit \in Nat /\ MaxActive \in Nat
      BY <3>1, AmountAssumption, BoundAssumption
    <3> QED BY <3>1, <3>2
  <2>5. reservation'[tx.ref].status = "none"
    BY <1>5, <1>9, <2>4 DEF StepsInvariant, StepsTypeOK
  <2>6. /\ tx.slots + Cardinality(Holders) <= MaxActive
        /\ tx.forBalance > 0 => HeldBalance + tx.forBalance <= balance
        /\ tx.forCredit > 0 => Used(month) + HeldCredit(month, NoRef) + tx.forCredit <= tx.limit
        /\ tx.at = "ready" => tx.mode = "period"
        /\ tx.at # "ready" => tx.forCredit = 0
    BY <1>9 DEF StepsInvariant, ReadsHold
  <2>7. tx'.slots + Cardinality(Holders)' <= MaxActive
    BY <1>6, <2>3, <2>4, <2>6
  <2>8. tx'.forBalance > 0 => HeldBalance' + tx'.forBalance <= balance'
    BY <1>6, <1>7, <2>3, <2>4, <2>6
  <2>9. tx'.forCredit > 0 => Used(month)' + HeldCredit(month, NoRef)' + tx'.forCredit <= tx'.limit
    BY <1>6, <1>7, <2>3, <2>4, <2>6
  <2>10. ReadsHold'
    BY <2>3, <2>6, <2>7, <2>8, <2>9 DEF ReadsHold
  <2> QED BY <1>3, <2>3, <2>5, <2>10 DEF StepsInvariant, StepsTypeOK
<1> QED BY <1>8, <1>9

LEMMA StepsNextInvariant ==
  ASSUME Punctual
  PROVE  StepsInvariant /\ [StepsNext]_steps => StepsInvariant'
<1> SUFFICES ASSUME StepsInvariant, [StepsNext]_steps PROVE StepsInvariant'
  OBVIOUS
<1>1. TypeOK
  BY DEF StepsInvariant, StepsTypeOK
<1>2. ASSUME tx' = NoTx, TypeOK' PROVE StepsInvariant'
  BY <1>2 DEF StepsInvariant, StepsTypeOK, ReadsHold
<1>3. CASE Insert
  BY <1>2, <1>3, InsertType DEF Insert
<1>4. CASE Reject
  BY <1>1, <1>2, <1>4 DEF Reject, rows, TypeOK
<1>5. CASE Locked
  <2>1. [Next]_vars /\ tx' = NoTx
    BY <1>5, RefsAssumption DEF Locked, Next, RowAllowed
  <2> QED BY <1>1, <1>2, <2>1, TypeStep
<1>6. CASE UNCHANGED steps
  <2>1. UNCHANGED <<month, balance, reservation, ledger, transactions, tx>>
    BY <1>6 DEF steps
  <2> QED BY <2>1 DEF StepsInvariant, StepsTypeOK, ReadsHold, TypeOK, HeldBalance, HeldCredit,
              Holders, Used, Holding
<1> QED BY <1>3, <1>4, <1>5, <1>6, ReadStep, UnlockedStep DEF StepsNext

\* Although releases, renewals and marks commit between the reads of a reservation, no
\* grant exceeds the slots, the balance and the plan credit that are free when it commits;
\* as long as no call marks its reservation after its lease has lapsed.
THEOREM GrantsWithinBudgetCorrect ==
  ASSUME Punctual
  PROVE  StepsSpec => GrantsWithinBudget
<1>1. ASSUME StepsInvariant, [StepsNext]_steps, NEW r \in Refs, Granted(r)
      PROVE  /\ Cardinality(Holders') <= MaxActive
             /\ reservation'[r].balance > 0 => HeldBalance' <= balance
             /\ reservation'[r].credit > 0 =>
                  Used(month) + HeldCredit(month, NoRef)' <= reservation'[r].limit
  <2>1. TypeOK
    BY <1>1 DEF StepsInvariant, StepsTypeOK
  <2>2. Insert
    <3>1. ~UNCHANGED reservation /\ ~Unlocked /\ ~Locked
      BY <1>1, <2>1, OthersGrantNothing DEF Unlocked, Locked, Deposit
    <3> QED BY <1>1, <3>1 DEF StepsNext, Count, SumBalance, SumCredit, Reject, rows, steps
  <2>3. PICK hold \in Nat, credit \in Nat :
          /\ reservation' = [reservation EXCEPT ![tx.ref] =
               [mode |-> tx.mode, balance |-> hold, credit |-> credit,
                limit |-> IF tx.mode = "period" THEN tx.limit ELSE 0,
                period |-> IF tx.mode = "period" THEN month ELSE 0,
                status |-> "active", ttl |-> LeaseTicks, ledgerId |-> 0]]
          /\ hold > 0 => HeldBalance + hold <= balance
          /\ credit > 0 => /\ tx.mode = "period"
                           /\ Used(month) + HeldCredit(month, NoRef) + credit <= tx.limit
    BY <1>1, <2>2, InsertBounds
  <2>4. /\ tx.ref \in Refs /\ tx.mode \in Modes /\ tx.limit \in Limits
        /\ reservation[tx.ref].status = "none" /\ Cardinality(Holders) < MaxActive
    BY <1>1, <2>2, InsertBounds DEF Tx
  <2>5. tx.ref = r
    BY <1>1, <2>1, <2>3 DEF Granted, TypeOK
  <2>6. TypeOK' /\ month' = month
    BY <1>1, <2>2, InsertType DEF Insert
  <2> HIDE DEF TypeOK
  <2> QED BY <2>1, <2>3, <2>4, <2>5, <2>6, GrantEffect
<1>2. StepsInvariant /\ [StepsNext]_steps =>
        [\A r \in Refs : Granted(r) =>
           /\ Cardinality(Holders') <= MaxActive
           /\ reservation'[r].balance > 0 => HeldBalance' <= balance
           /\ reservation'[r].credit > 0 =>
                Used(month) + HeldCredit(month, NoRef)' <= reservation'[r].limit]_steps
  BY <1>1
<1> QED BY <1>2, StepsInitInvariant, StepsNextInvariant, PTL DEF StepsSpec, GrantsWithinBudget

-----------------------------------------------------------------------------
(* The reservations of UsageBudget implement the leases of LeasePool.      *)

Phases == [r \in Refs |-> Phase(reservation[r])]
Bills == [r \in Refs |-> Cardinality({i \in DOMAIN ledger : ledger[i].ref = r})]

\* A reservation occupies a slot exactly when its lease is held or blocked.
LEMMA OccupiedIsHolders ==
  ASSUME TypeOK
  PROVE  Pool!Occupied = Holders
<1> SUFFICES ASSUME NEW r \in Refs
             PROVE  Phase(reservation[r]) \in {"held", "blocked"} <=> Holding(reservation[r])
  BY DEF Pool!Occupied, Holders
<1>1. reservation[r].status \in Statuses
  BY DEF TypeOK, Reservation
<1> QED BY <1>1 DEF Phase, Holding, Statuses

\* The pool counts with the same Cardinality.
LEMMA PoolCardinality == \A S : Pool!Cardinality(S) = Cardinality(S)
BY Zenon DEF Cardinality, Pool!Cardinality, IsFiniteSet, Pool!IsFiniteSet

\* Changing one reservation changes one phase.
LEMMA OnePhase ==
  ASSUME NEW r \in Refs, \A s \in Refs \ {r} : reservation'[s] = reservation[s]
  PROVE  Phases' = [Phases EXCEPT ![r] = Phase(reservation'[r])]
<1>1. Phases' = [s \in Refs |-> Phase(reservation'[s])]
  BY DEF Phases, Phase
<1>2. \A s \in Refs : Phases'[s] = Phase(reservation'[s]) /\ Phases[s] = Phase(reservation[s])
  BY <1>1 DEF Phases
<1>3. \A s \in Refs \ {r} : Phases'[s] = Phases[s]
  BY <1>2
<1>4. DOMAIN Phases = Refs /\ DOMAIN Phases' = Refs
  BY <1>1 DEF Phases
<1> QED BY <1>1, <1>2, <1>3, <1>4 DEF Phases

LEMMA SameBills ==
  ASSUME ledger' = ledger
  PROVE  Bills' = Bills
BY DEF Bills

\* Booking a row adds one bill, for its own reservation.
LEMMA OneMoreBill ==
  ASSUME TypeOK, NEW r \in Refs \cup {NoRef}, NEW row \in LedgerRow, NEW overage \in Nat,
         Book(r, row, overage), row.ref = r
  PROVE  /\ \A s \in Refs \ {r} : Bills'[s] = Bills[s]
         /\ r \in Refs => Bills'[r] = Bills[r] + 1
<1>0. PICK n \in Nat : n = Len(ledger)
  BY LenProperties DEF TypeOK
<1>1. /\ DOMAIN ledger = 1..n /\ DOMAIN ledger' = 1..(n + 1)
      /\ \A i \in 1..n : ledger'[i] = ledger[i]
      /\ ledger'[n + 1] = row
  BY <1>0, BookLedger
<1>2. ASSUME NEW s \in Refs \ {r} PROVE Bills'[s] = Bills[s]
  <2>1. {i \in DOMAIN ledger' : ledger'[i].ref = s} = {i \in DOMAIN ledger : ledger[i].ref = s}
    <3>1. \A i \in 1..(n + 1) : i \in 1..n \/ i = n + 1
      OBVIOUS
    <3> QED BY <1>1, <3>1
  <2> QED BY <2>1 DEF Bills
<1>3. ASSUME r \in Refs PROVE Bills'[r] = Bills[r] + 1
  <2> DEFINE old == {i \in DOMAIN ledger : ledger[i].ref = r}
             new == {i \in DOMAIN ledger' : ledger'[i].ref = r}
  <2>1. new = old \cup {n + 1} /\ n + 1 \notin old
    <3>1. \A i \in 1..(n + 1) : i \in 1..n \/ i = n + 1
      OBVIOUS
    <3> QED BY <1>1, <3>1
  <2>2. IsFiniteSet(1..n)
    BY FS_Interval
  <2>3. IsFiniteSet(old)
    BY <1>1, <2>2, FS_Subset
  <2>4. Cardinality(new) = Cardinality(old) + 1
    BY <2>1, <2>3, FS_AddElement
  <2>5. Bills[r] = Cardinality(old) /\ Bills'[r] = Cardinality(new)
    BY <1>3 DEF Bills
  <2> QED BY <2>4, <2>5
<1> QED BY <1>2, <1>3

LEMMA PoolInit == Init => Pool!Init
<1> SUFFICES ASSUME Init PROVE Pool!Init
  OBVIOUS
<1>1. Phases = [r \in Refs |-> "free"]
  BY DEF Init, NoReservation, Phases, Phase
<1>2. Bills = [r \in Refs |-> 0]
  <2>1. \A r \in Refs : {i \in DOMAIN ledger : ledger[i].ref = r} = {}
    BY DEF Init
  <2> QED BY <2>1, FS_EmptySet DEF Bills
<1> QED BY <1>1, <1>2 DEF Pool!Init, Phases, Bills

\* The step of the pool that a step of the repository is: one lease moves, a set
\* of leases lapses, or nothing happens.
LEMMA PoolMove ==
  ASSUME NEW r \in Refs, NEW from, NEW to,
         Phase(reservation[r]) \in from, Phases' = [Phases EXCEPT ![r] = to]
  PROVE  Pool!Move(r, from, to)
BY DEF Pool!Move, Phases

LEMMA PoolStutter ==
  ASSUME UNCHANGED <<reservation, ledger>>
  PROVE  UNCHANGED Pool!vars
BY DEF Pool!vars, Phase

LEMMA PoolStep == TypeOK /\ [Next]_vars => [Pool!Next]_Pool!vars
<1> SUFFICES ASSUME TypeOK, [Next]_vars PROVE Pool!Next \/ UNCHANGED Pool!vars
  OBVIOUS
<1>0. \A r \in Refs : reservation[r] \in Reservation
  BY DEF TypeOK
<1>1. ASSUME NEW r \in Refs, NEW mode \in Modes, NEW prepaid \in Prepaid,
             NEW limit \in Limits, Reserve(r, mode, prepaid, limit)
      PROVE  Pool!Take(r)
  <2>1. PICK hold \in Nat, credit \in Nat : reservation' = [reservation EXCEPT ![r] =
          [mode |-> mode, balance |-> hold, credit |-> credit,
           limit |-> IF mode = "period" THEN limit ELSE 0,
           period |-> IF mode = "period" THEN month ELSE 0,
           status |-> "active", ttl |-> LeaseTicks, ledgerId |-> 0]]
    BY <1>1, GrantBounds
  <2>2. /\ reservation'[r].status = "active" /\ reservation'[r].ttl = LeaseTicks
        /\ \A s \in Refs \ {r} : reservation'[s] = reservation[s]
    BY <2>1 DEF TypeOK
  <2>3. Phase(reservation[r]) = "free" /\ Phase(reservation'[r]) = "held"
    BY <1>1, <2>2, BoundAssumption DEF Phase, Reserve
  <2>4. Pool!Move(r, {"free"}, "held")
    BY <2>2, <2>3, OnePhase, PoolMove
  <2>5. Cardinality(Holders) < MaxActive /\ ledger' = ledger
    BY <1>1 DEF Reserve
  <2>6. Cardinality(Pool!Occupied) < MaxActive
    BY <2>5, OccupiedIsHolders
  <2>7. Bills' = Bills
    BY <2>5, SameBills
  <2> QED BY <2>4, <2>6, <2>7, PoolCardinality DEF Pool!Take, Bills
<1>2. ASSUME NEW r \in Refs, Release(r) PROVE Pool!Return(r)
  <2>1. /\ reservation[r].status = "active" /\ reservation'[r].status = "released"
        /\ ledger' = ledger /\ \A s \in Refs \ {r} : reservation'[s] = reservation[s]
    BY <1>0, <1>2 DEF Release, TypeOK, Reservation
  <2>2. Phase(reservation[r]) \in {"held", "lapsed"} /\ Phase(reservation'[r]) = "returned"
    BY <2>1 DEF Phase
  <2>3. Pool!Move(r, {"held", "lapsed"}, "returned")
    BY <2>1, <2>2, OnePhase, PoolMove
  <2> QED BY <2>1, <2>3, SameBills DEF Pool!Return, Bills
<1>3. ASSUME NEW r \in Refs, Renew(r) PROVE UNCHANGED Pool!vars
  <2>1. /\ reservation[r].status = "active" /\ reservation[r].ttl > 0
        /\ reservation'[r].status = "active" /\ reservation'[r].ttl > 0
        /\ ledger' = ledger /\ \A s \in Refs \ {r} : reservation'[s] = reservation[s]
    BY <1>0, <1>3, BoundAssumption DEF Renew, TypeOK, Reservation
  <2>2. Phase(reservation[r]) = "held" /\ Phase(reservation'[r]) = "held"
    BY <2>1 DEF Phase
  <2>3. Phases' = Phases
    BY <2>1, <2>2, OnePhase DEF Phases
  <2> QED BY <2>1, <2>3, SameBills DEF Pool!vars, Phases, Bills
<1>4. ASSUME NEW r \in Refs, MarkReconciliation(r) PROVE Pool!Block(r)
  <2>1. /\ reservation[r].status \in {"active", "reconciliation"}
        /\ reservation'[r].status = "reconciliation"
        /\ ledger' = ledger /\ \A s \in Refs \ {r} : reservation'[s] = reservation[s]
    BY <1>0, <1>4 DEF MarkReconciliation, TypeOK, Reservation
  <2>2. /\ Phase(reservation[r]) \in {"held", "lapsed", "blocked"}
        /\ Phase(reservation'[r]) = "blocked"
    BY <2>1 DEF Phase
  <2>3. Pool!Move(r, {"held", "lapsed", "blocked"}, "blocked")
    BY <2>1, <2>2, OnePhase, PoolMove
  <2> QED BY <2>1, <2>3, SameBills DEF Pool!Block, Bills
<1>5. ASSUME NEW r \in Refs \cup {NoRef}, NEW charge \in Charges,
             NEW date \in StartMonths(r), RecordUsage(r, charge, date)
      PROVE  (r \in Refs /\ Pool!Bill(r)) \/ UNCHANGED Pool!vars
  <2>1. PICK row \in LedgerRow, overage \in Nat :
          Book(r, row, overage) /\ Settleable(r) /\ row.ref = r
    BY <1>5, RecordBooksRow
  <2>2. /\ \A s \in Refs \ {r} : reservation'[s] = reservation[s]
        /\ r \in Refs => reservation'[r].status = "settled"
        /\ \A s \in Refs \ {r} : Bills'[s] = Bills[s]
        /\ r \in Refs => Bills'[r] = Bills[r] + 1
    BY <2>1, BookLedger, OneMoreBill
  <2>3. CASE r \in Refs
    <3>1. reservation[r].status \in {"active", "reconciliation"}
      BY <2>1, <2>3 DEF Settleable
    <3>2. /\ Phase(reservation[r]) \in {"held", "lapsed", "blocked"}
          /\ Phase(reservation'[r]) = "billed"
      BY <2>2, <2>3, <3>1 DEF Phase
    <3>3. Pool!Move(r, {"held", "lapsed", "blocked"}, "billed")
      BY <2>2, <2>3, <3>2, OnePhase, PoolMove
    <3>4. Bills' = [Bills EXCEPT ![r] = Bills[r] + 1]
      BY <2>2, <2>3 DEF Bills
    <3> QED BY <2>3, <3>3, <3>4 DEF Pool!Bill, Bills
  <2>4. CASE r = NoRef
    <3>1. reservation' = reservation
      BY <2>1, <2>4, RefsAssumption DEF Book, TypeOK
    <3>2. \A s \in Refs : Bills'[s] = Bills[s]
      BY <2>2, <2>4, RefsAssumption
    <3>3. Bills' = Bills
      BY <3>2 DEF Bills
    <3> QED BY <3>1, <3>3 DEF Pool!vars, Phase, Bills
  <2> QED BY <2>3, <2>4
<1>6. ASSUME Tick PROVE \E expired \in SUBSET Refs : Pool!Lapse(expired)
  <2> DEFINE expired == {r \in Refs : reservation[r].status = "active" /\ reservation[r].ttl = 1}
  <2>1. \A r \in expired : Phases[r] = "held"
    BY DEF Phases, Phase
  <2>2. ASSUME NEW r \in Refs
        PROVE  Phases'[r] = IF r \in expired THEN "lapsed" ELSE Phases[r]
    <3>1. /\ reservation[r].status \in Statuses /\ reservation[r].ttl \in Nat
          /\ reservation'[r].status = reservation[r].status
          /\ reservation'[r].ttl = IF reservation[r].ttl > 0 THEN reservation[r].ttl - 1
                                   ELSE reservation[r].ttl
      BY <1>0, <1>6 DEF Tick, Reservation
    <3>2. Phases'[r] = Phase(reservation'[r]) /\ Phases[r] = Phase(reservation[r])
      BY DEF Phases, Phase
    <3> QED BY <3>1, <3>2 DEF Phase, Statuses
  <2>3. Phases' = [r \in Refs |-> IF r \in expired THEN "lapsed" ELSE Phases[r]]
    BY <2>2 DEF Phases
  <2>4. ledger' = ledger
    BY <1>6 DEF Tick
  <2> HIDE DEF expired
  <2>5. Pool!Lapse(expired)
    BY <2>1, <2>3, <2>4, SameBills DEF Pool!Lapse, Phases, Bills
  <2>6. expired \in SUBSET Refs
    BY DEF expired
  <2> QED BY <2>5, <2>6
<1>7. ASSUME NEW next, Adjust(next) PROVE UNCHANGED Pool!vars
  BY <1>7, PoolStutter DEF Adjust
<1>8. ASSUME NextMonth \/ UNCHANGED vars PROVE UNCHANGED Pool!vars
  BY <1>8, PoolStutter DEF NextMonth, vars
<1> QED BY <1>1, <1>2, <1>3, <1>4, <1>5, <1>6, <1>7, <1>8
        DEF Next, Deposit, AdminSet, Pool!Next

\* A handler that holds a reservation may rely on the lease pool: at most
\* MaxActive leases granted at a time, each call billed at most once and never
\* after its lease was returned.
THEOREM LeasePoolImplemented == Spec => ImplementsLeasePool
<1> QED BY PoolInit, PoolStep, TypeCorrect, PTL DEF Spec, ImplementsLeasePool, Pool!Spec

-----------------------------------------------------------------------------
(* The handler of one paid call: UsageRequest. *)

\* The repository takes one of its steps, or none.
Quiet == UNCHANGED vars
Reserved(r) == \E mode \in Modes, prepaid \in Prepaid, limit \in Limits :
                 Reserve(r, mode, prepaid, limit)

LEMMA RecordIsStep ==
  ASSUME RequestInvariant, NEW r \in Refs, stage[r] = "settling",
         RecordUsage(r, usage[r].charge, usage[r].date)
  PROVE  Next
<1>1. usage[r].charge \in Charges /\ usage[r].date \in StartMonths(r)
  BY DEF RequestInvariant, HandlerSound
<1>2. RowAllowed(r)
  BY RefsAssumption DEF RowAllowed
<1> QED BY <1>1, <1>2 DEF Next

\* Every step of a handler or of its surroundings is a step of the repository or
\* leaves it alone.
LEMMA RepositoryStep == RequestInvariant /\ [RequestNext]_allVars => [Next]_vars
<1> SUFFICES ASSUME RequestInvariant, [RequestNext]_allVars PROVE [Next]_vars
  OBVIOUS
<1>1. ASSUME NEW r \in Refs, Authorize(r) PROVE [Next]_vars
  <2>1. Reserved(r) \/ Quiet
    BY <1>1 DEF Authorize, Fault, Reserved, Quiet
  <2> QED BY <2>1 DEF Reserved, Quiet, Next
<1>2. ASSUME NEW r \in Refs, RenewLease(r) PROVE [Next]_vars
  BY <1>2 DEF RenewLease, Next
<1>3. ASSUME NEW r \in Refs, CallReturns(r) PROVE [Next]_vars
  BY <1>3 DEF CallReturns, vars
<1>4. ASSUME NEW r \in Refs, ReleaseBudget(r) PROVE [Next]_vars
  <2>1. Release(r) \/ Quiet
    BY <1>4 DEF ReleaseBudget, Fault, Quiet
  <2> QED BY <2>1 DEF Quiet, Next
<1>5. ASSUME NEW r \in Refs, BuildLedger(r) PROVE [Next]_vars
  <2>1. Quiet
    BY <1>5 DEF BuildLedger, Fault, Quiet, vars
  <2> QED BY <2>1 DEF Quiet
<1>6. ASSUME NEW r \in Refs, SettleBudget(r) PROVE [Next]_vars
  <2>1. stage[r] = "settling" /\ (RecordUsage(r, usage[r].charge, usage[r].date) \/ Quiet)
    BY <1>6 DEF SettleBudget, Fault, Quiet, vars
  <2> QED BY <2>1, RecordIsStep DEF Quiet
<1>7. ASSUME NEW r \in Refs, MarkBudget(r) PROVE [Next]_vars
  <2>1. MarkReconciliation(r) \/ Quiet
    BY <1>7 DEF MarkBudget, Fault, Quiet, vars
  <2> QED BY <2>1 DEF Quiet, Next
<1>8. ASSUME NEW r \in Refs, ContextEnds(r) PROVE [Next]_vars
  BY <1>8 DEF ContextEnds, vars
<1>9. CASE Crash \/ UNCHANGED allVars
  BY <1>9 DEF Crash, allVars, vars
<1>10. CASE Environment
  BY <1>10 DEF Environment, Next
<1> QED BY <1>1, <1>2, <1>3, <1>4, <1>5, <1>6, <1>7, <1>8, <1>9, <1>10
        DEF RequestNext, HandlerStep

-----------------------------------------------------------------------------
(* Type correctness *)

LEMMA CounterTypes ==
  ASSUME RequestTypeOK
  PROVE  /\ \A r \in Refs : tries[r] \in 0..(Attempts - 1)
         /\ 0 \in 0..(Attempts - 1) /\ Attempts \in Nat
         /\ MaxFaults \in Nat /\ MaxCrashes \in Nat
BY RequestAssumption DEF RequestTypeOK

\* Moving on, retrying and failing keep the types of the handler.
LEMMA GotoType ==
  ASSUME RequestTypeOK, NEW r \in Refs, NEW next \in Stages, Goto(r, next)
  PROVE  stage' \in [Refs -> Stages] /\ tries' \in [Refs -> 0..(Attempts - 1)]
BY CounterTypes DEF RequestTypeOK, Goto

LEMMA RetryType ==
  ASSUME RequestTypeOK, NEW r \in Refs, NEW next \in Stages, Retry(r, next)
  PROVE  stage' \in [Refs -> Stages] /\ tries' \in [Refs -> 0..(Attempts - 1)]
<1>1. CASE Goto(r, next)
  BY <1>1, GotoType
<1>2. CASE tries[r] + 1 < Attempts /\ tries' = [tries EXCEPT ![r] = @ + 1] /\ UNCHANGED stage
  <2>1. tries[r] + 1 \in 0..(Attempts - 1)
    BY <1>2, CounterTypes
  <2> QED BY <1>2, <2>1 DEF RequestTypeOK
<1> QED BY <1>1, <1>2 DEF Retry

LEMMA FaultType ==
  ASSUME RequestTypeOK, faults < MaxFaults, faults' = faults + 1
  PROVE  faults' \in 0..MaxFaults
BY CounterTypes DEF RequestTypeOK

LEMMA RequestTypeStep == RequestInvariant /\ [RequestNext]_allVars => RequestTypeOK'
<1> SUFFICES ASSUME RequestInvariant, [RequestNext]_allVars PROVE RequestTypeOK'
  OBVIOUS
<1>0. TypeOK' /\ RequestTypeOK
  BY RepositoryStep, TypeStep DEF RequestInvariant, RequestTypeOK
<1>1. ASSUME NEW r \in Refs, Authorize(r) PROVE RequestTypeOK'
  <2>1. faults' \in 0..MaxFaults
    BY <1>0, <1>1, FaultType DEF Authorize, Fault, RequestTypeOK
  <2>2. stage' \in [Refs -> Stages] /\ tries' \in [Refs -> 0..(Attempts - 1)]
    BY <1>0, <1>1, GotoType DEF Authorize, Stages
  <2> QED BY <1>0, <1>1, <2>1, <2>2 DEF Authorize, RequestTypeOK
<1>2. ASSUME NEW r \in Refs, RenewLease(r) PROVE RequestTypeOK'
  BY <1>0, <1>2 DEF RenewLease, handler, RequestTypeOK
<1>3. ASSUME NEW r \in Refs, CallReturns(r) PROVE RequestTypeOK'
  <2>1. stage' \in [Refs -> Stages] /\ tries' \in [Refs -> 0..(Attempts - 1)]
    BY <1>0, <1>3, GotoType DEF CallReturns, Stages
  <2> QED BY <1>0, <1>3, <2>1 DEF CallReturns, RequestTypeOK
<1>4. ASSUME NEW r \in Refs, ReleaseBudget(r) PROVE RequestTypeOK'
  <2>1. faults' \in 0..MaxFaults
    BY <1>0, <1>4, FaultType DEF ReleaseBudget, Fault, RequestTypeOK
  <2>2. stage' \in [Refs -> Stages] /\ tries' \in [Refs -> 0..(Attempts - 1)]
    BY <1>0, <1>4, GotoType DEF ReleaseBudget, Stages
  <2> QED BY <1>0, <1>4, <2>1, <2>2 DEF ReleaseBudget, RequestTypeOK
<1>5. ASSUME NEW r \in Refs, BuildLedger(r) PROVE RequestTypeOK'
  <2>1. faults' \in 0..MaxFaults
    BY <1>0, <1>5, FaultType DEF BuildLedger, Fault, RequestTypeOK
  <2>2. stage' \in [Refs -> Stages] /\ tries' \in [Refs -> 0..(Attempts - 1)]
    BY <1>0, <1>5, GotoType, RetryType DEF BuildLedger, Stages
  <2>3. usage' \in [Refs -> Usage]
    <3>1. CASE UNCHANGED usage
      BY <1>0, <3>1 DEF RequestTypeOK
    <3>2. ASSUME NEW charge \in Charges, NEW date \in StartMonths(r),
                 usage' = [usage EXCEPT ![r] = [charge |-> charge, date |-> date]]
          PROVE  usage' \in [Refs -> Usage]
      <4>1. [charge |-> charge, date |-> date] \in Usage
        BY DEF Usage, StartMonths
      <4> QED BY <1>0, <3>2, <4>1 DEF RequestTypeOK
    <3> QED BY <1>5, <3>1, <3>2 DEF BuildLedger
  <2> QED BY <1>0, <1>5, <2>1, <2>2, <2>3 DEF BuildLedger, RequestTypeOK
<1>6. ASSUME NEW r \in Refs, SettleBudget(r) PROVE RequestTypeOK'
  <2>1. faults' \in 0..MaxFaults
    BY <1>0, <1>6, FaultType DEF SettleBudget, Fault, RequestTypeOK
  <2>2. stage' \in [Refs -> Stages] /\ tries' \in [Refs -> 0..(Attempts - 1)]
    BY <1>0, <1>6, GotoType, RetryType DEF SettleBudget, Stages
  <2> QED BY <1>0, <1>6, <2>1, <2>2 DEF SettleBudget, RequestTypeOK
<1>7. ASSUME NEW r \in Refs, MarkBudget(r) PROVE RequestTypeOK'
  <2>1. faults' \in 0..MaxFaults
    BY <1>0, <1>7, FaultType DEF MarkBudget, Fault, RequestTypeOK
  <2>2. stage' \in [Refs -> Stages] /\ tries' \in [Refs -> 0..(Attempts - 1)]
    BY <1>0, <1>7, GotoType, RetryType DEF MarkBudget, Stages
  <2> QED BY <1>0, <1>7, <2>1, <2>2 DEF MarkBudget, RequestTypeOK
<1>8. ASSUME NEW r \in Refs, ContextEnds(r) PROVE RequestTypeOK'
  BY <1>0, <1>8 DEF ContextEnds, RequestTypeOK
<1>9. CASE Crash
  <2>1. crashes' \in 0..MaxCrashes
    BY <1>0, <1>9, CounterTypes DEF Crash, RequestTypeOK
  <2> QED BY <1>0, <1>9, <2>1 DEF Crash, RequestTypeOK, Stages
<1>10. CASE Environment \/ UNCHANGED allVars
  BY <1>0, <1>10 DEF Environment, allVars, handler, RequestTypeOK
<1> QED BY <1>1, <1>2, <1>3, <1>4, <1>5, <1>6, <1>7, <1>8, <1>9, <1>10
        DEF RequestNext, HandlerStep

-----------------------------------------------------------------------------
(* What the handler's stage says of its reservation *)

\* A step that moves neither a request's handler nor its reservation, and only adds to
\* the ledger, leaves the request sound.
LEMMA SoundFrame ==
  ASSUME RequestInvariant, NEW s \in Refs,
         reservation'[s].status = reservation[s].status,
         reservation'[s].ledgerId = reservation[s].ledgerId,
         reservation'[s].period = reservation[s].period,
         stage'[s] = stage[s], billable'[s] = billable[s], usage'[s] = usage[s],
         month' \in Int, month <= month',
         \A i \in DOMAIN ledger : ledger'[i] = ledger[i]
  PROVE  HandlerSound(s)'
<1>1. HandlerSound(s)
  BY DEF RequestInvariant
<1>2. reservation[s].status = "settled" => reservation[s].ledgerId \in DOMAIN ledger
  BY DEF RequestInvariant, Invariant, ChargedOnce
<1>3. usage[s].date \in StartMonths(s) => usage[s].date \in StartMonths(s)'
  BY DEF StartMonths, Months, RequestInvariant, RequestTypeOK, TypeOK
<1> QED BY <1>1, <1>2, <1>3 DEF HandlerSound

\* What a repository operation on the reservation of one request does to the others.
Touches(r) ==
  /\ \A s \in Refs \ {r} : reservation'[s] = reservation[s]
  /\ \A i \in DOMAIN ledger : ledger'[i] = ledger[i]
  /\ month' = month

LEMMA OperationTouches ==
  ASSUME TypeOK, NEW r \in Refs,
         \/ Reserved(r) \/ Release(r) \/ Renew(r) \/ MarkReconciliation(r) \/ Quiet
         \/ \E charge \in Charges : \E date \in StartMonths(r) : RecordUsage(r, charge, date)
  PROVE  Touches(r)
<1>1. CASE Reserved(r)
  <2>1. PICK mode \in Modes, prepaid \in Prepaid, limit \in Limits :
          Reserve(r, mode, prepaid, limit)
    BY <1>1 DEF Reserved
  <2> QED BY <2>1 DEF Reserve, Touches, TypeOK
<1>2. CASE Release(r) \/ Renew(r) \/ MarkReconciliation(r)
  BY <1>2 DEF Release, Renew, MarkReconciliation, Touches, TypeOK
<1>3. CASE Quiet
  BY <1>3 DEF Quiet, vars, Touches
<1>4. ASSUME NEW charge \in Charges, NEW date \in StartMonths(r), RecordUsage(r, charge, date)
      PROVE  Touches(r)
  <2>1. PICK row \in LedgerRow, overage \in Nat : Book(r, row, overage)
    BY <1>4, RecordBooksRow
  <2> QED BY <2>1, BookLedger DEF Book, Touches
<1> QED BY <1>1, <1>2, <1>3, <1>4

\* So a step of one request keeps every other request sound.
LEMMA OthersSound ==
  ASSUME RequestInvariant, NEW r \in Refs, Touches(r),
         \A s \in Refs \ {r} : /\ stage'[s] = stage[s] /\ billable'[s] = billable[s]
                              /\ usage'[s] = usage[s]
  PROVE  \A s \in Refs \ {r} : HandlerSound(s)'
<1>1. month \in Int
  BY DEF RequestInvariant, RequestTypeOK, TypeOK, Months
<1> QED BY <1>1, SoundFrame DEF Touches

LEMMA GotoMoves ==
  ASSUME RequestTypeOK, NEW r \in Refs, NEW next \in Stages, Goto(r, next)
  PROVE  stage'[r] = next /\ \A s \in Refs \ {r} : stage'[s] = stage[s]
BY DEF RequestTypeOK, Goto

LEMMA RetryMoves ==
  ASSUME RequestTypeOK, NEW r \in Refs, NEW next \in Stages, Retry(r, next)
  PROVE  /\ stage'[r] \in {stage[r], next}
         /\ \A s \in Refs \ {r} : stage'[s] = stage[s]
BY DEF RequestTypeOK, Goto, Retry

\* What was built for the request is what is settled, as its only row.
LEMMA SettlementBills ==
  ASSUME RequestInvariant, NEW r \in Refs, stage[r] = "settling",
         RecordUsage(r, usage[r].charge, usage[r].date)
  PROVE  /\ reservation'[r].status = "settled"
         /\ ledger'[reservation'[r].ledgerId].billed = usage[r].charge
<1>1. usage[r].charge \in Charges /\ usage[r].date \in StartMonths(r) /\ TypeOK
  BY DEF RequestInvariant, HandlerSound, Invariant
<1>2. PICK row \in LedgerRow, overage \in Nat : Book(r, row, overage) /\ row.billed = usage[r].charge
  BY <1>1, RecordBooksRow
<1> QED BY <1>1, <1>2, BookLedger

LEMMA ReservedFresh ==
  ASSUME TypeOK, NEW r \in Refs, Reserved(r)
  PROVE  reservation'[r].status = "active"
<1>1. PICK mode \in Modes, prepaid \in Prepaid, limit \in Limits :
        Reserve(r, mode, prepaid, limit)
  BY DEF Reserved
<1> QED BY <1>1 DEF Reserve, TypeOK

LEMMA SoundStep == RequestInvariant /\ [RequestNext]_allVars => \A r \in Refs : HandlerSound(r)'
<1> SUFFICES ASSUME RequestInvariant, [RequestNext]_allVars
             PROVE  \A r \in Refs : HandlerSound(r)'
  OBVIOUS
<1>0. /\ TypeOK /\ RequestTypeOK
      /\ month \in Int
      /\ \A r \in Refs : HandlerSound(r) /\ reservation[r] \in Reservation
  BY DEF RequestInvariant, RequestTypeOK, TypeOK, Months
<1> DEFINE Sound == \A r \in Refs : HandlerSound(r)'
<1>1. ASSUME NEW r \in Refs, Authorize(r) PROVE Sound
  <2>1. /\ stage[r] = "idle" /\ (Reserved(r) \/ Quiet)
        /\ billable' = billable /\ usage' = usage
        /\ Goto(r, "running") \/ Goto(r, "done")
    BY <1>1 DEF Authorize, Fault, Reserved, Quiet
  <2>2. /\ stage'[r] \in {"running", "done"}
        /\ \A s \in Refs \ {r} : stage'[s] = stage[s]
    BY <1>0, <2>1, GotoMoves DEF Stages
  <2>3. reservation'[r].status \notin {"released", "settled"}
    BY <1>0, <2>1, ReservedFresh DEF HandlerSound, Quiet, vars
  <2>4. HandlerSound(r)'
    BY <1>0, <2>1, <2>2, <2>3 DEF HandlerSound
  <2> QED BY <1>0, <2>1, <2>2, <2>4, OperationTouches, OthersSound
<1>2. ASSUME NEW r \in Refs, RenewLease(r) PROVE Sound
  <2>1. /\ Renew(r) /\ stage' = stage /\ billable' = billable /\ usage' = usage
    BY <1>2 DEF RenewLease, handler
  <2>2. /\ reservation'[r].status = reservation[r].status
        /\ reservation'[r].ledgerId = reservation[r].ledgerId
        /\ reservation'[r].period = reservation[r].period
        /\ ledger' = ledger /\ month' = month
    BY <1>0, <2>1 DEF Renew, TypeOK, Reservation
  <2>3. HandlerSound(r)'
    BY <1>0, <2>1, <2>2, SoundFrame
  <2> QED BY <1>0, <2>1, <2>3, OperationTouches, OthersSound
<1>3. ASSUME NEW r \in Refs, CallReturns(r) PROVE Sound
  <2>1. /\ stage[r] = "running" /\ Quiet /\ usage' = usage
        /\ \/ Goto(r, "building") /\ billable' = [billable EXCEPT ![r] = TRUE]
           \/ Goto(r, "releasing") /\ billable' = billable
    BY <1>3 DEF CallReturns, Quiet
  <2>2. /\ \A s \in Refs \ {r} : stage'[s] = stage[s] /\ billable'[s] = billable[s]
        /\ \/ stage'[r] = "building"
           \/ stage'[r] = "releasing" /\ billable'[r] = billable[r]
    BY <1>0, <2>1, GotoMoves DEF Stages, RequestTypeOK
  <2>3. HandlerSound(r)'
    BY <1>0, <2>1, <2>2 DEF HandlerSound, Quiet, vars
  <2> QED BY <1>0, <2>1, <2>2, <2>3, OperationTouches, OthersSound
<1>4. ASSUME NEW r \in Refs, ReleaseBudget(r) PROVE Sound
  <2>1. /\ stage[r] = "releasing" /\ (Release(r) \/ Quiet) /\ Goto(r, "done")
        /\ billable' = billable /\ usage' = usage
    BY <1>4 DEF ReleaseBudget, Fault, Quiet
  <2>2. stage'[r] = "done" /\ \A s \in Refs \ {r} : stage'[s] = stage[s]
    BY <1>0, <2>1, GotoMoves DEF Stages
  <2>3. reservation'[r].status # "settled"
    BY <1>0, <2>1 DEF HandlerSound, Release, TypeOK, Reservation, Quiet, vars
  <2>4. HandlerSound(r)'
    BY <1>0, <2>1, <2>2, <2>3 DEF HandlerSound
  <2> QED BY <1>0, <2>1, <2>2, <2>4, OperationTouches, OthersSound
<1>5. ASSUME NEW r \in Refs, BuildLedger(r) PROVE Sound
  <2>1. /\ stage[r] = "building" /\ Quiet /\ billable' = billable
        /\ \/ /\ \E charge \in Charges, date \in StartMonths(r) :
                   usage' = [usage EXCEPT ![r] = [charge |-> charge, date |-> date]]
              /\ Goto(r, "settling")
           \/ Retry(r, "marking") /\ usage' = usage
           \/ Goto(r, "marking") /\ usage' = usage
    BY <1>5 DEF BuildLedger, Fault, Quiet, vars
  <2>2. /\ \A s \in Refs \ {r} : stage'[s] = stage[s] /\ usage'[s] = usage[s]
        /\ \/ /\ usage'[r].charge \in Charges /\ usage'[r].date \in StartMonths(r)
              /\ stage'[r] = "settling"
           \/ stage'[r] \in {"building", "marking"}
    BY <1>0, <2>1, GotoMoves, RetryMoves DEF Stages, RequestTypeOK
  <2>3. /\ reservation'[r].status = reservation[r].status /\ reservation[r].status # "settled"
        /\ StartMonths(r)' = StartMonths(r)
    BY <1>0, <2>1 DEF HandlerSound, StartMonths, Quiet, vars
  <2>4. HandlerSound(r)'
    BY <1>0, <2>1, <2>2, <2>3 DEF HandlerSound
  <2> QED BY <1>0, <2>1, <2>2, <2>4, OperationTouches, OthersSound
<1>6. ASSUME NEW r \in Refs, SettleBudget(r) PROVE Sound
  <2>1. /\ stage[r] = "settling" /\ billable' = billable /\ usage' = usage
        /\ RecordUsage(r, usage[r].charge, usage[r].date) \/ Quiet
        /\ Goto(r, "done") \/ Retry(r, "marking") \/ Goto(r, "marking")
    BY <1>6 DEF SettleBudget, Fault, Quiet
  <2>2. /\ \A s \in Refs \ {r} : stage'[s] = stage[s]
        /\ stage'[r] \in {"settling", "marking", "done"}
    BY <1>0, <2>1, GotoMoves, RetryMoves DEF Stages
  <2>3. usage[r].charge \in Charges /\ usage[r].date \in StartMonths(r)
    BY <1>0, <2>1 DEF HandlerSound
  <2>4. HandlerSound(r)'
    <3>1. CASE Quiet
      BY <1>0, <2>1, <2>2, <2>3, <3>1 DEF HandlerSound, StartMonths, Quiet, vars
    <3>2. CASE RecordUsage(r, usage[r].charge, usage[r].date)
      <4>1. /\ reservation'[r].status = "settled"
            /\ ledger'[reservation'[r].ledgerId].billed = usage[r].charge
        BY <2>1, <3>2, SettlementBills
      <4>2. reservation'[r].period = reservation[r].period /\ month' = month
        <5>1. PICK row \in LedgerRow, overage \in Nat : Book(r, row, overage)
          BY <1>0, <2>3, <3>2, RecordBooksRow
        <5> QED BY <1>0, <5>1 DEF Book, Reservation
      <4>3. StartMonths(r)' = StartMonths(r)
        BY <4>2 DEF StartMonths
      <4> QED BY <2>1, <2>2, <2>3, <4>1, <4>3 DEF HandlerSound
    <3> QED BY <2>1, <3>1, <3>2
  <2>5. Touches(r)
    BY <1>0, <2>1, <2>3, OperationTouches
  <2> QED BY <2>1, <2>2, <2>4, <2>5, OthersSound
<1>7. ASSUME NEW r \in Refs, MarkBudget(r) PROVE Sound
  <2>1. /\ stage[r] = "marking" /\ billable' = billable /\ usage' = usage
        /\ MarkReconciliation(r) \/ Quiet
        /\ Goto(r, "done") \/ Retry(r, "done")
    BY <1>7 DEF MarkBudget, Fault, Quiet
  <2>2. /\ \A s \in Refs \ {r} : stage'[s] = stage[s]
        /\ stage'[r] \in {"marking", "done"}
    BY <1>0, <2>1, GotoMoves, RetryMoves DEF Stages
  <2>3. \/ reservation'[r].status = "reconciliation"
        \/ reservation' = reservation /\ ledger' = ledger
    BY <1>0, <2>1 DEF MarkReconciliation, TypeOK, Reservation, Quiet, vars
  <2>4. HandlerSound(r)'
    BY <1>0, <2>1, <2>2, <2>3 DEF HandlerSound
  <2> QED BY <1>0, <2>1, <2>2, <2>4, OperationTouches, OthersSound
<1>8. ASSUME NEW r \in Refs, ContextEnds(r) PROVE Sound
  BY <1>0, <1>8, SoundFrame DEF ContextEnds, vars
<1>9. CASE Crash
  <2>1. /\ UNCHANGED <<month, reservation, ledger, billable, usage>>
        /\ \A s \in Refs : stage'[s] \in {stage[s], "killed"}
    BY <1>0, <1>9 DEF Crash, vars, RequestTypeOK
  <2>2. \A s \in Refs : StartMonths(s)' = StartMonths(s)
    BY <2>1 DEF StartMonths
  <2> QED BY <1>0, <2>1, <2>2 DEF HandlerSound
<1>10. CASE Environment \/ UNCHANGED allVars
  <2>1. stage' = stage /\ billable' = billable /\ usage' = usage
    BY <1>10 DEF Environment, allVars, handler
  <2>2. /\ ledger' = ledger /\ month' \in Int /\ month <= month'
        /\ \A s \in Refs : /\ reservation'[s].status = reservation[s].status
                          /\ reservation'[s].ledgerId = reservation[s].ledgerId
                          /\ reservation'[s].period = reservation[s].period
    <3>1. CASE Tick
      BY <1>0, <3>1 DEF Tick, Reservation
    <3>2. ASSUME NEW next, Adjust(next)
          PROVE  ledger' = ledger /\ month' = month /\ reservation' = reservation
      BY <3>2 DEF Adjust
    <3>3. CASE NextMonth
      BY <1>0, <3>3 DEF NextMonth
    <3>4. CASE UNCHANGED allVars
      BY <1>0, <3>4 DEF allVars, vars
    <3>5. CASE \E next : Adjust(next)
      BY <1>0, <3>2, <3>5
    <3>6. (\E amount \in Deposits : Deposit(amount)) => \E next : Adjust(next)
      BY DEF Deposit
    <3>7. (\E next \in AdminBalances : AdminSet(next)) => \E next : Adjust(next)
      BY DEF AdminSet
    <3> QED BY <1>10, <3>1, <3>3, <3>4, <3>5, <3>6, <3>7 DEF Environment
  <2> QED BY <2>1, <2>2, SoundFrame
<1> QED BY <1>1, <1>2, <1>3, <1>4, <1>5, <1>6, <1>7, <1>8, <1>9, <1>10
        DEF RequestNext, HandlerStep

-----------------------------------------------------------------------------
(* The theorems *)

LEMMA RequestInvariantStep == RequestInvariant /\ [RequestNext]_allVars => RequestInvariant'
BY RepositoryStep, InvariantStep, RequestTypeStep, SoundStep DEF RequestInvariant

LEMMA RequestInvariantInit == RequestInit => RequestInvariant
<1> SUFFICES ASSUME RequestInit PROVE RequestInvariant
  OBVIOUS
<1>1. TypeOK /\ Invariant
  BY TypeInit, InvariantInit DEF RequestInit
<1>2. RequestTypeOK
  <2>1. 1 \in Months /\ 0 \in 0..(Attempts - 1) /\ 0 \in 0..MaxFaults /\ 0 \in 0..MaxCrashes
    BY BoundAssumption, RequestAssumption DEF Months
  <2>2. [charge |-> 0, date |-> 1] \in Usage
    BY <2>1 DEF Usage
  <2> QED BY <1>1, <2>1, <2>2 DEF RequestInit, RequestTypeOK, Stages
<1>3. \A r \in Refs : HandlerSound(r)
  BY DEF RequestInit, Init, NoReservation, HandlerSound
<1> QED BY <1>1, <1>2, <1>3 DEF RequestInvariant

LEMMA RequestInvariantHolds == RequestSpec => []RequestInvariant
<1> QED BY RequestInvariantInit, RequestInvariantStep, PTL DEF RequestSpec

\* Type correctness, for any number of requests, attempts, faults and crashes.
THEOREM RequestTypeCorrect == RequestSpec => []RequestTypeOK
<1>1. RequestInvariant => RequestTypeOK
  BY DEF RequestInvariant
<1> QED BY <1>1, RequestInvariantHolds, PTL

\* Handlers that retry, fail, are cut off or stop use the repository as its module
\* says: paid calls implement UsageBudget, and inherit what is proved of it.
THEOREM RepositoryImplemented == RequestSpec => Spec
<1>1. RequestInit => Init
  BY DEF RequestInit
<1> QED BY <1>1, RepositoryStep, RequestInvariantHolds, PTL DEF RequestSpec, Spec

\* Budget is given back only for calls that left nothing to bill.
THEOREM ReleasedOnlyUnbilledCorrect == RequestSpec => []ReleasedOnlyUnbilled
<1>1. RequestInvariant => ReleasedOnlyUnbilled
  BY DEF RequestInvariant, HandlerSound, ReleasedOnlyUnbilled
<1> QED BY <1>1, RequestInvariantHolds, PTL

\* A settled call was billed once, and what it cost.
THEOREM BilledWhatItCostCorrect == RequestSpec => []BilledWhatItCost
<1>1. RequestInvariant => BilledWhatItCost
  <2> SUFFICES ASSUME RequestInvariant, NEW r \in Refs, reservation[r].status = "settled"
               PROVE  LET bookings == {i \in DOMAIN ledger : ledger[i].ref = r}
                      IN \E i \in bookings : bookings = {i} /\ ledger[i].billed = usage[r].charge
    BY DEF BilledWhatItCost
  <2> DEFINE id == reservation[r].ledgerId
  <2>1. id \in DOMAIN ledger /\ ledger[id].ref = r
    BY DEF RequestInvariant, Invariant, ChargedOnce
  <2>2. \A i \in DOMAIN ledger : ledger[i].ref = r => i = id
    BY RefsAssumption DEF RequestInvariant, Invariant, ChargedOnce
  <2>3. ledger[id].billed = usage[r].charge
    BY DEF RequestInvariant, HandlerSound
  <2> QED BY <2>1, <2>2, <2>3
<1> QED BY <1>1, RequestInvariantHolds, PTL

-----------------------------------------------------------------------------
(* Accounting: while fewer calls of the database fail than a loop makes, no *)
(* loop gives up, and every handler returns with its usage accounted for.  *)

Accounts == RequestInvariant /\ \A r \in Refs : AccountSound(r)

\* A handler that moves on starts counting anew, one that fails counts one fault more.
LEMMA LoopMoves ==
  ASSUME Accounts, MaxFaults < Attempts, NEW r \in Refs, NEW next \in Stages
  PROVE  /\ Goto(r, next) => tries'[r] = 0 /\ stage'[r] = next
         /\ faults < MaxFaults /\ faults' = faults + 1 /\ Retry(r, next) =>
              stage'[r] = stage[r] /\ tries'[r] <= faults'
         /\ Goto(r, next) \/ Retry(r, next) =>
              \A s \in Refs \ {r} : tries'[s] = tries[s] /\ stage'[s] = stage[s]
<1>0. /\ RequestTypeOK /\ tries[r] <= faults
      /\ faults \in Nat /\ MaxFaults \in Nat /\ Attempts \in Nat /\ tries[r] \in Nat
  BY CounterTypes DEF Accounts, AccountSound, RequestInvariant, RequestTypeOK
<1>1. Goto(r, next) =>
        /\ tries'[r] = 0 /\ stage'[r] = next
        /\ \A s \in Refs \ {r} : tries'[s] = tries[s] /\ stage'[s] = stage[s]
  BY <1>0 DEF Goto, RequestTypeOK
<1>2. ASSUME faults < MaxFaults, faults' = faults + 1, Retry(r, next)
      PROVE  stage'[r] = stage[r] /\ tries'[r] <= faults'
  <2>1. tries[r] + 1 < Attempts
    BY <1>0, <1>2
  <2> QED BY <1>0, <1>2, <2>1 DEF Retry, RequestTypeOK
<1>3. Retry(r, next) => Goto(r, next) \/ (tries' = [tries EXCEPT ![r] = @ + 1] /\ stage' = stage)
  BY DEF Retry
<1>4. tries' = [tries EXCEPT ![r] = @ + 1] /\ stage' = stage =>
        \A s \in Refs \ {r} : tries'[s] = tries[s] /\ stage'[s] = stage[s]
  BY <1>0 DEF RequestTypeOK
<1> QED BY <1>1, <1>2, <1>3, <1>4

\* A step that leaves a call's handler and reservation where they are.
LEMMA AccountKept ==
  ASSUME NEW s \in Refs, AccountSound(s), tries[s] \in Nat, faults \in Nat, faults' \in Nat,
         faults <= faults', tries'[s] = tries[s], stage'[s] = stage[s],
         billable'[s] = billable[s], cancelled[s] => cancelled'[s],
         reservation'[s].status = reservation[s].status
  PROVE  AccountSound(s)'
<1>1. tries'[s] <= faults'
  BY DEF AccountSound
<1>2. stage'[s] = "done" /\ billable'[s] /\ ~cancelled'[s] => AccountedFor(s)'
  BY Zenon DEF AccountSound, AccountedFor
<1>3. AccountSound(s)'
  BY <1>1, <1>2 DEF AccountSound
<1> QED BY <1>3

\* A failed call of the database counts, and the others do not.
LEMMA FaultsCount ==
  ASSUME RequestTypeOK, UNCHANGED faults \/ (faults < MaxFaults /\ faults' = faults + 1)
  PROVE  faults \in Nat /\ faults' \in Nat /\ faults <= faults'
BY RequestAssumption DEF RequestTypeOK

LEMMA AccountsStep ==
  ASSUME Accounts, MaxFaults < Attempts, [RequestNext]_allVars
  PROVE  Accounts'
<1>0. /\ RequestInvariant' /\ TypeOK /\ RequestTypeOK /\ faults \in Nat
      /\ \A r \in Refs : HandlerSound(r) /\ AccountSound(r) /\ tries[r] \in Nat
  BY RequestInvariantStep, CounterTypes DEF Accounts, RequestInvariant, RequestTypeOK
<1> SUFFICES \A r \in Refs : AccountSound(r)'
  BY <1>0 DEF Accounts
<1> DEFINE Sound == \A r \in Refs : AccountSound(r)'
           Counted == UNCHANGED faults \/ (faults < MaxFaults /\ faults' = faults + 1)
\* The other calls.
<1>1. ASSUME NEW r \in Refs, Touches(r), Counted, cancelled' = cancelled,
             \A s \in Refs \ {r} : /\ tries'[s] = tries[s] /\ stage'[s] = stage[s]
                                  /\ billable'[s] = billable[s]
      PROVE  \A s \in Refs \ {r} : AccountSound(s)'
  <2>1. faults' \in Nat /\ faults <= faults'
    BY <1>0, <1>1, FaultsCount
  <2>2. ASSUME NEW s \in Refs \ {r} PROVE AccountSound(s)'
    <3>1. /\ tries'[s] = tries[s] /\ stage'[s] = stage[s] /\ billable'[s] = billable[s]
          /\ cancelled[s] => cancelled'[s]
          /\ reservation'[s].status = reservation[s].status
      BY <1>1 DEF Touches
    <3> QED BY <1>0, <2>1, <3>1, AccountKept
  <2> QED BY <2>2
<1>2. ASSUME NEW r \in Refs, Authorize(r) PROVE Sound
  <2>1. /\ stage[r] = "idle" /\ Counted /\ billable' = billable /\ cancelled' = cancelled
        /\ \/ Reserved(r) /\ Goto(r, "running")
           \/ (Reserved(r) \/ Quiet) /\ Goto(r, "done")
    BY <1>2 DEF Authorize, Fault, Reserved, Quiet
  <2>2. tries'[r] = 0 /\ ~billable'[r]
    BY <1>0, <2>1, LoopMoves DEF HandlerSound, Stages
  <2>3. \/ stage'[r] = "running" /\ reservation'[r].status = "active"
        \/ stage'[r] = "done"
    BY <1>0, <2>1, LoopMoves, ReservedFresh DEF Stages
  <2>4. AccountSound(r)'
    BY <1>0, <2>1, <2>2, <2>3, FaultsCount DEF AccountSound, Billing
  <2> QED BY <1>0, <1>1, <2>1, <2>4, OperationTouches, LoopMoves DEF Stages
<1>3. ASSUME NEW r \in Refs, RenewLease(r) PROVE Sound
  <2>1. \A s \in Refs : reservation'[s].status = reservation[s].status
    BY <1>0, <1>3 DEF RenewLease, Renew, TypeOK, Reservation
  <2> QED BY <1>0, <1>3, <2>1, AccountKept DEF RenewLease, handler
<1>4. ASSUME NEW r \in Refs, CallReturns(r) PROVE Sound
  <2>1. /\ stage[r] = "running" /\ Quiet /\ cancelled' = cancelled /\ UNCHANGED faults
        /\ Goto(r, "building") \/ Goto(r, "releasing")
        /\ billable' = [billable EXCEPT ![r] = TRUE] \/ billable' = billable
    BY <1>4 DEF CallReturns, Quiet
  <2>2. tries'[r] = 0 /\ stage'[r] \in {"building", "releasing"}
    BY <2>1, LoopMoves DEF Stages
  <2>3. reservation'[r].status = "active"
    BY <1>0, <2>1 DEF AccountSound, Quiet, vars
  <2>4. AccountSound(r)'
    BY <1>0, <2>1, <2>2, <2>3 DEF AccountSound
  <2>5. \A s \in Refs \ {r} : billable'[s] = billable[s]
    BY <1>0, <2>1 DEF RequestTypeOK
  <2> QED BY <1>0, <1>1, <2>1, <2>4, <2>5, OperationTouches, LoopMoves DEF Stages
<1>5. ASSUME NEW r \in Refs, ReleaseBudget(r) PROVE Sound
  <2>1. /\ stage[r] = "releasing" /\ (Release(r) \/ Quiet) /\ Goto(r, "done") /\ Counted
        /\ billable' = billable /\ cancelled' = cancelled
    BY <1>5 DEF ReleaseBudget, Fault, Quiet
  <2>2. tries'[r] = 0 /\ stage'[r] = "done" /\ ~billable'[r]
    BY <1>0, <2>1, LoopMoves DEF Stages, HandlerSound
  <2>3. AccountSound(r)'
    BY <1>0, <2>1, <2>2, FaultsCount DEF AccountSound, Billing
  <2> QED BY <1>0, <1>1, <2>1, <2>3, OperationTouches, LoopMoves DEF Stages
<1>6. ASSUME NEW r \in Refs, BuildLedger(r) PROVE Sound
  <2>1. /\ stage[r] = "building" /\ Quiet /\ billable' = billable /\ cancelled' = cancelled
        /\ \/ (Goto(r, "settling") \/ Goto(r, "marking")) /\ UNCHANGED faults
           \/ faults < MaxFaults /\ faults' = faults + 1 /\ Retry(r, "marking")
    BY <1>6 DEF BuildLedger, Fault, Quiet, vars
  <2>2. stage'[r] \in Billing /\ tries'[r] <= faults' /\ Counted
    BY <1>0, <2>1, LoopMoves DEF Stages, Billing
  <2>3. AccountSound(r)'
    BY <1>0, <2>1, <2>2 DEF AccountSound, Billing, Quiet, vars
  <2> QED BY <1>0, <1>1, <2>1, <2>2, <2>3, OperationTouches, LoopMoves DEF Stages
<1>7. ASSUME NEW r \in Refs, SettleBudget(r) PROVE Sound
  <2> DEFINE settled == RecordUsage(r, usage[r].charge, usage[r].date)
                        \/ (reservation[r].status = "settled" /\ Quiet)
  <2>1. /\ stage[r] = "settling" /\ billable' = billable /\ cancelled' = cancelled /\ Counted
        /\ \/ settled /\ Goto(r, "done") /\ UNCHANGED faults
           \/ (settled \/ Quiet) /\ faults < MaxFaults /\ faults' = faults + 1 /\ Retry(r, "marking")
           \/ Quiet /\ Goto(r, "marking") /\ UNCHANGED faults
    BY <1>7 DEF SettleBudget, Fault, Quiet
  <2>2. settled => reservation'[r].status = "settled"
    BY <2>1, SettlementBills DEF Accounts, Quiet, vars
  <2>3. reservation[r].status \in {"active", "reconciliation", "settled"}
    BY <1>0, <2>1 DEF AccountSound, Billing
  <2>4. tries'[r] <= faults' /\ ((stage'[r] = "done" /\ settled) \/ stage'[r] \in Billing)
    BY <1>0, <2>1, LoopMoves DEF Stages, Billing
  <2>5. reservation'[r].status \in {"active", "reconciliation", "settled"}
    BY <2>1, <2>2, <2>3 DEF Quiet, vars
  <2>6. AccountSound(r)'
    BY <2>2, <2>4, <2>5 DEF AccountSound, AccountedFor, Billing
  <2>7. Touches(r)
    BY <1>0, <2>1, OperationTouches DEF HandlerSound
  <2> QED BY <1>1, <2>1, <2>6, <2>7, LoopMoves DEF Stages
<1>8. ASSUME NEW r \in Refs, MarkBudget(r) PROVE Sound
  <2>1. /\ stage[r] = "marking" /\ billable' = billable /\ cancelled' = cancelled /\ Counted
        /\ \/ MarkReconciliation(r) /\ Goto(r, "done") /\ UNCHANGED faults
           \/ /\ MarkReconciliation(r) \/ Quiet
              /\ faults < MaxFaults /\ faults' = faults + 1 /\ Retry(r, "done")
           \/ (cancelled[r] \/ ~Settleable(r)) /\ Quiet /\ Goto(r, "done") /\ UNCHANGED faults
    BY <1>8 DEF MarkBudget, Fault, Quiet
  <2>2. MarkReconciliation(r) => reservation'[r].status = "reconciliation"
    BY <1>0 DEF MarkReconciliation, TypeOK, Reservation
  <2>3. reservation[r].status \in {"active", "reconciliation", "settled"}
    BY <1>0, <2>1 DEF AccountSound, Billing
  <2>4. ~Settleable(r) => reservation[r].status = "settled"
    BY <2>3 DEF Settleable
  <2>5. /\ tries'[r] <= faults'
        /\ \/ stage'[r] = "done" /\ (MarkReconciliation(r) \/ ((cancelled[r] \/ ~Settleable(r)) /\ Quiet))
           \/ stage'[r] = "marking" /\ (MarkReconciliation(r) \/ Quiet)
    <3>1. CASE Goto(r, "done") /\ UNCHANGED faults
      <4>1. tries'[r] = 0 /\ stage'[r] = "done"
        BY <3>1, LoopMoves DEF Stages
      <4>2. faults' # faults + 1
        BY <1>0, <3>1
      <4>3. MarkReconciliation(r) \/ ((cancelled[r] \/ ~Settleable(r)) /\ Quiet)
        BY <2>1, <4>2, Zenon
      <4> QED BY <1>0, <3>1, <4>1, <4>3
    <3>2. CASE /\ MarkReconciliation(r) \/ Quiet
               /\ faults < MaxFaults /\ faults' = faults + 1 /\ Retry(r, "done")
      BY <2>1, <3>2, LoopMoves DEF Stages
    <3> QED BY <2>1, <3>1, <3>2
  <2>6. AccountSound(r)'
    BY <2>1, <2>2, <2>3, <2>4, <2>5 DEF AccountSound, AccountedFor, Billing, Quiet, vars
  <2> QED BY <1>0, <1>1, <2>1, <2>6, OperationTouches, LoopMoves DEF Stages
<1>9. ASSUME NEW r \in Refs, ContextEnds(r) PROVE Sound
  <2>1. \A s \in Refs : cancelled[s] => cancelled'[s]
    BY <1>0, <1>9 DEF ContextEnds, RequestTypeOK
  <2> QED BY <1>0, <1>9, <2>1, AccountKept DEF ContextEnds, vars
<1>10. CASE Crash
  <2>1. /\ UNCHANGED <<reservation, billable, tries, cancelled, faults>>
        /\ \A s \in Refs : stage'[s] \in {stage[s], "killed"}
    BY <1>0, <1>10 DEF Crash, vars, RequestTypeOK
  <2> QED BY <1>0, <2>1 DEF AccountSound, AccountedFor, Billing
<1>11. CASE Environment \/ UNCHANGED allVars
  <2>1. UNCHANGED handler
    BY <1>11 DEF Environment, allVars
  <2>2. \A s \in Refs : reservation'[s].status = reservation[s].status
    <3>1. CASE Tick
      BY <1>0, <3>1 DEF Tick, TypeOK, Reservation
    <3>2. CASE reservation' = reservation
      BY <3>2
    <3>3. Tick \/ reservation' = reservation
      BY <1>11 DEF Environment, Deposit, AdminSet, Adjust, NextMonth, allVars, vars
    <3> QED BY <3>1, <3>2, <3>3
  <2> QED BY <1>0, <2>1, <2>2, AccountKept DEF handler
<1> QED BY <1>2, <1>3, <1>4, <1>5, <1>6, <1>7, <1>8, <1>9, <1>10, <1>11
        DEF RequestNext, HandlerStep

\* When a handler has returned, what it had to bill is billed or its budget is kept for
\* reconciliation, provided fewer calls of the database fail than a retry loop makes
\* (usageBillingRetryAttempts); else a loop may give up, and the budget lapses.
THEOREM BillableAccountedForCorrect ==
  ASSUME MaxFaults < Attempts
  PROVE  RequestSpec => []BillableAccountedFor
<1>1. RequestInit => Accounts
  <2>1. RequestInit => \A r \in Refs : AccountSound(r)
    BY DEF RequestInit, AccountSound, Billing
  <2> QED BY <2>1, RequestInvariantInit DEF Accounts
<1>2. Accounts /\ [RequestNext]_allVars => Accounts'
  BY AccountsStep
<1>3. Accounts => BillableAccountedFor
  BY DEF Accounts, AccountSound, BillableAccountedFor
<1> QED BY <1>1, <1>2, <1>3, PTL DEF RequestSpec
=============================================================================
